--------------------------- MODULE ManagedImages ---------------------------
(***************************************************************************)
(* Managed disk images and the VMs that use them (src/src/jobs.rs,         *)
(* src/src/web.rs, src/src/vm.rs).  An image is a file; it may be an       *)
(* overlay over another image.  A VM has the disks of its persistent       *)
(* definition and, while it runs, those it was started with.  A request    *)
(* handler checks and acts under the resource lock.  The worker of the     *)
(* install jobs does not take that lock: the reservation of its job is     *)
(* what has to keep the handlers away from its VM and its image.  Of the   *)
(* jobs that JobService models in full, one at a time is left here.        *)
(***************************************************************************)
EXTENDS FiniteSets, Naturals

CONSTANTS
  Handlers,    \* requests that are served at the same time
  Images,      \* image IDs, each a file name in the image root
  Vms,         \* VM names
  NoImage,     \* an image without a backing image
  NoVm,        \* no VM
  MaxDisks,    \* bound: how many disks an update or a new VM asks for
  \* Two requests that the handlers do not refuse although they break the rules
  \* stated below; both need an install job at work at the same moment.
  PathsAhead,           \* an update may name a path before the file exists
  AttachDuringInstall   \* a disk may be attached to a VM that is being installed

ASSUME ManagedImagesAssumption ==
  /\ NoImage \notin Images
  /\ NoVm \notin Vms
  /\ MaxDisks \in Nat
  /\ {PathsAhead, AttachDuringInstall} \subseteq BOOLEAN

VARIABLES
  request,   \* what each handler has checked and is about to do
  images,    \* the files in the image root
  backing,   \* the backing image of each overlay
  owner,     \* who has defined each VM, "none" if nobody has
  config,    \* the disks of the persistent definition of each VM
  running,   \* the active VMs
  live,      \* the disks each active VM was started with
  job        \* the install job and where its worker is

host == <<images, backing, owner, config, running, live>>
vars == <<request, host, job>>

Disks == [image : Images, readonly : BOOLEAN]

Owners == {"none", "user", "job"}

NoRequest == [op |-> "none", vm |-> NoVm, image |-> NoImage, to |-> NoImage,
              disks |-> {}, origin |-> "none"]
Requests == [op : {"none", "create", "clone", "import", "imported", "delete", "resize",
                   "attach", "detach", "apply", "define"},
             vm : Vms \union {NoVm}, image : Images \union {NoImage},
             to : Images \union {NoImage}, disks : SUBSET Disks,
             origin : Owners]

JobSteps == {"none", "queued", "disk", "defined", "installing", "committed",
             "undefine", "removeDisk", "ending", "interrupted"}
NoJob == [step |-> "none", vm |-> NoVm, image |-> NoImage]

Init ==
  /\ request = [h \in Handlers |-> NoRequest]
  /\ images = {}
  /\ backing = [i \in Images |-> NoImage]
  /\ owner = [v \in Vms |-> "none"]
  /\ config = [v \in Vms |-> {}]
  /\ running = {}
  /\ live = [v \in Vms |-> {}]
  /\ job = NoJob

-----------------------------------------------------------------------------
(* What a handler finds out.                                                 *)

ImagesOf(disks) == {d.image : d \in disks}

\* Only the persistent definitions are searched.
BugUsers(i) == {v \in Vms : i \in ImagesOf(config[v])}

\* managed_image_attachments, domains_using_image
Users(i) == {v \in Vms : i \in ImagesOf(config[v] \union live[v])}

\* dependent_image_ids
Dependents(i) == {o \in images : backing[o] = i}

\* Only a job that has not begun counts.
BugImageReserved(i) == job.step = "queued" /\ job.image = i

\* active_install_user, active_image_user: a job counts until it has ended, and
\* when it was interrupted until that is acknowledged.
ImageReserved(i) == job.step # "none" /\ job.image = i
VmReserved(v) == job.step # "none" /\ job.vm = v

\* The resource lock is free.
Free == \A h \in Handlers : request[h] = NoRequest

Hold(h, r) == request' = [request EXCEPT ![h] = r]
Release(h) == Hold(h, NoRequest)

-----------------------------------------------------------------------------
(* Handlers of images check, then act.  One that refuses changes nothing.    *)

CreateImage(h) ==
  /\ Free
  /\ \E i \in Images \ images :
       /\ ~ImageReserved(i)
       /\ Hold(h, [NoRequest EXCEPT !.op = "create", !.image = i])
  /\ UNCHANGED <<host, job>>

CloneImage(h) ==
  /\ Free
  /\ \E i \in images, o \in Images \ images :
       /\ ~ImageReserved(i) /\ ~ImageReserved(o)
       /\ Users(i) = {}
       /\ Hold(h, [NoRequest EXCEPT !.op = "clone", !.image = i, !.to = o])
  /\ UNCHANGED <<host, job>>

\* Overlays over the image are forgotten.
BugDeleteImage(h) ==
  /\ Free
  /\ \E i \in images :
       /\ ~ImageReserved(i)
       /\ Users(i) = {}
       /\ Hold(h, [NoRequest EXCEPT !.op = "delete", !.image = i])
  /\ UNCHANGED <<host, job>>

DeleteImage(h) ==
  /\ Free
  /\ \E i \in images :
       /\ ~ImageReserved(i)
       /\ Dependents(i) = {}
       /\ Users(i) = {}
       /\ Hold(h, [NoRequest EXCEPT !.op = "delete", !.image = i])
  /\ UNCHANGED <<host, job>>

ResizeImage(h) ==
  /\ Free
  /\ \E i \in images :
       /\ ~ImageReserved(i)
       /\ Dependents(i) = {}
       /\ Users(i) \intersect running = {}
       /\ Hold(h, [NoRequest EXCEPT !.op = "resize", !.image = i])
  /\ UNCHANGED <<host, job>>

\* upload_image: what was received is checked and published under the lock.
ImportImage(h) ==
  /\ Free
  /\ \E i \in Images \ images :
       /\ ~ImageReserved(i)
       /\ Hold(h, [NoRequest EXCEPT !.op = "import", !.image = i])
  /\ UNCHANGED <<host, job>>

\* The link into the image root fails if the name is taken.
PublishNew(h) ==
  /\ request[h].op \in {"create", "clone", "import"}
  /\ LET r == request[h]
         i == IF r.op = "clone" THEN r.to ELSE r.image
     IN IF i \in images
        THEN UNCHANGED <<images, backing>> /\ Release(h)
        ELSE /\ images' = images \union {i}
             /\ backing' = [backing EXCEPT ![i] = IF r.op = "clone" THEN r.image ELSE NoImage]
             /\ IF r.op = "import" THEN Hold(h, [r EXCEPT !.op = "imported"]) ELSE Release(h)
  /\ UNCHANGED <<owner, config, running, live, job>>

\* delete_image; and publish_image takes back what it has published when it cannot
\* read it or cannot remove the upload.
RemoveFile(h) ==
  /\ request[h].op \in {"delete", "imported"}
  /\ images' = images \ {request[h].image}
  /\ backing' = [backing EXCEPT ![request[h].image] = NoImage]
  /\ Release(h)
  /\ UNCHANGED <<owner, config, running, live, job>>

\* A request fails at any point after its checks, or a resize ends.
GiveUp(h) ==
  /\ request[h] # NoRequest
  /\ Release(h)
  /\ UNCHANGED <<host, job>>

-----------------------------------------------------------------------------
(* Handlers that define a VM.                                                *)

CreateVm(h) ==
  /\ Free
  /\ \E v \in Vms, chosen \in SUBSET images :
       /\ chosen # {} /\ Cardinality(chosen) <= MaxDisks
       /\ ~VmReserved(v)
       /\ \A i \in chosen : ~ImageReserved(i) /\ Dependents(i) = {} /\ Users(i) = {}
       /\ owner[v] = "none"
       /\ Hold(h, [NoRequest EXCEPT !.op = "define", !.vm = v,
                   !.disks = {[image |-> i, readonly |-> FALSE] : i \in chosen}])
  /\ UNCHANGED <<host, job>>

\* A path that does not resolve when the request arrives is not checked at all.
UpdateVm(h) ==
  /\ Free
  /\ \E v \in Vms, disks \in SUBSET Disks :
       /\ Cardinality(disks) <= MaxDisks
       /\ PathsAhead \/ ImagesOf(disks) \subseteq images
       /\ ~VmReserved(v)
       /\ \A d \in {e \in disks : e.image \in images} :
            /\ ~ImageReserved(d.image)
            /\ d.readonly \/ Dependents(d.image) = {}
            /\ Users(d.image) \subseteq {v}
       /\ Hold(h, [NoRequest EXCEPT !.op = "apply", !.vm = v, !.disks = disks])
  /\ UNCHANGED <<host, job>>

\* The code does not ask whether an install job has reserved the VM.
AttachImage(h) ==
  /\ Free
  /\ \E v \in Vms, i \in images :
       /\ ~ImageReserved(i)
       /\ Dependents(i) = {}
       /\ Users(i) \subseteq {v}
       /\ AttachDuringInstall \/ ~VmReserved(v)
       /\ Hold(h, [NoRequest EXCEPT !.op = "attach", !.vm = v, !.image = i])
  /\ UNCHANGED <<host, job>>

DetachImage(h) ==
  /\ Free
  /\ \E v \in Vms, i \in images :
       /\ ~ImageReserved(i)
       /\ Hold(h, [NoRequest EXCEPT !.op = "detach", !.vm = v, !.image = i])
  /\ UNCHANGED <<host, job>>

\* attach_managed_image: an inactive VM without the image gets it writable.
ReadForAttach(h) ==
  /\ request[h].op = "attach"
  /\ LET v == request[h].vm
         i == request[h].image
     IN IF owner[v] = "none" \/ v \in running \/ i \in ImagesOf(config[v])
        THEN Release(h)
        ELSE Hold(h, [NoRequest EXCEPT !.op = "apply", !.vm = v,
                      !.disks = config[v] \union {[image |-> i, readonly |-> FALSE]}])
  /\ UNCHANGED <<host, job>>

\* detach_managed_image: not the last disk.
ReadForDetach(h) ==
  /\ request[h].op = "detach"
  /\ LET v == request[h].vm
         found == {d \in config[v] : d.image = request[h].image}
     IN IF owner[v] = "none" \/ v \in running \/ found = {} \/ Cardinality(config[v]) <= 1
        THEN Release(h)
        ELSE \E d \in found :
               Hold(h, [NoRequest EXCEPT !.op = "apply", !.vm = v, !.disks = config[v] \ {d}])
  /\ UNCHANGED <<host, job>>

\* apply_by_manifest reads the current definition, if there is one, and validates
\* that every disk exists.  A new VM needs a disk.
Validate(h) ==
  /\ request[h].op = "apply"
  /\ LET r == request[h]
     IN IF /\ ImagesOf(r.disks) \subseteq images
           /\ owner[r.vm] = "none" => r.disks # {}
        THEN Hold(h, [r EXCEPT !.op = "define", !.origin = owner[r.vm]])
        ELSE Release(h)
  /\ UNCHANGED <<host, job>>

\* virDomainDefineXML replaces the definition with the UUID it is given, makes
\* a new one, or fails when the name belongs to another UUID.
Define(h) ==
  /\ request[h].op = "define"
  /\ LET r == request[h]
     IN IF owner[r.vm] \in {"none", r.origin}
        THEN /\ config' = [config EXCEPT ![r.vm] = r.disks]
             /\ owner' = [owner EXCEPT ![r.vm] = IF @ = "none" THEN "user" ELSE @]
        ELSE UNCHANGED <<config, owner>>
  /\ Release(h)
  /\ UNCHANGED <<images, backing, running, live, job>>

-----------------------------------------------------------------------------
(* The VM's power.                                                           *)

PowerOn(v) ==
  /\ running' = running \union {v}
  /\ live' = [live EXCEPT ![v] = config[v]]

\* A VM does not start without its disks.
StartVm(v) ==
  /\ Free
  /\ ~VmReserved(v)
  /\ owner[v] # "none" /\ v \notin running
  /\ ImagesOf(config[v]) \subseteq images
  /\ PowerOn(v)
  /\ UNCHANGED <<request, images, backing, owner, config, job>>

\* By the guest, by shutdown or by destroy.
PowerOff(v) ==
  /\ v \in running
  /\ running' = running \ {v}
  /\ live' = [live EXCEPT ![v] = {}]
  /\ UNCHANGED <<request, images, backing, owner, config, job>>

UndefineVm(v) ==
  /\ Free
  /\ ~VmReserved(v)
  /\ owner[v] # "none" /\ v \notin running
  /\ owner' = [owner EXCEPT ![v] = "none"]
  /\ config' = [config EXCEPT ![v] = {}]
  /\ UNCHANGED <<request, images, backing, running, live, job>>

-----------------------------------------------------------------------------
(* The install job.                                                          *)

JobGoto(step) == job' = [job EXCEPT !.step = step]
JobDisk == [image |-> job.image, readonly |-> FALSE]

\* The job's VM is an ordinary one from now on.
JobEnds ==
  /\ job' = NoJob
  /\ owner' = [v \in Vms |-> IF owner[v] = "job" THEN "user" ELSE owner[v]]

CreateJob ==
  /\ Free
  /\ job = NoJob
  /\ \E v \in Vms, i \in Images \ images :
       /\ owner[v] = "none"
       /\ job' = [step |-> "queued", vm |-> v, image |-> i]
  /\ UNCHANGED <<request, host>>

\* create_disk_atomic does not replace a file.
JobCreateDisk ==
  /\ job.step = "queued"
  /\ IF job.image \in images
     THEN JobGoto("ending") /\ UNCHANGED <<images, backing>>
     ELSE /\ JobGoto("disk")
          /\ images' = images \union {job.image}
          /\ backing' = [backing EXCEPT ![job.image] = NoImage]
  /\ UNCHANGED <<request, owner, config, running, live>>

\* ensure_domain_absent_api, then the definition with the job's own UUID.
JobDefineVm ==
  /\ job.step = "disk"
  /\ owner[job.vm] = "none"
  /\ owner' = [owner EXCEPT ![job.vm] = "job"]
  /\ config' = [config EXCEPT ![job.vm] = {JobDisk}]
  /\ JobGoto("defined")
  /\ UNCHANGED <<request, images, backing, running, live>>

\* virt-install starts the VM.
JobInstall ==
  /\ job.step = "defined"
  /\ job.vm \notin running
  /\ PowerOn(job.vm)
  /\ JobGoto("installing")
  /\ UNCHANGED <<request, images, backing, owner, config>>

\* The final definition names the job's disk only; any other disk is an error.
JobCommit ==
  /\ job.step = "installing"
  /\ job.vm \notin running
  /\ JobGoto(IF config[job.vm] = {JobDisk} THEN "committed" ELSE "undefine")
  /\ UNCHANGED <<request, host>>

\* Nothing is undone once the definition is committed.
JobStartVm ==
  /\ job.step = "committed"
  /\ job.vm \notin running
  /\ PowerOn(job.vm)
  /\ JobGoto("ending")
  /\ UNCHANGED <<request, images, backing, owner, config>>

\* A step fails or the job is cancelled.
JobFail ==
  /\ \/ job.step \in {"queued", "committed"} /\ JobGoto("ending")
     \/ job.step = "disk" /\ JobGoto("removeDisk")
     \/ job.step \in {"defined", "installing"} /\ JobGoto("undefine")
  /\ UNCHANGED <<request, host>>

\* remove_owned_domain; the disk stays when the VM could not be removed.
JobUndefine ==
  /\ job.step = "undefine"
  /\ \/ /\ owner[job.vm] # "user"
        /\ owner' = [owner EXCEPT ![job.vm] = "none"]
        /\ config' = [config EXCEPT ![job.vm] = {}]
        /\ running' = running \ {job.vm}
        /\ live' = [live EXCEPT ![job.vm] = {}]
        /\ JobGoto("removeDisk")
     \/ JobGoto("ending") /\ UNCHANGED <<owner, config, running, live>>
  /\ UNCHANGED <<request, images, backing>>

JobRemoveDisk ==
  /\ job.step = "removeDisk"
  /\ images' \in {images, images \ {job.image}}
  /\ JobGoto("ending")
  /\ UNCHANGED <<request, backing, owner, config, running, live>>

\* The row gets its terminal status, or an interrupted job is acknowledged.
JobFinish ==
  /\ job.step \in {"ending", "interrupted"}
  /\ JobEnds
  /\ UNCHANGED <<request, images, backing, config, running, live>>

\* The server dies.  A queued job goes on after the restart.
Crash ==
  /\ request' = [h \in Handlers |-> NoRequest]
  /\ IF job.step \in {"none", "queued"} THEN UNCHANGED job ELSE JobGoto("interrupted")
  /\ UNCHANGED host

-----------------------------------------------------------------------------

ImageHandler(h) ==
  \/ CreateImage(h) \/ CloneImage(h) \/ ImportImage(h) \/ DeleteImage(h) \/ ResizeImage(h)
  \/ PublishNew(h) \/ RemoveFile(h)

VmHandler(h) ==
  \/ CreateVm(h) \/ UpdateVm(h) \/ AttachImage(h) \/ DetachImage(h)
  \/ ReadForAttach(h) \/ ReadForDetach(h) \/ Validate(h) \/ Define(h)

Worker ==
  \/ JobCreateDisk \/ JobDefineVm \/ JobInstall \/ JobCommit \/ JobStartVm
  \/ JobFail \/ JobUndefine \/ JobRemoveDisk \/ JobFinish

Next ==
  \/ \E h \in Handlers : ImageHandler(h) \/ VmHandler(h) \/ GiveUp(h)
  \/ \E v \in Vms : StartVm(v) \/ PowerOff(v) \/ UndefineVm(v)
  \/ CreateJob \/ Worker \/ Crash

Spec == Init /\ [][Next]_vars

-----------------------------------------------------------------------------
(* Properties.                                                               *)

RequestTypeOK == request \in [Handlers -> Requests]

\* The types, and that a VM which is not defined has no disks and does not run.
HostTypeOK ==
  /\ images \subseteq Images
  /\ backing \in [Images -> Images \union {NoImage}]
  /\ owner \in [Vms -> Owners]
  /\ config \in [Vms -> SUBSET Disks]
  /\ running \subseteq Vms
  /\ live \in [Vms -> SUBSET Disks]
  /\ job \in [step : JobSteps, vm : Vms \union {NoVm}, image : Images \union {NoImage}]
  /\ \A v \in Vms : owner[v] = "none" => config[v] = {} /\ v \notin running

TypeOK == RequestTypeOK /\ HostTypeOK

\* The images a VM is defined with or still runs on.
InUse(v) == ImagesOf(config[v] \union live[v])

\* Two VMs never have the same image, whether in what they are defined with
\* or in what they still run with.
OneVmPerImage ==
  \A v, w \in Vms : v # w => InUse(v) \intersect InUse(w) = {}

\* No VM is defined with, or runs on, a disk that is gone; what an overlay is
\* built on is not gone either, and no VM can write to it.
NothingDangling ==
  /\ TypeOK
  /\ \A v \in Vms : InUse(v) \subseteq images
  /\ \A o \in images : backing[o] # NoImage =>
       /\ backing[o] \in images
       /\ \A v \in Vms :
            [image |-> backing[o], readonly |-> FALSE] \notin config[v] \union live[v]

\* While a handler changes an image or builds on it, what it has checked still
\* holds, whatever the worker and the guests have done since.
CheckedStaysTrue ==
  \A h \in Handlers :
    LET i == request[h].image
    IN /\ request[h].op = "resize" =>
            \A v \in running : i \notin InUse(v)
       /\ request[h].op \in {"clone", "delete"} =>
            i \in images /\ \A v \in Vms : i \notin InUse(v)
       /\ request[h].op \in {"resize", "delete"} =>
            \A o \in images : backing[o] # i

\* docs/web-api.md: "A writable image can be attached to only one VM".
WritableInOneVm ==
  \A v, w \in Vms : v # w =>
    \A i \in Images :
      [image |-> i, readonly |-> FALSE] \in config[v] => i \notin ImagesOf(config[w])

=============================================================================
