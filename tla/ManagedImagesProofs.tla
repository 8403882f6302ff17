------------------------ MODULE ManagedImagesProofs ------------------------
(***************************************************************************)
(* Proofs about ManagedImages, for any number of requests, images and VMs, *)
(* as long as no request does either of the two things the handlers ought  *)
(* to refuse.                                                              *)
(***************************************************************************)
EXTENDS ManagedImages, TLAPS

Uses(v, i) == \E d \in config[v] \union live[v] : d.image = i
HasDependents(i) == \E o \in images : backing[o] = i

\* What a handler has found out, and what it may still rely on.
ImageChecked(q) ==
  /\ q.op \in {"clone", "delete", "imported", "resize", "attach"} => q.image \in images
  /\ q.op \in {"clone", "delete", "imported"} => \A v \in Vms : ~Uses(v, q.image)
  /\ q.op \in {"delete", "imported", "resize", "attach"} => ~HasDependents(q.image)
  /\ q.op = "resize" => \A v \in running : ~Uses(v, q.image)
  /\ q.op = "attach" => \A v \in Vms \ {q.vm} : ~Uses(v, q.image)

DisksChecked(q) ==
  q.op \in {"apply", "define"} =>
    \A d \in q.disks :
      /\ d.image \in images
      /\ \A v \in Vms \ {q.vm} : ~Uses(v, d.image)
      /\ d.readonly = FALSE => ~HasDependents(d.image)

\* No request meddles with what the job has reserved.
LeavesJobAlone(q) ==
  job.step # "none" =>
    /\ q.op \in {"create", "clone", "import", "imported", "delete", "resize", "attach",
                 "detach"} => q.image # job.image
    /\ q.op \in {"attach", "apply", "define"} => q.vm # job.vm
    /\ q.op \in {"apply", "define"} => \A d \in q.disks : d.image # job.image

WellFormed(q) ==
  /\ q.op \in {"create", "clone", "import", "imported", "delete", "resize"} => q.image \in Images
  /\ q.op = "clone" => q.to \in Images
  /\ q.op \in {"attach", "detach", "apply", "define"} => q.vm \in Vms

RequestOK(q) ==
  WellFormed(q) /\ ImageChecked(q) /\ DisksChecked(q) /\ LeavesJobAlone(q)

RequestInv ==
  /\ \A h \in Handlers : RequestOK(request[h])
  /\ \A h, k \in Handlers : request[h].op # "none" /\ request[k].op # "none" => h = k

\* The VM and the image of a job are its own until it ends.
JobInv ==
  job.step # "none" =>
    /\ job.vm \in Vms /\ job.image \in Images
    /\ \A v \in Vms \ {job.vm} : ~Uses(v, job.image)
    /\ config[job.vm] \subseteq {JobDisk} /\ live[job.vm] \subseteq {JobDisk}
    /\ ~HasDependents(job.image)
    /\ owner[job.vm] # "user"
    /\ job.step \in {"queued", "disk", "removeDisk"} => owner[job.vm] = "none"
    /\ job.step \in {"defined", "installing", "committed"} => owner[job.vm] = "job"
    /\ job.step \in {"disk", "defined", "installing", "committed", "undefine"} =>
         job.image \in images

VmInv ==
  \A v \in Vms :
    /\ v \notin running => live[v] = {}
    /\ owner[v] = "job" => job.step # "none" /\ v = job.vm

\* Every disk in use is there, in one VM, and not what an overlay is built on if it
\* can be written.
DiskInv ==
  /\ \A v \in Vms, i \in Images : Uses(v, i) => i \in images
  /\ \A v, w \in Vms, i \in Images : Uses(v, i) /\ Uses(w, i) => v = w
  /\ \A o \in images : backing[o] # NoImage => backing[o] \in images
  /\ \A v \in Vms : \A d \in config[v] \union live[v] :
       d.readonly = FALSE => ~HasDependents(d.image)

IInv == TypeOK /\ RequestInv /\ JobInv /\ VmInv /\ DiskInv

\* The two things that the handlers do not refuse are not asked for.
Cautious == ~PathsAhead /\ ~AttachDuringInstall

-----------------------------------------------------------------------------
(* What the handlers turn their requests into.                               *)

\* The requests that a handler begins with.
LEMMA Asked ==
  /\ NoRequest \in Requests
  /\ \A op \in {"create", "delete", "resize", "import"}, i \in Images :
       [NoRequest EXCEPT !.op = op, !.image = i] \in Requests
  /\ \A i, o \in Images : [NoRequest EXCEPT !.op = "clone", !.image = i, !.to = o] \in Requests
  /\ \A op \in {"attach", "detach"}, v \in Vms, i \in Images :
       [NoRequest EXCEPT !.op = op, !.vm = v, !.image = i] \in Requests
  /\ \A op \in {"apply", "define"}, v \in Vms, disks \in SUBSET Disks :
       [NoRequest EXCEPT !.op = op, !.vm = v, !.disks = disks] \in Requests
<1>1. NoRequest \in Requests
  BY DEF NoRequest, Requests, Owners
<1>. QED
  BY <1>1 DEF Requests, NoRequest, Owners

\* A file that has been linked may still be taken back.
LEMMA Imports ==
  \A p \in Requests : \A q : q = [p EXCEPT !.op = "imported"] =>
    q \in Requests /\ q.op = "imported" /\ q.image = p.image
BY DEF Requests

\* A definition that has been validated is going to be made.
LEMMA Defines ==
  \A p \in Requests, o \in Owners : \A q : q = [p EXCEPT !.op = "define", !.origin = o] =>
    q \in Requests /\ q.op = "define" /\ q.vm = p.vm /\ q.disks = p.disks
BY DEF Requests

\* A disk that a VM can write to.
LEMMA Writable == \A i \in Images : [image |-> i, readonly |-> FALSE] \in Disks
BY DEF Disks

\* Holding a request disturbs no other.
LEMMA Held ==
  ASSUME request \in [Handlers -> Requests], NEW h \in Handlers, NEW r \in Requests, Hold(h, r)
  PROVE  /\ request' \in [Handlers -> Requests]
         /\ request'[h] = r
         /\ \A k \in Handlers \ {h} : request'[k] = request[k]
BY DEF Hold

\* The request goes on as r.
Becomes(h, r) == r \in Requests /\ Hold(h, r)

\* The handlers that begin.
LEMMA Begins ==
  ASSUME IInv, NEW h \in Handlers,
         \/ CreateImage(h) \/ CloneImage(h) \/ DeleteImage(h) \/ ResizeImage(h)
         \/ ImportImage(h) \/ CreateVm(h) \/ UpdateVm(h) \/ AttachImage(h) \/ DetachImage(h)
  PROVE  \E r : Becomes(h, r)
<1>. USE Asked DEF IInv, TypeOK, HostTypeOK, Becomes
<1>1. CASE CreateVm(h)
  <2>1. ASSUME NEW chosen \in SUBSET images
        PROVE  {[image |-> i, readonly |-> FALSE] : i \in chosen} \in SUBSET Disks
    BY Writable
  <2>. QED
    BY <1>1, <2>1 DEF CreateVm
<1>2. CASE CreateImage(h) \/ CloneImage(h) \/ DeleteImage(h) \/ ResizeImage(h) \/ ImportImage(h)
  BY <1>2 DEF CreateImage, CloneImage, DeleteImage, ResizeImage, ImportImage
<1>3. CASE UpdateVm(h) \/ AttachImage(h) \/ DetachImage(h)
  BY <1>3 DEF UpdateVm, AttachImage, DetachImage
<1>. QED
  BY <1>1, <1>2, <1>3

\* The handlers that go on.
LEMMA GoesOn ==
  ASSUME IInv, NEW h \in Handlers
  PROVE  /\ PublishNew(h) => \E r :
              /\ Becomes(h, r)
              /\ r = NoRequest \/ (/\ r.op = "imported" /\ r.image = request[h].image
                                   /\ request[h].op = "import" /\ r.image \notin images)
         /\ ReadForAttach(h) => \E r :
              /\ Becomes(h, r)
              /\ r = NoRequest \/
                   (/\ r.op = "apply" /\ r.vm = request[h].vm
                    /\ r.disks = config[r.vm] \union
                                   {[image |-> request[h].image, readonly |-> FALSE]})
         /\ ReadForDetach(h) => \E r :
              /\ Becomes(h, r)
              /\ r = NoRequest \/
                   (/\ r.op = "apply" /\ r.vm = request[h].vm /\ r.disks \subseteq config[r.vm]
                    /\ \E d \in config[r.vm] : d.image = request[h].image)
         /\ Validate(h) => \E r :
              /\ Becomes(h, r)
              /\ r = NoRequest \/
                   (r.op = "define" /\ r.vm = request[h].vm /\ r.disks = request[h].disks)
<1>. USE Asked DEF IInv, TypeOK, RequestTypeOK, HostTypeOK, Becomes
<1>1. ASSUME PublishNew(h)
      PROVE  \E r : /\ Becomes(h, r)
                    /\ r = NoRequest \/ (/\ r.op = "imported" /\ r.image = request[h].image
                                         /\ request[h].op = "import" /\ r.image \notin images)
  <2>1. PICK q : q = [request[h] EXCEPT !.op = "imported"]
    OBVIOUS
  <2>2. q \in Requests /\ q.op = "imported" /\ q.image = request[h].image
    BY <2>1, Imports
  <2>3. Hold(h, NoRequest) \/
          (Hold(h, q) /\ request[h].op = "import" /\ request[h].image \notin images)
    BY <1>1, <2>1 DEF PublishNew, Release
  <2>. QED
    BY <2>2, <2>3
<1>2. ASSUME ReadForAttach(h)
      PROVE  \E r : /\ Becomes(h, r)
                    /\ r = NoRequest \/
                         (/\ r.op = "apply" /\ r.vm = request[h].vm
                          /\ r.disks = config[r.vm] \union
                                         {[image |-> request[h].image, readonly |-> FALSE]})
  <2>. DEFINE v == request[h].vm
              disks == config[v] \union {[image |-> request[h].image, readonly |-> FALSE]}
  <2>1. PICK q : q = [NoRequest EXCEPT !.op = "apply", !.vm = v, !.disks = disks]
    OBVIOUS
  <2>2. q.op = "apply" /\ q.vm = v /\ q.disks = disks
    BY <2>1 DEF NoRequest
  <2>3. v \in Vms /\ request[h].image \in Images
    BY <1>2 DEF ReadForAttach, RequestInv, RequestOK, WellFormed, ImageChecked
  <2>4. disks \in SUBSET Disks
    BY <2>3, Writable
  <2>5. q \in Requests
    <3>. HIDE DEF disks, v
    <3>. QED BY <2>1, <2>3, <2>4
  <2>6. Hold(h, NoRequest) \/ Hold(h, q)
    BY <1>2, <2>1 DEF ReadForAttach, Release
  <2>. QED
    BY <2>2, <2>5, <2>6
<1>3. ASSUME ReadForDetach(h)
      PROVE  \E r : /\ Becomes(h, r)
                    /\ r = NoRequest \/
                         (/\ r.op = "apply" /\ r.vm = request[h].vm /\ r.disks \subseteq config[r.vm]
                          /\ \E d \in config[r.vm] : d.image = request[h].image)
  <2>1. CASE Hold(h, NoRequest)
    BY <2>1
  <2>2. CASE ~Hold(h, NoRequest)
    <3>. DEFINE v == request[h].vm
    <3>1. PICK d \in config[v] :
             /\ d.image = request[h].image
             /\ Hold(h, [NoRequest EXCEPT !.op = "apply", !.vm = v, !.disks = config[v] \ {d}])
      BY <1>3, <2>2 DEF ReadForDetach, Release
    <3>2. PICK q : q = [NoRequest EXCEPT !.op = "apply", !.vm = v, !.disks = config[v] \ {d}]
      OBVIOUS
    <3>3. q.op = "apply" /\ q.vm = v /\ q.disks = config[v] \ {d}
      BY <3>2 DEF NoRequest
    <3>4. v \in Vms
      BY <1>3 DEF ReadForDetach, RequestInv, RequestOK, WellFormed
    <3>5. q \in Requests
      BY <3>2, <3>4
    <3>. QED
      BY <3>1, <3>2, <3>3, <3>5
  <2>. QED
    BY <2>1, <2>2
<1>4. ASSUME Validate(h)
      PROVE  \E r : /\ Becomes(h, r)
                    /\ r = NoRequest \/
                         (r.op = "define" /\ r.vm = request[h].vm /\ r.disks = request[h].disks)
  <2>1. PICK o \in Owners : o = owner[request[h].vm]
    BY <1>4 DEF Validate, RequestInv, RequestOK, WellFormed
  <2>2. PICK q : q = [request[h] EXCEPT !.op = "define", !.origin = o]
    OBVIOUS
  <2>3. request[h] \in Requests
    OBVIOUS
  <2>4. /\ q \in Requests /\ q.op = "define"
        /\ q.vm = request[h].vm /\ q.disks = request[h].disks
    <3>. HIDE DEF IInv, TypeOK, RequestTypeOK, HostTypeOK, Becomes
    <3>1. \A r : r = [request[h] EXCEPT !.op = "define", !.origin = o] =>
            r \in Requests /\ r.op = "define" /\ r.vm = request[h].vm /\ r.disks = request[h].disks
      BY ONLY <2>3, Defines
    <3>. QED
      BY ONLY <3>1, <2>2
  <2>5. Hold(h, NoRequest) \/ Hold(h, q)
    BY <1>4, <2>1, <2>2 DEF Validate, Release
  <2>. QED
    BY <2>4, <2>5
<1>. QED
  BY <1>1, <1>2, <1>3, <1>4

-----------------------------------------------------------------------------
(* Every step keeps the invariant.                                           *)

\* The requests stay well-typed.
LEMMA RequestTypeStep ==
  ASSUME IInv, [Next]_vars
  PROVE  RequestTypeOK'
<1>. USE DEF IInv, TypeOK, RequestTypeOK
<1>1. ASSUME NEW h \in Handlers, \E r : Becomes(h, r)
      PROVE  RequestTypeOK'
  BY <1>1, Held DEF Becomes
<1>2. ASSUME NEW h \in Handlers, RemoveFile(h) \/ GiveUp(h) \/ Define(h)
      PROVE  RequestTypeOK'
  BY <1>2, Asked, Held DEF RemoveFile, GiveUp, Define, Release
<1>3. ASSUME NEW v \in Vms, StartVm(v) \/ PowerOff(v) \/ UndefineVm(v)
      PROVE  RequestTypeOK'
  BY <1>3 DEF StartVm, PowerOff, UndefineVm
<1>4. ASSUME CreateJob \/ Worker
      PROVE  RequestTypeOK'
  BY <1>4 DEF CreateJob, Worker, JobCreateDisk, JobDefineVm, JobInstall, JobCommit,
     JobStartVm, JobFail, JobUndefine, JobRemoveDisk, JobFinish
<1>5. ASSUME Crash \/ UNCHANGED vars
      PROVE  RequestTypeOK'
  BY <1>5, Asked DEF Crash, vars
<1>. QED
  BY <1>1, <1>2, <1>3, <1>4, <1>5, Begins, GoesOn DEF Next, ImageHandler, VmHandler

\* The types of the host.
LEMMA HostTypeStep ==
  ASSUME Cautious, IInv, [Next]_vars
  PROVE  HostTypeOK'
<1>. USE ManagedImagesAssumption DEF IInv, TypeOK, HostTypeOK, RequestInv, RequestOK, WellFormed,
         JobInv
<1>1. ASSUME NEW h \in Handlers, PublishNew(h) PROVE HostTypeOK'
  BY <1>1 DEF PublishNew, Disks, Owners, JobSteps, JobDisk, NoJob, ImagesOf
<1>2. ASSUME NEW h \in Handlers, RemoveFile(h) PROVE HostTypeOK'
  BY <1>2 DEF RemoveFile, Disks, Owners, JobSteps, JobDisk, NoJob, ImagesOf
<1>3. ASSUME NEW h \in Handlers, Define(h) PROVE HostTypeOK'
  <2>1. request[h].vm \in Vms /\ request[h].disks \subseteq Disks
    BY <1>3 DEF Define, RequestTypeOK, Requests
  <2>. QED
    BY <1>3, <2>1 DEF Define, Owners
<1>4. ASSUME NEW v \in Vms, StartVm(v) PROVE HostTypeOK'
  BY <1>4 DEF StartVm, ImagesOf, VmReserved, PowerOn, Disks, Owners, JobSteps,
     JobDisk, NoJob
<1>5. ASSUME NEW v \in Vms, PowerOff(v) PROVE HostTypeOK'
  BY <1>5 DEF PowerOff, Disks, Owners, JobSteps, JobDisk, NoJob, ImagesOf
<1>6. ASSUME NEW v \in Vms, UndefineVm(v) PROVE HostTypeOK'
  BY <1>6 DEF UndefineVm, VmReserved, Disks, Owners, JobSteps, JobDisk, NoJob,
     ImagesOf
<1>7. ASSUME CreateJob PROVE HostTypeOK'
  BY <1>7 DEF CreateJob, NoJob, host, Disks, Owners, JobSteps, JobDisk, ImagesOf
<1>8. ASSUME JobCreateDisk PROVE HostTypeOK'
  BY <1>8 DEF JobCreateDisk, JobGoto, Disks, Owners, JobSteps, JobDisk, NoJob,
     ImagesOf
<1>9. ASSUME JobDefineVm PROVE HostTypeOK'
  BY <1>9 DEF JobDefineVm, JobGoto, JobDisk, Disks, Owners, JobSteps, NoJob,
     ImagesOf
<1>10. ASSUME JobInstall PROVE HostTypeOK'
  BY <1>10 DEF JobInstall, PowerOn, JobGoto, Disks, Owners, JobSteps, JobDisk,
     NoJob, ImagesOf
<1>11. ASSUME JobCommit PROVE HostTypeOK'
  BY <1>11 DEF JobCommit, JobGoto, JobDisk, host, Disks, Owners, JobSteps, NoJob,
     ImagesOf
<1>12. ASSUME JobStartVm PROVE HostTypeOK'
  BY <1>12 DEF JobStartVm, PowerOn, JobGoto, Disks, Owners, JobSteps, JobDisk,
     NoJob, ImagesOf
<1>13. ASSUME JobFail PROVE HostTypeOK'
  BY <1>13 DEF JobFail, JobGoto, host, Disks, Owners, JobSteps, JobDisk, NoJob,
     ImagesOf
<1>14. ASSUME JobUndefine PROVE HostTypeOK'
  BY <1>14 DEF JobUndefine, JobGoto, Disks, Owners, JobSteps, JobDisk, NoJob,
     ImagesOf
<1>15. ASSUME JobRemoveDisk PROVE HostTypeOK'
  BY <1>15 DEF JobRemoveDisk, JobGoto, Disks, Owners, JobSteps, JobDisk, NoJob,
     ImagesOf
<1>16. ASSUME JobFinish PROVE HostTypeOK'
  BY <1>16 DEF JobFinish, JobEnds, NoJob, Disks, Owners, JobSteps, JobDisk, ImagesOf
<1>17. ASSUME Crash PROVE HostTypeOK'
  BY <1>17 DEF Crash, JobGoto, host, Disks, Owners, JobSteps, JobDisk, NoJob,
     ImagesOf
<1>18. UNCHANGED <<host, job>> => HostTypeOK'
  BY DEF JobDisk, host
<1>19. ASSUME NEW h \in Handlers,
         CreateImage(h) \/ CloneImage(h) \/ DeleteImage(h) \/ ResizeImage(h) \/
         ImportImage(h) \/ GiveUp(h) \/ CreateVm(h) \/ UpdateVm(h) \/ AttachImage(h)
         \/ DetachImage(h) \/ ReadForAttach(h) \/ ReadForDetach(h) \/ Validate(h)
      PROVE  UNCHANGED <<host, job>>
  BY <1>19 DEF CreateImage, CloneImage, DeleteImage, ResizeImage, ImportImage,
     GiveUp, CreateVm, UpdateVm, AttachImage, DetachImage, ReadForAttach,
     ReadForDetach, Validate, host
<1>20. UNCHANGED vars => UNCHANGED <<host, job>>
  BY DEF vars, host
<1>. HIDE ManagedImagesAssumption DEF IInv, TypeOK, HostTypeOK, RequestInv, RequestOK, WellFormed,
         JobInv
<1>. QED
  BY <1>1, <1>2, <1>3, <1>4, <1>5, <1>6, <1>7, <1>8, <1>9, <1>10, <1>11, <1>12,
     <1>13, <1>14, <1>15, <1>16, <1>17, <1>18, <1>19, <1>20 DEF Next, ImageHandler,
     VmHandler, Worker

\* The handler that has the lock makes its request r and nothing else changes: r is
\* all that has to be looked at.
LEMMA OnlyRequest ==
  ASSUME IInv, NEW h \in Handlers, request[h].op # "none",
         NEW r, Becomes(h, r), RequestOK(r), UNCHANGED <<images, backing, config, live, running, job>>
  PROVE  RequestInv'
<1>1. /\ request'[h] = r
      /\ \A k \in Handlers \ {h} : request'[k] = request[k] /\ request[k].op = "none"
  BY Held DEF IInv, TypeOK, RequestTypeOK, Becomes, RequestInv
<1>2. \A k \in Handlers : RequestOK(request'[k])
  BY <1>1 DEF IInv, RequestInv
<1>3. \A k \in Handlers : RequestOK(request[k])'
  BY <1>2 DEF RequestOK, WellFormed, ImageChecked, DisksChecked, LeavesJobAlone, Uses,
     HasDependents
<1>. QED
  BY <1>1, <1>3 DEF RequestInv

\* A handler that has ended relies on nothing.
LEMMA NothingAsked == RequestOK(NoRequest)
BY DEF NoRequest, RequestOK, WellFormed, ImageChecked, DisksChecked, LeavesJobAlone

\* A disk of a definition may stay in it.
LEMMA ConfigChecked ==
  ASSUME IInv, NEW v \in Vms, NEW d \in config[v]
  PROVE  /\ d.image \in images
         /\ \A w \in Vms \ {v} : ~Uses(w, d.image)
         /\ d.readonly = FALSE => ~HasDependents(d.image)
         /\ job.step # "none" /\ v # job.vm => d.image # job.image
<1>1. d.image \in Images /\ Uses(v, d.image)
  BY DEF IInv, TypeOK, HostTypeOK, Disks, Uses
<1>. QED
  BY <1>1 DEF IInv, DiskInv, JobInv

\* A new image has no user and no overlay, so that it can be taken back.
LEMMA PublishKeeps ==
  ASSUME IInv, NEW h \in Handlers, PublishNew(h)
  PROVE  RequestInv'
<1>1. \A k \in Handlers \ {h} : request[k].op = "none"
  BY DEF PublishNew, IInv, RequestInv
<1>2. ASSUME NEW r, Becomes(h, r), RequestOK(r)'
      PROVE  RequestInv'
  <2>1. request'[h] = r /\ \A k \in Handlers \ {h} : request'[k] = request[k]
    BY <1>2, Held DEF IInv, TypeOK, RequestTypeOK, Becomes
  <2>2. \A k \in Handlers : RequestOK(request[k])'
    BY <1>1, <1>2, <2>1
       DEF RequestOK, WellFormed, ImageChecked, DisksChecked, LeavesJobAlone
  <2>. QED
    BY <1>1, <2>1, <2>2 DEF RequestInv
<1>3. RequestOK(NoRequest)'
  BY DEF NoRequest, RequestOK, WellFormed, ImageChecked, DisksChecked, LeavesJobAlone
<1>4. PICK r : /\ Becomes(h, r)
               /\ r = NoRequest \/ (/\ r.op = "imported" /\ r.image = request[h].image
                                    /\ request[h].op = "import" /\ r.image \notin images)
  BY GoesOn
<1>5. ASSUME r # NoRequest
      PROVE  RequestOK(r)'
  <2>1. /\ request[h].op = "import" /\ r.op = "imported"
        /\ r.image \in Images \ images /\ RequestOK(request[h])
    BY <1>4, <1>5 DEF IInv, RequestInv, RequestOK, WellFormed
  <2>2. /\ images' = images \union {r.image}
        /\ backing' = [backing EXCEPT ![r.image] = NoImage]
        /\ UNCHANGED <<config, live, running, job>>
    BY <1>4, <1>5, <2>1 DEF PublishNew
  <2>3. \A v \in Vms : ~Uses(v, r.image)
    BY <2>1 DEF IInv, DiskInv
  <2>4. ~HasDependents(r.image)'
    BY <2>1, <2>2, ManagedImagesAssumption DEF IInv, DiskInv, TypeOK, HostTypeOK, HasDependents
  <2>5. WellFormed(r)' /\ DisksChecked(r)'
    BY <2>1 DEF WellFormed, DisksChecked
  <2>6. ImageChecked(r)'
    BY <2>1, <2>2, <2>3, <2>4 DEF ImageChecked, Uses
  <2>7. LeavesJobAlone(r)'
    BY <1>4, <1>5, <2>1, <2>2 DEF RequestOK, LeavesJobAlone
  <2>. QED
    BY <2>5, <2>6, <2>7 DEF RequestOK
<1>. QED
  BY <1>2, <1>3, <1>4, <1>5

\* An attachment may be added to the disks the VM already has.
LEMMA AttachKeeps ==
  ASSUME Cautious, IInv, NEW h \in Handlers, ReadForAttach(h)
  PROVE  RequestInv'
<1>1. PICK r : /\ Becomes(h, r)
               /\ r = NoRequest \/
                    (/\ r.op = "apply" /\ r.vm = request[h].vm
                     /\ r.disks = config[r.vm] \union
                                    {[image |-> request[h].image, readonly |-> FALSE]})
  BY GoesOn
<1>2. request[h].op = "attach" /\ UNCHANGED <<images, backing, config, live, running, job>>
  BY DEF ReadForAttach, host
<1>3. RequestOK(request[h])
  BY DEF IInv, RequestInv
<1>4. ASSUME r # NoRequest
      PROVE  RequestOK(r)
  <2>1. WellFormed(r) /\ ImageChecked(r) /\ r.vm \in Vms
    BY <1>1, <1>2, <1>3, <1>4 DEF RequestOK, WellFormed, ImageChecked
  <2>2. ASSUME NEW d \in r.disks
        PROVE  /\ d.image \in images
               /\ \A w \in Vms \ {r.vm} : ~Uses(w, d.image)
               /\ d.readonly = FALSE => ~HasDependents(d.image)
               /\ job.step # "none" => d.image # job.image
    <3>1. CASE d \in config[r.vm]
      BY <1>1, <1>2, <1>3, <1>4, <2>1, <3>1, ConfigChecked DEF RequestOK, LeavesJobAlone
    <3>2. CASE d = [image |-> request[h].image, readonly |-> FALSE]
      BY <1>1, <1>2, <1>3, <1>4, <3>2 DEF RequestOK, ImageChecked, LeavesJobAlone
    <3>. QED
      BY <1>1, <1>4, <3>1, <3>2
  <2>. QED
    BY <1>1, <1>2, <1>3, <1>4, <2>1, <2>2 DEF RequestOK, DisksChecked, LeavesJobAlone
<1>. QED
  BY <1>1, <1>2, <1>4, NothingAsked, OnlyRequest

\* A disk that is left out leaves the others as they were.
LEMMA DetachKeeps ==
  ASSUME Cautious, IInv, NEW h \in Handlers, ReadForDetach(h)
  PROVE  RequestInv'
<1>1. PICK r : /\ Becomes(h, r)
               /\ r = NoRequest \/
                    (/\ r.op = "apply" /\ r.vm = request[h].vm /\ r.disks \subseteq config[r.vm]
                     /\ \E d \in config[r.vm] : d.image = request[h].image)
  BY GoesOn
<1>2. request[h].op = "detach" /\ UNCHANGED <<images, backing, config, live, running, job>>
  BY DEF ReadForDetach, host
<1>3. RequestOK(request[h])
  BY DEF IInv, RequestInv
<1>4. ASSUME r # NoRequest
      PROVE  RequestOK(r)
  <2>1. WellFormed(r) /\ ImageChecked(r) /\ r.vm \in Vms
    BY <1>1, <1>2, <1>3, <1>4 DEF RequestOK, WellFormed, ImageChecked
  <2>2. job.step # "none" => r.vm # job.vm
    BY <1>1, <1>2, <1>3, <1>4 DEF IInv, JobInv, JobDisk, RequestOK, LeavesJobAlone
  <2>. QED
    BY <1>1, <1>4, <2>1, <2>2, ConfigChecked DEF RequestOK, DisksChecked, LeavesJobAlone
<1>. QED
  BY <1>1, <1>2, <1>4, NothingAsked, OnlyRequest

\* What was found out about the disks holds for the definition that is made of them.
LEMMA ValidateKeeps ==
  ASSUME IInv, NEW h \in Handlers, Validate(h)
  PROVE  RequestInv'
<1>1. PICK r : /\ Becomes(h, r)
               /\ r = NoRequest \/
                    (r.op = "define" /\ r.vm = request[h].vm /\ r.disks = request[h].disks)
  BY GoesOn
<1>2. request[h].op = "apply" /\ UNCHANGED <<images, backing, config, live, running, job>>
  BY DEF Validate, host
<1>3. ASSUME r # NoRequest
      PROVE  RequestOK(r)
  BY <1>1, <1>2, <1>3
     DEF IInv, RequestInv, RequestOK, WellFormed, ImageChecked, DisksChecked, LeavesJobAlone
<1>. QED
  BY <1>1, <1>2, <1>3, NothingAsked, OnlyRequest

\* What the handlers have found out stays true.
LEMMA RequestStep ==
  ASSUME Cautious, IInv, [Next]_vars
  PROVE  RequestInv'
<1>. USE ManagedImagesAssumption
     DEF Cautious, IInv, TypeOK, RequestTypeOK, HostTypeOK, WellFormed, ImageChecked, DisksChecked,
         LeavesJobAlone, RequestOK, RequestInv, JobInv, VmInv, DiskInv, Uses, HasDependents
<1>1. ASSUME NEW h \in Handlers, CreateImage(h) PROVE RequestInv'
  BY <1>1 DEF CreateImage, ImageReserved, Free, Hold, NoRequest, host, Disks,
     Owners, JobSteps, JobDisk, NoJob, ImagesOf
<1>2. ASSUME NEW h \in Handlers, CloneImage(h) PROVE RequestInv'
  BY <1>2 DEF CloneImage, Users, ImageReserved, Free, Hold, NoRequest, host,
     ImagesOf, Disks, Owners, JobSteps, JobDisk, NoJob
<1>3. ASSUME NEW h \in Handlers, DeleteImage(h) PROVE RequestInv'
  BY <1>3 DEF DeleteImage, Users, Dependents, ImageReserved, Free, Hold, NoRequest,
     host, ImagesOf, Disks, Owners, JobSteps, JobDisk, NoJob
<1>4. ASSUME NEW h \in Handlers, ResizeImage(h) PROVE RequestInv'
  BY <1>4 DEF ResizeImage, Users, Dependents, ImageReserved, Free, Hold, NoRequest,
     host, ImagesOf, Disks, Owners, JobSteps, JobDisk, NoJob
<1>5. ASSUME NEW h \in Handlers, ImportImage(h) PROVE RequestInv'
  BY <1>5 DEF ImportImage, ImageReserved, Free, Hold, NoRequest, host, Disks,
     Owners, JobSteps, JobDisk, NoJob, ImagesOf
<1>6. ASSUME NEW h \in Handlers, PublishNew(h) PROVE RequestInv'
  BY <1>6, PublishKeeps
<1>7. ASSUME NEW h \in Handlers, RemoveFile(h) PROVE RequestInv'
  BY <1>7 DEF RemoveFile, Release, Hold, NoRequest, Disks, Owners, JobSteps,
     JobDisk, NoJob, ImagesOf
<1>8. ASSUME NEW h \in Handlers, GiveUp(h) PROVE RequestInv'
  BY <1>8 DEF GiveUp, Release, NoRequest, host, Hold, Disks, Owners, JobSteps,
     JobDisk, NoJob, ImagesOf
<1>9. ASSUME NEW h \in Handlers, CreateVm(h) PROVE RequestInv'
  BY <1>9 DEF CreateVm, Users, Dependents, ImageReserved, VmReserved, Free, Hold,
     NoRequest, host, ImagesOf, Disks, Owners, JobSteps, JobDisk, NoJob
<1>10. ASSUME NEW h \in Handlers, UpdateVm(h) PROVE RequestInv'
  BY <1>10 DEF UpdateVm, ImagesOf, Users, Dependents, ImageReserved, VmReserved,
     Free, Hold, NoRequest, host, Disks, Owners, JobSteps, JobDisk, NoJob
<1>11. ASSUME NEW h \in Handlers, AttachImage(h) PROVE RequestInv'
  BY <1>11 DEF AttachImage, Users, Dependents, ImageReserved, VmReserved, Free,
     Hold, NoRequest, host, ImagesOf, Disks, Owners, JobSteps, JobDisk, NoJob
<1>12. ASSUME NEW h \in Handlers, DetachImage(h) PROVE RequestInv'
  BY <1>12 DEF DetachImage, ImageReserved, Free, Hold, NoRequest, host, Disks,
     Owners, JobSteps, JobDisk, NoJob, ImagesOf
<1>13. ASSUME NEW h \in Handlers, ReadForAttach(h) PROVE RequestInv'
  BY <1>13, AttachKeeps
<1>14. ASSUME NEW h \in Handlers, ReadForDetach(h) PROVE RequestInv'
  BY <1>14, DetachKeeps
<1>15. ASSUME NEW h \in Handlers, Validate(h) PROVE RequestInv'
  BY <1>15, ValidateKeeps
<1>16. ASSUME NEW h \in Handlers, Define(h) PROVE RequestInv'
  BY <1>16 DEF Define, Release, Hold, NoRequest, Disks, Owners, JobSteps, JobDisk,
     NoJob, ImagesOf
<1>17. ASSUME NEW v \in Vms, StartVm(v) PROVE RequestInv'
  BY <1>17 DEF StartVm, ImagesOf, VmReserved, Free, PowerOn, NoRequest, Disks,
     Owners, JobSteps, JobDisk, NoJob
<1>18. ASSUME NEW v \in Vms, PowerOff(v) PROVE RequestInv'
  BY <1>18 DEF PowerOff, Disks, Owners, JobSteps, JobDisk, NoJob, ImagesOf,
     NoRequest
<1>19. ASSUME NEW v \in Vms, UndefineVm(v) PROVE RequestInv'
  BY <1>19 DEF UndefineVm, VmReserved, Free, NoRequest, Disks, Owners, JobSteps,
     JobDisk, NoJob, ImagesOf
<1>20. ASSUME CreateJob PROVE RequestInv'
  BY <1>20 DEF CreateJob, Free, NoJob, host, NoRequest, Disks, Owners, JobSteps,
     JobDisk, ImagesOf
<1>21. ASSUME JobCreateDisk PROVE RequestInv'
  BY <1>21 DEF JobCreateDisk, JobGoto, Disks, Owners, JobSteps, JobDisk, NoJob,
     ImagesOf, NoRequest
<1>22. ASSUME JobDefineVm PROVE RequestInv'
  BY <1>22 DEF JobDefineVm, JobGoto, JobDisk, Disks, Owners, JobSteps, NoJob,
     ImagesOf, NoRequest
<1>23. ASSUME JobInstall PROVE RequestInv'
  BY <1>23 DEF JobInstall, PowerOn, JobGoto, Disks, Owners, JobSteps, JobDisk,
     NoJob, ImagesOf, NoRequest
<1>24. ASSUME JobCommit PROVE RequestInv'
  BY <1>24 DEF JobCommit, JobGoto, JobDisk, host, Disks, Owners, JobSteps, NoJob,
     ImagesOf, NoRequest
<1>25. ASSUME JobStartVm PROVE RequestInv'
  BY <1>25 DEF JobStartVm, PowerOn, JobGoto, Disks, Owners, JobSteps, JobDisk,
     NoJob, ImagesOf, NoRequest
<1>26. ASSUME JobFail PROVE RequestInv'
  BY <1>26 DEF JobFail, JobGoto, host, Disks, Owners, JobSteps, JobDisk, NoJob,
     ImagesOf, NoRequest
<1>27. ASSUME JobUndefine PROVE RequestInv'
  BY <1>27 DEF JobUndefine, JobGoto, Disks, Owners, JobSteps, JobDisk, NoJob,
     ImagesOf, NoRequest
<1>28. ASSUME JobRemoveDisk PROVE RequestInv'
  BY <1>28 DEF JobRemoveDisk, JobGoto, Disks, Owners, JobSteps, JobDisk, NoJob,
     ImagesOf, NoRequest
<1>29. ASSUME JobFinish PROVE RequestInv'
  BY <1>29 DEF JobFinish, JobEnds, NoJob, Disks, Owners, JobSteps, JobDisk,
     ImagesOf, NoRequest
<1>30. ASSUME Crash PROVE RequestInv'
  BY <1>30 DEF Crash, JobGoto, NoRequest, host, Disks, Owners, JobSteps, JobDisk,
     NoJob, ImagesOf
<1>31. ASSUME UNCHANGED vars PROVE RequestInv'
  BY <1>31 DEF vars, host, JobDisk
<1>. HIDE ManagedImagesAssumption
     DEF Cautious, IInv, TypeOK, RequestTypeOK, HostTypeOK, WellFormed, ImageChecked, DisksChecked,
         LeavesJobAlone, RequestOK, RequestInv, JobInv, VmInv, DiskInv, Uses, HasDependents
<1>. QED
  BY <1>1, <1>2, <1>3, <1>4, <1>5, <1>6, <1>7, <1>8, <1>9, <1>10, <1>11, <1>12,
     <1>13, <1>14, <1>15, <1>16, <1>17, <1>18, <1>19, <1>20, <1>21, <1>22, <1>23,
     <1>24, <1>25, <1>26, <1>27, <1>28, <1>29, <1>30, <1>31 DEF Next, ImageHandler,
     VmHandler, Worker

\* A job keeps its VM and its image to itself.
LEMMA JobStep ==
  ASSUME Cautious, IInv, [Next]_vars
  PROVE  JobInv'
<1>. USE ManagedImagesAssumption
     DEF Cautious, IInv, TypeOK, RequestTypeOK, HostTypeOK, WellFormed, ImageChecked, DisksChecked,
         LeavesJobAlone, RequestOK, RequestInv, JobInv, VmInv, DiskInv, Uses, HasDependents
<1>1. ASSUME NEW h \in Handlers, PublishNew(h) PROVE JobInv'
  BY <1>1 DEF PublishNew, Disks, Owners, JobSteps, JobDisk, NoJob, ImagesOf
<1>2. ASSUME NEW h \in Handlers, RemoveFile(h) PROVE JobInv'
  BY <1>2 DEF RemoveFile, Disks, Owners, JobSteps, JobDisk, NoJob, ImagesOf
<1>3. ASSUME NEW h \in Handlers, Define(h) PROVE JobInv'
  BY <1>3 DEF Define, Disks, Owners, JobSteps, JobDisk, NoJob, ImagesOf
<1>4. ASSUME NEW v \in Vms, StartVm(v) PROVE JobInv'
  BY <1>4 DEF StartVm, ImagesOf, VmReserved, PowerOn, Disks, Owners, JobSteps,
     JobDisk, NoJob
<1>5. ASSUME NEW v \in Vms, PowerOff(v) PROVE JobInv'
  BY <1>5 DEF PowerOff, Disks, Owners, JobSteps, JobDisk, NoJob, ImagesOf
<1>6. ASSUME NEW v \in Vms, UndefineVm(v) PROVE JobInv'
  BY <1>6 DEF UndefineVm, VmReserved, Disks, Owners, JobSteps, JobDisk, NoJob,
     ImagesOf
<1>7. ASSUME CreateJob PROVE JobInv'
  BY <1>7 DEF CreateJob, NoJob, host, Disks, Owners, JobSteps, JobDisk, ImagesOf
<1>8. ASSUME JobCreateDisk PROVE JobInv'
  BY <1>8 DEF JobCreateDisk, JobGoto, Disks, Owners, JobSteps, JobDisk, NoJob,
     ImagesOf
<1>9. ASSUME JobDefineVm PROVE JobInv'
  BY <1>9 DEF JobDefineVm, JobGoto, JobDisk, Disks, Owners, JobSteps, NoJob,
     ImagesOf
<1>10. ASSUME JobInstall PROVE JobInv'
  BY <1>10 DEF JobInstall, PowerOn, JobGoto, Disks, Owners, JobSteps, JobDisk,
     NoJob, ImagesOf
<1>11. ASSUME JobCommit PROVE JobInv'
  BY <1>11 DEF JobCommit, JobGoto, JobDisk, host, Disks, Owners, JobSteps, NoJob,
     ImagesOf
<1>12. ASSUME JobStartVm PROVE JobInv'
  BY <1>12 DEF JobStartVm, PowerOn, JobGoto, Disks, Owners, JobSteps, JobDisk,
     NoJob, ImagesOf
<1>13. ASSUME JobFail PROVE JobInv'
  BY <1>13 DEF JobFail, JobGoto, host, Disks, Owners, JobSteps, JobDisk, NoJob,
     ImagesOf
<1>14. ASSUME JobUndefine PROVE JobInv'
  BY <1>14 DEF JobUndefine, JobGoto, Disks, Owners, JobSteps, JobDisk, NoJob,
     ImagesOf
<1>15. ASSUME JobRemoveDisk PROVE JobInv'
  BY <1>15 DEF JobRemoveDisk, JobGoto, Disks, Owners, JobSteps, JobDisk, NoJob,
     ImagesOf
<1>16. ASSUME JobFinish PROVE JobInv'
  BY <1>16 DEF JobFinish, JobEnds, NoJob, Disks, Owners, JobSteps, JobDisk, ImagesOf
<1>17. ASSUME Crash PROVE JobInv'
  BY <1>17 DEF Crash, JobGoto, host, Disks, Owners, JobSteps, JobDisk, NoJob,
     ImagesOf
<1>18. UNCHANGED <<host, job>> => JobInv'
  BY DEF JobDisk, host
<1>19. ASSUME NEW h \in Handlers,
         CreateImage(h) \/ CloneImage(h) \/ DeleteImage(h) \/ ResizeImage(h) \/
         ImportImage(h) \/ GiveUp(h) \/ CreateVm(h) \/ UpdateVm(h) \/ AttachImage(h)
         \/ DetachImage(h) \/ ReadForAttach(h) \/ ReadForDetach(h) \/ Validate(h)
      PROVE  UNCHANGED <<host, job>>
  BY <1>19 DEF CreateImage, CloneImage, DeleteImage, ResizeImage, ImportImage,
     GiveUp, CreateVm, UpdateVm, AttachImage, DetachImage, ReadForAttach,
     ReadForDetach, Validate, host
<1>20. UNCHANGED vars => UNCHANGED <<host, job>>
  BY DEF vars, host
<1>. HIDE ManagedImagesAssumption
     DEF Cautious, IInv, TypeOK, RequestTypeOK, HostTypeOK, WellFormed, ImageChecked, DisksChecked,
         LeavesJobAlone, RequestOK, RequestInv, JobInv, VmInv, DiskInv, Uses, HasDependents
<1>. QED
  BY <1>1, <1>2, <1>3, <1>4, <1>5, <1>6, <1>7, <1>8, <1>9, <1>10, <1>11, <1>12,
     <1>13, <1>14, <1>15, <1>16, <1>17, <1>18, <1>19, <1>20 DEF Next, ImageHandler,
     VmHandler, Worker

\* Only a job's VM is defined by a job, and what does not run has no disks open.
LEMMA VmStep ==
  ASSUME Cautious, IInv, [Next]_vars
  PROVE  VmInv'
<1>. USE ManagedImagesAssumption
     DEF Cautious, IInv, TypeOK, RequestTypeOK, HostTypeOK, WellFormed, ImageChecked, DisksChecked,
         LeavesJobAlone, RequestOK, RequestInv, JobInv, VmInv, DiskInv, Uses, HasDependents
<1>1. ASSUME NEW h \in Handlers, PublishNew(h) PROVE VmInv'
  BY <1>1 DEF PublishNew, Disks, Owners, JobSteps, JobDisk, NoJob, ImagesOf
<1>2. ASSUME NEW h \in Handlers, RemoveFile(h) PROVE VmInv'
  BY <1>2 DEF RemoveFile, Disks, Owners, JobSteps, JobDisk, NoJob, ImagesOf
<1>3. ASSUME NEW h \in Handlers, Define(h) PROVE VmInv'
  BY <1>3 DEF Define, Disks, Owners, JobSteps, JobDisk, NoJob, ImagesOf
<1>4. ASSUME NEW v \in Vms, StartVm(v) PROVE VmInv'
  BY <1>4 DEF StartVm, ImagesOf, VmReserved, PowerOn, Disks, Owners, JobSteps,
     JobDisk, NoJob
<1>5. ASSUME NEW v \in Vms, PowerOff(v) PROVE VmInv'
  BY <1>5 DEF PowerOff, Disks, Owners, JobSteps, JobDisk, NoJob, ImagesOf
<1>6. ASSUME NEW v \in Vms, UndefineVm(v) PROVE VmInv'
  BY <1>6 DEF UndefineVm, VmReserved, Disks, Owners, JobSteps, JobDisk, NoJob,
     ImagesOf
<1>7. ASSUME CreateJob PROVE VmInv'
  BY <1>7 DEF CreateJob, NoJob, host, Disks, Owners, JobSteps, JobDisk, ImagesOf
<1>8. ASSUME JobCreateDisk PROVE VmInv'
  BY <1>8 DEF JobCreateDisk, JobGoto, Disks, Owners, JobSteps, JobDisk, NoJob,
     ImagesOf
<1>9. ASSUME JobDefineVm PROVE VmInv'
  BY <1>9 DEF JobDefineVm, JobGoto, JobDisk, Disks, Owners, JobSteps, NoJob,
     ImagesOf
<1>10. ASSUME JobInstall PROVE VmInv'
  BY <1>10 DEF JobInstall, PowerOn, JobGoto, Disks, Owners, JobSteps, JobDisk,
     NoJob, ImagesOf
<1>11. ASSUME JobCommit PROVE VmInv'
  BY <1>11 DEF JobCommit, JobGoto, JobDisk, host, Disks, Owners, JobSteps, NoJob,
     ImagesOf
<1>12. ASSUME JobStartVm PROVE VmInv'
  BY <1>12 DEF JobStartVm, PowerOn, JobGoto, Disks, Owners, JobSteps, JobDisk,
     NoJob, ImagesOf
<1>13. ASSUME JobFail PROVE VmInv'
  BY <1>13 DEF JobFail, JobGoto, host, Disks, Owners, JobSteps, JobDisk, NoJob,
     ImagesOf
<1>14. ASSUME JobUndefine PROVE VmInv'
  BY <1>14 DEF JobUndefine, JobGoto, Disks, Owners, JobSteps, JobDisk, NoJob,
     ImagesOf
<1>15. ASSUME JobRemoveDisk PROVE VmInv'
  BY <1>15 DEF JobRemoveDisk, JobGoto, Disks, Owners, JobSteps, JobDisk, NoJob,
     ImagesOf
<1>16. ASSUME JobFinish PROVE VmInv'
  BY <1>16 DEF JobFinish, JobEnds, NoJob, Disks, Owners, JobSteps, JobDisk, ImagesOf
<1>17. ASSUME Crash PROVE VmInv'
  BY <1>17 DEF Crash, JobGoto, host, Disks, Owners, JobSteps, JobDisk, NoJob,
     ImagesOf
<1>18. UNCHANGED <<host, job>> => VmInv'
  BY DEF JobDisk, host
<1>19. ASSUME NEW h \in Handlers,
         CreateImage(h) \/ CloneImage(h) \/ DeleteImage(h) \/ ResizeImage(h) \/
         ImportImage(h) \/ GiveUp(h) \/ CreateVm(h) \/ UpdateVm(h) \/ AttachImage(h)
         \/ DetachImage(h) \/ ReadForAttach(h) \/ ReadForDetach(h) \/ Validate(h)
      PROVE  UNCHANGED <<host, job>>
  BY <1>19 DEF CreateImage, CloneImage, DeleteImage, ResizeImage, ImportImage,
     GiveUp, CreateVm, UpdateVm, AttachImage, DetachImage, ReadForAttach,
     ReadForDetach, Validate, host
<1>20. UNCHANGED vars => UNCHANGED <<host, job>>
  BY DEF vars, host
<1>. HIDE ManagedImagesAssumption
     DEF Cautious, IInv, TypeOK, RequestTypeOK, HostTypeOK, WellFormed, ImageChecked, DisksChecked,
         LeavesJobAlone, RequestOK, RequestInv, JobInv, VmInv, DiskInv, Uses, HasDependents
<1>. QED
  BY <1>1, <1>2, <1>3, <1>4, <1>5, <1>6, <1>7, <1>8, <1>9, <1>10, <1>11, <1>12,
     <1>13, <1>14, <1>15, <1>16, <1>17, <1>18, <1>19, <1>20 DEF Next, ImageHandler,
     VmHandler, Worker

\* No disk goes or is shared.
LEMMA DiskStep ==
  ASSUME Cautious, IInv, [Next]_vars
  PROVE  DiskInv'
<1>. USE ManagedImagesAssumption
     DEF Cautious, IInv, TypeOK, RequestTypeOK, HostTypeOK, WellFormed, ImageChecked, DisksChecked,
         LeavesJobAlone, RequestOK, RequestInv, JobInv, VmInv, DiskInv, Uses, HasDependents
<1>1. ASSUME NEW h \in Handlers, PublishNew(h) PROVE DiskInv'
  BY <1>1 DEF PublishNew, Disks, Owners, JobSteps, JobDisk, NoJob, ImagesOf
<1>2. ASSUME NEW h \in Handlers, RemoveFile(h) PROVE DiskInv'
  BY <1>2 DEF RemoveFile, Disks, Owners, JobSteps, JobDisk, NoJob, ImagesOf
<1>3. ASSUME NEW h \in Handlers, Define(h) PROVE DiskInv'
  BY <1>3 DEF Define, Disks, Owners, JobSteps, JobDisk, NoJob, ImagesOf
<1>4. ASSUME NEW v \in Vms, StartVm(v) PROVE DiskInv'
  BY <1>4 DEF StartVm, ImagesOf, VmReserved, PowerOn, Disks, Owners, JobSteps,
     JobDisk, NoJob
<1>5. ASSUME NEW v \in Vms, PowerOff(v) PROVE DiskInv'
  BY <1>5 DEF PowerOff, Disks, Owners, JobSteps, JobDisk, NoJob, ImagesOf
<1>6. ASSUME NEW v \in Vms, UndefineVm(v) PROVE DiskInv'
  BY <1>6 DEF UndefineVm, VmReserved, Disks, Owners, JobSteps, JobDisk, NoJob,
     ImagesOf
<1>7. ASSUME CreateJob PROVE DiskInv'
  BY <1>7 DEF CreateJob, NoJob, host, Disks, Owners, JobSteps, JobDisk, ImagesOf
<1>8. ASSUME JobCreateDisk PROVE DiskInv'
  BY <1>8 DEF JobCreateDisk, JobGoto, Disks, Owners, JobSteps, JobDisk, NoJob,
     ImagesOf
<1>9. ASSUME JobDefineVm PROVE DiskInv'
  BY <1>9 DEF JobDefineVm, JobGoto, JobDisk, Disks, Owners, JobSteps, NoJob,
     ImagesOf
<1>10. ASSUME JobInstall PROVE DiskInv'
  BY <1>10 DEF JobInstall, PowerOn, JobGoto, Disks, Owners, JobSteps, JobDisk,
     NoJob, ImagesOf
<1>11. ASSUME JobCommit PROVE DiskInv'
  BY <1>11 DEF JobCommit, JobGoto, JobDisk, host, Disks, Owners, JobSteps, NoJob,
     ImagesOf
<1>12. ASSUME JobStartVm PROVE DiskInv'
  BY <1>12 DEF JobStartVm, PowerOn, JobGoto, Disks, Owners, JobSteps, JobDisk,
     NoJob, ImagesOf
<1>13. ASSUME JobFail PROVE DiskInv'
  BY <1>13 DEF JobFail, JobGoto, host, Disks, Owners, JobSteps, JobDisk, NoJob,
     ImagesOf
<1>14. ASSUME JobUndefine PROVE DiskInv'
  BY <1>14 DEF JobUndefine, JobGoto, Disks, Owners, JobSteps, JobDisk, NoJob,
     ImagesOf
<1>15. ASSUME JobRemoveDisk PROVE DiskInv'
  BY <1>15 DEF JobRemoveDisk, JobGoto, Disks, Owners, JobSteps, JobDisk, NoJob,
     ImagesOf
<1>16. ASSUME JobFinish PROVE DiskInv'
  BY <1>16 DEF JobFinish, JobEnds, NoJob, Disks, Owners, JobSteps, JobDisk, ImagesOf
<1>17. ASSUME Crash PROVE DiskInv'
  BY <1>17 DEF Crash, JobGoto, host, Disks, Owners, JobSteps, JobDisk, NoJob,
     ImagesOf
<1>18. UNCHANGED <<host, job>> => DiskInv'
  BY DEF JobDisk, host
<1>19. ASSUME NEW h \in Handlers,
         CreateImage(h) \/ CloneImage(h) \/ DeleteImage(h) \/ ResizeImage(h) \/
         ImportImage(h) \/ GiveUp(h) \/ CreateVm(h) \/ UpdateVm(h) \/ AttachImage(h)
         \/ DetachImage(h) \/ ReadForAttach(h) \/ ReadForDetach(h) \/ Validate(h)
      PROVE  UNCHANGED <<host, job>>
  BY <1>19 DEF CreateImage, CloneImage, DeleteImage, ResizeImage, ImportImage,
     GiveUp, CreateVm, UpdateVm, AttachImage, DetachImage, ReadForAttach,
     ReadForDetach, Validate, host
<1>20. UNCHANGED vars => UNCHANGED <<host, job>>
  BY DEF vars, host
<1>. HIDE ManagedImagesAssumption
     DEF Cautious, IInv, TypeOK, RequestTypeOK, HostTypeOK, WellFormed, ImageChecked, DisksChecked,
         LeavesJobAlone, RequestOK, RequestInv, JobInv, VmInv, DiskInv, Uses, HasDependents
<1>. QED
  BY <1>1, <1>2, <1>3, <1>4, <1>5, <1>6, <1>7, <1>8, <1>9, <1>10, <1>11, <1>12,
     <1>13, <1>14, <1>15, <1>16, <1>17, <1>18, <1>19, <1>20 DEF Next, ImageHandler,
     VmHandler, Worker

\* Nothing exists and nothing is asked for.
LEMMA InitInv == Init => IInv
<1> SUFFICES ASSUME Init PROVE IInv
  OBVIOUS
<1>1. TypeOK
  BY Asked, ManagedImagesAssumption
     DEF Init, TypeOK, RequestTypeOK, HostTypeOK, Owners, JobSteps, NoJob
<1>2. RequestInv
  <2>1. \A h \in Handlers : request[h] = NoRequest
    BY DEF Init
  <2>2. NoRequest.op = "none"
    BY DEF NoRequest
  <2>. QED
    BY <2>1, <2>2, NothingAsked DEF RequestInv
<1>3. JobInv /\ VmInv
  BY DEF Init, NoJob, JobInv, VmInv
<1>4. DiskInv
  BY DEF Init, DiskInv, Uses
<1>. QED
  BY <1>1, <1>2, <1>3, <1>4 DEF IInv

-----------------------------------------------------------------------------
(* The theorems.                                                             *)

\* With any number of requests, images and VMs, and a job that fails or is interrupted
\* anywhere: what each handler and the job may rely on, and that no disk is lost or
\* shared.
THEOREM Invariance ==
  ASSUME Cautious
  PROVE  Spec => []IInv
<1>1. IInv /\ [Next]_vars => IInv'
  BY RequestTypeStep, HostTypeStep, RequestStep, JobStep, VmStep, DiskStep DEF IInv, TypeOK
<1>. QED
  BY <1>1, InitInv, PTL DEF Spec

\* An image is in use, with its definition or with a process that runs, by one VM only.
THEOREM NoSharing ==
  ASSUME Cautious
  PROVE  Spec => []OneVmPerImage
<1>1. ASSUME IInv, NEW v \in Vms, NEW w \in Vms, v # w
      PROVE  InUse(v) \intersect InUse(w) = {}
  <2>1. \A u \in Vms : \A i \in InUse(u) : i \in Images /\ Uses(u, i)
    BY <1>1 DEF IInv, TypeOK, HostTypeOK, Disks, InUse, ImagesOf, Uses
  <2>. QED
    BY <1>1, <2>1 DEF IInv, DiskInv
<1>2. IInv => OneVmPerImage
  BY <1>1 DEF OneVmPerImage
<1>. QED
  BY <1>2, Invariance, PTL

\* No VM and no overlay is left without the file it is built on, and what an overlay is
\* built on is not written to.
THEOREM NothingLost ==
  ASSUME Cautious
  PROVE  Spec => []NothingDangling
<1>1. ASSUME IInv, NEW v \in Vms
      PROVE  InUse(v) \subseteq images
  <2>1. \A i \in InUse(v) : i \in Images /\ Uses(v, i)
    BY <1>1 DEF IInv, TypeOK, HostTypeOK, Disks, InUse, ImagesOf, Uses
  <2>. QED
    BY <1>1, <2>1 DEF IInv, DiskInv
<1>2. ASSUME IInv, NEW o \in images, backing[o] # NoImage
      PROVE  /\ backing[o] \in images
             /\ \A v \in Vms :
                  [image |-> backing[o], readonly |-> FALSE] \notin config[v] \union live[v]
  BY <1>2 DEF IInv, DiskInv, HasDependents
<1>3. IInv => NothingDangling
  BY <1>1, <1>2 DEF IInv, NothingDangling
<1>. QED
  BY <1>3, Invariance, PTL

\* What a handler has found out about an image is still true when it acts.
THEOREM ChecksHold ==
  ASSUME Cautious
  PROVE  Spec => []CheckedStaysTrue
<1>1. ASSUME IInv, NEW h \in Handlers
      PROVE  LET i == request[h].image
             IN /\ request[h].op = "resize" => \A v \in running : i \notin InUse(v)
                /\ request[h].op \in {"clone", "delete"} =>
                     i \in images /\ \A v \in Vms : i \notin InUse(v)
                /\ request[h].op \in {"resize", "delete"} => \A o \in images : backing[o] # i
  <2>1. RequestOK(request[h])
    BY <1>1 DEF IInv, RequestInv
  <2>2. \A v \in Vms : \A i \in InUse(v) : Uses(v, i)
    BY DEF InUse, ImagesOf, Uses
  <2>3. running \subseteq Vms
    BY <1>1 DEF IInv, TypeOK, HostTypeOK
  <2>. QED
    BY <2>1, <2>2, <2>3 DEF RequestOK, ImageChecked, HasDependents
<1>2. IInv => CheckedStaysTrue
  BY <1>1 DEF CheckedStaysTrue
<1>. QED
  BY <1>2, Invariance, PTL

=============================================================================
