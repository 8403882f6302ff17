----------------------------- MODULE CdromMedia -----------------------------
(***************************************************************************)
(* Installation media: the ISO files of the server, how they get there,    *)
(* and the CD-ROM tray of a VM that they are put in (src/src/web.rs,       *)
(* src/src/jobs.rs, src/src/vm.rs).  A VM whose guest runs has two         *)
(* definitions, and a third one in its saved state; VmLifecycle says how   *)
(* commands move it from one to another while the requests of this module  *)
(* are at work.                                                            *)
(*                                                                         *)
(* There is one VM and one tray.  A tray that is at different targets in   *)
(* the two definitions of a running VM is refused like one that is         *)
(* missing from one of them.                                               *)
(***************************************************************************)
EXTENDS VmLifecycle, FiniteSets

CONSTANTS
  Isos,     \* ids of managed ISOs
  Uploads,  \* uploads and seeds that are under way at the same time
  Empty,    \* a tray without media
  NoTray,   \* no tray
  NoFile    \* no ISO of that id

ASSUME CdromMediaAssumption ==
  /\ {Empty, NoTray} \intersect Isos = {}
  /\ Empty # NoTray
  /\ NoFile \notin Uploads
  /\ NoDef \notin [uuid : Nat, tray : Isos \union {Empty, NoTray}]

VARIABLES
  file,     \* the upload that each ISO was published by, NoFile if there is none
  staging,  \* the uploads that have a file or a directory in media/.uploads
  upload,   \* where each upload is
  work,     \* where each media request is
  server,   \* whether the server is up
  drift,    \* history: why guest and definition may have different media
  orphaned  \* history: an ISO was deleted that a saved state still had

media == <<file, staging, upload, work, server, orphaned>>
vars == <<domain, call, media, drift>>

Trays == Isos \union {Empty, NoTray}

NoWork == [op |-> "none", step |-> "none", to |-> Empty, old |-> NoDef, active |-> FALSE]
Ops == {"none", "set", "add", "remove", "update", "define", "delete"}

NoUpload == [step |-> "none", iso |-> NoFile, seed |-> FALSE]

Published(i) == file[i] # NoFile

\* The steps of a publication that are taken under the resource lock.
Publishing == {"link", "sync", "unstage", "finish"}

\* with_resource_lock, lock_resources
LockFree ==
  /\ \A h \in Handlers : Idle(h) /\ work[h] = NoWork
  /\ \A u \in Uploads : upload[u].step \notin Publishing

Up == server = "up"

-----------------------------------------------------------------------------
(* Media and trays.  A request that is refused at once changes nothing and   *)
(* is left out.                                                              *)

Files == <<file, staging, upload, server, orphaned>>

Work(h, w) == work' = [work EXCEPT ![h] = w]
Go(h, step) == work' = [work EXCEPT ![h].step = step]
Finished(h) == work' = [work EXCEPT ![h] = NoWork]

WithTray(definition, to) == [definition EXCEPT !.tray = to]

Start(h, w) ==
  /\ Up /\ LockFree
  /\ Work(h, w)
  /\ UNCHANGED <<domain, call, Files>>

\* managed_iso_path: the ISO is there and is valid.  Eject asks for no ISO.
Insertable == {i \in Isos : Published(i)} \union {Empty}

\* ensure_no_managed_save, ensure_cdrom_topology_mutable
NoSavedState == image = NoDef
TopologyMutable == state = "shutoff" /\ NoSavedState

\* set_managed_cdrom_media up to the state of the VM
SetMedia(h) ==
  /\ Exists
  /\ \E to \in Insertable :
       \/ /\ state = "shutoff" /\ NoSavedState
          /\ Start(h, [NoWork EXCEPT !.op = "set", !.step = "edit", !.to = to])
       \/ /\ state \in {"running", "paused"}
          /\ Start(h, [NoWork EXCEPT !.op = "set", !.step = "read", !.to = to])

\* add_managed_cdrom and remove_managed_cdrom up to there
AddTray(h) ==
  /\ Exists /\ TopologyMutable
  /\ \E to \in Insertable :
       Start(h, [NoWork EXCEPT !.op = "add", !.step = "edit", !.to = to])

RemoveTray(h) ==
  /\ Exists /\ TopologyMutable
  /\ Start(h, [NoWork EXCEPT !.op = "remove", !.step = "edit", !.to = NoTray])

\* update_vm applies what it is given, in whatever state the VM is.
Update(h) ==
  \E to \in Insertable \union {NoTray} :
    Start(h, [NoWork EXCEPT !.op = "update", !.step = "apply", !.to = to])

\* create_by_manifest: ensure_domain_absent_api
CreateVm(h) ==
  /\ ~Exists /\ uuids < MaxVms
  /\ \E to \in Insertable \union {NoTray} :
       Start(h, [NoWork EXCEPT !.op = "define", !.step = "define", !.to = to,
                               !.old = [uuid |-> uuids + 1, tray |-> NoTray]])

\* VIR_DOMAIN_XML_INACTIVE
InactiveXml == IF Defined THEN inactive ELSE live

\* The manifest that is edited comes from the definition; a tray that is to be
\* added must not be there, any other must.
Edit(h) ==
  /\ work[h].step = "edit"
  /\ IF Exists /\ (InactiveXml.tray = NoTray <=> work[h].op = "add")
     THEN Go(h, "apply")
     ELSE Finished(h)
  /\ UNCHANGED <<domain, call, Files>>

\* apply_by_manifest up to the new definition: one that is patched, or, when the
\* VM has gone in the meantime, one built from the manifest.
ApplyReads(h) ==
  /\ work[h].step = "apply"
  /\ IF Exists THEN Work(h, [work[h] EXCEPT !.step = "define", !.old = InactiveXml])
     ELSE IF uuids < MaxVms
     THEN Work(h, [work[h] EXCEPT !.step = "define",
                                  !.old = [uuid |-> uuids + 1, tray |-> NoTray]])
     ELSE Finished(h)
  /\ UNCHANGED <<domain, call, Files>>

\* The call that defines it, in apply_by_manifest and create_by_manifest.  A
\* guest that runs, because that is allowed or because it was started in the
\* meantime, keeps what it has.
Define(h) ==
  /\ work[h].step = "define"
  /\ Finished(h)
  /\ DefineXml(WithTray(work[h].old, work[h].to)) \/ UNCHANGED domain
  /\ UNCHANGED <<call, Files>>

\* A VM that is on: both definitions are read, and the tray is in both.
ReadBoth(h) ==
  /\ work[h].step = "read"
  /\ IF Exists /\ InactiveXml.tray # NoTray /\ (Active => live.tray # NoTray)
     THEN Work(h, [work[h] EXCEPT !.step = "persist", !.old = InactiveXml])
     ELSE Finished(h)
  /\ UNCHANGED <<domain, call, Files>>

Persist(h) ==
  /\ work[h].step = "persist"
  /\ \/ DefineXml(WithTray(work[h].old, work[h].to)) /\ Go(h, "live")
     \/ UNCHANGED domain /\ Finished(h)
  /\ UNCHANGED <<call, Files>>

\* The error is reported and the definition is left as it is.
BugChangeLive(h) ==
  /\ work[h].step = "live"
  /\ \/ /\ Active /\ live.uuid = work[h].old.uuid /\ live.tray # NoTray
        /\ live' = WithTray(live, work[h].to)
        /\ UNCHANGED <<inactive, image, state, autostart, uuids>>
        /\ Finished(h)
     \/ UNCHANGED domain /\ Finished(h)
  /\ UNCHANGED <<call, Files>>

\* update_device_flags with VIR_DOMAIN_DEVICE_MODIFY_LIVE; the guest may hold
\* the tray, or the VM may be off by now.
ChangeLive(h) ==
  /\ work[h].step = "live"
  /\ \/ /\ Active /\ live.uuid = work[h].old.uuid /\ live.tray # NoTray
        /\ live' = WithTray(live, work[h].to)
        /\ UNCHANGED <<inactive, image, state, autostart, uuids>>
        /\ Finished(h)
     \/ UNCHANGED domain /\ Go(h, "undo")
  /\ UNCHANGED <<call, Files>>

\* The definition is put back: a conflict.  If that fails the request ends with
\* an internal error, and the guest and the definition differ.
Undo(h) ==
  /\ work[h].step = "undo"
  /\ Finished(h)
  /\ DefineXml(work[h].old) \/ UNCHANGED domain
  /\ UNCHANGED <<call, Files>>

-----------------------------------------------------------------------------
(* delete_iso.                                                              *)

DeleteIso(h) ==
  \E i \in Isos :
    /\ Published(i)
    /\ Start(h, [NoWork EXCEPT !.op = "delete", !.step = "active", !.to = i])

\* domains_using_media: whether the VM is active, then what its definition says,
\* then, if it was active, what the guest has.
FindActive(h) ==
  /\ work[h].step = "active"
  /\ IF Exists THEN Work(h, [work[h] EXCEPT !.step = "inactive", !.active = Active])
     ELSE Go(h, "unlink")
  /\ UNCHANGED <<domain, call, Files>>

BugFindPersistent(h) ==
  /\ work[h].step = "inactive"
  /\ IF ~Exists \/ InactiveXml.tray = work[h].to THEN Finished(h) ELSE Go(h, "unlink")
  /\ UNCHANGED <<domain, call, Files>>

FindPersistent(h) ==
  /\ work[h].step = "inactive"
  /\ IF ~Exists \/ InactiveXml.tray = work[h].to THEN Finished(h)
     ELSE Go(h, IF work[h].active THEN "current" ELSE "unlink")
  /\ UNCHANGED <<domain, call, Files>>

FindLive(h) ==
  /\ work[h].step = "current"
  /\ IF ~Exists \/ (IF Active THEN live ELSE inactive).tray = work[h].to THEN Finished(h)
     ELSE Go(h, "unlink")
  /\ UNCHANGED <<domain, call, Files>>

HasIso(definition, i) == definition # NoDef /\ definition.tray = i

Unlink(h) ==
  /\ work[h].step = "unlink"
  /\ file' = [file EXCEPT ![work[h].to] = NoFile]
  /\ orphaned' = (orphaned \/ HasIso(image, work[h].to)
                           \/ (drift = "restored" /\ HasIso(live, work[h].to)))
  /\ Finished(h)
  /\ UNCHANGED <<domain, call, staging, upload, server>>

Media(h) ==
  \/ Edit(h) \/ ApplyReads(h) \/ Define(h)
  \/ ReadBoth(h) \/ Persist(h) \/ ChangeLive(h) \/ Undo(h)
  \/ FindActive(h) \/ FindPersistent(h) \/ FindLive(h) \/ Unlink(h)

-----------------------------------------------------------------------------
(* Uploads and cloud-init seeds.                                            *)

Outside == <<domain, call, work, server, orphaned>>

To(u, step) == upload' = [upload EXCEPT ![u].step = step]
Gone(u) == upload' = [upload EXCEPT ![u] = NoUpload]

\* What is sent or built goes to a place of its own first.  The semaphore has one
\* permit, which an upload gives back when its client goes, and a seed only when
\* it is through.
Admit(u, seed) ==
  /\ Up
  /\ upload[u] = NoUpload
  /\ \A v \in Uploads : upload[v].step # "receive" /\ ~upload[v].seed
  /\ \E i \in Isos :
       upload' = [upload EXCEPT ![u] = [step |-> "receive", iso |-> i, seed |-> seed]]
  /\ staging' = staging \union {u}
  /\ UNCHANGED <<Outside, file>>

\* upload_iso
Receive(u) == Admit(u, FALSE)

\* create_cloud_init_seed_with_builder_timeout
BuildSeed(u) == Admit(u, TRUE)

Discard(u) ==
  /\ upload[u].step = "receive"
  /\ Gone(u)
  /\ staging' = staging \ {u}
  /\ UNCHANGED <<Outside, file>>

\* receive_upload: too long, empty, not an ISO, broken off.  PartialUpload removes
\* what is there.
Reject(u) == ~upload[u].seed /\ Discard(u)

\* run_builder_with_timeout: the builder fails or takes too long and is killed.
\* TemporaryDirectory removes what is there.
BuilderFails(u) == upload[u].seed /\ Discard(u)

\* PartialUpload is not there to remove the file.
BugClientLeaves(u) ==
  /\ upload[u].step # "none" /\ ~upload[u].seed
  /\ IF upload[u].step = "receive" THEN Gone(u) ELSE UNCHANGED upload
  /\ UNCHANGED <<Outside, file, staging>>

\* The handler's future is dropped, and with it the file of an upload; a thread
\* that is publishing it, or building a seed, goes on.
ClientLeaves(u) ==
  /\ upload[u].step # "none" /\ ~upload[u].seed
  /\ IF upload[u].step = "receive" THEN Gone(u) ELSE UNCHANGED upload
  /\ staging' = staging \ {u}
  /\ UNCHANGED <<Outside, file>>

\* The end of a publication: whatever is left in the staging area goes.
EndUpload(u) ==
  /\ Gone(u)
  /\ staging' = staging \ {u}

\* publish_iso takes the lock; the staged file is valid and the id is free.
Publish(u) ==
  /\ upload[u].step = "receive"
  /\ LockFree
  /\ IF Published(upload[u].iso) THEN EndUpload(u)
     ELSE To(u, "link") /\ UNCHANGED staging
  /\ UNCHANGED <<Outside, file>>

Link(u) ==
  /\ upload[u].step = "link"
  /\ IF u \in staging /\ ~Published(upload[u].iso)
     THEN /\ file' = [file EXCEPT ![upload[u].iso] = u]
          /\ To(u, "sync")
          /\ UNCHANGED staging
     ELSE EndUpload(u) /\ UNCHANGED file
  /\ UNCHANGED Outside

Retract(u) ==
  /\ file' = [file EXCEPT ![upload[u].iso] = NoFile]
  /\ EndUpload(u)

\* The directory is synced, or that fails.
SyncLink(u) ==
  /\ upload[u].step = "sync"
  /\ \/ To(u, "unstage") /\ UNCHANGED <<file, staging>>
     \/ Retract(u)
  /\ UNCHANGED Outside

BugUnstage(u) ==
  /\ upload[u].step = "unstage"
  /\ IF u \in staging
     THEN To(u, "finish") /\ staging' = (IF upload[u].seed THEN staging ELSE staging \ {u})
     ELSE EndUpload(u)
  /\ UNCHANGED <<Outside, file>>

\* The staged file is removed; the client may have done that by leaving.
Unstage(u) ==
  /\ upload[u].step = "unstage"
  /\ \/ /\ u \in staging
        /\ To(u, "finish")
        /\ staging' = IF upload[u].seed THEN staging ELSE staging \ {u}
        /\ UNCHANGED file
     \/ u \notin staging /\ Retract(u)
  /\ UNCHANGED Outside

\* The sync of the staging area; the ISO stays even if that fails.
Finish(u) ==
  /\ upload[u].step = "finish"
  /\ EndUpload(u)
  /\ UNCHANGED <<Outside, file>>

UploadStep(u) ==
  \/ Reject(u) \/ BuilderFails(u) \/ Publish(u) \/ Link(u) \/ SyncLink(u)
  \/ Unstage(u) \/ Finish(u)

-----------------------------------------------------------------------------
(* The server's process.                                                    *)

Forget ==
  /\ upload' = [u \in Uploads |-> NoUpload]
  /\ work' = [h \in Handlers |-> NoWork]
  /\ server' = "down"
  /\ UNCHANGED <<file, staging, orphaned>>

\* A request may be cut off between the definition and the guest.
Crash ==
  /\ Up
  /\ Forget
  /\ call' = [c \in DOMAIN call |-> IF c \in Handlers THEN NoCall ELSE call[c]]
  /\ UNCHANGED domain

Reboot ==
  /\ HostReboots
  /\ Forget

\* prepare_roots, cleanup_staging
StartServer ==
  /\ ~Up
  /\ server' = "up"
  /\ staging' = {}
  /\ UNCHANGED <<domain, call, file, upload, work, orphaned>>

-----------------------------------------------------------------------------

Init ==
  /\ LifecycleInit
  /\ file = [i \in Isos |-> NoFile]
  /\ staging = {}
  /\ upload = [u \in Uploads |-> NoUpload]
  /\ work = [h \in Handlers |-> NoWork]
  /\ drift = "none"
  /\ orphaned = FALSE
  /\ server = "up"

Lifecycle ==
  \/ \E c \in Cli : Command(c) \/ Step(c) \/ WaitTimesOut(c)
  \/ \E h \in Handlers : (Up /\ LockFree /\ Request(h)) \/ Step(h)
  \/ Autostart
  \/ Environment

Actions ==
  \/ Lifecycle /\ UNCHANGED media
  \/ \E h \in Handlers :
       \/ SetMedia(h) \/ AddTray(h) \/ RemoveTray(h) \/ Update(h) \/ CreateVm(h) \/ DeleteIso(h)
       \/ Media(h)
  \/ \E u \in Uploads : Receive(u) \/ BuildSeed(u) \/ UploadStep(u) \/ ClientLeaves(u)
  \/ Crash \/ Reboot \/ StartServer

At(step) == \E h \in Handlers : work[h].step = step

\* What makes the media of guest and definition differ: saved state, a start
\* while a request is at work, a definition that is applied while the guest runs,
\* an undo that fails, and a crash before the undo.
NoteDrift ==
  drift' =
    IF ~Active' THEN "none"
    ELSE IF ~Active THEN IF image # NoDef THEN "restored" ELSE IF LockFree THEN "none" ELSE "changed"
    ELSE IF live' # live THEN "none"
    ELSE IF drift = "none" /\
            \/ inactive' # inactive /\ At("define")
            \/ inactive' = inactive /\ work' # work /\ At("undo")
            \/ server' # server /\ (At("live") \/ At("undo"))
         THEN "changed"
    ELSE drift

Next == Actions /\ NoteDrift

Spec == Init /\ [][Next]_vars

\* The threads of the server run; nobody has to send anything, and the guest
\* does as it likes.
FairSpec ==
  /\ Spec
  /\ \A h \in Handlers :
       WF_vars(Step(h) /\ UNCHANGED media /\ NoteDrift) /\ WF_vars(Media(h) /\ NoteDrift)
  /\ \A u \in Uploads : WF_vars((Link(u) \/ SyncLink(u) \/ Unstage(u) \/ Finish(u)) /\ NoteDrift)

-----------------------------------------------------------------------------
(* What has to hold.                                                        *)

TypeOK ==
  /\ LifecycleOK
  /\ \A d \in {inactive, live, image} \ {NoDef} : d.tray \in Trays
  /\ file \in [Isos -> Uploads \union {NoFile}]
  /\ staging \subseteq Uploads
  /\ \A h \in Handlers : work[h].op \in Ops
  /\ server \in {"up", "down"}
  /\ drift \in {"none", "restored", "changed"}

\* An ISO that is in the tray of the definition or of the guest is there:
\* whoever deletes it has looked at both, one after the other, while the CLI
\* starts, stops and restores the VM.  Saved state is the exception.
MediaHeld ==
  ~orphaned => \A i \in Isos : HasIso(inactive, i) \/ HasIso(live, i) => Published(i)

\* Between requests the guest and the definition have the same media, although
\* they are changed one after the other and either change can fail: unless the
\* guest was restored, or started or given a new definition in between, or an
\* internal error was reported.
TraysAgree ==
  LockFree /\ Active /\ Defined /\ drift = "none" => live.tray = inactive.tray

\* What is in the staging area belongs to an upload that is under way, whoever
\* has left or crashed before.
StagingSwept ==
  /\ TypeOK
  /\ Up => \A u \in staging : upload[u].step # "none"

\* A publication that ends leaves the ISO if it got to the end, and nothing of
\* its own if it did not; an ISO is never replaced.
EndsWhole ==
  /\ \A i \in Isos : Published(i) /\ file'[i] # file[i] => file'[i] = NoFile
  /\ \A u \in Uploads :
       upload[u].step \in Publishing /\ upload'[u] = NoUpload /\ server' = "up" =>
         (file'[upload[u].iso] = u <=> upload[u].step = "finish")

\* The action property of publish_iso, over the whole life of the server.
PublishedOrGone == [][EndsWhole]_vars

\* The resource lock is not kept for ever: no request waits for a guest.
LockReleased == \A h \in Handlers : []<>(Idle(h) /\ work[h] = NoWork)

=============================================================================
