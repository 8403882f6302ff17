----------------------------- MODULE JobService -----------------------------
(***************************************************************************)
(* The install-job service (src/src/jobs.rs): the SQLite table of jobs,    *)
(* the channel that feeds the one worker thread, the map of cancellation   *)
(* flags, the API calls that create and cancel jobs, the worker's run of a *)
(* job, and what a restart of the server does to all of them.              *)
(*                                                                         *)
(* The installation itself (src/src/installer.rs) appears by the points    *)
(* where it polls for cancellation and by the disk and the VM it makes.    *)
(* The other API handlers appear by the one thing they share with the jobs:*)
(* they create and remove VMs and images only while no job reserves them.  *)
(***************************************************************************)
EXTENDS Naturals, Sequences

CONSTANTS
  Jobs,          \* job identifiers; each stands for one install request
  VmName,        \* VmName[j]: the VM name requested by j
  ImageId,       \* ImageId[j]: the image requested by j
  KeepFailed,    \* the jobs whose request sets keepFailed
  NoJob,         \* the worker or the create call has no job
  MaxRestarts,   \* bound on server crashes
  MaxDbErrors    \* bound on failing SQLite calls in one life of the server

ASSUME JobServiceAssumption ==
  /\ NoJob \notin Jobs
  /\ KeepFailed \subseteq Jobs
  /\ MaxRestarts \in Nat
  /\ MaxDbErrors \in Nat

VARIABLES
  \* install_jobs, the only state that survives a crash of the server
  status,           \* [Jobs -> Statuses]
  cancelRequested,  \* the rows whose cancel_requested is 1
  \* memory of the server process
  server,           \* "up", "starting" (JobService::start is running) or "down"
  toSend,           \* queued ids start has read but not yet sent to the worker
  channel,          \* the mpsc channel of job ids
  controls,         \* keys of the controls map
  cancelFlag,       \* the jobs whose AtomicBool, made by their run_job, is true
  signalling,       \* jobs of cancel calls that wrote the row, not yet the flag
  createStep,       \* where the create call holding the resource lock is
  createJob,        \* the job that call is creating
  workerStep,       \* where run_job is
  workerJob,        \* the job it runs
  owned,            \* OwnedResources: the disk and the VM made, and the commit
  \* the host
  vms,              \* names of the defined VMs
  images,           \* ids of the files in the image root
  \* bookkeeping of the model
  acknowledged,     \* jobs for which a cancel call has returned successfully
  restarts,         \* crashes so far
  dbErrors          \* failing SQLite calls since the server last started

store == <<status, cancelRequested>>
creator == <<createStep, createJob>>
worker == <<workerStep, workerJob, owned>>
host == <<vms, images>>
boot == <<server, toSend, restarts>>
cancelling == <<controls, cancelFlag, signalling, acknowledged>>
vars == <<store, boot, channel, cancelling, creator, worker, host, dbErrors>>

Lifecycle == INSTANCE InstallJobLifecycle
  WITH status <- status, cancelRequested <- cancelRequested

Names == {VmName[j] : j \in Jobs}
ImageIds == {ImageId[j] : j \in Jobs}

\* run_job and the phases of install_fedora_with_control, in program order.
Polling == {"planning", "preflight", "disk", "domain", "installing",
            "committing", "verifying"}
Installing == Polling \union {"rollback", "rollbackDisk", "succeeded", "errored"}
WorkerSteps == Installing \union
               {"idle", "received", "registered", "claimed",
                "finishSucceeded", "finishErrored", "fallback"}
CreateSteps == {"idle", "unreserved", "vmFree", "imageFree", "inserted"}

(***************************************************************************)
(* A definition whose name begins with "Bug" is how the one after it would *)
(* read with a plausible mistake in the code.  Nothing uses it: put in the *)
(* place of the other, it shows which property notices the mistake.        *)
(***************************************************************************)

\* The query forgets the interrupted rows.
BugActiveResourceUser(name, ids) ==
  {j \in Jobs : /\ status[j] \in {"queued", "running"}
                /\ VmName[j] = name \/ ImageId[j] \in ids}

\* JobStore::active_resource_user, for a VM name and a set of images
ActiveResourceUser(name, ids) ==
  {j \in Jobs : /\ status[j] \in Lifecycle!Reserving
                /\ VmName[j] = name \/ ImageId[j] \in ids}

BugActiveImageUser(id) ==
  {j \in Jobs : status[j] \in {"queued", "running"} /\ ImageId[j] = id}

\* The same call with the empty string for the name (JobService::active_image_user).
ActiveImageUser(id) ==
  {j \in Jobs : status[j] \in Lifecycle!Reserving /\ ImageId[j] = id}

\* lock_resources: the only multi-step holder of the mutex is the create call.
ResourceLockFree == server = "up" /\ createStep = "idle"

DbError == dbErrors < MaxDbErrors /\ dbErrors' = dbErrors + 1

Init ==
  /\ status = [j \in Jobs |-> "absent"]
  /\ cancelRequested = {}
  /\ server = "up"
  /\ toSend = {}
  /\ channel = << >>
  /\ controls = {}
  /\ cancelFlag = {}
  /\ signalling = {}
  /\ createStep = "idle"
  /\ createJob = NoJob
  /\ workerStep = "idle"
  /\ workerJob = NoJob
  /\ owned = {}
  /\ vms = {}
  /\ images = {}
  /\ acknowledged = {}
  /\ restarts = 0
  /\ dbErrors = 0

-----------------------------------------------------------------------------
(* JobService::create, under the resource lock from first step to last.      *)

CreateBegin(j) ==
  /\ ResourceLockFree
  /\ status[j] = "absent"
  /\ ActiveResourceUser(VmName[j], {ImageId[j]}) = {}
  /\ createStep' = "unreserved"
  /\ createJob' = j
  /\ UNCHANGED <<store, boot, channel, cancelling, worker, host, dbErrors>>

\* Leaving the call: on a conflict, on an error, or at its end.
CreateReturn ==
  /\ createStep' = "idle"
  /\ createJob' = NoJob

CreateCheckVm ==
  /\ createStep = "unreserved"
  /\ IF VmName[createJob] \in vms
     THEN CreateReturn
     ELSE createStep' = "vmFree" /\ UNCHANGED createJob
  /\ UNCHANGED <<store, boot, channel, cancelling, worker, host, dbErrors>>

CreateCheckImage ==
  /\ createStep = "vmFree"
  /\ IF ImageId[createJob] \in images
     THEN CreateReturn
     ELSE createStep' = "imageFree" /\ UNCHANGED createJob
  /\ UNCHANGED <<store, boot, channel, cancelling, worker, host, dbErrors>>

\* The INSERT of JobStore::create, which may fail.
CreateInsert ==
  /\ createStep = "imageFree"
  /\ \/ /\ status' = [status EXCEPT ![createJob] = "queued"]
        /\ createStep' = "inserted"
        /\ UNCHANGED <<cancelRequested, createJob, dbErrors>>
     \/ /\ DbError
        /\ CreateReturn
        /\ UNCHANGED store
  /\ UNCHANGED <<boot, channel, cancelling, worker, host>>

\* JobStore::create reads the row back before create sends its id: when that
\* read fails the call returns an error and the queued row is never sent.
CreateSend ==
  /\ createStep = "inserted"
  /\ CreateReturn
  /\ \/ channel' = Append(channel, createJob) /\ UNCHANGED dbErrors
     \/ DbError /\ UNCHANGED channel
  /\ UNCHANGED <<store, boot, cancelling, worker, host>>

-----------------------------------------------------------------------------
(* JobService::cancel: the row first, then the flag, without the resource    *)
(* lock.                                                                     *)

\* The UPDATE has no WHERE on the status.
BugRequestCancelAnyRow(j) ==
  /\ cancelRequested' = cancelRequested \union {j}
  /\ status' = [status EXCEPT ![j] = IF @ = "running" THEN @ ELSE "cancelled"]

\* The UPDATE of JobStore::request_cancel, which leaves terminal rows alone.
RequestCancel(j) ==
  IF status[j] \in Lifecycle!Reserving
  THEN /\ cancelRequested' = cancelRequested \union {j}
       /\ status' = [status EXCEPT ![j] =
            IF @ \in {"queued", "interrupted"} THEN "cancelled" ELSE @]
  ELSE UNCHANGED store

CancelRow(j) ==
  /\ server = "up"
  /\ status[j] # "absent"
  /\ RequestCancel(j)
  /\ \/ signalling' = signalling \union {j} /\ UNCHANGED dbErrors
     \/ DbError /\ UNCHANGED signalling   \* the read-back fails: no flag is set
  /\ UNCHANGED <<boot, channel, controls, cancelFlag, acknowledged, creator,
                 worker, host>>

CancelSignal(j) ==
  /\ j \in signalling
  /\ signalling' = signalling \ {j}
  /\ cancelFlag' = cancelFlag \union ({j} \intersect controls)
  /\ acknowledged' = acknowledged \union {j}
  /\ UNCHANGED <<store, boot, channel, controls, creator, worker, host, dbErrors>>

-----------------------------------------------------------------------------
(* The worker thread: run_job, one job at a time.                            *)

Receive ==
  /\ server # "down"
  /\ workerStep = "idle"
  /\ channel # << >>
  /\ workerJob' = Head(channel)
  /\ channel' = Tail(channel)
  /\ workerStep' = "received"
  /\ UNCHANGED <<store, boot, cancelling, creator, owned, host, dbErrors>>

\* The control is not put into the map before the claim.
BugRegisterControl ==
  /\ workerStep = "received"
  /\ cancelFlag' = cancelFlag \ {workerJob}
  /\ workerStep' = "registered"
  /\ UNCHANGED <<store, boot, channel, controls, signalling, acknowledged, creator,
                 workerJob, owned, host, dbErrors>>

RegisterControl ==
  /\ workerStep = "received"
  /\ controls' = controls \union {workerJob}
  /\ cancelFlag' = cancelFlag \ {workerJob}
  /\ workerStep' = "registered"
  /\ UNCHANGED <<store, boot, channel, signalling, acknowledged, creator,
                 workerJob, owned, host, dbErrors>>

Claimable(j) == status[j] = "queued" /\ j \notin cancelRequested

\* JobStore::claim: the UPDATE and the SELECT may each fail; then run_job
\* falls through to its last finish with the control still registered.
Claim ==
  /\ workerStep = "registered"
  /\ \/ /\ Claimable(workerJob)
        /\ status' = [status EXCEPT ![workerJob] = "running"]
        /\ \/ workerStep' = "claimed" /\ UNCHANGED dbErrors
           \/ workerStep' = "fallback" /\ DbError
        /\ UNCHANGED <<controls, workerJob>>
     \/ /\ ~Claimable(workerJob)
        /\ controls' = controls \ {workerJob}
        /\ workerStep' = "idle"
        /\ workerJob' = NoJob
        /\ UNCHANGED <<status, dbErrors>>
     \/ /\ DbError
        /\ workerStep' = "fallback"
        /\ UNCHANGED <<status, controls, workerJob>>
  /\ UNCHANGED <<cancelRequested, boot, channel, cancelFlag, signalling,
                 acknowledged, creator, owned, host>>

\* resolve_request writes the key file and looks the ISO up; both may fail.
Resolve ==
  /\ workerStep = "claimed"
  /\ \/ workerStep' = "planning" /\ UNCHANGED controls
     \/ workerStep' = "fallback" /\ controls' = controls \ {workerJob}
  /\ UNCHANGED <<store, boot, channel, cancelFlag, signalling, acknowledged,
                 creator, workerJob, owned, host, dbErrors>>

-----------------------------------------------------------------------------
(* install_fedora_with_control.  Each phase polls the flag and then acts.    *)

\* InstallControl::phase lets the installation go on from here.
Proceed(step) ==
  /\ workerStep = step
  /\ workerJob \notin cancelFlag

\* Frame of the installation's steps.
InstallFrame ==
  UNCHANGED <<store, boot, channel, cancelling, creator, workerJob, dbErrors>>

Plan ==
  /\ Proceed("planning")
  /\ workerStep' = "preflight"
  /\ InstallFrame /\ UNCHANGED <<owned, host>>

\* preflight refuses an existing disk or VM; it fails before anything is owned.
Preflight ==
  /\ Proceed("preflight")
  /\ workerStep' = IF ImageId[workerJob] \in images \/ VmName[workerJob] \in vms
                   THEN "errored" ELSE "disk"
  /\ InstallFrame /\ UNCHANGED <<owned, host>>

CreateDisk ==
  /\ Proceed("disk")
  /\ ImageId[workerJob] \notin images
  /\ images' = images \union {ImageId[workerJob]}
  /\ owned' = owned \union {"disk"}
  /\ workerStep' = "domain"
  /\ InstallFrame /\ UNCHANGED vms

DefineVm ==
  /\ Proceed("domain")
  /\ VmName[workerJob] \notin vms
  /\ vms' = vms \union {VmName[workerJob]}
  /\ owned' = owned \union {"vm"}
  /\ workerStep' = "installing"
  /\ InstallFrame /\ UNCHANGED images

RunVirtInstall ==
  /\ Proceed("installing")
  /\ workerStep' = "committing"
  /\ InstallFrame /\ UNCHANGED <<owned, host>>

CommitVm ==
  /\ Proceed("committing")
  /\ owned' = owned \union {"committed"}
  /\ workerStep' = "verifying"
  /\ InstallFrame /\ UNCHANGED host

VerifyGuest ==
  /\ Proceed("verifying")
  /\ workerStep' = "succeeded"
  /\ InstallFrame /\ UNCHANGED <<owned, host>>

\* The installation stops with an error: because the flag is set, because a
\* command failed, or because one of its timeouts expired.  Only
\* execute_install rolls back, and only before the commit.
StopInstall ==
  /\ workerStep \in Polling
  /\ workerStep' = IF \/ workerStep \in {"planning", "preflight"}
                      \/ "committed" \in owned
                      \/ workerJob \in KeepFailed
                   THEN "errored" ELSE "rollback"
  /\ InstallFrame /\ UNCHANGED <<owned, host>>

\* rollback removes the VM it owns, and the disk only once the VM is gone.
RollbackVm ==
  /\ workerStep = "rollback"
  /\ \/ /\ vms' = IF "vm" \in owned THEN vms \ {VmName[workerJob]} ELSE vms
        /\ owned' = owned \ {"vm"}
        /\ workerStep' = "rollbackDisk"
     \/ /\ "vm" \in owned
        /\ workerStep' = "errored"
        /\ UNCHANGED <<vms, owned>>
  /\ InstallFrame /\ UNCHANGED images

RollbackDisk ==
  /\ workerStep = "rollbackDisk"
  /\ \/ /\ images' = IF "disk" \in owned THEN images \ {ImageId[workerJob]} ELSE images
        /\ owned' = owned \ {"disk"}
     \/ UNCHANGED <<images, owned>>
  /\ workerStep' = "errored"
  /\ InstallFrame /\ UNCHANGED vms

-----------------------------------------------------------------------------
(* The end of run_job.                                                       *)

\* controls.remove once the installation has returned.
Unregister ==
  /\ workerStep \in {"succeeded", "errored"}
  /\ controls' = controls \ {workerJob}
  /\ workerStep' = IF workerStep = "succeeded"
                   THEN "finishSucceeded" ELSE "finishErrored"
  /\ UNCHANGED <<store, boot, channel, cancelFlag, signalling, acknowledged,
                 creator, workerJob, owned, host, dbErrors>>

\* The result of the installation is not looked at.
BugOutcome == IF workerJob \in cancelFlag THEN "cancelled" ELSE "succeeded"

\* The status run_job chooses when the installation has returned.
Outcome ==
  IF workerStep = "finishSucceeded" THEN "succeeded"
  ELSE IF workerJob \in cancelFlag THEN "cancelled" ELSE "failed"

\* run_job returns and the thread waits for the next id.
WorkerIdle ==
  /\ workerStep' = "idle"
  /\ workerJob' = NoJob
  /\ owned' = {}

Finish ==
  /\ workerStep \in {"finishSucceeded", "finishErrored"}
  /\ \/ /\ status' = [status EXCEPT ![workerJob] = Outcome]
        /\ WorkerIdle
        /\ UNCHANGED dbErrors
     \/ /\ DbError
        /\ workerStep' = "fallback"
        /\ UNCHANGED <<status, workerJob, owned>>
  /\ UNCHANGED <<cancelRequested, boot, channel, cancelling, creator, host>>

\* The last finish of run_job: whatever the row says, it becomes failed.  Its
\* own error is dropped.
Fallback ==
  /\ workerStep = "fallback"
  /\ \/ status' = [status EXCEPT ![workerJob] = "failed"] /\ UNCHANGED dbErrors
     \/ DbError /\ UNCHANGED status
  /\ WorkerIdle
  /\ UNCHANGED <<cancelRequested, boot, channel, cancelling, creator, host>>

-----------------------------------------------------------------------------
(* The server process.                                                       *)

Crash ==
  /\ server # "down"
  /\ restarts < MaxRestarts
  /\ restarts' = restarts + 1
  /\ server' = "down"
  /\ toSend' = {}
  /\ channel' = << >>
  /\ controls' = {}
  /\ cancelFlag' = {}
  /\ signalling' = {}
  /\ CreateReturn
  /\ WorkerIdle
  /\ UNCHANGED <<store, acknowledged, host, dbErrors>>

\* The queued rows are not sent again.
BugRestart ==
  /\ server = "down"
  /\ server' = "starting"
  /\ status' = [j \in Jobs |-> IF status[j] = "running" THEN "interrupted" ELSE status[j]]
  /\ dbErrors' = 0
  /\ UNCHANGED <<cancelRequested, toSend, restarts, channel, cancelling, creator,
                 worker, host>>

\* JobStore::open, then the list of queued ids.
Restart ==
  /\ server = "down"
  /\ server' = "starting"
  /\ status' = [j \in Jobs |-> IF status[j] = "running" THEN "interrupted" ELSE status[j]]
  /\ toSend' = {j \in Jobs : status[j] = "queued"}
  /\ dbErrors' = 0
  /\ UNCHANGED <<cancelRequested, restarts, channel, cancelling, creator, worker, host>>

\* One turn of the loop at the end of JobService::start; the worker already runs.
SendQueued(j) ==
  /\ server = "starting"
  /\ j \in toSend
  /\ toSend' = toSend \ {j}
  /\ channel' = Append(channel, j)
  /\ UNCHANGED <<store, server, restarts, cancelling, creator, worker, host, dbErrors>>

StartServing ==
  /\ server = "starting"
  /\ toSend = {}
  /\ server' = "up"
  /\ UNCHANGED <<store, toSend, restarts, channel, cancelling, creator, worker,
                 host, dbErrors>>

-----------------------------------------------------------------------------
(* The other handlers, which take the resource lock for one step here: what  *)
(* they check under it cannot change before they act, because a reservation  *)
(* is only ever added under the same lock.                                   *)

OtherFrame == UNCHANGED <<store, boot, channel, cancelling, creator, worker, dbErrors>>

\* reject_active_install is missing.
BugCreateVm(n) ==
  /\ ResourceLockFree
  /\ vms' = vms \union {n}
  /\ OtherFrame /\ UNCHANGED images

CreateVm(n) ==
  /\ ResourceLockFree
  /\ ActiveResourceUser(n, {}) = {}
  /\ vms' = vms \union {n}
  /\ OtherFrame /\ UNCHANGED images

UndefineVm(n) ==
  /\ ResourceLockFree
  /\ n \in vms
  /\ ActiveResourceUser(n, {}) = {}
  /\ vms' = vms \ {n}
  /\ OtherFrame /\ UNCHANGED images

CreateImage(i) ==
  /\ ResourceLockFree
  /\ ActiveImageUser(i) = {}
  /\ images' = images \union {i}
  /\ OtherFrame /\ UNCHANGED vms

BugDeleteImage(i) ==
  /\ ResourceLockFree
  /\ i \in images
  /\ images' = images \ {i}
  /\ OtherFrame /\ UNCHANGED vms

DeleteImage(i) ==
  /\ ResourceLockFree
  /\ i \in images
  /\ ActiveImageUser(i) = {}
  /\ images' = images \ {i}
  /\ OtherFrame /\ UNCHANGED vms

-----------------------------------------------------------------------------

Create == CreateCheckVm \/ CreateCheckImage \/ CreateInsert \/ CreateSend

Install ==
  \/ Plan \/ Preflight \/ CreateDisk \/ DefineVm \/ RunVirtInstall \/ CommitVm
  \/ VerifyGuest \/ StopInstall \/ RollbackVm \/ RollbackDisk

RunJob ==
  \/ Receive \/ RegisterControl \/ Claim \/ Resolve
  \/ Install
  \/ Unregister \/ Finish \/ Fallback

Handlers ==
  \/ \E n \in Names : CreateVm(n) \/ UndefineVm(n)
  \/ \E i \in ImageIds : CreateImage(i) \/ DeleteImage(i)

Start == Restart \/ (\E j \in Jobs : SendQueued(j)) \/ StartServing

Next ==
  \/ \E j \in Jobs : CreateBegin(j) \/ CancelRow(j) \/ CancelSignal(j)
  \/ Create
  \/ RunJob
  \/ Crash
  \/ Start
  \/ Handlers

Spec == Init /\ [][Next]_vars

\* Threads of the process run when they can, a call once begun goes on, and a
\* stopped server is restarted; clients need never call anything.
Fairness ==
  /\ WF_vars(RunJob)
  /\ WF_vars(Create)
  /\ \A j \in Jobs : WF_vars(CancelSignal(j))
  /\ WF_vars(Start)

FairSpec == Spec /\ Fairness

-----------------------------------------------------------------------------
(* Properties.                                                               *)

RowsTypeOK ==
  /\ status \in [Jobs -> Lifecycle!Statuses]
  /\ cancelRequested \subseteq Jobs

ChannelTypeOK == channel \in Seq(Jobs)

ProcessTypeOK ==
  /\ server \in {"up", "starting", "down"}
  /\ toSend \subseteq Jobs
  /\ controls \union cancelFlag \union signalling \union acknowledged \subseteq Jobs
  /\ createStep \in CreateSteps
  /\ createJob \in Jobs \union {NoJob}
  /\ createJob = NoJob <=> createStep = "idle"
  /\ workerStep \in WorkerSteps
  /\ workerJob \in Jobs \union {NoJob}
  /\ workerJob = NoJob <=> workerStep = "idle"
  /\ owned \subseteq {"disk", "vm", "committed"}
  /\ vms \subseteq Names
  /\ images \subseteq ImageIds
  /\ restarts \in Nat
  /\ dbErrors \in Nat

TypeOK == RowsTypeOK /\ ChannelTypeOK /\ ProcessTypeOK

\* No two jobs that are queued, running or interrupted ask for the same VM name
\* or for the same image: create's check and its INSERT are separate
\* statements, and cancel, the worker and a restart change rows in between.
ReservationExclusive ==
  \A i, j \in Jobs :
    i # j /\ Lifecycle!ReservesResources(i) /\ Lifecycle!ReservesResources(j)
      => ~Lifecycle!Overlap(i, j)

\* Until an installation creates them, its VM and its disk do not exist: what
\* create found free stays free while the job waits, whatever the handlers and
\* the other jobs do, so preflight and the no-replace link never hit a resource
\* made through this server.
WaitingFindsNothing ==
  \A j \in Jobs :
    LET waiting == \/ status[j] = "queued"
                   \/ workerJob = j /\ workerStep \in {"claimed", "planning", "preflight", "disk"}
    IN /\ waiting => ImageId[j] \notin images
       /\ waiting \/ (workerJob = j /\ workerStep = "domain") => VmName[j] \notin vms

\* What an installation has created is still there while it runs: no handler
\* deletes the disk or undefines the VM of a job in progress.
InstallKeepsItsResources ==
  /\ "disk" \in owned => ImageId[workerJob] \in images
  /\ "vm" \in owned => VmName[workerJob] \in vms

\* The VM and the disk an interrupted job may have left behind stay until the
\* job is acknowledged by cancelling it.
UncertainResourcesKept ==
  [][\A j \in Jobs :
       status[j] = "interrupted" /\ status'[j] = "interrupted" =>
         /\ ImageId[j] \in images => ImageId[j] \in images'
         /\ VmName[j] \in vms => VmName[j] \in vms']_vars

\* Once a cancel call has returned, the job creates nothing more and is not
\* committed, wherever the call met the worker: before the control is
\* registered, between that and the claim, or during the installation.
CancelStopsWork ==
  [][\A j \in acknowledged :
       workerJob = j => owned' \subseteq owned]_vars

\* A job that becomes succeeded leaves its VM and its disk behind.
SucceededIsInstalled ==
  [][\A j \in Jobs :
       status[j] # "succeeded" /\ status'[j] = "succeeded" =>
         VmName[j] \in vms /\ ImageId[j] \in images]_vars

InChannel(j) == \E k \in 1..Len(channel) : channel[k] = j

NoRepeats == \A k, l \in 1..Len(channel) : channel[k] = channel[l] => k = l

\* On its way to a claim.
Scheduled(j) ==
  \/ j \in toSend
  \/ InChannel(j)
  \/ workerJob = j /\ workerStep \in {"received", "registered"}
  \/ createJob = j /\ createStep = "inserted"

\* A running row belongs to the job the worker is on.
WorkedOn(j) ==
  workerJob = j /\ workerStep \notin {"received", "registered"}

\* While no SQLite call has failed since the server started, every queued row
\* is on its way to the worker and every running row is the worker's: neither
\* the send after the INSERT nor the restart loses or strands a job.
NothingStranded ==
  dbErrors = 0 /\ server # "down" =>
    \A j \in Jobs :
      /\ status[j] = "queued" => Scheduled(j)
      /\ status[j] = "running" => WorkedOn(j)

\* The table moves only as the lifecycle promised to the clients allows.
ImplementsLifecycle == Lifecycle!Spec

\* While SQLite works every accepted job ends, or is interrupted by a crash:
\* the single worker gets to it however many jobs are ahead, cancelled or not.
AcceptedJobsEnd ==
  \A j \in Jobs :
    status[j] \in {"queued", "running"}
      ~> \/ status[j] \in Lifecycle!Terminal \union {"interrupted"}
         \/ dbErrors > 0

-----------------------------------------------------------------------------
(* The strengthening that makes the safety properties inductive.             *)

\* The create call holds what it has checked so far.
CreatorInv ==
  /\ createStep # "idle" => server = "up"
  /\ createStep \in {"unreserved", "vmFree", "imageFree"} =>
       /\ status[createJob] = "absent"
       /\ \A i \in Jobs : Lifecycle!ReservesResources(i) => ~Lifecycle!Overlap(i, createJob)
  /\ createStep \in {"vmFree", "imageFree"} => VmName[createJob] \notin vms
  /\ createStep = "imageFree" => ImageId[createJob] \notin images

\* Where the worker is fixes the row of its job and what it has created.
WorkerInv ==
  /\ server = "down" => workerStep = "idle"
  /\ workerStep \in Installing \union {"claimed", "finishSucceeded", "finishErrored"}
       => status[workerJob] = "running"
  /\ owned # {} => workerJob # NoJob /\ status[workerJob] = "running"
  /\ workerStep \in {"idle", "received", "registered", "claimed", "planning",
                      "preflight", "disk"} => owned = {}
  /\ workerStep = "domain" => owned = {"disk"}
  /\ workerStep \in {"installing", "committing"} => owned = {"disk", "vm"}
  /\ workerStep \in {"verifying", "succeeded", "finishSucceeded"}
       => owned = {"disk", "vm", "committed"}

\* A cancel call that has begun shows in the row, and one that has returned in
\* the flag of the job the worker is installing.
CancelInv ==
  /\ workerStep \in Installing \union {"registered", "claimed"} => workerJob \in controls
  /\ \A j \in Jobs :
       /\ j \in cancelRequested => status[j] \notin {"absent", "queued"}
       /\ j \in acknowledged \union signalling \union cancelFlag
            => j \in cancelRequested \/ status[j] \in Lifecycle!Terminal
       /\ j \in acknowledged /\ workerJob = j /\ workerStep \in Installing \union {"claimed"}
            => j \in cancelFlag

\* A job is at one place of the way to its claim, once, and its row is then
\* still queued or was cancelled there.
QueueInv ==
  /\ server = "down" => channel = << >>
  /\ server # "starting" => toSend = {}
  /\ NoRepeats
  /\ \A j \in Jobs :
       /\ InChannel(j) => j \notin toSend /\ j # workerJob
       /\ j = workerJob => j \notin toSend
       /\ createStep = "inserted" /\ createJob = j
            => ~InChannel(j) /\ j # workerJob
       /\ Scheduled(j) => status[j] \in {"queued", "cancelled"}
       /\ workerJob = j /\ workerStep = "fallback"
            => status[j] \in {"queued", "cancelled", "running"}

IInv ==
  /\ TypeOK
  /\ ReservationExclusive
  /\ WaitingFindsNothing
  /\ InstallKeepsItsResources
  /\ CreatorInv
  /\ WorkerInv
  /\ CancelInv
  /\ QueueInv
  /\ NothingStranded

=============================================================================
