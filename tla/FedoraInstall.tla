--------------------------- MODULE FedoraInstall ---------------------------
(***************************************************************************)
(* The unattended Fedora installation (src/src/installer.rs): what a run   *)
(* creates on the host, in which order, what it remembers as its own, and  *)
(* what its rollback removes when it fails.                                *)
(*                                                                         *)
(* Several runs share the host.  A run is a `qtr vm install fedora`        *)
(* process or the installation of a job; processes take no common lock, so *)
(* two runs may ask for the same VM name, disk or output path and interleave*)
(* at every step.  Others may delete a disk that no VM uses yet.           *)
(***************************************************************************)

CONSTANTS
  Runs,         \* installations
  VmName,       \* VmName[r]: args.name
  Disk,         \* Disk[r]: args.disk
  Output,       \* Output[r]: args.output, which also names both of r's logs
  KeepFailed,   \* the runs with --keep-failed
  CleanupMayFail, \* the runs whose rollback may meet a failing command
  Nobody

ASSUME FedoraInstallAssumption ==
  /\ Nobody \notin Runs
  /\ KeepFailed \subseteq Runs
  /\ CleanupMayFail \subseteq Runs

VARIABLES
  \* each run
  pc,           \* the next step of the run
  owned,        \* OwnedResources: the fields that are set, and committed
  cleanupErrors, \* the runs whose rollback has met an error
  outcome,      \* how the run ended
  cancelled,    \* the runs whose cancellation flag is set
  child,        \* the virt-install process of the run
  \* the host; a file or a domain is known by the run that made it
  domainAt,     \* the domain defined under a name
  active,       \* the names of the running domains
  diskAt,       \* the file at a disk path
  manifestAt,   \* the manifest at an output path
  serialAt,     \* the serial log that belongs to an output path
  logAt,        \* the install log that belongs to an output path
  workDirs,     \* the runs whose work directory exists
  \* bookkeeping of the model
  unrecorded,   \* what a run made without being able to remember it
  deleted       \* disk paths others have deleted

runs == <<pc, owned, cleanupErrors, outcome, child>>
domains == <<domainAt, active>>
files == <<diskAt, manifestAt, serialAt, logAt, workDirs>>
book == <<unrecorded, deleted>>
installVars == <<runs, cancelled, domains, files, book>>

Names == {VmName[r] : r \in Runs}
Disks == {Disk[r] : r \in Runs}
Outputs == {Output[r] : r \in Runs}

\* The phases at which the flag is polled; "manifest" is not one of them.
Polling == {"preflight", "workspace", "disk", "domain", "launch", "installing",
            "committing", "starting", "verifying", "cleanup"}
Steps == Polling \union {"planning", "manifest", "failed", "rollbackDomain",
                         "rollbackDisk", "rollbackFiles", "ended"}
Outcomes == {"none", "ok", "rejected", "cleaned", "dirty", "preserved", "killed"}

InstallInit ==
  /\ pc = [r \in Runs |-> "planning"]
  /\ owned = [r \in Runs |-> {}]
  /\ cleanupErrors = {}
  /\ outcome = [r \in Runs |-> "none"]
  /\ cancelled = {}
  /\ child = [r \in Runs |-> "none"]
  /\ domainAt = [n \in Names |-> Nobody]
  /\ active = {}
  /\ diskAt = [d \in Disks |-> Nobody]
  /\ manifestAt = [o \in Outputs |-> Nobody]
  /\ serialAt = [o \in Outputs |-> Nobody]
  /\ logAt = [o \in Outputs |-> Nobody]
  /\ workDirs = {}
  /\ unrecorded = [r \in Runs |-> {}]
  /\ deleted = {}

-----------------------------------------------------------------------------
(* Steps of a run.                                                           *)

Goto(r, step) == pc' = [pc EXCEPT ![r] = step]

Own(r, what) == owned' = [owned EXCEPT ![r] = @ \union {what}]

End(r, how) ==
  /\ Goto(r, "ended")
  /\ outcome' = [outcome EXCEPT ![r] = how]

\* InstallControl::phase lets the run go on from here.
Proceed(r, step) == pc[r] = step /\ r \notin cancelled

Plan(r) ==
  /\ pc[r] = "planning"
  /\ r \notin cancelled
  /\ Goto(r, "preflight")
  /\ UNCHANGED <<owned, cleanupErrors, outcome, child, cancelled, domains, files, book>>

\* Every destination and the VM name are free; nothing keeps them so.
Preflight(r) ==
  /\ Proceed(r, "preflight")
  /\ diskAt[Disk[r]] = Nobody
  /\ manifestAt[Output[r]] = Nobody
  /\ serialAt[Output[r]] = Nobody
  /\ logAt[Output[r]] = Nobody
  /\ domainAt[VmName[r]] = Nobody
  /\ Goto(r, "workspace")
  /\ UNCHANGED <<owned, cleanupErrors, outcome, child, cancelled, domains, files, book>>

\* Between create_dir and the assignment that remembers it, chmod may fail.
MakeWorkDir(r) ==
  /\ Proceed(r, "workspace")
  /\ workDirs' = workDirs \union {r}
  /\ \/ Goto(r, "disk") /\ Own(r, "workDir") /\ UNCHANGED unrecorded
     \/ /\ Goto(r, "failed")
        /\ unrecorded' = [unrecorded EXCEPT ![r] = @ \union {"workDir"}]
        /\ UNCHANGED owned
  /\ UNCHANGED <<cleanupErrors, outcome, child, cancelled, domains, diskAt,
                 manifestAt, serialAt, logAt, deleted>>

\* create_disk_atomic: hard_link never replaces a file.  The stat that follows
\* gives the identity; when it fails the disk is there but not remembered.
CreateDiskAtomic(r) ==
  /\ Proceed(r, "disk")
  /\ diskAt[Disk[r]] = Nobody
  /\ diskAt' = [diskAt EXCEPT ![Disk[r]] = r]
  /\ \/ Goto(r, "domain") /\ Own(r, "disk") /\ UNCHANGED unrecorded
     \/ /\ Goto(r, "failed")
        /\ unrecorded' = [unrecorded EXCEPT ![r] = @ \union {"disk"}]
        /\ UNCHANGED owned
  /\ UNCHANGED <<cleanupErrors, outcome, child, cancelled, domains, manifestAt,
                 serialAt, logAt, workDirs, deleted>>

(***************************************************************************)
(* As in JobService, a definition whose name begins with "Bug" is how the  *)
(* one after it would read with a plausible mistake; nothing uses it.      *)
(***************************************************************************)

\* The UUID is remembered only when the domain has been defined.
BugDefineNew(r) ==
  /\ Proceed(r, "domain")
  /\ domainAt[VmName[r]] = Nobody
  /\ domainAt' = [domainAt EXCEPT ![VmName[r]] = r]
  /\ \/ Goto(r, "launch") /\ Own(r, "domain")
     \/ Goto(r, "failed") /\ UNCHANGED owned
  /\ UNCHANGED <<cleanupErrors, outcome, child, cancelled, active, files, book>>

\* define_new_by_manifest under a fresh UUID, remembered beforehand: libvirt
\* refuses a second domain of the name, and the answer to a define may be lost.
DefineNew(r) ==
  /\ Proceed(r, "domain")
  /\ Own(r, "domain")
  /\ \/ /\ domainAt[VmName[r]] = Nobody
        /\ domainAt' = [domainAt EXCEPT ![VmName[r]] = r]
        /\ Goto(r, "launch") \/ Goto(r, "failed")
     \/ Goto(r, "failed") /\ UNCHANGED domainAt
  /\ UNCHANGED <<cleanupErrors, outcome, child, cancelled, active, files, book>>

\* run_virt_install up to the spawn: the log must be new, the spawn may fail.
LaunchVirtInstall(r) ==
  /\ Proceed(r, "launch")
  /\ logAt[Output[r]] = Nobody
  /\ logAt' = [logAt EXCEPT ![Output[r]] = r]
  /\ \/ Goto(r, "installing") /\ child' = [child EXCEPT ![r] = "running"]
     \/ Goto(r, "failed") /\ UNCHANGED child
  /\ UNCHANGED <<owned, cleanupErrors, outcome, cancelled, domains, diskAt,
                 manifestAt, serialAt, workDirs, book>>

\* The loop has no deadline.
BugWaitVirtInstall(r) ==
  /\ pc[r] = "installing"
  /\ r \in cancelled \/ child[r] # "running"
  /\ child' = [child EXCEPT ![r] = "none"]
  /\ Goto(r, IF child[r] = "succeeded" THEN "committing" ELSE "failed")
  /\ UNCHANGED <<owned, cleanupErrors, outcome, cancelled, domains, files, book>>

\* One turn of the wait loop: cancelled, exited, or out of time.  The child is
\* killed first, its domain is left as it is.
WaitVirtInstall(r) ==
  /\ pc[r] = "installing"
  /\ \/ /\ r \in cancelled \/ child[r] = "running"
        /\ child' = [child EXCEPT ![r] = "none"]
        /\ Goto(r, "failed")
     \/ /\ r \notin cancelled
        /\ child[r] \in {"succeeded", "failed"}
        /\ Goto(r, IF child[r] = "succeeded" THEN "committing" ELSE "failed")
        /\ UNCHANGED child
  /\ UNCHANGED <<owned, cleanupErrors, outcome, cancelled, domains, files, book>>

\* committed is set once the final XML is applied.
Commit(r) ==
  /\ Proceed(r, "committing")
  /\ VmName[r] \notin active
  /\ domainAt[VmName[r]] # Nobody
  /\ Own(r, "committed")
  /\ Goto(r, "manifest")
  /\ UNCHANGED <<cleanupErrors, outcome, child, cancelled, domains, files, book>>

\* write_atomic: hard_link again, and no poll before it.
WriteManifest(r) ==
  /\ pc[r] = "manifest"
  /\ manifestAt[Output[r]] = Nobody
  /\ manifestAt' = [manifestAt EXCEPT ![Output[r]] = r]
  /\ Goto(r, "starting")
  /\ UNCHANGED <<owned, cleanupErrors, outcome, child, cancelled, domains, diskAt,
                 serialAt, logAt, workDirs, book>>

\* The domain's serial log appears when the domain starts.
StartVm(r) ==
  /\ Proceed(r, "starting")
  /\ domainAt[VmName[r]] # Nobody
  /\ active' = active \union {VmName[r]}
  /\ serialAt' = [serialAt EXCEPT ![Output[r]] = IF @ = Nobody THEN r ELSE @]
  /\ Goto(r, "verifying")
  /\ UNCHANGED <<owned, cleanupErrors, outcome, child, cancelled, domainAt, diskAt,
                 manifestAt, logAt, workDirs, book>>

VerifyGuest(r) ==
  /\ Proceed(r, "verifying")
  /\ Goto(r, "cleanup")
  /\ UNCHANGED <<owned, cleanupErrors, outcome, child, cancelled, domains, files, book>>

Cleanup(r) ==
  /\ Proceed(r, "cleanup")
  /\ workDirs' = workDirs \ {r}
  /\ owned' = [owned EXCEPT ![r] = @ \ {"workDir"}]
  /\ End(r, "ok")
  /\ UNCHANGED <<cleanupErrors, child, cancelled, domains, diskAt, manifestAt,
                 serialAt, logAt, book>>

\* Any command may fail, the verification may run out of time, a destination
\* may be taken, a poll may see the flag: the error is returned.  The wait for
\* virt-install has its own ways to fail.
Fail(r) ==
  /\ pc[r] \in (Polling \ {"installing"}) \union {"planning", "manifest"}
  /\ IF pc[r] \in {"planning", "preflight"}
     THEN End(r, "rejected")
     ELSE Goto(r, "failed") /\ UNCHANGED outcome
  /\ UNCHANGED <<owned, cleanupErrors, child, cancelled, domains, files, book>>

-----------------------------------------------------------------------------
(* What install_fedora_with_control does with an error of execute_install.   *)

RollsBack(r) == "committed" \notin owned[r] /\ r \notin KeepFailed

\* A committed VM is preserved and only the work directory goes, if it can.
HandleError(r) ==
  /\ pc[r] = "failed"
  /\ \/ /\ RollsBack(r)
        /\ Goto(r, "rollbackDomain")
        /\ UNCHANGED <<owned, outcome, workDirs>>
     \/ /\ ~RollsBack(r)
        /\ End(r, "preserved")
        /\ IF r \in KeepFailed
           THEN UNCHANGED <<owned, workDirs>>
           ELSE /\ owned' = [owned EXCEPT ![r] = @ \ {"workDir"}]
                /\ workDirs' = workDirs \ (IF "workDir" \in owned[r] THEN {r} ELSE {})
                   \/ UNCHANGED workDirs
  /\ UNCHANGED <<cleanupErrors, child, cancelled, domains, diskAt, manifestAt, serialAt,
                 logAt, book>>

\* remove_owned_domain: found by its UUID, it is stopped and undefined; not
\* found, the name must be free too.  Otherwise the domain stays "owned".
RollbackDomain(r) ==
  /\ pc[r] = "rollbackDomain"
  /\ \/ /\ "domain" \in owned[r] => domainAt[VmName[r]] \in {r, Nobody}
        /\ owned' = [owned EXCEPT ![r] = @ \ {"domain"}]
        /\ IF "domain" \in owned[r] /\ domainAt[VmName[r]] = r
           THEN /\ domainAt' = [domainAt EXCEPT ![VmName[r]] = Nobody]
                /\ active' = active \ {VmName[r]}
           ELSE UNCHANGED domains
        /\ UNCHANGED cleanupErrors
     \/ /\ "domain" \in owned[r]
        /\ r \in CleanupMayFail \/ domainAt[VmName[r]] \notin {r, Nobody}
        /\ cleanupErrors' = cleanupErrors \union {r}
        /\ \/ UNCHANGED active
           \/ domainAt[VmName[r]] = r /\ active' = active \ {VmName[r]}
        /\ UNCHANGED <<owned, domainAt>>
  /\ Goto(r, "rollbackDisk")
  /\ UNCHANGED <<outcome, child, cancelled, files, book>>

\* The file is removed without comparing its device and inode.
BugRemovable(r) == "domain" \notin owned[r] /\ "disk" \in owned[r]

\* The file is removed although the domain may still be there.
BugRemovableBeforeDomain(r) == "disk" \in owned[r] /\ diskAt[Disk[r]] = r

\* The disk goes only after the domain, and only if it still is the same file.
Removable(r) ==
  /\ "domain" \notin owned[r]
  /\ "disk" \in owned[r]
  /\ diskAt[Disk[r]] = r

RollbackDisk(r) ==
  /\ pc[r] = "rollbackDisk"
  /\ \/ /\ Removable(r)
        /\ diskAt' = [diskAt EXCEPT ![Disk[r]] = Nobody]
        /\ owned' = [owned EXCEPT ![r] = @ \ {"disk"}]
        /\ UNCHANGED cleanupErrors
     \/ /\ "domain" \notin owned[r] /\ "disk" \in owned[r]
        /\ \/ r \in CleanupMayFail /\ diskAt[Disk[r]] # Nobody
           \/ diskAt[Disk[r]] \notin {r, Nobody}
        /\ cleanupErrors' = cleanupErrors \union {r}
        /\ UNCHANGED <<diskAt, owned>>
     \/ /\ "domain" \in owned[r] \/ "disk" \notin owned[r] \/ diskAt[Disk[r]] = Nobody
        /\ UNCHANGED <<diskAt, owned, cleanupErrors>>
  /\ Goto(r, "rollbackFiles")
  /\ UNCHANGED <<outcome, child, cancelled, domains, manifestAt, serialAt, logAt,
                 workDirs, book>>

\* The serial log, whosever it is, and the work directory; each may resist.
RollbackFiles(r) ==
  /\ pc[r] = "rollbackFiles"
  /\ LET serial == "domain" \notin owned[r] /\ serialAt[Output[r]] # Nobody
         present == {x \in {"serial", "workDir"} :
                       IF x = "serial" THEN serial ELSE "workDir" \in owned[r]}
     IN \E gone \in SUBSET present :
          /\ r \notin CleanupMayFail => gone = present
          /\ serialAt' = [serialAt EXCEPT ![Output[r]] = IF "serial" \in gone THEN Nobody ELSE @]
          /\ workDirs' = IF "workDir" \in gone THEN workDirs \ {r} ELSE workDirs
          /\ cleanupErrors' = IF gone = present THEN cleanupErrors ELSE cleanupErrors \union {r}
          /\ End(r, IF r \in cleanupErrors' THEN "dirty" ELSE "cleaned")
  /\ owned' = [owned EXCEPT ![r] = @ \ {"workDir"}]
  /\ UNCHANGED <<child, cancelled, domains, diskAt, manifestAt, logAt, book>>

-----------------------------------------------------------------------------
(* The rest of the host.                                                     *)

\* virt-install starts the domain it reinstalls.
ChildStartsVm(r) ==
  /\ child[r] = "running"
  /\ domainAt[VmName[r]] = r
  /\ active' = active \union {VmName[r]}
  /\ serialAt' = [serialAt EXCEPT ![Output[r]] = IF @ = Nobody THEN r ELSE @]
  /\ UNCHANGED <<runs, cancelled, domainAt, diskAt, manifestAt, logAt, workDirs, book>>

\* It ends when the guest has powered off, or with an error at any time.
ChildExits(r) ==
  /\ child[r] = "running"
  /\ \/ /\ child' = [child EXCEPT ![r] = "succeeded"]
        /\ domainAt[VmName[r]] = r
        /\ active' = active \ {VmName[r]}
     \/ child' = [child EXCEPT ![r] = "failed"] /\ UNCHANGED active
  /\ UNCHANGED <<pc, owned, cleanupErrors, outcome, cancelled, domainAt, files, book>>

Cancel(r) ==
  /\ r \notin cancelled
  /\ pc[r] # "ended"
  /\ cancelled' = cancelled \union {r}
  /\ UNCHANGED <<runs, domains, files, book>>

\* The process is killed where it stands; virt-install is another process.
Kill(r) ==
  /\ pc[r] # "ended"
  /\ End(r, "killed")
  /\ UNCHANGED <<owned, cleanupErrors, child, cancelled, domains, files, book>>

\* Another program deletes a disk image that no domain uses: the image handlers
\* of the server know of the reservations of jobs, not of a command-line run.
OtherDeletesDisk(d) ==
  /\ diskAt[d] # Nobody
  /\ \A r \in Runs : Disk[r] = d => domainAt[VmName[r]] # r
  /\ diskAt' = [diskAt EXCEPT ![d] = Nobody]
  /\ deleted' = deleted \union {d}
  /\ UNCHANGED <<runs, cancelled, domains, manifestAt, serialAt, logAt, workDirs, unrecorded>>

-----------------------------------------------------------------------------

ExecuteInstall(r) ==
  \/ MakeWorkDir(r) \/ CreateDiskAtomic(r) \/ DefineNew(r) \/ LaunchVirtInstall(r)
  \/ WaitVirtInstall(r) \/ Commit(r) \/ WriteManifest(r) \/ StartVm(r)
  \/ VerifyGuest(r) \/ Cleanup(r)

Rollback(r) == RollbackDomain(r) \/ RollbackDisk(r) \/ RollbackFiles(r)

Run(r) ==
  \/ Plan(r) \/ Preflight(r) \/ ExecuteInstall(r)
  \/ Fail(r) \/ HandleError(r) \/ Rollback(r)

InstallNext ==
  \/ \E r \in Runs : Run(r) \/ ChildStartsVm(r) \/ ChildExits(r) \/ Cancel(r) \/ Kill(r)
  \/ \E d \in Disks : OtherDeletesDisk(d)

InstallSpec == InstallInit /\ [][InstallNext]_installVars

\* A run takes its next step: every wait in it has a deadline.  Nothing is
\* assumed of virt-install or of the callers.
FairSpec == InstallSpec /\ \A r \in Runs : WF_installVars(Run(r))

-----------------------------------------------------------------------------
(* Properties.                                                               *)

RunTypeOK ==
  /\ pc \in [Runs -> Steps]
  /\ owned \in [Runs -> SUBSET {"workDir", "disk", "domain", "committed"}]
  /\ outcome \in [Runs -> Outcomes]
  /\ child \in [Runs -> {"none", "running", "succeeded", "failed"}]
  /\ cleanupErrors \union cancelled \union workDirs \subseteq Runs

HostTypeOK ==
  /\ domainAt \in [Names -> Runs \union {Nobody}]
  /\ active \subseteq Names
  /\ diskAt \in [Disks -> Runs \union {Nobody}]
  /\ manifestAt \in [Outputs -> Runs \union {Nobody}]
  /\ serialAt \in [Outputs -> Runs \union {Nobody}]
  /\ logAt \in [Outputs -> Runs \union {Nobody}]
  /\ unrecorded \in [Runs -> SUBSET {"workDir", "disk"}]
  /\ deleted \subseteq Disks

InstallTypeOK == RunTypeOK /\ HostTypeOK

\* What a step may take from run r: its disk and its domain only by its own
\* rollback, and neither from its commit on.
TakesOnlyBack(r) ==
  /\ diskAt[Disk[r]] = r /\ diskAt'[Disk[r]] # r /\ pc' # pc =>
       pc[r] = "rollbackDisk" /\ pc'[r] = "rollbackFiles"
  /\ domainAt[VmName[r]] = r /\ domainAt'[VmName[r]] # r =>
       pc[r] = "rollbackDomain" /\ pc'[r] = "rollbackDisk"
  /\ "committed" \in owned[r] =>
       /\ domainAt[VmName[r]] = r => domainAt'[VmName[r]] = r
       /\ diskAt[Disk[r]] = r => diskAt'[Disk[r]] = r

\* Whatever the runs race for and whoever deletes a disk under them, a run
\* removes a disk only if it made it, and a domain only if it defined it, and
\* neither from its commit on, whatever fails or is cancelled later.
OnlyOwnRemoved == [][\A r \in Runs : TakesOnlyBack(r)]_installVars

\* No failure leaves a domain without the disk it was defined with: the
\* rollback keeps the disk whenever the domain could not be removed.
DomainKeepsItsDisk ==
  /\ InstallTypeOK
  /\ \A r \in Runs :
       domainAt[VmName[r]] = r => diskAt[Disk[r]] = r \/ Disk[r] \in deleted

\* What a run answers is true, whoever it raced: success leaves a defined VM,
\* its manifest and no work directory; a rollback that reports no error leaves
\* nothing the run remembers as its own, even when the define failed after
\* libvirt had carried it out.
OutcomeIsTrue ==
  \A r \in Runs :
    /\ outcome[r] = "ok" =>
         domainAt[VmName[r]] = r /\ manifestAt[Output[r]] = r /\ r \notin workDirs
    /\ outcome[r] = "cleaned" =>
         /\ domainAt[VmName[r]] # r
         /\ diskAt[Disk[r]] = r => "disk" \in unrecorded[r]
         /\ r \in workDirs => "workDir" \in unrecorded[r]

\* Every installation ends: neither a hanging virt-install nor another run nor
\* a failing rollback keeps it waiting.
RunsEnd == \A r \in Runs : <>(pc[r] = "ended")

=============================================================================
