------------------------------ MODULE DirectVm ------------------------------
(***************************************************************************)
(* One direct VM (src/src/direct_vm.rs): a Cloud Hypervisor process and    *)
(* the passt process of its user network, started, stopped and removed by  *)
(* short-lived qtr commands.  No daemon watches the processes.  What one   *)
(* command knows of an earlier one are two PID files and two Unix sockets  *)
(* in the VM's directory, and a command can be killed between any two of   *)
(* its steps.  A PID is a number that the system gives to another process  *)
(* once its owner is gone.                                                 *)
(***************************************************************************)

CONSTANTS
  Clients,    \* qtr commands that run at the same time
  Pids,       \* process numbers
  Nobody,     \* no client holds the operation lock
  NoPid,      \* no process, or no PID file
  Sandboxed   \* whether /proc/<pid>/fd of passt may not be read

ASSUME DirectVmAssumption ==
  /\ Nobody \notin Clients
  /\ NoPid \notin Pids
  /\ Sandboxed \in BOOLEAN

VARIABLES
  \* each command
  pc,          \* its next step
  op,          \* which command it is
  childVmm,    \* the Cloud Hypervisor process start has spawned
  childNet,    \* the passt process start has spawned
  target,      \* the process stop is waiting for or about to signal
  gone,        \* the clients whose pidfd refers to a process that has ended
  \* the state root
  lockHolder,  \* who holds the flock on .locks/<name>.lock
  dir,         \* the VM's directory: "absent", "bare" (no manifest), "defined"
  vmmPid,      \* vmm.pid
  passtPid,    \* passt.pid
  apiFile,     \* whether api.sock exists
  netFile,     \* whether network.sock exists
  \* the host
  proc,        \* the process that has each number
  \* bookkeeping of the model
  unrecorded   \* live processes whose start was killed before it wrote the PID

locals == <<op, childVmm, childNet, target, gone>>
root == <<dir, vmmPid, passtPid, apiFile, netFile>>
vars == <<pc, locals, lockHolder, root, proc, unrecorded>>

\* A process of the VM has its socket ("Bound") or not yet.
Vmms == {"vmm", "vmmBound"}
Passts == {"passt", "passtBound"}
Kinds == {"free", "foreign"} \union Vmms \union Passts

Ops == {"none", "define", "start", "stop", "rm"}
Steps == {"idle", "lock", "createDir", "writeManifest", "vmmStatus",
          "networkStatus", "sweepSockets", "sweepPids", "spawnPasst",
          "recordPasst", "awaitPasst", "killPasst", "dropNetwork", "spawnVmm",
          "recordVmm", "awaitVmm", "stopVmm", "stopPasst", "request",
          "awaitExit", "awaitNetwork", "pin", "verify", "signal", "removeDir"}

Init ==
  /\ pc = [c \in Clients |-> "idle"]
  /\ op = [c \in Clients |-> "none"]
  /\ childVmm = [c \in Clients |-> NoPid]
  /\ childNet = [c \in Clients |-> NoPid]
  /\ target = [c \in Clients |-> NoPid]
  /\ gone = {}
  /\ lockHolder = Nobody
  /\ dir = "absent"
  /\ vmmPid = NoPid
  /\ passtPid = NoPid
  /\ apiFile = FALSE
  /\ netFile = FALSE
  /\ proc = [p \in Pids |-> "free"]
  /\ unrecorded = {}

-----------------------------------------------------------------------------
(* What a command finds out about the processes.                             *)

Alive(p) == p # NoPid /\ proc[p] # "free"

\* unix_socket_state: some process has a socket bound to the path, even if the
\* file is gone.
ApiActive == \E p \in Pids : proc[p] = "vmmBound"
NetActive == \E p \in Pids : proc[p] = "passtBound"

(***************************************************************************)
(* A definition whose name begins with "Bug" is how the one after it would *)
(* read with a plausible mistake in the code; nothing uses it.             *)
(***************************************************************************)

\* A live PID that is not the expected process is taken for a leftover.
BugVmmStopped ==
  /\ ~(Alive(vmmPid) /\ proc[vmmPid] = "vmmBound")
  /\ ~ApiActive

\* vmm_process_status.  A live PID that is not Stopped and not Running is Stale,
\* a socket without a live PID is Untracked.
VmmStopped == ~Alive(vmmPid) /\ ~ApiActive
VmmRunning == Alive(vmmPid) /\ proc[vmmPid] = "vmmBound"

\* passt_process_matches and process_owns_unix_socket(...) != Some(false)
LooksLikePasst(p) == proc[p] \in (IF Sandboxed THEN Passts ELSE {"passtBound"})

\* network_process_status.  Without a live PID the process table is searched for
\* the only passt with this socket.
NetworkStopped == ~Alive(passtPid) /\ ~NetActive
NetworkRunning(p) ==
  /\ NetActive
  /\ LooksLikePasst(p)
  /\ \/ passtPid = p
     \/ ~Alive(passtPid) /\ \A q \in Pids : LooksLikePasst(q) => q = p

-----------------------------------------------------------------------------
(* A command begins, takes the operation lock, and ends.                     *)

Goto(c, step) == pc' = [pc EXCEPT ![c] = step]

\* The command returns or dies: its handles go and the flock with them.
Leave(c) ==
  /\ Goto(c, "idle")
  /\ op' = [op EXCEPT ![c] = "none"]
  /\ childVmm' = [childVmm EXCEPT ![c] = NoPid]
  /\ childNet' = [childNet EXCEPT ![c] = NoPid]
  /\ target' = [target EXCEPT ![c] = NoPid]
  /\ gone' = gone \ {c}
  /\ lockHolder' = IF lockHolder = c THEN Nobody ELSE lockHolder

Continue(c, step) == Goto(c, step) /\ UNCHANGED <<locals, lockHolder>>

\* existing_paths, before the lock: the directory with a manifest must be there.
Begin(c, o) ==
  /\ pc[c] = "idle"
  /\ o \in Ops \ {"none"}
  /\ o # "define" => dir = "defined"
  /\ Goto(c, "lock")
  /\ op' = [op EXCEPT ![c] = o]
  /\ UNCHANGED <<childVmm, childNet, target, gone, lockHolder, root, proc, unrecorded>>

\* The lock is not taken.
BugLock(c) ==
  /\ pc[c] = "lock"
  /\ Continue(c, IF op[c] = "define" THEN "createDir" ELSE "vmmStatus")
  /\ UNCHANGED <<root, proc, unrecorded>>

\* try_lock does not wait.
Lock(c) ==
  /\ pc[c] = "lock"
  /\ IF lockHolder = Nobody
     THEN /\ lockHolder' = c
          /\ Goto(c, IF op[c] = "define" THEN "createDir" ELSE "vmmStatus")
          /\ UNCHANGED locals
     ELSE Leave(c)
  /\ UNCHANGED <<root, proc, unrecorded>>

-----------------------------------------------------------------------------
(* define                                                                    *)

CreateDir(c) ==
  /\ pc[c] = "createDir"
  /\ IF dir = "absent"
     THEN dir' = "bare" /\ (Continue(c, "writeManifest") \/ Leave(c))
     ELSE UNCHANGED dir /\ Leave(c)
  /\ UNCHANGED <<vmmPid, passtPid, apiFile, netFile, proc, unrecorded>>

\* When the manifest cannot be written the directory is removed, if it can be.
WriteManifest(c) ==
  /\ pc[c] = "writeManifest"
  /\ dir' \in {"defined", "absent", "bare"}
  /\ Leave(c)
  /\ UNCHANGED <<vmmPid, passtPid, apiFile, netFile, proc, unrecorded>>

-----------------------------------------------------------------------------
(* runtime_status, the VMM first.  Only a stopped VMM makes the network      *)
(* matter: otherwise start and rm refuse, and stop asks a running VMM.       *)

VmmStatus(c) ==
  /\ pc[c] = "vmmStatus"
  /\ \/ dir = "defined" /\ VmmStopped /\ Continue(c, "networkStatus")
     \/ /\ dir = "defined" /\ op[c] = "stop" /\ VmmRunning
        /\ Goto(c, "request")
        /\ target' = [target EXCEPT ![c] = vmmPid]
        /\ UNCHANGED <<op, childVmm, childNet, gone, lockHolder>>
     \/ /\ dir = "defined" => ~VmmStopped /\ ~(op[c] = "stop" /\ VmmRunning)
        /\ Leave(c)
  /\ UNCHANGED <<root, proc, unrecorded>>

\* stop goes on to terminate the passt it has found.
Aim(c, p) ==
  /\ Goto(c, "pin")
  /\ target' = [target EXCEPT ![c] = p]
  /\ UNCHANGED <<op, childVmm, childNet, gone, lockHolder>>

NetworkStatus(c) ==
  /\ pc[c] = "networkStatus"
  /\ \/ /\ NetworkStopped
        /\ Continue(c, IF op[c] = "rm" THEN "removeDir" ELSE "sweepSockets")
     \/ \E p \in Pids : op[c] = "stop" /\ NetworkRunning(p) /\ Aim(c, p)
     \/ /\ ~NetworkStopped
        /\ op[c] = "stop" => \A p \in Pids : ~NetworkRunning(p)
        /\ Leave(c)
  /\ UNCHANGED <<root, proc, unrecorded>>

-----------------------------------------------------------------------------
(* remove_stale_runtime: the sockets, then the PID files.                    *)

\* An active socket stops it half-way.
SweepSockets(c) ==
  /\ pc[c] = "sweepSockets"
  /\ apiFile' = (apiFile /\ ApiActive)
  /\ netFile' = (netFile /\ (ApiActive \/ NetActive))
  /\ IF ApiActive \/ NetActive THEN Leave(c) ELSE Continue(c, "sweepPids")
  /\ UNCHANGED <<dir, vmmPid, passtPid, proc, unrecorded>>

\* start sweeps before it spawns anything, and again when it has failed.
SweepPids(c) ==
  /\ pc[c] = "sweepPids"
  /\ vmmPid' = NoPid
  /\ passtPid' = NoPid
  /\ IF op[c] = "start" /\ childNet[c] = NoPid THEN Continue(c, "spawnPasst") ELSE Leave(c)
  /\ UNCHANGED <<dir, apiFile, netFile, proc, unrecorded>>

-----------------------------------------------------------------------------
(* start                                                                     *)

\* A child that has not been waited for keeps its number.
Unused(p) ==
  proc[p] = "free" /\ \A c \in Clients : p \notin {childVmm[c], childNet[c]}

\* validate_runtime_resources, the log files, the prerequisites of passt and
\* the spawn itself may fail.
SpawnPasst(c) ==
  /\ pc[c] = "spawnPasst"
  /\ \/ /\ \E p \in Pids :
             /\ Unused(p)
             /\ proc' = [proc EXCEPT ![p] = "passt"]
             /\ childNet' = [childNet EXCEPT ![c] = p]
        /\ Goto(c, "recordPasst")
        /\ UNCHANGED <<op, childVmm, target, gone, lockHolder>>
     \/ Leave(c) /\ UNCHANGED proc
  /\ UNCHANGED <<root, unrecorded>>

RecordPasst(c) ==
  /\ pc[c] = "recordPasst"
  /\ \/ passtPid' = childNet[c] /\ Continue(c, "awaitPasst")
     \/ Continue(c, "killPasst") /\ UNCHANGED passtPid
  /\ UNCHANGED <<dir, vmmPid, apiFile, netFile, proc, unrecorded>>

\* The socket appears; or passt exits, or the time is up.
AwaitPasst(c) ==
  /\ pc[c] = "awaitPasst"
  /\ \/ netFile /\ Alive(childNet[c]) /\ Continue(c, "spawnVmm")
     \/ Continue(c, "killPasst")
  /\ UNCHANGED <<root, proc, unrecorded>>

\* Whatever is left of the processes in ps gets SIGKILL; a killed process does not
\* remove its socket file.
Kill9(ps) ==
  /\ proc' = [p \in Pids |-> IF p \in ps THEN "free" ELSE proc[p]]
  /\ gone' = gone \union {c \in Clients : pc[c] \in {"verify", "signal"} /\ target[c] \in ps}
  /\ unrecorded' = unrecorded \ ps

\* start_passt gives up: stop_spawned_network and remove_network_runtime.
KillPasst(c) ==
  /\ pc[c] = "killPasst"
  /\ Kill9({childNet[c]})
  /\ Goto(c, "dropNetwork")
  /\ UNCHANGED <<op, childVmm, childNet, target, lockHolder, root>>

DropNetwork(c) ==
  /\ pc[c] = "dropNetwork"
  /\ IF NetActive
     THEN UNCHANGED <<netFile, passtPid>>
     ELSE netFile' = FALSE /\ passtPid' = NoPid
  /\ Leave(c)
  /\ UNCHANGED <<dir, vmmPid, apiFile, proc, unrecorded>>

SpawnVmm(c) ==
  /\ pc[c] = "spawnVmm"
  /\ \/ /\ \E p \in Pids :
             /\ Unused(p)
             /\ proc' = [proc EXCEPT ![p] = "vmm"]
             /\ childVmm' = [childVmm EXCEPT ![c] = p]
        /\ Goto(c, "recordVmm")
        /\ UNCHANGED <<op, childNet, target, gone, lockHolder>>
     \/ Continue(c, "stopPasst") /\ UNCHANGED proc
  /\ UNCHANGED <<root, unrecorded>>

RecordVmm(c) ==
  /\ pc[c] = "recordVmm"
  /\ \/ vmmPid' = childVmm[c] /\ Continue(c, "awaitVmm")
     \/ Continue(c, "stopVmm") /\ UNCHANGED vmmPid
  /\ UNCHANGED <<dir, passtPid, apiFile, netFile, proc, unrecorded>>

\* The API answers that the VM runs and passt is still there: start is done.
\* passt or the VMM exits, a query fails, or the time is up: it is undone.
AwaitVmm(c) ==
  /\ pc[c] = "awaitVmm"
  /\ \/ apiFile /\ ApiActive /\ Alive(childNet[c]) /\ Leave(c)
     \/ Continue(c, "stopVmm")
  /\ UNCHANGED <<root, proc, unrecorded>>

\* stop_spawned_child asks for vmm.shutdown first.  The VMM may end at any time
\* in this model, so only the SIGKILL that follows is left.
StopVmm(c) ==
  /\ pc[c] = "stopVmm"
  /\ Kill9({childVmm[c]})
  /\ Goto(c, "stopPasst")
  /\ UNCHANGED <<op, childVmm, childNet, target, lockHolder, root>>

StopPasst(c) ==
  /\ pc[c] = "stopPasst"
  /\ Kill9({childNet[c]})
  /\ Goto(c, "sweepSockets")
  /\ UNCHANGED <<op, childVmm, childNet, target, lockHolder, root>>

-----------------------------------------------------------------------------
(* stop, with or without --force                                             *)

Request(c) ==
  /\ pc[c] = "request"
  /\ (ApiActive /\ Continue(c, "awaitExit")) \/ Leave(c)
  /\ UNCHANGED <<root, proc, unrecorded>>

\* The loop has no deadline.
BugAwaitExit(c) ==
  /\ pc[c] = "awaitExit"
  /\ proc[target[c]] \notin Vmms
  /\ Continue(c, "awaitNetwork")
  /\ UNCHANGED <<root, proc, unrecorded>>

AwaitExit(c) ==
  /\ pc[c] = "awaitExit"
  /\ IF proc[target[c]] \in Vmms THEN Leave(c) ELSE Continue(c, "awaitNetwork")
  /\ UNCHANGED <<root, proc, unrecorded>>

\* The network is not waited for: passt ends by itself when the VMM has gone.
BugAwaitNetwork(c) ==
  /\ pc[c] = "awaitNetwork"
  /\ vmmPid' = NoPid
  /\ passtPid' = NoPid
  /\ Leave(c)
  /\ UNCHANGED <<dir, apiFile, netFile, proc, unrecorded>>

\* wait_for_network_shutdown: passt gets its time to end, then it is terminated.
AwaitNetwork(c) ==
  /\ pc[c] = "awaitNetwork"
  /\ \/ NetworkStopped /\ Continue(c, "sweepSockets")
     \/ \E p \in Pids : NetworkRunning(p) /\ Aim(c, p)
     \/ /\ ~NetworkStopped /\ \A p \in Pids : ~NetworkRunning(p)
        /\ Leave(c)
  /\ UNCHANGED <<root, proc, unrecorded>>

\* terminate_passt opens a pidfd on whatever process has the number now.
Pin(c) ==
  /\ pc[c] = "pin"
  /\ Goto(c, IF Alive(target[c]) THEN "verify" ELSE "sweepSockets")
  /\ UNCHANGED <<locals, lockHolder, root, proc, unrecorded>>

\* The process is not verified again once it is pinned.
BugVerify(c) ==
  /\ pc[c] = "verify"
  /\ Continue(c, "signal")
  /\ UNCHANGED <<root, proc, unrecorded>>

\* What has the number is verified once more, by its number.
Verify(c) ==
  /\ pc[c] = "verify"
  /\ \/ NetActive /\ LooksLikePasst(target[c]) /\ Continue(c, "signal")
     \/ /\ ~(NetActive /\ LooksLikePasst(target[c]))
        /\ IF c \in gone THEN Continue(c, "sweepSockets") ELSE Leave(c)
  /\ UNCHANGED <<root, proc, unrecorded>>

\* SIGTERM, then SIGKILL, through the pidfd: nothing if its process has ended.
Signal(c) ==
  /\ pc[c] = "signal"
  /\ IF c \in gone THEN UNCHANGED <<proc, gone, unrecorded>> ELSE Kill9({target[c]})
  /\ Goto(c, "sweepSockets")
  /\ UNCHANGED <<op, childVmm, childNet, target, lockHolder, root>>

-----------------------------------------------------------------------------
(* rm                                                                        *)

\* remove_dir_all may stop half-way, with the manifest and any files gone.
RemoveDir(c) ==
  /\ pc[c] = "removeDir"
  /\ dir' \in {"absent", "bare", "defined"}
  /\ vmmPid' \in {vmmPid, NoPid} /\ passtPid' \in {passtPid, NoPid}
  /\ apiFile' \in {apiFile, FALSE} /\ netFile' \in {netFile, FALSE}
  /\ dir' = "absent" =>
       vmmPid' = NoPid /\ passtPid' = NoPid /\ apiFile' = FALSE /\ netFile' = FALSE
  /\ Leave(c)
  /\ UNCHANGED <<proc, unrecorded>>

-----------------------------------------------------------------------------
(* The host.                                                                 *)

\* A process of the VM makes its socket unless the file exists.
Bind(p) ==
  /\ dir # "absent"
  /\ \/ /\ proc[p] = "vmm" /\ ~apiFile
        /\ proc' = [proc EXCEPT ![p] = "vmmBound"]
        /\ apiFile' = TRUE
        /\ UNCHANGED netFile
     \/ /\ proc[p] = "passt" /\ ~netFile
        /\ proc' = [proc EXCEPT ![p] = "passtBound"]
        /\ netFile' = TRUE
        /\ UNCHANGED apiFile
  /\ UNCHANGED <<pc, locals, lockHolder, dir, vmmPid, passtPid, unrecorded>>

\* Any process may end at any time; a VMM that ends in order removes its socket.
Exit(p) ==
  /\ proc[p] # "free"
  /\ proc' = [proc EXCEPT ![p] = "free"]
  /\ \/ UNCHANGED apiFile
     \/ proc[p] = "vmmBound" /\ apiFile' = FALSE
  /\ gone' = gone \union {c \in Clients : pc[c] \in {"verify", "signal"} /\ target[c] = p}
  /\ unrecorded' = unrecorded \ {p}
  /\ UNCHANGED <<pc, op, childVmm, childNet, target, lockHolder, dir, vmmPid, passtPid, netFile>>

\* The number goes to a process that has nothing to do with qtr.
Reuse(p) ==
  /\ Unused(p)
  /\ proc' = [proc EXCEPT ![p] = "foreign"]
  /\ UNCHANGED <<pc, locals, lockHolder, root, unrecorded>>

\* A command is killed; its children go on.
Kill(c) ==
  /\ pc[c] # "idle"
  /\ Leave(c)
  /\ unrecorded' = unrecorded \union
       {p \in {childVmm[c], childNet[c]} : Alive(p) /\ p \notin {vmmPid, passtPid}}
  /\ UNCHANGED <<root, proc>>

-----------------------------------------------------------------------------

Define(c) == CreateDir(c) \/ WriteManifest(c)

Start(c) ==
  \/ SpawnPasst(c) \/ RecordPasst(c) \/ AwaitPasst(c) \/ KillPasst(c) \/ DropNetwork(c)
  \/ SpawnVmm(c) \/ RecordVmm(c) \/ AwaitVmm(c) \/ StopVmm(c) \/ StopPasst(c)

Stop(c) ==
  \/ Request(c) \/ AwaitExit(c) \/ AwaitNetwork(c)
  \/ Pin(c) \/ Verify(c) \/ Signal(c)

Command(c) ==
  \/ Lock(c) \/ VmmStatus(c) \/ NetworkStatus(c) \/ SweepSockets(c) \/ SweepPids(c)
  \/ Define(c) \/ Start(c) \/ Stop(c) \/ RemoveDir(c)

Next ==
  \/ \E c \in Clients : (\E o \in Ops : Begin(c, o)) \/ Command(c) \/ Kill(c)
  \/ \E p \in Pids : Bind(p) \/ Exit(p) \/ Reuse(p)

Spec == Init /\ [][Next]_vars

\* A command takes its next step; every wait in it has a deadline.  Nothing is
\* assumed of the VMM, of passt or of the user.
FairSpec == Spec /\ \A c \in Clients : WF_vars(Command(c))

-----------------------------------------------------------------------------
(* Properties.                                                               *)

\* The types, and that a command which has ended holds nothing.
TypeOK ==
  /\ pc \in [Clients -> Steps]
  /\ op \in [Clients -> Ops]
  /\ childVmm \in [Clients -> Pids \union {NoPid}]
  /\ childNet \in [Clients -> Pids \union {NoPid}]
  /\ target \in [Clients -> Pids \union {NoPid}]
  /\ gone \subseteq Clients
  /\ lockHolder \in Clients \union {Nobody}
  /\ dir \in {"absent", "bare", "defined"}
  /\ vmmPid \in Pids \union {NoPid}
  /\ passtPid \in Pids \union {NoPid}
  /\ apiFile \in BOOLEAN
  /\ netFile \in BOOLEAN
  /\ proc \in [Pids -> Kinds]
  /\ unrecorded \subseteq Pids
  /\ \A c \in Clients : pc[c] = "idle" =>
       op[c] = "none" /\ childVmm[c] = NoPid /\ childNet[c] = NoPid /\ lockHolder # c

LiveOf(kinds) == {p \in Pids : proc[p] \in kinds}

\* However commands overlap, fail or are killed, and however PIDs are reused,
\* there is at most one VMM and one passt, except while a process lives whose
\* start was killed before its PID was written.
OneOfEach ==
  /\ TypeOK
  /\ unrecorded = {} =>
       /\ \A p, q \in LiveOf(Vmms) : p = q
       /\ \A p, q \in LiveOf(Passts) : p = q

\* When the API answers a waiting start, the answer is from the VMM that start
\* has spawned and recorded: no VMM of an earlier command answers in its place.
AnsweredByOwn ==
  \A c \in Clients : pc[c] = "awaitVmm" /\ unrecorded = {} =>
    /\ vmmPid = childVmm[c] /\ passtPid = childNet[c]
    /\ LiveOf({"vmmBound"}) \subseteq {childVmm[c]}

\* The record of a VMM or a passt is removed only when the process has ended.
KeepsRecords ==
  /\ vmmPid' # vmmPid /\ Alive(vmmPid) => proc[vmmPid] \notin Vmms
  /\ passtPid' # passtPid /\ Alive(passtPid) => proc[passtPid] \notin Passts

\* However start, stop and rm overlap or fail, no live process loses its record.
TrackedUntilDead == [][KeepsRecords]_vars

\* A process that is not the VM's own ends without a command taking a step.
SparesForeign ==
  \A p \in Pids : proc[p] = "foreign" /\ proc'[p] # "foreign" => UNCHANGED pc

\* No command ends a process of somebody else, not even one that has got the
\* number of a VMM or a passt between two steps of the command.
ForeignUntouched == [][SparesForeign]_vars

\* The directory goes when nothing of the VM lives.
RemovesStopped ==
  dir # "absent" /\ dir' = "absent" /\ unrecorded = {} => LiveOf(Vmms \union Passts) = {}

\* rm leaves no process of the VM behind.
RemovedIsStopped == [][RemovesStopped]_vars

\* Every command ends, whatever the guest, the VMM and passt do.
CommandsEnd == \A c \in Clients : pc[c] # "idle" ~> pc[c] = "idle"

=============================================================================
