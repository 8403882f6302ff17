--------------------------- MODULE DirectVmProofs ---------------------------
(***************************************************************************)
(* Proofs about DirectVm, for any number of commands and process numbers.  *)
(***************************************************************************)
EXTENDS DirectVm, TLAPS

NoVmmTracked == vmmPid \in Pids => proc[vmmPid] \notin Vmms
NoPasstTracked == passtPid \in Pids => proc[passtPid] \notin Passts

\* Every VMM and every passt is recorded, or its start is about to record or to
\* kill it, or that start was killed.
VmmsKnown ==
  \A p \in Pids : proc[p] \in Vmms =>
    \/ p = vmmPid \/ p \in unrecorded
    \/ \E c \in Clients : childVmm[c] = p /\ pc[c] \in {"recordVmm", "stopVmm"}

PasstsKnown ==
  \A p \in Pids : proc[p] \in Passts =>
    \/ p = passtPid \/ p \in unrecorded
    \/ \E c \in Clients : childNet[c] = p /\ pc[c] \in {"recordPasst", "killPasst"}

\* A VM without a directory, or with one just created, has no process.
AbsentIsStopped ==
  dir = "absent" \/ (\E c \in Clients : pc[c] = "writeManifest") =>
    \A p \in Pids : proc[p] \in Vmms \union Passts => p \in unrecorded

\* The number of a child is not given to another process while its start lives.
ChildrenKept(c) ==
  /\ childVmm[c] \in Pids => proc[childVmm[c]] \in {"free"} \union Vmms
  /\ childNet[c] \in Pids => proc[childNet[c]] \in {"free"} \union Passts

\* Who works on the VM holds the lock, and found it defined.
Exclusive(c) ==
  /\ pc[c] \notin {"idle", "lock"} => lockHolder = c
  /\ pc[c] \notin {"idle", "lock", "createDir", "writeManifest", "vmmStatus"} => dir = "defined"

\* What vmm.pid says at each step.
VmmRecord(c) ==
  /\ pc[c] \in {"networkStatus", "awaitNetwork", "pin", "verify", "signal",
                "sweepSockets", "sweepPids", "stopPasst", "removeDir"} => NoVmmTracked
  /\ pc[c] \in {"spawnPasst", "recordPasst", "awaitPasst", "killPasst",
                "dropNetwork", "spawnVmm", "recordVmm"} => vmmPid = NoPid
  /\ pc[c] = "awaitVmm" => vmmPid = childVmm[c]
  /\ pc[c] = "stopVmm" => vmmPid \in {childVmm[c], NoPid}
  /\ pc[c] \in {"request", "awaitExit"} => target[c] = vmmPid

\* What passt.pid says at each step.
PasstRecord(c) ==
  /\ pc[c] \in {"sweepSockets", "sweepPids", "dropNetwork", "removeDir"} => NoPasstTracked
  /\ pc[c] \in {"spawnPasst", "recordPasst"} => passtPid = NoPid
  /\ pc[c] = "killPasst" => passtPid \in {childNet[c], NoPid}
  /\ pc[c] \in {"awaitPasst", "spawnVmm", "recordVmm", "awaitVmm", "stopVmm",
                "stopPasst"} => passtPid = childNet[c]

\* The passt that stop terminates, seen through a pidfd.
Pinned(c) ==
  /\ pc[c] \in {"pin", "verify", "signal"} =>
       target[c] \in Pids /\ (target[c] = passtPid \/ NoPasstTracked)
  /\ c \in gone => pc[c] \notin {"idle", "lock", "vmmStatus", "networkStatus",
                                 "request", "awaitExit", "awaitNetwork", "pin"}
  /\ pc[c] \in {"verify", "signal"} /\ c \in gone => proc[target[c]] \notin Passts
  /\ pc[c] = "signal" /\ c \notin gone => proc[target[c]] \in Passts

ClientInv(c) ==
  ChildrenKept(c) /\ Exclusive(c) /\ VmmRecord(c) /\ PasstRecord(c) /\ Pinned(c)

HostInv == VmmsKnown /\ PasstsKnown /\ AbsentIsStopped

IInv == TypeOK /\ HostInv /\ \A c \in Clients : ClientInv(c)

-----------------------------------------------------------------------------
(* The initial state.                                                        *)

\* Nothing runs and there is no directory.
LEMMA InitInv == Init => IInv
<1> SUFFICES ASSUME Init PROVE IInv
  OBVIOUS
<1>1. TypeOK
  BY DirectVmAssumption DEF Init, TypeOK, Steps, Ops, Kinds
<1>2. HostInv
  BY DEF Init, HostInv, VmmsKnown, PasstsKnown, AbsentIsStopped, Vmms, Passts
<1>3. ASSUME NEW c \in Clients PROVE ClientInv(c)
  BY DirectVmAssumption
     DEF Init, ClientInv, ChildrenKept, Exclusive, VmmRecord, PasstRecord, Pinned
<1>. QED
  BY <1>1, <1>2, <1>3 DEF IInv

-----------------------------------------------------------------------------
(* Every step keeps the invariant.                                           *)

\* The types, and that a command that has ended holds nothing.
LEMMA TypeStep ==
  ASSUME TypeOK, [Next]_vars
  PROVE  TypeOK'
<1>. USE DirectVmAssumption DEF TypeOK
<1>1. ASSUME NEW c \in Clients, NEW o \in Ops, Begin(c, o) PROVE TypeOK'
  BY <1>1 DEF Begin, Goto, root, Steps, Ops
<1>2. ASSUME NEW c \in Clients, Lock(c) PROVE TypeOK'
  BY <1>2 DEF Lock, Goto, Leave, locals, root, Steps, Ops
<1>3. ASSUME NEW c \in Clients, CreateDir(c) PROVE TypeOK'
  BY <1>3 DEF CreateDir, Leave, Continue, Goto, locals, Steps, Ops
<1>4. ASSUME NEW c \in Clients, WriteManifest(c) PROVE TypeOK'
  BY <1>4 DEF WriteManifest, Leave, Goto, Steps, Ops
<1>5. ASSUME NEW c \in Clients, VmmStatus(c) PROVE TypeOK'
  BY <1>5 DEF VmmStatus, Goto, Leave, Continue, VmmStopped, VmmRunning, root,
     locals, Alive, ApiActive, Steps, Ops
<1>6. ASSUME NEW c \in Clients, NetworkStatus(c) PROVE TypeOK'
  BY <1>6 DEF NetworkStatus, Leave, Continue, Aim, NetworkStopped,
     NetworkRunning, root, Goto, locals, Alive, NetActive, LooksLikePasst,
     Passts, Steps, Ops
<1>7. ASSUME NEW c \in Clients, SweepSockets(c) PROVE TypeOK'
  BY <1>7 DEF SweepSockets, Leave, Continue, ApiActive, NetActive, Goto,
     locals, Steps, Ops
<1>8. ASSUME NEW c \in Clients, SweepPids(c) PROVE TypeOK'
  BY <1>8 DEF SweepPids, Leave, Continue, Goto, locals, Steps, Ops
<1>9. ASSUME NEW c \in Clients, SpawnPasst(c) PROVE TypeOK'
  BY <1>9 DEF SpawnPasst, Goto, Leave, Unused, root, Steps, Ops, Kinds, Vmms,
     Passts
<1>10. ASSUME NEW c \in Clients, RecordPasst(c) PROVE TypeOK'
  BY <1>10 DEF RecordPasst, Continue, Goto, locals, Steps
<1>11. ASSUME NEW c \in Clients, AwaitPasst(c) PROVE TypeOK'
  BY <1>11 DEF AwaitPasst, Continue, Alive, root, Goto, locals, Steps
<1>12. ASSUME NEW c \in Clients, KillPasst(c) PROVE TypeOK'
  BY <1>12 DEF KillPasst, Goto, Kill9, root, Steps, Kinds, Vmms, Passts
<1>13. ASSUME NEW c \in Clients, DropNetwork(c) PROVE TypeOK'
  BY <1>13 DEF DropNetwork, Leave, NetActive, Goto, Steps, Ops
<1>14. ASSUME NEW c \in Clients, SpawnVmm(c) PROVE TypeOK'
  BY <1>14 DEF SpawnVmm, Goto, Continue, Unused, root, locals, Steps, Kinds,
     Vmms, Passts
<1>15. ASSUME NEW c \in Clients, RecordVmm(c) PROVE TypeOK'
  BY <1>15 DEF RecordVmm, Continue, Goto, locals, Steps
<1>16. ASSUME NEW c \in Clients, AwaitVmm(c) PROVE TypeOK'
  BY <1>16 DEF AwaitVmm, Leave, Continue, Alive, ApiActive, root, Goto,
     locals, Steps, Ops
<1>17. ASSUME NEW c \in Clients, StopVmm(c) PROVE TypeOK'
  BY <1>17 DEF StopVmm, Goto, Kill9, root, Steps, Kinds, Vmms, Passts
<1>18. ASSUME NEW c \in Clients, StopPasst(c) PROVE TypeOK'
  BY <1>18 DEF StopPasst, Goto, Kill9, root, Steps, Kinds, Vmms, Passts
<1>19. ASSUME NEW c \in Clients, Request(c) PROVE TypeOK'
  BY <1>19 DEF Request, Leave, Continue, ApiActive, root, Goto, locals, Steps,
     Ops
<1>20. ASSUME NEW c \in Clients, AwaitExit(c) PROVE TypeOK'
  BY <1>20 DEF AwaitExit, Leave, Continue, Vmms, root, Goto, locals, Steps,
     Ops
<1>21. ASSUME NEW c \in Clients, AwaitNetwork(c) PROVE TypeOK'
  BY <1>21 DEF AwaitNetwork, Leave, Continue, Aim, NetworkStopped,
     NetworkRunning, root, Goto, locals, Alive, NetActive, LooksLikePasst,
     Passts, Steps, Ops
<1>22. ASSUME NEW c \in Clients, Pin(c) PROVE TypeOK'
  BY <1>22 DEF Pin, Goto, Alive, locals, root, Steps
<1>23. ASSUME NEW c \in Clients, Verify(c) PROVE TypeOK'
  BY <1>23 DEF Verify, Leave, Continue, NetActive, LooksLikePasst, root, Goto,
     locals, Passts, Steps, Ops
<1>24. ASSUME NEW c \in Clients, Signal(c) PROVE TypeOK'
  BY <1>24 DEF Signal, Goto, Kill9, root, Steps, Kinds, Vmms, Passts
<1>25. ASSUME NEW c \in Clients, RemoveDir(c) PROVE TypeOK'
  BY <1>25 DEF RemoveDir, Leave, Goto, Steps, Ops
<1>26. ASSUME NEW c \in Clients, Kill(c) PROVE TypeOK'
  BY <1>26 DEF Kill, Leave, Alive, root, Goto, Steps, Ops
<1>27. ASSUME NEW p \in Pids, Bind(p) PROVE TypeOK'
  BY <1>27 DEF Bind, locals, Kinds, Vmms, Passts
<1>28. ASSUME NEW p \in Pids, Exit(p) PROVE TypeOK'
  BY <1>28 DEF Exit, Kinds, Vmms, Passts
<1>29. ASSUME NEW p \in Pids, Reuse(p) PROVE TypeOK'
  BY <1>29 DEF Reuse, Unused, locals, root, Kinds, Vmms, Passts
<1>30. ASSUME UNCHANGED vars PROVE TypeOK'
  BY <1>30 DEF vars, locals, root
<1>. HIDE DirectVmAssumption DEF TypeOK
<1>. QED
  BY <1>1, <1>2, <1>3, <1>4, <1>5, <1>6, <1>7, <1>8, <1>9, <1>10, <1>11,
     <1>12, <1>13, <1>14, <1>15, <1>16, <1>17, <1>18, <1>19, <1>20, <1>21,
     <1>22, <1>23, <1>24, <1>25, <1>26, <1>27, <1>28, <1>29, <1>30 DEF Next,
     Command, Define, Start, Stop

-----------------------------------------------------------------------------
(* Whichever command or process takes a step, the invariant of every command *)
(* q still holds.                                                            *)

\* The lock keeps the others away from the records, and what a command knows of a
\* process from its number stays true until the number is given to another.
LEMMA ClientStep ==
  ASSUME IInv, [Next]_vars, NEW q \in Clients
  PROVE  ClientInv(q)'
<1>. USE DirectVmAssumption
     DEF IInv, TypeOK, ClientInv, ChildrenKept, Exclusive, VmmRecord, PasstRecord, Pinned,
         NoVmmTracked, NoPasstTracked
<1>1. ASSUME NEW c \in Clients, NEW o \in Ops, Begin(c, o) PROVE ClientInv(q)'
  BY <1>1 DEF Begin, Goto, root, Kinds, Vmms, Passts
<1>2. ASSUME NEW c \in Clients, Lock(c) PROVE ClientInv(q)'
  BY <1>2 DEF Lock, Goto, Leave, locals, root, Kinds, Vmms, Passts
<1>3. ASSUME NEW c \in Clients, CreateDir(c) PROVE ClientInv(q)'
  BY <1>3 DEF CreateDir, Leave, Continue, Goto, locals, Kinds, Vmms, Passts
<1>4. ASSUME NEW c \in Clients, WriteManifest(c) PROVE ClientInv(q)'
  BY <1>4 DEF WriteManifest, Leave, Goto, Kinds, Vmms, Passts
<1>5. ASSUME NEW c \in Clients, VmmStatus(c) PROVE ClientInv(q)'
  BY <1>5 DEF VmmStatus, Goto, Leave, Continue, VmmStopped, VmmRunning, root,
     locals, Alive, ApiActive, Kinds, Vmms, Passts
<1>6. ASSUME NEW c \in Clients, NetworkStatus(c) PROVE ClientInv(q)'
  BY <1>6 DEF NetworkStatus, Leave, Continue, Aim, NetworkStopped,
     NetworkRunning, root, Goto, locals, Alive, NetActive, LooksLikePasst,
     Passts, Kinds, Vmms
<1>7. ASSUME NEW c \in Clients, SweepSockets(c) PROVE ClientInv(q)'
  BY <1>7 DEF SweepSockets, Leave, Continue, ApiActive, NetActive, Goto,
     locals, Kinds, Vmms, Passts
<1>8. ASSUME NEW c \in Clients, SweepPids(c) PROVE ClientInv(q)'
  BY <1>8 DEF SweepPids, Leave, Continue, Goto, locals, Kinds, Vmms, Passts
<1>9. ASSUME NEW c \in Clients, SpawnPasst(c) PROVE ClientInv(q)'
  BY <1>9 DEF SpawnPasst, Goto, Leave, Unused, root, Kinds, Vmms, Passts
<1>10. ASSUME NEW c \in Clients, RecordPasst(c) PROVE ClientInv(q)'
  BY <1>10 DEF RecordPasst, Continue, Goto, locals, Kinds, Vmms, Passts
<1>11. ASSUME NEW c \in Clients, AwaitPasst(c) PROVE ClientInv(q)'
  BY <1>11 DEF AwaitPasst, Continue, Alive, root, Goto, locals, Kinds, Vmms,
     Passts
<1>12. ASSUME NEW c \in Clients, KillPasst(c) PROVE ClientInv(q)'
  BY <1>12 DEF KillPasst, Goto, Kill9, root, Kinds, Vmms, Passts
<1>13. ASSUME NEW c \in Clients, DropNetwork(c) PROVE ClientInv(q)'
  BY <1>13 DEF DropNetwork, Leave, NetActive, Goto, Kinds, Vmms, Passts
<1>14. ASSUME NEW c \in Clients, SpawnVmm(c) PROVE ClientInv(q)'
  BY <1>14 DEF SpawnVmm, Goto, Continue, Unused, root, locals, Kinds, Vmms,
     Passts
<1>15. ASSUME NEW c \in Clients, RecordVmm(c) PROVE ClientInv(q)'
  BY <1>15 DEF RecordVmm, Continue, Goto, locals, Kinds, Vmms, Passts
<1>16. ASSUME NEW c \in Clients, AwaitVmm(c) PROVE ClientInv(q)'
  BY <1>16 DEF AwaitVmm, Leave, Continue, Alive, ApiActive, root, Goto,
     locals, Kinds, Vmms, Passts
<1>17. ASSUME NEW c \in Clients, StopVmm(c) PROVE ClientInv(q)'
  BY <1>17 DEF StopVmm, Goto, Kill9, root, Kinds, Vmms, Passts
<1>18. ASSUME NEW c \in Clients, StopPasst(c) PROVE ClientInv(q)'
  BY <1>18 DEF StopPasst, Goto, Kill9, root, Kinds, Vmms, Passts
<1>19. ASSUME NEW c \in Clients, Request(c) PROVE ClientInv(q)'
  BY <1>19 DEF Request, Leave, Continue, ApiActive, root, Goto, locals, Kinds,
     Vmms, Passts
<1>20. ASSUME NEW c \in Clients, AwaitExit(c) PROVE ClientInv(q)'
  BY <1>20 DEF AwaitExit, Leave, Continue, Vmms, root, Goto, locals, Kinds,
     Passts
<1>21. ASSUME NEW c \in Clients, AwaitNetwork(c) PROVE ClientInv(q)'
  BY <1>21 DEF AwaitNetwork, Leave, Continue, Aim, NetworkStopped,
     NetworkRunning, root, Goto, locals, Alive, NetActive, LooksLikePasst,
     Passts, Kinds, Vmms
<1>22. ASSUME NEW c \in Clients, Pin(c) PROVE ClientInv(q)'
  BY <1>22 DEF Pin, Goto, Alive, locals, root, Kinds, Vmms, Passts
<1>23. ASSUME NEW c \in Clients, Verify(c) PROVE ClientInv(q)'
  BY <1>23 DEF Verify, Leave, Continue, NetActive, LooksLikePasst, root, Goto,
     locals, Passts, Kinds, Vmms
<1>24. ASSUME NEW c \in Clients, Signal(c) PROVE ClientInv(q)'
  BY <1>24 DEF Signal, Goto, Kill9, root, Kinds, Vmms, Passts
<1>25. ASSUME NEW c \in Clients, RemoveDir(c) PROVE ClientInv(q)'
  BY <1>25 DEF RemoveDir, Leave, Goto, Kinds, Vmms, Passts
<1>26. ASSUME NEW c \in Clients, Kill(c) PROVE ClientInv(q)'
  BY <1>26 DEF Kill, Leave, Alive, root, Goto, Kinds, Vmms, Passts
<1>27. ASSUME NEW p \in Pids, Bind(p) PROVE ClientInv(q)'
  BY <1>27 DEF Bind, locals, Kinds, Vmms, Passts
<1>28. ASSUME NEW p \in Pids, Exit(p) PROVE ClientInv(q)'
  BY <1>28 DEF Exit, Kinds, Vmms, Passts
<1>29. ASSUME NEW p \in Pids, Reuse(p) PROVE ClientInv(q)'
  BY <1>29 DEF Reuse, Unused, locals, root, Kinds, Vmms, Passts
<1>30. ASSUME UNCHANGED vars PROVE ClientInv(q)'
  BY <1>30 DEF vars, locals, root
<1>. HIDE DirectVmAssumption
     DEF IInv, TypeOK, ClientInv, ChildrenKept, Exclusive, VmmRecord, PasstRecord, Pinned,
         NoVmmTracked, NoPasstTracked
<1>. QED
  BY <1>1, <1>2, <1>3, <1>4, <1>5, <1>6, <1>7, <1>8, <1>9, <1>10, <1>11,
     <1>12, <1>13, <1>14, <1>15, <1>16, <1>17, <1>18, <1>19, <1>20, <1>21,
     <1>22, <1>23, <1>24, <1>25, <1>26, <1>27, <1>28, <1>29, <1>30 DEF Next,
     Command, Define, Start, Stop

\* No process of the VM escapes the records, except by the death of its start.
LEMMA HostStep ==
  ASSUME IInv, [Next]_vars
  PROVE  HostInv'
<1>. USE DirectVmAssumption
     DEF IInv, TypeOK, ClientInv, ChildrenKept, Exclusive, VmmRecord, PasstRecord, Pinned,
         NoVmmTracked, NoPasstTracked,
         HostInv, VmmsKnown, PasstsKnown, AbsentIsStopped
<1>1. ASSUME NEW c \in Clients, NEW o \in Ops, Begin(c, o) PROVE HostInv'
  BY <1>1 DEF Begin, Goto, root, Kinds, Vmms, Passts
<1>2. ASSUME NEW c \in Clients, Lock(c) PROVE HostInv'
  BY <1>2 DEF Lock, Goto, Leave, locals, root, Kinds, Vmms, Passts
<1>3. ASSUME NEW c \in Clients, CreateDir(c) PROVE HostInv'
  BY <1>3 DEF CreateDir, Leave, Continue, Goto, locals, Kinds, Vmms, Passts
<1>4. ASSUME NEW c \in Clients, WriteManifest(c) PROVE HostInv'
  BY <1>4 DEF WriteManifest, Leave, Goto, Kinds, Vmms, Passts
<1>5. ASSUME NEW c \in Clients, VmmStatus(c) PROVE HostInv'
  BY <1>5 DEF VmmStatus, Goto, Leave, Continue, VmmStopped, VmmRunning, root,
     locals, Alive, ApiActive, Kinds, Vmms, Passts
<1>6. ASSUME NEW c \in Clients, NetworkStatus(c) PROVE HostInv'
  BY <1>6 DEF NetworkStatus, Leave, Continue, Aim, NetworkStopped,
     NetworkRunning, root, Goto, locals, Alive, NetActive, LooksLikePasst,
     Passts, Kinds, Vmms
<1>7. ASSUME NEW c \in Clients, SweepSockets(c) PROVE HostInv'
  BY <1>7 DEF SweepSockets, Leave, Continue, ApiActive, NetActive, Goto,
     locals, Kinds, Vmms, Passts
<1>8. ASSUME NEW c \in Clients, SweepPids(c) PROVE HostInv'
  BY <1>8 DEF SweepPids, Leave, Continue, Goto, locals, Kinds, Vmms, Passts
<1>9. ASSUME NEW c \in Clients, SpawnPasst(c) PROVE HostInv'
  BY <1>9 DEF SpawnPasst, Goto, Leave, Unused, root, Kinds, Vmms, Passts
<1>10. ASSUME NEW c \in Clients, RecordPasst(c) PROVE HostInv'
  BY <1>10 DEF RecordPasst, Continue, Goto, locals, Kinds, Vmms, Passts
<1>11. ASSUME NEW c \in Clients, AwaitPasst(c) PROVE HostInv'
  BY <1>11 DEF AwaitPasst, Continue, Alive, root, Goto, locals, Kinds, Vmms,
     Passts
<1>12. ASSUME NEW c \in Clients, KillPasst(c) PROVE HostInv'
  BY <1>12 DEF KillPasst, Goto, Kill9, root, Kinds, Vmms, Passts
<1>13. ASSUME NEW c \in Clients, DropNetwork(c) PROVE HostInv'
  BY <1>13 DEF DropNetwork, Leave, NetActive, Goto, Kinds, Vmms, Passts
<1>14. ASSUME NEW c \in Clients, SpawnVmm(c) PROVE HostInv'
  BY <1>14 DEF SpawnVmm, Goto, Continue, Unused, root, locals, Kinds, Vmms,
     Passts
<1>15. ASSUME NEW c \in Clients, RecordVmm(c) PROVE HostInv'
  BY <1>15 DEF RecordVmm, Continue, Goto, locals, Kinds, Vmms, Passts
<1>16. ASSUME NEW c \in Clients, AwaitVmm(c) PROVE HostInv'
  BY <1>16 DEF AwaitVmm, Leave, Continue, Alive, ApiActive, root, Goto,
     locals, Kinds, Vmms, Passts
<1>17. ASSUME NEW c \in Clients, StopVmm(c) PROVE HostInv'
  BY <1>17 DEF StopVmm, Goto, Kill9, root, Kinds, Vmms, Passts
<1>18. ASSUME NEW c \in Clients, StopPasst(c) PROVE HostInv'
  BY <1>18 DEF StopPasst, Goto, Kill9, root, Kinds, Vmms, Passts
<1>19. ASSUME NEW c \in Clients, Request(c) PROVE HostInv'
  BY <1>19 DEF Request, Leave, Continue, ApiActive, root, Goto, locals, Kinds,
     Vmms, Passts
<1>20. ASSUME NEW c \in Clients, AwaitExit(c) PROVE HostInv'
  BY <1>20 DEF AwaitExit, Leave, Continue, Vmms, root, Goto, locals, Kinds,
     Passts
<1>21. ASSUME NEW c \in Clients, AwaitNetwork(c) PROVE HostInv'
  BY <1>21 DEF AwaitNetwork, Leave, Continue, Aim, NetworkStopped,
     NetworkRunning, root, Goto, locals, Alive, NetActive, LooksLikePasst,
     Passts, Kinds, Vmms
<1>22. ASSUME NEW c \in Clients, Pin(c) PROVE HostInv'
  BY <1>22 DEF Pin, Goto, Alive, locals, root, Kinds, Vmms, Passts
<1>23. ASSUME NEW c \in Clients, Verify(c) PROVE HostInv'
  BY <1>23 DEF Verify, Leave, Continue, NetActive, LooksLikePasst, root, Goto,
     locals, Passts, Kinds, Vmms
<1>24. ASSUME NEW c \in Clients, Signal(c) PROVE HostInv'
  BY <1>24 DEF Signal, Goto, Kill9, root, Kinds, Vmms, Passts
<1>25. ASSUME NEW c \in Clients, RemoveDir(c) PROVE HostInv'
  BY <1>25 DEF RemoveDir, Leave, Goto, Kinds, Vmms, Passts
<1>26. ASSUME NEW c \in Clients, Kill(c) PROVE HostInv'
  BY <1>26 DEF Kill, Leave, Alive, root, Goto, Kinds, Vmms, Passts
<1>27. ASSUME NEW p \in Pids, Bind(p) PROVE HostInv'
  BY <1>27 DEF Bind, locals, Kinds, Vmms, Passts
<1>28. ASSUME NEW p \in Pids, Exit(p) PROVE HostInv'
  BY <1>28 DEF Exit, Kinds, Vmms, Passts
<1>29. ASSUME NEW p \in Pids, Reuse(p) PROVE HostInv'
  BY <1>29 DEF Reuse, Unused, locals, root, Kinds, Vmms, Passts
<1>30. ASSUME UNCHANGED vars PROVE HostInv'
  BY <1>30 DEF vars, locals, root
<1>. HIDE DirectVmAssumption
     DEF IInv, TypeOK, ClientInv, ChildrenKept, Exclusive, VmmRecord, PasstRecord, Pinned,
         NoVmmTracked, NoPasstTracked,
         HostInv, VmmsKnown, PasstsKnown, AbsentIsStopped
<1>. QED
  BY <1>1, <1>2, <1>3, <1>4, <1>5, <1>6, <1>7, <1>8, <1>9, <1>10, <1>11,
     <1>12, <1>13, <1>14, <1>15, <1>16, <1>17, <1>18, <1>19, <1>20, <1>21,
     <1>22, <1>23, <1>24, <1>25, <1>26, <1>27, <1>28, <1>29, <1>30 DEF Next,
     Command, Define, Start, Stop

-----------------------------------------------------------------------------
(* The theorems about states.                                                *)

\* In every reachable state, with any number of commands at a time: the types, what
\* each command may rely on at its step, and that no process escapes the records.
THEOREM Invariance == Spec => []IInv
<1>1. IInv /\ [Next]_vars => IInv'
  BY TypeStep, ClientStep, HostStep DEF IInv
<1>. QED
  BY <1>1, InitInv, PTL DEF Spec

\* One VMM and one passt at most, unless a start was killed before it wrote a PID.
THEOREM SingleProcesses == Spec => []OneOfEach
<1>1. ASSUME IInv PROVE OneOfEach
  <2>1. ASSUME unrecorded = {}, NEW p \in LiveOf(Vmms), NEW q \in LiveOf(Vmms)
        PROVE  p = q
    BY <1>1, <2>1, DirectVmAssumption
       DEF IInv, TypeOK, HostInv, VmmsKnown, ClientInv, Exclusive, VmmRecord, LiveOf
  <2>2. ASSUME unrecorded = {}, NEW p \in LiveOf(Passts), NEW q \in LiveOf(Passts)
        PROVE  p = q
    BY <1>1, <2>2, DirectVmAssumption
       DEF IInv, TypeOK, HostInv, PasstsKnown, ClientInv, Exclusive, PasstRecord, LiveOf
  <2>. QED
    BY <1>1, <2>1, <2>2 DEF IInv, OneOfEach
<1>. QED
  BY <1>1, Invariance, PTL

\* A start that waits for its VMM is answered by the VMM it spawned.
THEOREM OwnAnswer == Spec => []AnsweredByOwn
<1>1. ASSUME IInv, NEW c \in Clients, pc[c] = "awaitVmm", unrecorded = {}
      PROVE  /\ vmmPid = childVmm[c] /\ passtPid = childNet[c]
             /\ LiveOf({"vmmBound"}) \subseteq {childVmm[c]}
  BY <1>1 DEF IInv, TypeOK, HostInv, VmmsKnown, ClientInv, Exclusive, VmmRecord, PasstRecord,
     LiveOf, Vmms
<1>2. IInv => AnsweredByOwn
  BY <1>1 DEF AnsweredByOwn
<1>. QED
  BY <1>2, Invariance, PTL

-----------------------------------------------------------------------------
(* The theorems about steps.                                                 *)

\* A record is dropped or replaced only where its process has been seen to be gone.
LEMMA RecordsStep ==
  ASSUME IInv, [Next]_vars
  PROVE  KeepsRecords \/ UNCHANGED vars
<1>1. ASSUME NEW c \in Clients, SweepPids(c) PROVE KeepsRecords
  BY <1>1, DirectVmAssumption DEF IInv, TypeOK, ClientInv, VmmRecord,
     PasstRecord, NoVmmTracked, NoPasstTracked, KeepsRecords, Alive,
     SweepPids, Leave, Continue, Goto, locals, Kinds, Vmms, Passts
<1>2. ASSUME NEW c \in Clients, RecordPasst(c) PROVE KeepsRecords
  BY <1>2, DirectVmAssumption DEF IInv, TypeOK, ClientInv, VmmRecord,
     PasstRecord, NoVmmTracked, NoPasstTracked, KeepsRecords, Alive,
     RecordPasst, Continue, Goto, locals, Kinds, Vmms, Passts
<1>3. ASSUME NEW c \in Clients, DropNetwork(c) PROVE KeepsRecords
  BY <1>3, DirectVmAssumption DEF IInv, TypeOK, ClientInv, VmmRecord,
     PasstRecord, NoVmmTracked, NoPasstTracked, KeepsRecords, Alive,
     DropNetwork, Leave, NetActive, Goto, Kinds, Vmms, Passts
<1>4. ASSUME NEW c \in Clients, RecordVmm(c) PROVE KeepsRecords
  BY <1>4, DirectVmAssumption DEF IInv, TypeOK, ClientInv, VmmRecord,
     PasstRecord, NoVmmTracked, NoPasstTracked, KeepsRecords, Alive,
     RecordVmm, Continue, Goto, locals, Kinds, Vmms, Passts
<1>5. ASSUME NEW c \in Clients, RemoveDir(c) PROVE KeepsRecords
  BY <1>5, DirectVmAssumption DEF IInv, TypeOK, ClientInv, VmmRecord,
     PasstRecord, NoVmmTracked, NoPasstTracked, KeepsRecords, Alive,
     RemoveDir, Leave, Goto, Kinds, Vmms, Passts
<1>6. ASSUME NEW c \in Clients,
         Lock(c) \/ CreateDir(c) \/ WriteManifest(c) \/ VmmStatus(c) \/
         NetworkStatus(c) \/ SweepSockets(c) \/ SpawnPasst(c) \/ AwaitPasst(c)
         \/ KillPasst(c) \/ SpawnVmm(c) \/ AwaitVmm(c) \/ StopVmm(c) \/
         StopPasst(c) \/ Request(c) \/ AwaitExit(c) \/ AwaitNetwork(c) \/
         Pin(c) \/ Verify(c) \/ Signal(c) \/ Kill(c)
      PROVE  UNCHANGED <<vmmPid, passtPid>>
  BY <1>6 DEF Lock, Goto, Leave, locals, root, CreateDir, Continue,
     WriteManifest, VmmStatus, NetworkStatus, Aim, SweepSockets, SpawnPasst,
     AwaitPasst, KillPasst, Kill9, SpawnVmm, AwaitVmm, StopVmm, StopPasst,
     Request, AwaitExit, AwaitNetwork, Pin, Verify, Signal, Kill
<1>7. ASSUME NEW c \in Clients, NEW o \in Ops, Begin(c, o)
      PROVE  UNCHANGED <<vmmPid, passtPid>>
  BY <1>7 DEF Begin, root
<1>8. ASSUME NEW p \in Pids, Bind(p) \/ Exit(p) \/ Reuse(p)
      PROVE  UNCHANGED <<vmmPid, passtPid>>
  BY <1>8 DEF Bind, Exit, Reuse, root
<1>9. UNCHANGED <<vmmPid, passtPid>> => KeepsRecords
  BY DEF KeepsRecords
<1>. QED
  BY <1>1, <1>2, <1>3, <1>4, <1>5, <1>6, <1>7, <1>8, <1>9 DEF Next, Command,
     Define, Start, Stop

\* Start, stop and rm, overlapping, failing or killed anywhere, never drop the record
\* of a live process.
THEOREM Tracking == Spec => TrackedUntilDead
<1>1. IInv /\ [Next]_vars => [KeepsRecords]_vars
  BY RecordsStep
<1>. QED
  BY <1>1, Invariance, PTL DEF Spec, TrackedUntilDead

\* SIGKILL goes to children, whose numbers are kept, or through the pidfd.
LEMMA ForeignStep ==
  ASSUME IInv, [Next]_vars
  PROVE  SparesForeign \/ UNCHANGED vars
<1>1. ASSUME NEW c \in Clients, SpawnPasst(c) PROVE SparesForeign
  BY <1>1, DirectVmAssumption DEF IInv, TypeOK, ClientInv, ChildrenKept,
     Pinned, SparesForeign, SpawnPasst, Goto, Leave, Unused, root, Kinds,
     Vmms, Passts
<1>2. ASSUME NEW c \in Clients, KillPasst(c) PROVE SparesForeign
  BY <1>2, DirectVmAssumption DEF IInv, TypeOK, ClientInv, ChildrenKept,
     Pinned, SparesForeign, KillPasst, Goto, Kill9, root, Kinds, Vmms, Passts
<1>3. ASSUME NEW c \in Clients, SpawnVmm(c) PROVE SparesForeign
  BY <1>3, DirectVmAssumption DEF IInv, TypeOK, ClientInv, ChildrenKept,
     Pinned, SparesForeign, SpawnVmm, Goto, Continue, Unused, root, locals,
     Kinds, Vmms, Passts
<1>4. ASSUME NEW c \in Clients, StopVmm(c) PROVE SparesForeign
  BY <1>4, DirectVmAssumption DEF IInv, TypeOK, ClientInv, ChildrenKept,
     Pinned, SparesForeign, StopVmm, Goto, Kill9, root, Kinds, Vmms, Passts
<1>5. ASSUME NEW c \in Clients, StopPasst(c) PROVE SparesForeign
  BY <1>5, DirectVmAssumption DEF IInv, TypeOK, ClientInv, ChildrenKept,
     Pinned, SparesForeign, StopPasst, Goto, Kill9, root, Kinds, Vmms, Passts
<1>6. ASSUME NEW c \in Clients, Signal(c) PROVE SparesForeign
  BY <1>6, DirectVmAssumption DEF IInv, TypeOK, ClientInv, ChildrenKept,
     Pinned, SparesForeign, Signal, Goto, Kill9, root, Kinds, Vmms, Passts
<1>7. ASSUME NEW c \in Clients,
         Lock(c) \/ CreateDir(c) \/ WriteManifest(c) \/ VmmStatus(c) \/
         NetworkStatus(c) \/ SweepSockets(c) \/ SweepPids(c) \/ RecordPasst(c)
         \/ AwaitPasst(c) \/ DropNetwork(c) \/ RecordVmm(c) \/ AwaitVmm(c) \/
         Request(c) \/ AwaitExit(c) \/ AwaitNetwork(c) \/ Pin(c) \/ Verify(c)
         \/ RemoveDir(c) \/ Kill(c)
      PROVE  UNCHANGED proc \/ UNCHANGED pc
  BY <1>7 DEF Lock, Goto, Leave, locals, root, CreateDir, Continue,
     WriteManifest, VmmStatus, NetworkStatus, Aim, SweepSockets, SweepPids,
     RecordPasst, AwaitPasst, DropNetwork, RecordVmm, AwaitVmm, Request,
     AwaitExit, AwaitNetwork, Pin, Verify, RemoveDir, Kill
<1>8. ASSUME NEW c \in Clients, NEW o \in Ops, Begin(c, o)
      PROVE  UNCHANGED proc \/ UNCHANGED pc
  BY <1>8 DEF Begin, root
<1>9. ASSUME NEW p \in Pids, Bind(p) \/ Exit(p) \/ Reuse(p)
      PROVE  UNCHANGED proc \/ UNCHANGED pc
  BY <1>9 DEF Bind, Exit, Reuse, root
<1>10. UNCHANGED proc \/ UNCHANGED pc => SparesForeign
  BY DEF SparesForeign
<1>. QED
  BY <1>1, <1>2, <1>3, <1>4, <1>5, <1>6, <1>7, <1>8, <1>9, <1>10 DEF Next,
     Command, Define, Start, Stop

\* No command ends a process that is not the VM's, however numbers are reused.
THEOREM Innocence == Spec => ForeignUntouched
<1>1. IInv /\ [Next]_vars => [SparesForeign]_vars
  BY ForeignStep
<1>. QED
  BY <1>1, Invariance, PTL DEF Spec, ForeignUntouched

\* The directory goes where neither record has a process behind it.
LEMMA RemovalStep ==
  ASSUME IInv, [Next]_vars
  PROVE  RemovesStopped \/ UNCHANGED vars
<1>1. ASSUME NEW c \in Clients, CreateDir(c) PROVE RemovesStopped
  BY <1>1, DirectVmAssumption DEF IInv, TypeOK, HostInv, VmmsKnown,
     PasstsKnown, AbsentIsStopped, ClientInv, Exclusive, VmmRecord,
     PasstRecord, NoVmmTracked, NoPasstTracked, RemovesStopped, LiveOf,
     CreateDir, Leave, Continue, Goto, locals, Kinds, Vmms, Passts
<1>2. ASSUME NEW c \in Clients, WriteManifest(c) PROVE RemovesStopped
  BY <1>2, DirectVmAssumption DEF IInv, TypeOK, HostInv, VmmsKnown,
     PasstsKnown, AbsentIsStopped, ClientInv, Exclusive, VmmRecord,
     PasstRecord, NoVmmTracked, NoPasstTracked, RemovesStopped, LiveOf,
     WriteManifest, Leave, Goto, Kinds, Vmms, Passts
<1>3. ASSUME NEW c \in Clients, RemoveDir(c) PROVE RemovesStopped
  BY <1>3, DirectVmAssumption DEF IInv, TypeOK, HostInv, VmmsKnown,
     PasstsKnown, AbsentIsStopped, ClientInv, Exclusive, VmmRecord,
     PasstRecord, NoVmmTracked, NoPasstTracked, RemovesStopped, LiveOf,
     RemoveDir, Leave, Goto, Kinds, Vmms, Passts
<1>4. ASSUME NEW c \in Clients,
         Lock(c) \/ VmmStatus(c) \/ NetworkStatus(c) \/ SweepSockets(c) \/
         SweepPids(c) \/ SpawnPasst(c) \/ RecordPasst(c) \/ AwaitPasst(c) \/
         KillPasst(c) \/ DropNetwork(c) \/ SpawnVmm(c) \/ RecordVmm(c) \/
         AwaitVmm(c) \/ StopVmm(c) \/ StopPasst(c) \/ Request(c) \/
         AwaitExit(c) \/ AwaitNetwork(c) \/ Pin(c) \/ Verify(c) \/ Signal(c)
         \/ Kill(c)
      PROVE  UNCHANGED dir
  BY <1>4 DEF Lock, Goto, Leave, locals, root, VmmStatus, Continue,
     NetworkStatus, Aim, SweepSockets, SweepPids, SpawnPasst, RecordPasst,
     AwaitPasst, KillPasst, Kill9, DropNetwork, SpawnVmm, RecordVmm, AwaitVmm,
     StopVmm, StopPasst, Request, AwaitExit, AwaitNetwork, Pin, Verify,
     Signal, Kill
<1>5. ASSUME NEW c \in Clients, NEW o \in Ops, Begin(c, o)
      PROVE  UNCHANGED dir
  BY <1>5 DEF Begin, root
<1>6. ASSUME NEW p \in Pids, Bind(p) \/ Exit(p) \/ Reuse(p)
      PROVE  UNCHANGED dir
  BY <1>6 DEF Bind, Exit, Reuse, root
<1>7. UNCHANGED dir => RemovesStopped
  BY DEF RemovesStopped
<1>. QED
  BY <1>1, <1>2, <1>3, <1>4, <1>5, <1>6, <1>7 DEF Next, Command, Define,
     Start, Stop

\* rm leaves no VMM and no passt behind, unless a killed start left one unrecorded.
THEOREM Removal == Spec => RemovedIsStopped
<1>1. IInv /\ [Next]_vars => [RemovesStopped]_vars
  BY RemovalStep
<1>. QED
  BY <1>1, Invariance, PTL DEF Spec, RemovedIsStopped

=============================================================================
