--------------------------- MODULE StorageConfig ---------------------------
(***************************************************************************)
(* qtr storage (src/src/storage.rs): the file that lists iSCSI backends    *)
(* and their volumes, and the host's sessions with them.  Every command    *)
(* loads the whole file, and the ones that change it write a new one       *)
(* beside it and move that into place.  Nothing locks the file, so         *)
(* commands that run at the same time do not see each other's changes.     *)
(*                                                                         *)
(* A target that is offered at several portals is listed with the first.   *)
(***************************************************************************)
EXTENDS Naturals, Sequences, FiniteSets, SequencesExt

CONSTANTS
  Commands,
  Backends,   \* names of backends
  Targets,    \* iSCSI targets
  Parts,      \* what the names of volumes are made of
  BaseName,   \* volume_name_from_target of each: a sequence of the parts of the name
  MaxSuffix,  \* bound: the numbers that are tried, one of which must be free
  Absent,     \* stands in the place of a file that is not there
  Torn        \* stands in the place of a file that is not written to its end

\* A volume has a name and a target, a backend a name and volumes.
Volume == [name : Seq(Parts), target : Targets]
Entry == [name : Backends, volumes : SUBSET Volume]

NoFile == {Absent}
Partial == {Torn}

ASSUME StorageConfigAssumption ==
  /\ \A t \in Targets : BaseName[t] \in Seq(Parts) \ {<<>>}
  /\ IsFiniteSet(Targets)
  /\ MaxSuffix \in Nat /\ Cardinality(Targets) < MaxSuffix
  /\ 2 .. MaxSuffix \subseteq Parts
  /\ Absent # Torn
  /\ {Absent, Torn} \intersect Entry = {}

VARIABLES
  file,       \* the configuration: backends with their volumes
  temp,       \* the new file of each command, NoFile without one
  command,    \* what each command is doing, with the state that it has loaded
  sessions,   \* targets that the host is logged in to
  given,      \* history: volumes that were saved, as <<backend, name, target>>
  overwritten \* history: a command saved a state that was loaded before another's save

vars == <<file, temp, command, sessions, given, overwritten>>

Idle == [op |-> "none", step |-> "none", on |-> "none", state |-> {}, stale |-> FALSE]

Do(c, value) == command' = [command EXCEPT ![c] = value]
Finish(c) == Do(c, Idle)

Names(backends) == {b.name : b \in backends}
Backend(backends, name) == CHOOSE b \in backends : b.name = name

-----------------------------------------------------------------------------
(* What the commands compute.                                               *)

BugUniqueName(volumes, base) == base

\* unique_volume_name
UniqueName(volumes, base) ==
  LET taken == {v.name : v \in volumes}
      free == {n \in 2 .. MaxSuffix : Append(base, n) \notin taken}
  IN  IF base \notin taken THEN base
      ELSE Append(base, CHOOSE n \in free : \A m \in free : n <= m)

Named(volumes, target) ==
  volumes \union {[name |-> UniqueName(volumes, BaseName[target]), target |-> target]}

\* A target that has a volume keeps it.
WithTarget(volumes, target) ==
  IF \E v \in volumes : v.target = target THEN volumes ELSE Named(volumes, target)

BugMerge(volumes, nodes) ==
  LET merged[n \in 0 .. Len(nodes)] ==
        IF n = 0 THEN {} ELSE WithTarget(merged[n - 1], nodes[n])
  IN  merged[Len(nodes)]

\* merge_iscsi_nodes, for the targets in the order they are offered.
Merge(volumes, nodes) ==
  LET merged[n \in 0 .. Len(nodes)] ==
        IF n = 0 THEN volumes ELSE WithTarget(merged[n - 1], nodes[n])
  IN  merged[Len(nodes)]

\* sendtargets may answer with any of them in any order.
Answers == SetToAllKPermutations(Targets)

Triples(backends) ==
  UNION {{<<b.name, v.name, v.target>> : v \in b.volumes} : b \in backends}

-----------------------------------------------------------------------------
(* The commands.                                                            *)

\* load_state: without a file there are no backends.  What other commands save
\* while this one is at work, it does not know.
Load(c) ==
  /\ command[c] = Idle
  /\ file # Partial
  /\ \E op \in {"add", "scan", "connect", "disconnect"}, on \in Backends :
       LET state == IF file = NoFile THEN {} ELSE file
       IN  /\ on \in Names(state) <=> op # "add"
           /\ Do(c, [op |-> op, step |-> op, on |-> on, state |-> state, stale |-> FALSE])
  /\ UNCHANGED <<file, temp, sessions, given, overwritten>>

Save(c, state) == Do(c, [command[c] EXCEPT !.step = "write", !.state = state])

Add(c) ==
  /\ command[c].step = "add"
  /\ Save(c, command[c].state \union {[name |-> command[c].on, volumes |-> {}]})
  /\ UNCHANGED <<file, temp, sessions, given, overwritten>>

\* The backend is asked for its targets, which may fail or take a while.
Scan(c) ==
  /\ command[c].step = "scan"
  /\ \/ \E nodes \in Answers :
          LET old == Backend(command[c].state, command[c].on)
              new == [old EXCEPT !.volumes = Merge(@, nodes)]
          IN  Save(c, (command[c].state \ {old}) \union {new})
     \/ Finish(c)
  /\ UNCHANGED <<file, temp, sessions, given, overwritten>>

\* save_state: a file with a name of its own is written, then moved; if that
\* fails it is removed.
WriteFile(c) ==
  /\ \/ /\ command[c].step = "write" /\ temp[c] = NoFile
        /\ temp' = [temp EXCEPT ![c] = Partial]
        /\ UNCHANGED command
     \/ /\ command[c].step = "write" /\ temp[c] # NoFile
        /\ \/ /\ temp' = [temp EXCEPT ![c] = command[c].state]
              /\ Do(c, [command[c] EXCEPT !.step = "rename"])
           \/ temp' = [temp EXCEPT ![c] = NoFile] /\ Finish(c)
  /\ UNCHANGED <<file, sessions, given, overwritten>>

Rename(c) ==
  /\ command[c].step = "rename"
  /\ \/ /\ file' = temp[c]
        /\ overwritten' = (overwritten \/ command[c].stale)
        /\ given' = IF overwritten' THEN {} ELSE given \union Triples(temp[c])
        /\ command' = [d \in Commands |->
                         IF d = c \/ command[d] = Idle THEN Idle
                         ELSE [command[d] EXCEPT !.stale = TRUE]]
     \/ Finish(c) /\ UNCHANGED <<file, given, overwritten>>
  /\ temp' = [temp EXCEPT ![c] = NoFile]
  /\ UNCHANGED sessions

\* find_iscsi_volume in what was loaded.
Volumes(c) == Backend(command[c].state, command[c].on).volumes

\* login: a session that exists is as good as a new one.
Connect(c) ==
  /\ command[c].step = "connect"
  /\ sessions' \in {sessions} \union {sessions \union {v.target} : v \in Volumes(c)}
  /\ Finish(c)
  /\ UNCHANGED <<file, temp, given, overwritten>>

\* logout, likewise.
Disconnect(c) ==
  /\ command[c].step = "disconnect"
  /\ sessions' \in {sessions} \union {sessions \ {v.target} : v \in Volumes(c)}
  /\ Finish(c)
  /\ UNCHANGED <<file, temp, given, overwritten>>

\* A command is killed; the new file that it has begun stays, and nobody looks at
\* it again.
Killed(c) ==
  /\ command[c] # Idle
  /\ Finish(c)
  /\ temp' = [temp EXCEPT ![c] = NoFile]
  /\ UNCHANGED <<file, sessions, given, overwritten>>

-----------------------------------------------------------------------------

Init ==
  /\ file = NoFile
  /\ temp = [c \in Commands |-> NoFile]
  /\ command = [c \in Commands |-> Idle]
  /\ sessions = {}
  /\ given = {}
  /\ overwritten = FALSE

Next ==
  \E c \in Commands :
    \/ Load(c) \/ Add(c) \/ Scan(c) \/ WriteFile(c) \/ Rename(c)
    \/ Connect(c) \/ Disconnect(c) \/ Killed(c)

Spec == Init /\ [][Next]_vars

-----------------------------------------------------------------------------
(* What has to hold.                                                        *)

Known == IF file = NoFile THEN {} ELSE Triples(file)

\* Whatever commands run at the same time and wherever they are killed, there is a
\* whole configuration, in which a name means one volume and a target has one name.
ConfigWhole ==
  /\ file # Partial
  /\ \A x, y \in Known : x[1] = y[1] => (x[2] = y[2] <=> x[3] = y[3])
  /\ file # NoFile => \A b, c \in file : b.name = c.name => b = c

\* Unless a command saved over the change of another, a volume keeps its name and
\* its target whatever is found later, and every session has a volume by which it
\* can be ended.
NothingForgotten ==
  ~overwritten =>
    /\ given = Known
    /\ \A t \in sessions : \E x \in Known : x[3] = t

=============================================================================
