----------------------------- MODULE GuestExec -----------------------------
(***************************************************************************)
(* qtr vm exec and qtr vm cp (src/src/vm.rs): what they do in a guest by   *)
(* way of its agent (src/src/guest_agent.rs).  Every call of the agent     *)
(* takes as long as is left of a deadline; it may be carried out although  *)
(* its answer does not come.                                               *)
(*                                                                         *)
(* The command is a list of tasks, each of a few calls of the agent.  The  *)
(* tasks share one deadline; those that tidy up have one of their own.     *)
(* Positions in the output of a guest command are counted modulo Window.   *)
(***************************************************************************)
EXTENDS Naturals, Sequences, SequencesExt

CONSTANTS
  Chunk,  \* how much of the output is read at once
  Window  \* bound: the guest command waits when so much is unread

ASSUME GuestExecAssumption == Chunk \in Nat \ {0} /\ Window \in Nat \ {0, 1}

VARIABLES
  job,      \* what was asked for
  todo,     \* the tasks that are left, the first one is at work
  step,     \* where the first task is
  chunk,    \* what was read last
  late,     \* the deadline of the command has passed
  ownLate,  \* the deadline of the task has passed, if it has its own
  result,   \* what the command will say
  files,    \* files of the command in the guest
  handles,  \* files that the agent holds open for it
  proc,     \* the guest command
  helper,   \* a shell command of qtr's own in the guest
  written, offset, printed,  \* the output: written, read, printed
  trouble   \* history: the agent did not answer, or the deadline passed while output was read

client == <<job, todo, step, chunk, late, ownLate, result, offset, printed, trouble>>
guest == <<files, handles, proc, helper, written>>
vars == <<client, guest>>

Streams == {"out", "err"}
Own == {"script"} \union Streams

Task(do, path) == [do |-> do, path |-> path]

\* exec and cp
Jobs ==
  [mode : {"capture", "stream"}, script : BOOLEAN, parents : {FALSE}]
  \union [mode : {"copyIn", "copyOut"}, script : {FALSE}, parents : BOOLEAN]

Wrapped(position) == IF position < Window THEN position ELSE position - Window

If(condition, tasks) == IF condition THEN tasks ELSE <<>>

\* exec, stream_guest_command, cp
Tasks(j) ==
  <<Task("ready", "none")>>
  \o If(j.mode = "copyIn" /\ j.parents, <<Task("mkdir", "target")>>)
  \o If(j.mode = "copyIn", <<Task("write", "target")>>)
  \o If(j.mode = "copyOut", <<Task("fetch", "target")>>)
  \o If(j.script, <<Task("write", "script")>>)
  \o If(j.mode = "capture", <<Task("run", "none")>>)
  \o If(j.mode = "stream",
        <<Task("write", "out"), Task("write", "err"), Task("run", "none"), Task("remove", "streams")>>)
  \o If(j.script, <<Task("remove", "script")>>)

\* stream_guest_command: one round of its loop, and what it does at the end
LastRound == <<Task("drain", "out"), Task("drain", "err")>>
Round == <<Task("check", "none")>> \o LastRound \o <<Task("status", "none")>>

FirstStep == [ready |-> "ping", mkdir |-> "info", write |-> "open", fetch |-> "open",
              run |-> "info", check |-> "check", drain |-> "open", status |-> "status", kill |-> "info",
              remove |-> "info"]

First == Head(todo)
Over == todo = <<>>
At(do, s) == ~Over /\ First.do = do /\ step = s

OwnDeadline == step = "close" \/ First.do \in {"kill", "remove"}
BugExpired == OwnDeadline /\ ownLate
Expired == IF OwnDeadline THEN ownLate ELSE late

-----------------------------------------------------------------------------
(* Going on and giving up.                                                  *)

GoTo(s) == todo' = todo /\ step' = s

\* The next task; one with a deadline of its own begins it now.
Tackle(tasks) ==
  /\ todo' = tasks
  /\ step' = IF tasks = <<>> THEN "end" ELSE FirstStep[tasks[1].do]

Removal(tasks, path) == If(Task("remove", path) \in ToSet(tasks), <<Task("remove", path)>>)
Removals(tasks) == Removal(tasks, "streams") \o Removal(tasks, "script")

\* What is still done after an error: the files of the output are removed once the
\* guest command was to be started, the script once it was written.
StillToDo ==
  CASE First.do \in {"ready", "mkdir", "fetch"} \/ First = Task("write", "script")
         \/ First = Task("write", "target") -> <<>>
    [] First.do = "write" /\ First.path \in Streams -> Removal(todo, "script")
    [] First.do \in {"kill", "remove"} -> Tail(todo)
    [] OTHER -> Removals(todo)

\* An error of tidying up is only a warning.
Fail ==
  /\ result' = IF First.do \in {"kill", "remove"} THEN result ELSE "error"
  /\ Tackle(StillToDo)

BugGiveUp ==
  /\ Fail
  /\ trouble' = (trouble \/ OwnDeadline)

\* run_command_with_deadline and stream_guest_command terminate what they have
\* started in the guest when they find that its deadline has passed.
GiveUp ==
  /\ result' = IF OwnDeadline THEN result ELSE "error"
  /\ Tackle(<<Task("kill", "none")>> \o (IF OwnDeadline THEN Tail(todo) ELSE Removals(todo)))
  /\ trouble' = (trouble \/ OwnDeadline)

Done == result' = result /\ Tackle(Tail(todo))

\* A call of the agent: it fails at once when the deadline has passed.
Call(effect, answered) ==
  \/ /\ ~Expired
     /\ effect
     /\ answered
     /\ UNCHANGED trouble
  \/ /\ ~Expired
     /\ effect \/ UNCHANGED guest
     /\ Fail
     /\ trouble' = TRUE
     /\ UNCHANGED chunk
  \/ /\ Expired
     /\ UNCHANGED <<guest, chunk>>
     /\ Fail
     /\ trouble' = (trouble \/ OwnDeadline \/ First.do \in {"write", "drain", "status"})

Asks(s) == ~Over /\ step = s /\ ownLate' = FALSE /\ UNCHANGED <<job, late>>

-----------------------------------------------------------------------------
(* Files in the guest.                                                      *)

Path == First.path

\* open_file
OpenFile ==
  /\ Asks("open")
  /\ Call(/\ handles' = handles \union {Path}
          /\ files' = IF First.do = "write" THEN files \union {Path} ELSE files
          /\ UNCHANGED <<proc, helper, written>>,
          GoTo("io") /\ result' = result /\ UNCHANGED chunk)
  /\ UNCHANGED <<offset, printed>>

\* Whatever comes of reading or writing, the file is closed, under a deadline of
\* ten seconds of its own.
Closing(what) == GoTo("close") /\ chunk' = what /\ result' = result

NoChunk == [size |-> 0, end |-> TRUE, ok |-> TRUE]
Failed == [NoChunk EXCEPT !.ok = FALSE]

Unread(s) ==
  IF offset[s] <= written[s] THEN written[s] - offset[s] ELSE written[s] + Window - offset[s]

\* seek_file and read_file_chunk: what is there, up to a chunk.
Chunks ==
  IF First.do # "drain" THEN {NoChunk}
  ELSE LET there == Unread(Path)
       IN  {[size |-> IF there < Chunk THEN there ELSE Chunk, end |-> there < Chunk, ok |-> TRUE]}

\* write_file_chunk and flush_file, read_file_chunk
ReadOrWrite ==
  /\ Asks("io")
  /\ \/ ~Expired /\ \E c \in Chunks : Closing(c)
     \/ Closing(Failed)
  /\ trouble' = (trouble \/ ~chunk'.ok)
  /\ UNCHANGED <<guest, offset, printed>>

\* After the file is closed: drain_guest_output_stream prints the chunk, advances
\* and reads on until there is nothing more.
AfterClose ==
  IF ~chunk.ok THEN Fail /\ UNCHANGED <<offset, printed>>
  ELSE IF First.do # "drain" \/ chunk.size = 0 THEN Done /\ UNCHANGED <<offset, printed>>
  ELSE /\ printed' = [printed EXCEPT ![Path] = Wrapped(@ + chunk.size)]
       /\ offset' = [offset EXCEPT ![Path] = Wrapped(@ + chunk.size)]
       /\ IF chunk.end THEN Done ELSE GoTo("open") /\ result' = result

\* close_file_after_operation
CloseFile ==
  /\ Asks("close")
  /\ chunk' = NoChunk
  /\ \/ /\ ~Expired
        /\ handles' = handles \ {Path}
        /\ UNCHANGED <<files, proc, helper, written, trouble>>
        /\ AfterClose
     \/ /\ handles' \in {handles, handles \ {Path}}
        /\ UNCHANGED <<files, proc, helper, written, offset, printed>>
        /\ trouble' = TRUE
        /\ Fail

-----------------------------------------------------------------------------
(* Commands in the guest.                                                   *)

\* wait_ready_with_deadline: asked again every second.
Ping ==
  /\ Asks("ping")
  /\ \/ ~Expired /\ Done /\ UNCHANGED <<trouble, chunk, guest>>
     \/ ~Expired /\ GoTo("ping") /\ result' = result /\ UNCHANGED <<trouble, chunk, guest>>
     \/ Expired /\ Fail /\ UNCHANGED <<trouble, chunk, guest>>
  /\ UNCHANGED <<offset, printed>>

\* guest_command_enabled: only an answer that says no is heeded.
Info ==
  /\ Asks("info")
  /\ \/ GoTo("exec") /\ result' = result
     \/ ~Expired /\ Fail
  /\ trouble' = (trouble \/ step' # "exec")
  /\ UNCHANGED <<guest, chunk, offset, printed>>

\* start_command: guest-exec
Exec ==
  /\ Asks("exec")
  /\ Call(/\ IF First.do = "run" THEN proc' = "running" /\ UNCHANGED helper
             ELSE helper' = First /\ UNCHANGED proc
          /\ UNCHANGED <<files, handles, written>>,
          /\ IF First.do = "run" /\ job.mode = "stream" THEN Tackle(Round \o Tail(todo))
             ELSE GoTo("status")
          /\ result' = result /\ UNCHANGED chunk)
  /\ UNCHANGED <<offset, printed>>

NoHelper == Task("none", "none")
Exited == IF First.do \in {"run", "status"} THEN proc # "running" ELSE helper = NoHelper

BugNextRound == Done \/ (First.do = "mkdir" /\ Fail)

\* The guest command has ended; what it wrote since the last look is read.  mkdir
\* may have failed.
NextRound ==
  \/ First.do = "status" /\ result' = result /\ Tackle(LastRound \o Tail(todo))
  \/ First.do # "status" /\ Done
  \/ First.do = "mkdir" /\ Fail

\* stream_guest_command starts over with the output, wait_exec_status asks again.
AskAgain ==
  /\ result' = result
  /\ IF First.do # "status" THEN GoTo("status") ELSE Tackle(Round \o Tail(todo))

\* wait_exec_status, query_exec_status.  A call that takes all the time that was
\* left ends the command like one that comes too late; any other error leaves what
\* runs in the guest alone.
Status ==
  /\ Asks("status")
  /\ IF Expired /\ First.do \notin {"status", "kill"}
     THEN GiveUp /\ UNCHANGED <<guest, chunk>>
     ELSE \/ Call(UNCHANGED guest,
                  (IF Exited THEN NextRound ELSE AskAgain) /\ UNCHANGED chunk)
          \/ /\ First.do \notin {"status", "kill"}
             /\ GiveUp
             /\ UNCHANGED <<guest, chunk>>
  /\ UNCHANGED <<offset, printed>>

\* The loop of stream_guest_command asks for the time before each round.
Check ==
  /\ Asks("check")
  /\ IF Expired THEN GiveUp ELSE Done /\ UNCHANGED trouble
  /\ UNCHANGED <<guest, chunk, offset, printed>>

Client ==
  \/ OpenFile \/ ReadOrWrite \/ CloseFile
  \/ Ping \/ Info \/ Exec \/ Status \/ Check

-----------------------------------------------------------------------------
(* Time and the guest.                                                      *)

DeadlinePasses ==
  /\ ~late
  /\ late' = TRUE
  /\ UNCHANGED <<job, todo, step, chunk, ownLate, result, offset, printed, trouble, guest>>

OwnDeadlinePasses ==
  /\ ~Over /\ OwnDeadline
  /\ ~ownLate
  /\ ownLate' = TRUE
  /\ UNCHANGED <<job, todo, step, chunk, late, result, offset, printed, trouble, guest>>

Writes ==
  /\ proc = "running" /\ job.mode = "stream"
  /\ \E s \in Streams :
       /\ Unread(s) < Window - 1
       /\ written' = [written EXCEPT ![s] = Wrapped(@ + 1)]
  /\ UNCHANGED <<client, files, handles, proc, helper>>

Exits ==
  /\ proc = "running"
  /\ proc' = "exited"
  /\ UNCHANGED <<client, files, handles, helper, written>>

\* mkdir, rm, kill; the guest command may have ended before the signal.
HelperRuns ==
  /\ helper # NoHelper
  /\ helper' = NoHelper
  /\ files' = CASE helper = Task("remove", "script") -> files \ {"script"}
                [] helper = Task("remove", "streams") -> files \ Streams
                [] OTHER -> files
  /\ proc' = IF helper.do = "kill" /\ proc = "running" THEN "killed" ELSE proc
  /\ UNCHANGED <<client, handles, written>>

Guest == Writes \/ Exits \/ HelperRuns

-----------------------------------------------------------------------------

Init ==
  /\ job \in Jobs
  /\ todo = Tasks(job)
  /\ step = "ping"
  /\ chunk = NoChunk
  /\ late = FALSE /\ ownLate = FALSE
  /\ result = "ok"
  /\ files = {} /\ handles = {}
  /\ proc = "none"
  /\ helper = NoHelper
  /\ written = [s \in Streams |-> 0]
  /\ offset = written /\ printed = written
  /\ trouble = FALSE

Next == Client \/ DeadlinePasses \/ OwnDeadlinePasses \/ Guest

Spec == Init /\ [][Next]_vars

\* Time passes and qtr goes on; the guest may do nothing at all, or write for ever.
FairSpec ==
  Spec /\ WF_vars(Client) /\ WF_vars(DeadlinePasses) /\ WF_vars(OwnDeadlinePasses)

-----------------------------------------------------------------------------
(* What has to hold.                                                        *)

TypeOK ==
  /\ job \in Jobs
  /\ files \subseteq Own \union {"target"}
  /\ handles \subseteq Own \union {"target"}
  /\ proc \in {"none", "running", "exited", "killed"}
  /\ result \in {"ok", "error"}
  /\ \A s \in Streams : {written[s], offset[s], printed[s]} \subseteq 0 .. Window - 1

\* A command that succeeds has ended in the guest, and all that it wrote was
\* printed once, however its output came in between the questions whether it has
\* ended.
OutputComplete ==
  /\ TypeOK
  /\ printed = offset
  /\ Over /\ result = "ok" /\ job.mode = "stream" => proc = "exited" /\ printed = written

\* When qtr is through, nothing of it is left in the guest: no file, no handle and
\* no guest command, though it may have failed or run out of time; unless the agent
\* stopped answering or the time was up in the middle of reading the output.  Files
\* that could not be written to the end are the exception.
NothingLeft ==
  Over /\ ~trouble =>
    /\ handles = {}
    /\ files \intersect Own = {}
    /\ proc # "running"

\* qtr comes to an end, even if the guest command does not, and writes for ever.
Ends == <>Over

=============================================================================
