---------------------------- MODULE GuestExecProofs ----------------------------
(***************************************************************************)
(* Proofs about GuestExec, for every size of a chunk and of the window:    *)
(* the output of a command that succeeds is complete, and nothing of qtr   *)
(* stays in a guest whose agent answers.                                   *)
(***************************************************************************)
EXTENDS GuestExec, TLAPS

-----------------------------------------------------------------------------
(* The inductive invariant.                                                 *)

Removing == {Task("remove", "streams"), Task("remove", "script")}
Killing == Task("kill", "none")
Running == Task("run", "none")
Asking == Task("status", "none")
Drains == {Task("drain", s) : s \in Streams}

AllTasks ==
  {Task("ready", "none"), Task("mkdir", "target"), Task("fetch", "target"), Task("check", "none"),
   Running, Asking, Killing}
  \union {Task("write", f) : f \in Own \union {"target"}}
  \union Drains
  \union Removing

\* The order in which tasks follow one another in a list.  What a streamed command
\* does in a round comes before its start, which it puts in its place.
Rank(t) ==
  CASE t.do = "ready" -> 0
    [] t.do = "mkdir" -> 1
    [] t.do = "write" /\ t.path = "target" -> 2
    [] t.do = "fetch" -> 3
    [] t.do = "write" /\ t.path = "script" -> 4
    [] t.do = "write" /\ t.path = "out" -> 5
    [] t.do = "write" /\ t.path = "err" -> 6
    [] t.do = "check" -> 7
    [] t.do = "drain" /\ t.path = "out" -> 8
    [] t.do = "drain" /\ t.path = "err" -> 9
    [] t.do = "status" -> 10
    [] t.do = "run" -> 11
    [] t.do = "kill" -> 12
    [] t.do = "remove" /\ t.path = "streams" -> 13
    [] OTHER -> 14

Ordered(tasks) ==
  \A i, j \in 1 .. Len(tasks) : i < j => Rank(tasks[i]) < Rank(tasks[j])

\* The tasks that are left.
Left == ToSet(todo)

ClientTypes ==
  /\ job \in Jobs
  /\ todo \in Seq(AllTasks)
  /\ chunk \in [size : 0 .. Window - 1, end : BOOLEAN, ok : BOOLEAN]
  /\ late \in BOOLEAN /\ ownLate \in BOOLEAN /\ trouble \in BOOLEAN
  /\ result \in {"ok", "error"}
  /\ offset \in [Streams -> 0 .. Window - 1]
  /\ printed \in [Streams -> 0 .. Window - 1]

GuestTypes ==
  /\ files \subseteq Own \union {"target"}
  /\ handles \subseteq Own \union {"target"}
  /\ proc \in {"none", "running", "exited", "killed"}
  /\ helper \in AllTasks \union {NoHelper}
  /\ written \in [Streams -> 0 .. Window - 1]

\* Which task is at which step.
StepInv ==
  /\ Over <=> step = "end"
  /\ step \in {"end", "ping", "open", "io", "close", "info", "exec", "status", "check"}
  /\ step = "ping" => First.do = "ready"
  /\ step \in {"open", "io", "close"} => First.do \in {"write", "fetch", "drain"}
  /\ step \in {"info", "exec"} => First.do \in {"mkdir", "run", "kill", "remove"}
  /\ step = "status" => First.do \in {"mkdir", "run", "kill", "remove", "status"}
  /\ step = "check" => First.do = "check"

\* The tasks follow one another in one order, and are those of what was asked for.
\* A copy starts nothing and leaves only its target.
Copying == job.mode \in {"copyIn", "copyOut"}
OrderInv ==
  /\ Ordered(todo)
  /\ \A t \in Left : t.do \in {"mkdir", "fetch"} \/ t.path = "target" => Copying
  /\ \A t \in Left : t.do \in {"run", "check", "drain", "status"} \/ t.path \in Own => ~Copying
  /\ Copying => proc = "none" /\ files \subseteq {"target"}

\* Whoever is still to write a file is still to remove it.
Removed(f) == Task("remove", IF f = "script" THEN "script" ELSE "streams")
WriteInv == \A f \in Own : Task("write", f) \in Left => Removed(f) \in Left

\* Files are there as long as they are to be removed, one is open while it is used,
\* and nothing has gone wrong with it.
FilesInv ==
  ~trouble =>
    /\ \A f \in files \intersect Own : Removed(f) \in Left
    /\ handles \subseteq (IF step \in {"io", "close"} THEN {Path} ELSE {})
    /\ step = "close" => chunk.ok
    /\ ~Over /\ First.do = "ready" => files = {}
    /\ step = "status" /\ First.do = "remove" /\ helper # First =>
         helper = NoHelper /\ \A f \in files \intersect Own : Removed(f) # First

\* The guest command is not started twice, and whoever has started it asks for it.
RunInv ==
  /\ Running \in Left => \A t \in Left : t.do \notin {"check", "drain", "status"}
  /\ Running \in Left /\ ~(First = Running /\ step = "status") => proc = "none"
  /\ ~Over /\ First = Running /\ step = "status" => job.mode = "capture"
  /\ ~Over /\ First.do = "ready" => proc = "none"

\* A guest command that runs is waited for or will be killed.
KillInv ==
  ~trouble /\ proc = "running" =>
    /\ {Running, Asking, Killing} \intersect Left # {}
    /\ step = "status" /\ First = Killing => helper = Killing

\* While all goes well: a streamed command has not started, or it is waited for, or
\* it has ended and what it wrote is read to the end.
OutputInv ==
  /\ printed = offset
  /\ result = "ok" /\ job.mode = "stream" =>
       /\ Killing \in Left \/ helper = Killing => proc = "exited"
       /\ Running \in Left \/ Asking \in Left \/ proc = "exited"
       /\ Asking \in Left => proc \in {"running", "exited"}
       /\ ~(Running \in Left \/ Asking \in Left) =>
            /\ \A s \in Streams : Task("drain", s) \in Left \/ offset[s] = written[s]
            /\ step = "close" /\ First.do = "drain" /\ chunk.ok =>
                 /\ chunk.size = (IF Unread(Path) < Chunk THEN Unread(Path) ELSE Chunk)
                 /\ chunk.end = (Unread(Path) < Chunk)

IInv ==
  /\ ClientTypes /\ GuestTypes
  /\ StepInv /\ OrderInv
  /\ WriteInv /\ FilesInv
  /\ RunInv /\ KillInv /\ OutputInv

-----------------------------------------------------------------------------
(* Tasks and lists of tasks.                                                *)

\* A task is known by what it does and by the file it does it to.
LEMMA Fields ==
  \A do, path : Task(do, path).do = do /\ Task(do, path).path = path
BY DEF Task

\* What the tasks of a kind are, and where they stand in the order.
LEMMA Kinds ==
  ASSUME NEW t \in AllTasks
  PROVE  /\ t.do \in {"ready", "mkdir", "fetch", "write", "check", "drain", "status", "run", "kill",
                      "remove"}
         /\ t = Task(t.do, t.path) /\ t.path \in Own \union {"target", "none", "streams"}
         /\ t.do = "run" => t = Running
         /\ t.do = "kill" => t = Killing
         /\ t.do = "status" => t = Asking
         /\ t.do = "remove" => t \in Removing
         /\ t.do = "drain" => t \in Drains /\ t.path \in Streams
         /\ t.do \in {"write", "fetch", "drain"} => t.path \in Own \union {"target"}
         /\ t # NoHelper
         /\ Rank(t) \in 0 .. 14
         /\ t.do = "ready" <=> Rank(t) = 0
         /\ t.do \in {"mkdir", "fetch"} <=> Rank(t) \in {1, 3}
         /\ t.do = "write" <=> Rank(t) \in {2, 4, 5, 6}
         /\ t.do = "check" <=> Rank(t) = 7
         /\ t.do = "drain" <=> Rank(t) \in 8 .. 9
         /\ t.do = "status" <=> Rank(t) = 10
         /\ t.do = "run" <=> Rank(t) = 11
         /\ t.do = "kill" <=> Rank(t) = 12
         /\ t.do = "remove" <=> Rank(t) \in 13 .. 14
BY SMT DEF AllTasks, Removing, Killing, Running, Asking, Drains, Own, Streams, Task, NoHelper, Rank

\* The ranks of the tasks of a round and of the removals.
LEMMA Ranks ==
  /\ Rank(Task("check", "none")) = 7
  /\ Rank(Task("drain", "out")) = 8 /\ Rank(Task("drain", "err")) = 9
  /\ Rank(Asking) = 10 /\ Rank(Running) = 11 /\ Rank(Killing) = 12
  /\ Rank(Task("remove", "streams")) = 13 /\ Rank(Task("remove", "script")) = 14
BY DEF Rank, Asking, Running, Killing, Task

\* Tasks by name.
LEMMA Members ==
  /\ Task("check", "none") \in AllTasks
  /\ Task("drain", "out") \in AllTasks /\ Task("drain", "err") \in AllTasks
  /\ Asking \in AllTasks /\ Running \in AllTasks /\ Killing \in AllTasks
  /\ Task("remove", "streams") \in AllTasks /\ Task("remove", "script") \in AllTasks
  /\ Drains = {Task("drain", "out"), Task("drain", "err")}
BY DEF AllTasks, Removing, Drains, Streams

Listed(s) == s \in Seq(AllTasks) /\ Ordered(s)

\* A list that is not empty is its head and the rest, which comes after it.
LEMMA Rest ==
  ASSUME NEW s, Listed(s), s # <<>>
  PROVE  /\ Head(s) \in AllTasks /\ Head(s) = s[1]
         /\ Listed(Tail(s))
         /\ ToSet(s) = {Head(s)} \union ToSet(Tail(s))
         /\ \A t \in ToSet(Tail(s)) : t \in AllTasks /\ Rank(Head(s)) < Rank(t)
<1> Len(s) \in Nat \ {0} /\ DOMAIN s = 1 .. Len(s)
  BY DEF Listed
<1>1. Tail(s) \in Seq(AllTasks) /\ Len(Tail(s)) = Len(s) - 1
  BY DEF Listed
<1>2. \A i \in 1 .. Len(Tail(s)) : Tail(s)[i] = s[i + 1] /\ i + 1 \in 1 .. Len(s)
  BY <1>1 DEF Listed
<1>3. Head(s) = s[1] /\ s[1] \in AllTasks
  BY DEF Listed
<1>4. Ordered(Tail(s))
  BY <1>1, <1>2 DEF Listed, Ordered
<1>5. ToSet(s) = {Head(s)} \union ToSet(Tail(s))
  <2>1. ASSUME NEW i \in 1 .. Len(s) PROVE s[i] \in {Head(s)} \union ToSet(Tail(s))
    <3>1. CASE i = 1
      BY <3>1, <1>3
    <3>2. CASE i # 1
      <4>1. i - 1 \in 1 .. Len(Tail(s)) /\ Tail(s)[i - 1] = s[i]
        BY <3>2, <1>1, <1>2
      <4>2. DOMAIN Tail(s) = 1 .. Len(Tail(s))
        BY <1>1
      <4>3. Tail(s)[i - 1] \in ToSet(Tail(s))
        BY <4>1, <4>2 DEF ToSet
      <4> QED BY <4>1, <4>3
    <3> QED BY <3>1, <3>2
  <2>2. ToSet(Tail(s)) \subseteq ToSet(s)
    BY <1>1, <1>2 DEF ToSet
  <2> QED BY <2>1, <2>2, <1>3 DEF ToSet
<1>6. ASSUME NEW t \in ToSet(Tail(s)) PROVE t \in AllTasks /\ Rank(Head(s)) < Rank(t)
  <2>1. PICK i \in 1 .. Len(Tail(s)) : t = Tail(s)[i]
    BY <1>1 DEF ToSet
  <2>2. t = s[i + 1] /\ i + 1 \in 1 .. Len(s) /\ 1 < i + 1
    BY <2>1, <1>2, <1>1
  <2> QED BY <2>2, <1>3 DEF Listed, Ordered
<1> QED BY <1>1, <1>3, <1>4, <1>5, <1>6 DEF Listed

\* Two lists of which one comes after the other make one list.
LEMMA Joined ==
  ASSUME NEW s, NEW r, Listed(s), Listed(r),
         \A a \in ToSet(s), b \in ToSet(r) : Rank(a) < Rank(b)
  PROVE  Listed(s \o r) /\ ToSet(s \o r) = ToSet(s) \union ToSet(r)
<1> DEFINE m == Len(s)
           n == Len(r)
<1> m \in Nat /\ n \in Nat /\ DOMAIN s = 1 .. m /\ DOMAIN r = 1 .. n
  BY DEF Listed
<1>1. s \o r \in Seq(AllTasks) /\ Len(s \o r) = m + n
  BY DEF Listed
<1>2. \A i \in 1 .. m : (s \o r)[i] = s[i] /\ s[i] \in ToSet(s)
  BY DEF Listed, ToSet
<1>3. \A i \in m + 1 .. m + n : (s \o r)[i] = r[i - m] /\ r[i - m] \in ToSet(r) /\ i - m \in 1 .. n
  BY DEF Listed, ToSet
<1> HIDE DEF m, n
<1>4. ToSet(s \o r) = ToSet(s) \union ToSet(r)
  <2>1. DOMAIN (s \o r) = 1 .. m + n
    BY <1>1
  <2>2. ToSet(s \o r) \subseteq ToSet(s) \union ToSet(r)
    <3>1. ASSUME NEW i \in 1 .. m + n PROVE (s \o r)[i] \in ToSet(s) \union ToSet(r)
      BY <1>2, <1>3
    <3> QED BY <3>1, <2>1 DEF ToSet
  <2>3. ASSUME NEW i \in 1 .. m PROVE s[i] \in ToSet(s \o r)
    <3>1. i \in DOMAIN (s \o r)
      BY <2>1
    <3>2. (s \o r)[i] \in ToSet(s \o r)
      BY <3>1 DEF ToSet
    <3> QED BY <3>2, <1>2
  <2>4. ASSUME NEW i \in 1 .. n PROVE r[i] \in ToSet(s \o r)
    <3>1. i + m \in m + 1 .. m + n /\ (i + m) - m = i /\ i + m \in DOMAIN (s \o r)
      BY <2>1
    <3>2. (s \o r)[i + m] = r[i]
      BY <3>1, <1>3
    <3>3. (s \o r)[i + m] \in ToSet(s \o r)
      BY <3>1 DEF ToSet
    <3> QED BY <3>2, <3>3
  <2>5. ToSet(s) \subseteq ToSet(s \o r) /\ ToSet(r) \subseteq ToSet(s \o r)
    <3>1. \A t \in ToSet(s) : \E i \in 1 .. m : t = s[i]
      BY DEF ToSet
    <3>2. \A t \in ToSet(r) : \E i \in 1 .. n : t = r[i]
      BY DEF ToSet
    <3> QED BY <3>1, <3>2, <2>3, <2>4
  <2> QED BY <2>2, <2>5
<1>5. Ordered(s \o r)
  <2> SUFFICES ASSUME NEW i \in 1 .. m + n, NEW j \in 1 .. m + n, i < j
               PROVE  Rank((s \o r)[i]) < Rank((s \o r)[j])
    BY <1>1 DEF Ordered
  <2>1. CASE j \in 1 .. m
    <3>1. i \in 1 .. m
      BY <2>1
    <3> QED BY <2>1, <3>1, <1>2 DEF Listed, Ordered, m
  <2>2. CASE i \in m + 1 .. m + n
    <3>1. j \in m + 1 .. m + n /\ i - m < j - m
      BY <2>2
    <3> QED BY <2>2, <3>1, <1>3 DEF Listed, Ordered, n
  <2>3. CASE i \in 1 .. m /\ j \in m + 1 .. m + n
    BY <2>3, <1>2, <1>3
  <2> QED BY <2>1, <2>2, <2>3
<1> QED BY <1>1, <1>4, <1>5 DEF Listed

\* No task, and one task.
LEMMA Short ==
  /\ Listed(<<>>) /\ ToSet(<<>>) = {}
  /\ \A t \in AllTasks : Listed(<<t>>) /\ ToSet(<<t>>) = {t}
BY DEF Listed, Ordered, ToSet

\* What is removed in the end is what is still to be removed.
LEMMA RemovalsListed ==
  ASSUME NEW s
  PROVE  /\ Listed(Removal(s, "script"))
         /\ ToSet(Removal(s, "script")) = ToSet(s) \intersect {Task("remove", "script")}
         /\ Listed(Removals(s)) /\ ToSet(Removals(s)) = ToSet(s) \intersect Removing
<1>1. \A path \in {"script", "streams"} :
        /\ Listed(Removal(s, path))
        /\ ToSet(Removal(s, path)) = ToSet(s) \intersect {Task("remove", path)}
  BY Short, Members DEF Removal, If
<1>2. \A a \in ToSet(Removal(s, "streams")), b \in ToSet(Removal(s, "script")) : Rank(a) < Rank(b)
  BY <1>1, Ranks
<1>3. Listed(Removals(s)) /\ ToSet(Removals(s)) = ToSet(Removal(s, "streams")) \union ToSet(Removal(s, "script"))
  BY <1>1, <1>2, Joined DEF Removals
<1> QED BY <1>1, <1>3 DEF Removing

\* The rounds of a streamed command, before what comes after them.
LEMMA Rounds ==
  ASSUME NEW s, Listed(s), \A t \in ToSet(s) : Rank(t) > 10
  PROVE  /\ Listed(LastRound \o s) /\ ToSet(LastRound \o s) = Drains \union ToSet(s)
         /\ LastRound \o s # <<>>
         /\ Listed(Round \o s)
         /\ ToSet(Round \o s) = {Task("check", "none"), Asking} \union Drains \union ToSet(s)
         /\ Round \o s # <<>>
<1> DEFINE k == <<Task("check", "none")>>
           a == <<Asking>>
<1>1. Listed(LastRound) /\ ToSet(LastRound) = Drains
  <2>1. LastRound \in Seq(AllTasks) /\ Len(LastRound) = 2 /\ DOMAIN LastRound = 1 .. 2
        /\ LastRound[1] = Task("drain", "out") /\ LastRound[2] = Task("drain", "err")
    BY Members DEF LastRound
  <2>2. Ordered(LastRound)
    BY <2>1, Ranks DEF Ordered
  <2>3. ToSet(LastRound) = Drains
    BY <2>1, Members DEF ToSet
  <2> QED BY <2>1, <2>2, <2>3 DEF Listed
<1>2. Listed(k) /\ ToSet(k) = {Task("check", "none")} /\ Listed(a) /\ ToSet(a) = {Asking}
  BY Short, Members
<1> HIDE DEF k, a
<1>3. Listed(k \o LastRound) /\ ToSet(k \o LastRound) = {Task("check", "none")} \union Drains
  BY <1>1, <1>2, Joined, Ranks, Members
<1>4. Listed(Round) /\ ToSet(Round) = {Task("check", "none"), Asking} \union Drains
  <2>1. Round = (k \o LastRound) \o a
    BY DEF Round, k, a, Asking
  <2>2. \A x \in ToSet(k \o LastRound), y \in ToSet(a) : Rank(x) < Rank(y)
    BY <1>2, <1>3, Ranks, Members
  <2> QED BY <2>1, <2>2, <1>2, <1>3, Joined
<1>5. \A x \in ToSet(Round), y \in ToSet(s) : Rank(x) < Rank(y)
  <2>1. \A x \in ToSet(Round) : Rank(x) \in 7 .. 10
    BY <1>4, Ranks, Members
  <2>2. \A y \in ToSet(s) : y \in AllTasks
    BY DEF Listed, ToSet
  <2> QED BY <2>1, <2>2, Kinds
<1>6. \A x \in ToSet(LastRound), y \in ToSet(s) : Rank(x) < Rank(y)
  BY <1>1, <1>4, <1>5
<1>7. Listed(LastRound \o s) /\ ToSet(LastRound \o s) = Drains \union ToSet(s)
  BY <1>1, <1>6, Joined
<1>8. Listed(Round \o s) /\ ToSet(Round \o s) = ToSet(Round) \union ToSet(s)
  BY <1>4, <1>5, Joined
<1> QED BY <1>4, <1>7, <1>8, Short, Members

\* Termination comes before what is removed.
LEMMA Killed ==
  ASSUME NEW s, Listed(s), \A t \in ToSet(s) : Rank(t) > 12
  PROVE  /\ Listed(<<Killing>> \o s) /\ ToSet(<<Killing>> \o s) = {Killing} \union ToSet(s)
BY Short, Members, Ranks, Joined

-----------------------------------------------------------------------------
(* Going on with the next task.                                             *)

\* The first step of each task.
Begun ==
  /\ step \notin {"io", "close", "exec"}
  /\ step = "status" => First.do = "status"
  /\ First = Running => step = "info"

\* The list is begun with its first task at its first step.
LEMMA Begins ==
  ASSUME NEW s, Listed(s), Tackle(s)
  PROVE  todo' = s /\ StepInv' /\ (~Over' => Begun')
<1>1. CASE s = <<>>
  BY <1>1 DEF Tackle, StepInv, Over
<1>2. CASE s # <<>>
  <2>1. todo' = s /\ step' = FirstStep[s[1].do] /\ First' = s[1] /\ s[1] \in AllTasks
    BY <1>2, Rest DEF Tackle, First
  <2>2. /\ s[1].do \in {"ready", "mkdir", "fetch", "write", "check", "drain", "status", "run", "kill",
                        "remove"}
        /\ Running.do = "run"
    BY <2>1, Kinds, Fields DEF Running
  <2>3. \/ s[1].do = "ready" /\ step' = "ping"
        \/ s[1].do \in {"write", "fetch", "drain"} /\ step' = "open"
        \/ s[1].do \in {"mkdir", "run", "kill", "remove"} /\ step' = "info"
        \/ s[1].do = "check" /\ step' = "check"
        \/ s[1].do = "status" /\ step' = "status"
    BY <2>1, <2>2 DEF FirstStep
  <2>4. ~Over'
    BY <1>2, <2>1 DEF Over
  <2> QED BY <2>1, <2>2, <2>3, <2>4 DEF StepInv, Begun
<1> QED BY <1>1, <1>2

\* What there is to know of the task at work.
LEMMA AtWork ==
  ASSUME ClientTypes, OrderInv, ~Over
  PROVE  /\ Listed(todo) /\ First \in AllTasks /\ First \in Left
         /\ Listed(Tail(todo))
         /\ ToSet(Tail(todo)) = Left \ {First}
         /\ \A t \in Left \ {First} : t \in AllTasks /\ Rank(First) < Rank(t)
<1>1. Listed(todo) /\ todo # <<>>
  BY DEF ClientTypes, OrderInv, Listed, Over
<1>2. /\ First \in AllTasks /\ Listed(Tail(todo)) /\ Left = {First} \union ToSet(Tail(todo))
      /\ \A t \in ToSet(Tail(todo)) : t \in AllTasks /\ Rank(First) < Rank(t)
  BY <1>1, Rest DEF First, Left
<1>3. First \notin ToSet(Tail(todo))
  BY <1>2, Kinds
<1> QED BY <1>1, <1>2, <1>3

\* What is left belongs to the tasks, also when nothing is.
LEMMA LeftTasks ==
  ASSUME ClientTypes
  PROVE  \A t \in Left : t \in AllTasks
BY DEF ClientTypes, Left, ToSet

\* A task that is done is not among those that are left.
LEMMA DoneMoves ==
  ASSUME ClientTypes, OrderInv, ~Over, Done
  PROVE  /\ Listed(todo') /\ StepInv' /\ (~Over' => Begun')
         /\ Left' = Left \ {First} /\ result' = result
BY AtWork, Begins DEF Done, Left

\* What is still done after an error is to be done anyway: nothing, what is removed,
\* or the rest.
LEMMA FailMoves ==
  ASSUME ClientTypes, OrderInv, ~Over, Fail
  PROVE  /\ Listed(todo') /\ StepInv' /\ (~Over' => Begun')
         /\ Left' \subseteq Left \ {First}
         /\ First.do \in {"kill", "remove"} => Left' = Left \ {First} /\ result' = result
         /\ First.do \notin {"kill", "remove"} => Left' \subseteq Removing /\ result' = "error"
         /\ First.do \in {"run", "check", "drain", "status"} => Left' = Left \intersect Removing
<1>1. /\ First.do \in {"ready", "mkdir", "fetch", "write", "check", "drain", "status", "run", "kill",
                       "remove"}
      /\ First.do = "write" => First.path \in Own \union {"target"}
      /\ First = Task(First.do, First.path)
  BY AtWork, Kinds
<1>2. First.do # "remove" => First \notin Removing
  BY Fields DEF Removing
<1> DEFINE s == StillToDo
<1>3. \/ First.do \in {"ready", "mkdir", "fetch", "write"} /\ s = <<>>
      \/ First.do = "write" /\ s = Removal(todo, "script")
      \/ First.do \in {"kill", "remove"} /\ s = Tail(todo)
      \/ First.do \in {"run", "check", "drain", "status"} /\ s = Removals(todo)
  <2>1. CASE First.do \in {"ready", "mkdir", "fetch"}
    BY <2>1 DEF StillToDo
  <2>2. CASE First.do = "write" /\ First.path \in Streams
    <3>1. First # Task("write", "script") /\ First # Task("write", "target")
      BY <2>2, Fields DEF Streams
    <3> QED BY <2>2, <3>1 DEF StillToDo
  <2>3. CASE First.do = "write" /\ First.path \in {"script", "target"}
    <3>1. First = Task("write", "script") \/ First = Task("write", "target")
      BY <2>3, <1>1
    <3>2. First.path \notin Streams
      BY <2>3 DEF Streams
    <3> QED BY <2>3, <3>1, <3>2 DEF StillToDo
  <2>4. CASE First.do \notin {"ready", "mkdir", "fetch", "write"}
    <3>1. First # Task("write", "script") /\ First # Task("write", "target")
      BY <2>4, Fields
    <3> QED BY <2>4, <3>1, <1>1 DEF StillToDo
  <2> QED BY <2>1, <2>2, <2>3, <2>4, <1>1 DEF Own
<1> HIDE DEF s
<1>4. Listed(s) /\ ToSet(s) \subseteq Left \ {First}
      /\ (First.do \in {"kill", "remove"} => ToSet(s) = Left \ {First})
      /\ (First.do \notin {"kill", "remove"} => ToSet(s) \subseteq Removing)
      /\ (First.do \in {"run", "check", "drain", "status"} => ToSet(s) = Left \intersect Removing)
  <2>1. CASE First.do \in {"ready", "mkdir", "fetch", "write"} /\ s = <<>>
    BY <2>1, Short
  <2>2. CASE First.do = "write" /\ s = Removal(todo, "script")
    <3>1. Listed(s) /\ ToSet(s) = Left \intersect {Task("remove", "script")}
      BY <2>2, RemovalsListed DEF Left
    <3> QED BY <3>1, <2>2, <1>2 DEF Removing
  <2>3. CASE First.do \in {"kill", "remove"} /\ s = Tail(todo)
    BY <2>3, AtWork
  <2>4. CASE First.do \in {"run", "check", "drain", "status"} /\ s = Removals(todo)
    <3>1. Listed(s) /\ ToSet(s) = Left \intersect Removing
      BY <2>4, RemovalsListed DEF Left
    <3> QED BY <3>1, <2>4, <1>2
  <2> QED BY <1>3, <2>1, <2>2, <2>3, <2>4
<1>5. Tackle(s) /\ result' = IF First.do \in {"kill", "remove"} THEN result ELSE "error"
  BY DEF Fail, s
<1>6. todo' = s /\ StepInv' /\ (~Over' => Begun') /\ Left' = ToSet(s)
  BY <1>4, <1>5, Begins DEF Left
<1> QED BY <1>4, <1>5, <1>6

\* After the deadline what runs in the guest is killed first.
LEMMA GiveUpMoves ==
  ASSUME ClientTypes, OrderInv, ~Over, GiveUp, OwnDeadline => First.do = "remove"
  PROVE  /\ Listed(todo') /\ StepInv' /\ (~Over' => Begun')
         /\ First.do = "remove" =>
              /\ Left' = {Killing} \union (Left \ {First})
              /\ result' = result /\ trouble' = TRUE
         /\ First.do # "remove" =>
              /\ Left' = {Killing} \union (Left \intersect Removing)
              /\ result' = "error" /\ trouble' = trouble
<1> DEFINE s == IF OwnDeadline THEN Tail(todo) ELSE Removals(todo)
<1>1. OwnDeadline <=> First.do = "remove"
  BY DEF OwnDeadline
<1>2. /\ Listed(s) /\ (\A t \in ToSet(s) : Rank(t) > 12)
      /\ First.do = "remove" => ToSet(s) = Left \ {First}
      /\ First.do # "remove" => ToSet(s) = Left \intersect Removing
  <2>1. CASE First.do = "remove"
    <3>1. \A t \in Left \ {First} : Rank(t) \in 0 .. 14 /\ Rank(First) < Rank(t)
      BY AtWork, Kinds
    <3>2. Rank(First) \in 13 .. 14
      BY <2>1, AtWork, Kinds
    <3> QED BY <2>1, <3>1, <3>2, <1>1, AtWork
  <2>2. CASE First.do # "remove"
    BY <2>2, <1>1, RemovalsListed, Ranks DEF Removing, Left
  <2> QED BY <2>1, <2>2
<1>3. Tackle(<<Killing>> \o s)
  BY DEF GiveUp, Killing
<1> HIDE DEF s
<1>4. Listed(<<Killing>> \o s) /\ ToSet(<<Killing>> \o s) = {Killing} \union ToSet(s)
  BY <1>2, Killed
<1>5. StepInv' /\ (~Over' => Begun') /\ Listed(todo') /\ Left' = {Killing} \union ToSet(s)
  BY <1>3, <1>4, Begins DEF Left
<1>6. /\ result' = IF OwnDeadline THEN result ELSE "error"
      /\ trouble' = (trouble \/ OwnDeadline)
  BY DEF GiveUp
<1>7. First.do = "remove" => trouble' = TRUE
  BY <1>6, <1>1
<1>8. First.do # "remove" => trouble' = trouble
  BY <1>6, <1>1 DEF ClientTypes
<1> QED BY <1>1, <1>2, <1>5, <1>6, <1>7, <1>8

\* A streamed command that was started or asked for goes on with rounds.
LEMMA RoundMoves ==
  ASSUME ClientTypes, OrderInv, ~Over, First.do \in {"run", "status"},
         NEW last \in BOOLEAN,
         Tackle((IF last THEN LastRound ELSE Round) \o Tail(todo))
  PROVE  /\ Listed(todo') /\ StepInv' /\ (~Over' => Begun')
         /\ ~last => Left' = {Task("check", "none"), Asking} \union Drains \union (Left \ {First})
         /\ last => Left' = Drains \union (Left \ {First})
<1>1. Listed(Tail(todo)) /\ ToSet(Tail(todo)) = Left \ {First}
  BY AtWork
<1>2. \A t \in ToSet(Tail(todo)) : Rank(t) > 10
  <2>1. Rank(First) \in 10 .. 11
    BY AtWork, Kinds
  <2>2. \A t \in Left \ {First} : Rank(t) \in 0 .. 14 /\ Rank(First) < Rank(t)
    BY AtWork, Kinds
  <2> QED BY <1>1, <2>1, <2>2
<1>3. CASE last
  BY <1>1, <1>2, <1>3, Rounds, Begins DEF Left
<1>4. CASE ~last
  BY <1>1, <1>2, <1>4, Rounds, Begins DEF Left
<1> QED BY <1>3, <1>4

-----------------------------------------------------------------------------
(* What a move in the list keeps.                                           *)

RoundTasks == {Task("check", "none"), Asking} \union Drains

\* A step that leaves the task at work behind: it goes on with the rest, perhaps after
\* something new, or it only tidies up.
Moves(new) ==
  /\ ~Over /\ job' = job
  /\ Listed(todo') /\ StepInv' /\ (~Over' => Begun')
  /\ new \subseteq RoundTasks \union {Killing}
  /\ new \intersect RoundTasks # {} => First.do \in {"run", "status"}
  /\ \/ Left' = new \union (Left \ {First})
     \/ Left' \subseteq {Killing} \union (Left \intersect Removing)
  /\ Copying => proc' = proc /\ files' \subseteq files \union {"target"}
  /\ proc' = proc \/ Running \notin Left'

\* The new tasks come from the same job.
LEMMA MovesOrder ==
  ASSUME IInv, NEW new, Moves(new)
  PROVE  OrderInv'
<1>1. Left' \subseteq Left \union new \union {Killing}
  BY DEF Moves
<1>2. Copying' <=> Copying
  BY DEF Moves, Copying
<1>3. \A t \in new \union {Killing} : t.do \notin {"mkdir", "fetch"} /\ t.path # "target"
  BY Fields, Members DEF Moves, RoundTasks, Asking, Killing
<1>4. \A t \in RoundTasks : t # Killing
  BY Ranks, Members DEF RoundTasks
<1>5. \A t \in (new \union {Killing}) \ {Killing} : ~Copying
  <2> SUFFICES ASSUME NEW t \in new, t \in RoundTasks PROVE ~Copying
    BY DEF Moves
  <2>1. First.do \in {"run", "status"} /\ First \in Left
    BY AtWork DEF Moves, IInv
  <2> QED BY <2>1 DEF IInv, OrderInv
<1>6. Killing.do = "kill" /\ Killing.path = "none"
  BY Fields DEF Killing
<1>7. \A t \in Left' : t.do \in {"mkdir", "fetch"} \/ t.path = "target" => Copying
  BY <1>1, <1>3 DEF IInv, OrderInv
<1>8. \A t \in Left' : t.do \in {"run", "check", "drain", "status"} \/ t.path \in Own => ~Copying
  BY <1>1, <1>5, <1>6 DEF IInv, OrderInv, Own, Streams
<1>9. Copying => proc' = "none" /\ files' \subseteq {"target"}
  BY DEF Moves, IInv, OrderInv
<1> QED BY <1>2, <1>7, <1>8, <1>9 DEF OrderInv, Moves, Listed

\* What is still to be written is still to be removed.
LEMMA MovesWrite ==
  ASSUME IInv, NEW new, Moves(new)
  PROVE  WriteInv'
<1> SUFFICES ASSUME NEW f \in Own, Task("write", f) \in Left'
             PROVE  Removed(f) \in Left'
  BY DEF WriteInv, Removed
<1>1. \A t \in RoundTasks \union {Killing} \union Removing : t.do # "write"
  BY Fields, Members DEF RoundTasks, Removing, Asking, Killing
<1>2. Task("write", f) \in Left \ {First} /\ Left' = new \union (Left \ {First})
  BY <1>1, Fields DEF Moves
<1>3. Removed(f) \in Left /\ Removed(f) \in Removing
  BY <1>2 DEF IInv, WriteInv, Removed, Removing
<1>4. Rank(First) < Rank(Task("write", f)) /\ Task("write", f) \in AllTasks
  BY <1>2, AtWork DEF Moves, IInv
<1>5. Removed(f) # First
  <2>1. Rank(Task("write", f)) \in 2 .. 6
    BY <1>4, Kinds, Fields
  <2>2. Rank(Removed(f)) \in 13 .. 14
    BY <1>3, Ranks DEF Removing
  <2>3. First \in AllTasks
    BY AtWork DEF Moves, IInv
  <2> QED BY <1>4, <2>1, <2>2, <2>3, Kinds
<1> QED BY <1>2, <1>3, <1>5

\* The command is not put back, and the first task is not readiness again.
LEMMA MovesRun ==
  ASSUME IInv, NEW new, Moves(new)
  PROVE  RunInv' /\ (~Over' => First'.do # "ready")
<1> USE DEF IInv
<1>1. \A t \in RoundTasks \union {Killing} : t # Running /\ t.do # "ready"
  BY Ranks, Members, Fields DEF RoundTasks, Asking, Killing
<1>2. \A t \in Removing \union {Killing} : t # Running /\ t.do # "ready"
  BY Ranks, Fields DEF Removing, Killing
<1>3. Running \in Left' => Running \in Left \ {First} /\ Left' = new \union (Left \ {First})
  BY <1>1, <1>2 DEF Moves
<1>4. Running \in Left' => proc' = "none"
  BY <1>3 DEF Moves, RunInv
<1>5. ASSUME Running \in Left' PROVE \A t \in Left' : t.do \notin {"check", "drain", "status"}
  <2>1. new \intersect RoundTasks = {}
    <3>1. First \in Left
      BY AtWork DEF Moves
    <3>2. First # Running
      BY <1>5, <1>3
    <3>3. First.do # "run"
      BY <3>2, AtWork, Kinds DEF Moves
    <3>4. First.do # "status"
      BY <3>1, <1>5, <1>3 DEF RunInv
    <3> QED BY <3>3, <3>4 DEF Moves
  <2>2. \A t \in Left' : t \in Left \/ t = Killing
    BY <1>5, <1>3, <2>1 DEF Moves
  <2>3. Killing.do = "kill"
    BY Fields DEF Killing
  <2> QED BY <2>2, <2>3, <1>5, <1>3 DEF RunInv
<1>6. ~Over' => First' # Running \/ step' # "status"
  BY DEF Moves, Begun
<1>7. \A t \in Left' : t.do # "ready"
  <2>1. \A t \in Left \ {First} : t \in AllTasks /\ Rank(First) < Rank(t)
    BY AtWork DEF Moves
  <2>2. First \in AllTasks /\ Rank(First) \in 0 .. 14
    BY AtWork, Kinds DEF Moves
  <2>3. \A t \in Left \ {First} : t.do # "ready"
    BY <2>1, <2>2, Kinds
  <2> QED BY <2>3, <1>1, <1>2 DEF Moves
<1>8. ~Over' => First' \in Left'
  BY Rest DEF Moves, First, Left, Over
<1> QED BY <1>4, <1>5, <1>6, <1>7, <1>8 DEF RunInv

\* After an error nothing is said of the output.
LEMMA OutputError ==
  ASSUME IInv, result' = "error", UNCHANGED <<offset, printed>>
  PROVE  OutputInv'
BY DEF IInv, OutputInv

\* A task that does not touch the output leaves it as it is.
LEMMA OutputDone ==
  ASSUME IInv, NEW new, Moves(new), Left' = Left \ {First}, result' = result,
         First.do \notin {"run", "status", "drain"},
         UNCHANGED <<offset, printed, proc, written>>,
         helper' \in {helper, First}
  PROVE  OutputInv'
<1> USE DEF IInv
<1>1. Left' \subseteq Left /\ First \in Left /\ job' = job
  BY AtWork DEF Moves
<1>2. Running \in Left' <=> Running \in Left
  BY Fields DEF Running
<1>3. Asking \in Left' <=> Asking \in Left
  BY Fields DEF Asking
<1>4. \A s \in Streams : Task("drain", s) \in Left => Task("drain", s) \in Left'
  BY Fields
<1>5. step' # "close"
  BY DEF Moves, Begun, StepInv
<1>6. Killing \in Left' \/ helper' = Killing => Killing \in Left \/ helper = Killing
  BY <1>1
<1> QED BY <1>1, <1>2, <1>3, <1>4, <1>5, <1>6 DEF OutputInv

\* No file is forgotten as long as it is to be removed.
LEMMA MovesFiles ==
  ASSUME IInv, NEW new, Moves(new),
         ~trouble' => handles' = {} /\ \A f \in files' \intersect Own : Removed(f) \in Left'
  PROVE  FilesInv'
<1>1. step' \notin {"io", "close"}
  BY DEF Moves, Begun, StepInv
<1>2. ~Over' => First'.do # "ready"
  BY MovesRun
<1>3. ~(step' = "status" /\ First'.do = "remove")
  BY DEF Moves, Begun, StepInv
<1> QED BY <1>1, <1>2, <1>3 DEF FilesInv, Removed

\* No command is forgotten as long as it is waited for or to be killed.
LEMMA MovesKill ==
  ASSUME IInv, NEW new, Moves(new),
         ~trouble' /\ proc' = "running" => {Running, Asking, Killing} \intersect Left' # {}
  PROVE  KillInv'
<1>1. ~(step' = "status" /\ First' = Killing)
  BY Fields DEF Moves, Begun, StepInv, Killing
<1> QED BY <1>1 DEF KillInv

\* All of it together.
LEMMA MovesAll ==
  ASSUME IInv, NEW new, Moves(new), ClientTypes', GuestTypes', OutputInv',
         ~trouble' => handles' = {} /\ \A f \in files' \intersect Own : Removed(f) \in Left',
         ~trouble' /\ proc' = "running" => {Running, Asking, Killing} \intersect Left' # {}
  PROVE  IInv'
<1>1. OrderInv' /\ WriteInv' /\ RunInv' /\ FilesInv' /\ KillInv'
  BY MovesOrder, MovesWrite, MovesRun, MovesFiles, MovesKill
<1> QED BY <1>1 DEF IInv, Moves

\* The types of what the client has, after a move in its list.
LEMMA MovesTypes ==
  ASSUME IInv, Listed(todo'), result' \in {result, "error"}, trouble' \in BOOLEAN, late' \in BOOLEAN,
         ownLate' \in BOOLEAN, chunk' \in [size : 0 .. Window - 1, end : BOOLEAN, ok : BOOLEAN],
         UNCHANGED <<job, offset, printed>>
  PROVE  ClientTypes'
BY DEF IInv, ClientTypes, Listed

\* The tasks that a step which stays at its task has are the same.
LEMMA Stays ==
  ASSUME IInv, UNCHANGED <<todo, job>>
  PROVE  /\ Left' = Left /\ First' = First /\ (Over' <=> Over) /\ Listed(todo) /\ Path' = Path
         /\ WriteInv'
         /\ (proc' = proc \/ ~Copying) /\ (files' \subseteq files \union {"target"} \/ ~Copying)
              => OrderInv'
<1>1. Left' = Left /\ First' = First /\ (Over' <=> Over) /\ (Copying' <=> Copying) /\ Path' = Path
  BY DEF Left, First, Over, Copying, Path
<1>2. WriteInv'
  BY <1>1 DEF IInv, WriteInv, Removed
<1> QED BY <1>1, <1>2 DEF IInv, OrderInv, ClientTypes, Listed

-----------------------------------------------------------------------------
(* Errors.                                                                  *)

\* An error that the agent made: nothing is said any more of what stays in the guest.
LEMMA TroubleKept ==
  ASSUME IInv, ~Over, Fail, ClientTypes', GuestTypes', trouble' = TRUE,
         UNCHANGED <<job, offset, printed>>,
         Copying => proc' = proc /\ files' \subseteq files \union {"target"},
         proc' = proc \/ First = Running,
         First.do \in {"kill", "remove"} =>
           proc' = proc /\ written' = written /\ helper' \in {helper, First}
  PROVE  IInv'
<1>1. /\ Listed(todo') /\ StepInv' /\ (~Over' => Begun')
      /\ Left' \subseteq Left \ {First}
      /\ First.do \in {"kill", "remove"} => Left' = Left \ {First} /\ result' = result
      /\ First.do \notin {"kill", "remove"} => Left' \subseteq Removing /\ result' = "error"
  BY FailMoves DEF IInv
<1>2. Moves({})
  <2>1. proc' = proc \/ Running \notin Left'
    BY <1>1
  <2>2. Left' = {} \union (Left \ {First}) \/ Left' \subseteq {Killing} \union (Left \intersect Removing)
    BY <1>1, AtWork, Kinds DEF IInv
  <2> QED BY <1>1, <2>1, <2>2 DEF Moves
<1>3. OutputInv'
  <2>1. CASE First.do \in {"kill", "remove"}
    BY <2>1, <1>1, <1>2, OutputDone
  <2>2. CASE First.do \notin {"kill", "remove"}
    BY <2>2, <1>1, OutputError
  <2> QED BY <2>1, <2>2
<1> QED BY <1>2, <1>3, MovesAll

\* An error before anything was left in the guest, or that leaves the removals to do.
LEMMA QuietKept ==
  ASSUME IInv, ~Over, Fail, ClientTypes', trouble' = trouble, step \notin {"io", "close"},
         First.do = "run" => step # "status",
         First.do \in {"ready", "mkdir", "fetch", "run"},
         UNCHANGED <<job, offset, printed, guest>>
  PROVE  IInv'
<1>1. /\ Listed(todo') /\ StepInv' /\ (~Over' => Begun')
      /\ Left' \subseteq Left \ {First}
      /\ Left' \subseteq Removing /\ result' = "error"
      /\ First.do = "run" => Left' = Left \intersect Removing
  BY FailMoves DEF IInv
<1>2. Moves({})
  BY <1>1 DEF Moves, guest
<1>3. OutputInv'
  BY <1>1, OutputError
<1>4. GuestTypes'
  BY DEF IInv, GuestTypes, guest
<1>5. First \in Left /\ (First.do = "run" => First = Running)
  BY AtWork, Kinds DEF IInv
<1>6. proc' = "none"
  BY <1>5 DEF guest, IInv, RunInv, OrderInv
<1>7. ~trouble' => handles' = {} /\ \A f \in files' \intersect Own : Removed(f) \in Left'
  <2>1. ~trouble' => handles' = {}
    BY DEF IInv, FilesInv, guest
  <2>2. CASE First.do = "run"
    <3>1. \A f \in Own : Removed(f) \in Removing
      BY DEF Removed, Removing
    <3> QED BY <2>1, <2>2, <3>1, <1>1 DEF IInv, FilesInv, guest
  <2>3. CASE First.do = "ready"
    BY <2>1, <2>3 DEF IInv, FilesInv, guest
  <2>4. CASE First.do \in {"mkdir", "fetch"}
    BY <2>1, <2>4, <1>5 DEF IInv, OrderInv, Own, Streams, guest
  <2> QED BY <2>2, <2>3, <2>4
<1> QED BY <1>2, <1>3, <1>4, <1>6, <1>7, MovesAll

-----------------------------------------------------------------------------
(* The calls of the agent, one after the other.                             *)

\* What an action asks at its step.
LEMMA Asked ==
  ASSUME IInv, NEW s, Asks(s)
  PROVE  /\ ~Over /\ step = s /\ ownLate' \in BOOLEAN /\ late' \in BOOLEAN /\ job' = job
         /\ First \in AllTasks /\ First \in Left
         /\ result \in {"ok", "error"} /\ trouble \in BOOLEAN
         /\ chunk \in [size : 0 .. Window - 1, end : BOOLEAN, ok : BOOLEAN]
         /\ NoChunk \in [size : 0 .. Window - 1, end : BOOLEAN, ok : BOOLEAN]
         /\ Failed \in [size : 0 .. Window - 1, end : BOOLEAN, ok : BOOLEAN]
<1>1. Window - 1 \in Nat
  BY GuestExecAssumption
<1>2. NoChunk \in [size : 0 .. Window - 1, end : BOOLEAN, ok : BOOLEAN]
  BY <1>1 DEF NoChunk
<1>3. Failed \in [size : 0 .. Window - 1, end : BOOLEAN, ok : BOOLEAN]
  BY <1>2 DEF Failed
<1>4. ~Over /\ step = s /\ ownLate' = FALSE /\ late' = late /\ job' = job
  BY DEF Asks
<1>5. First \in AllTasks /\ First \in Left
  BY <1>4, AtWork DEF IInv
<1>6. /\ result \in {"ok", "error"} /\ trouble \in BOOLEAN /\ late \in BOOLEAN
      /\ chunk \in [size : 0 .. Window - 1, end : BOOLEAN, ok : BOOLEAN]
  BY DEF IInv, ClientTypes
<1>7. late' \in BOOLEAN /\ ownLate' \in BOOLEAN
  BY <1>4, <1>6
<1> QED BY <1>2, <1>3, <1>4, <1>5, <1>6, <1>7

\* Nothing happens in the guest.
LEMMA GuestStays ==
  ASSUME IInv, UNCHANGED guest
  PROVE  /\ GuestTypes' /\ UNCHANGED <<files, handles, proc, helper, written>>
         /\ proc' = proc /\ files' \subseteq files \union {"target"} /\ helper' \in {helper, First}
BY DEF IInv, GuestTypes, guest

\* Readiness is asked for until it is there or the deadline has passed.
LEMMA PingKept ==
  ASSUME IInv, Ping
  PROVE  IInv'
<1> USE DEF Ping
<1>1. /\ ~Over /\ First.do = "ready" /\ step = "ping"
      /\ UNCHANGED <<job, offset, printed, guest, trouble, chunk>>
      /\ late' \in BOOLEAN /\ ownLate' \in BOOLEAN
  BY Asked DEF IInv, StepInv
<1>2. GuestTypes' /\ proc' = proc /\ helper' = helper /\ files' = files /\ handles' = handles
      /\ written' = written
  BY <1>1, GuestStays
<1>3. trouble' \in BOOLEAN /\ chunk' \in [size : 0 .. Window - 1, end : BOOLEAN, ok : BOOLEAN]
  BY <1>1 DEF IInv, ClientTypes
<1>4. CASE Done
  <2>1. /\ Listed(todo') /\ StepInv' /\ (~Over' => Begun')
        /\ Left' = Left \ {First} /\ result' = result
    BY <1>1, <1>4, DoneMoves DEF IInv
  <2>2. Moves({})
    BY <2>1, <1>1, <1>2 DEF Moves
  <2>3. ClientTypes'
    BY <2>1, <1>1, <1>3, MovesTypes
  <2>4. OutputInv'
    BY <2>1, <2>2, <1>1, <1>2, OutputDone
  <2>5. proc = "none" /\ (~trouble => handles = {} /\ files = {})
    BY <1>1 DEF IInv, RunInv, FilesInv
  <2> QED BY <2>2, <2>3, <2>4, <2>5, <1>1, <1>2, MovesAll
<1>5. CASE GoTo("ping") /\ result' = result
  <2>1. UNCHANGED <<todo, step, result, job>> /\ step = "ping"
    BY <1>1, <1>5 DEF GoTo
  <2>2. /\ Left' = Left /\ First' = First /\ (Over' <=> Over) /\ Path' = Path
        /\ WriteInv' /\ OrderInv'
    BY <2>1, <1>2, Stays
  <2>3. ClientTypes'
    BY <2>1, <1>1, <1>3 DEF IInv, ClientTypes
  <2>4. StepInv' /\ RunInv'
    BY <2>1, <2>2, <1>2 DEF IInv, StepInv, RunInv
  <2>5. FilesInv' /\ KillInv'
    BY <2>1, <2>2, <1>1, <1>2 DEF IInv, FilesInv, KillInv, Removed
  <2>6. OutputInv'
    BY <2>1, <2>2, <1>1, <1>2 DEF IInv, OutputInv
  <2> QED BY <1>2, <2>2, <2>3, <2>4, <2>5, <2>6 DEF IInv
<1>6. CASE Fail
  <2>1. Listed(todo') /\ result' \in {result, "error"}
    BY <1>1, <1>6, FailMoves DEF IInv
  <2>2. ClientTypes'
    BY <2>1, <1>1, <1>3, MovesTypes
  <2> QED BY <2>2, <1>1, <1>6, QuietKept
<1> QED BY <1>4, <1>5, <1>6

\* Whether a command may be run in the guest is asked before it is started.
LEMMA InfoKept ==
  ASSUME IInv, Info
  PROVE  IInv'
<1> USE DEF Info
<1>1. /\ ~Over /\ First.do \in {"mkdir", "run", "kill", "remove"} /\ step = "info"
      /\ UNCHANGED <<job, offset, printed, guest, chunk>>
      /\ late' \in BOOLEAN /\ ownLate' \in BOOLEAN
  BY Asked DEF IInv, StepInv
<1>2. GuestTypes' /\ proc' = proc /\ helper' = helper /\ files' = files /\ handles' = handles
      /\ written' = written
  BY <1>1, GuestStays
<1>3. chunk' \in [size : 0 .. Window - 1, end : BOOLEAN, ok : BOOLEAN] /\ trouble \in BOOLEAN
  BY <1>1 DEF IInv, ClientTypes
<1>4. CASE GoTo("exec") /\ result' = result
  <2>1. UNCHANGED <<todo, result, job>> /\ step' = "exec"
    BY <1>1, <1>4 DEF GoTo
  <2>2. trouble' = trouble
    BY <2>1, <1>3
  <2>3. /\ Left' = Left /\ First' = First /\ (Over' <=> Over) /\ Path' = Path
        /\ WriteInv' /\ OrderInv'
    BY <2>1, <1>2, Stays
  <2>4. ClientTypes'
    BY <2>1, <2>2, <1>1, <1>3 DEF IInv, ClientTypes
  <2>5. StepInv' /\ RunInv'
    BY <2>1, <2>3, <1>1, <1>2 DEF IInv, StepInv, RunInv
  <2>6. FilesInv' /\ KillInv'
    BY <2>1, <2>2, <2>3, <1>1, <1>2 DEF IInv, FilesInv, KillInv, Removed
  <2>7. OutputInv'
    BY <2>1, <2>3, <1>1, <1>2 DEF IInv, OutputInv
  <2> QED BY <1>2, <2>3, <2>4, <2>5, <2>6, <2>7 DEF IInv
<1>5. CASE Fail
  <2>1. Listed(todo') /\ result' \in {result, "error"} /\ StepInv' /\ (~Over' => Begun')
    BY <1>1, <1>5, FailMoves DEF IInv
  <2>2. step' # "exec"
    BY <2>1 DEF Begun, StepInv
  <2>3. trouble' = TRUE
    BY <2>2
  <2>4. ClientTypes'
    BY <2>1, <2>3, <1>1, <1>3, MovesTypes
  <2> QED BY <2>3, <2>4, <1>1, <1>2, <1>5, TroubleKept
<1> QED BY <1>4, <1>5

\* Opening, reading, writing and closing are at a file.
LEMMA AtFile ==
  ASSUME IInv, ~Over, step \in {"open", "io", "close"}
  PROVE  /\ First.do \in {"write", "fetch", "drain"} /\ First \in AllTasks /\ First \in Left
         /\ First = Task(First.do, Path) /\ Path = First.path
         /\ Path \in Own \union {"target"}
         /\ First.do = "drain" => Path \in Streams
         /\ First.do = "write" /\ Path \in Own => Removed(Path) \in Left /\ ~Copying
         /\ ~trouble => handles \subseteq {Path}
<1>1. First.do \in {"write", "fetch", "drain"} /\ First \in AllTasks /\ First \in Left
  BY AtWork DEF IInv, StepInv
<1>2. First = Task(First.do, Path) /\ Path \in Own \union {"target"} /\ (First.do = "drain" => Path \in Streams)
  BY <1>1, Kinds DEF Path
<1>3. First.do = "write" /\ Path \in Own => Removed(Path) \in Left /\ ~Copying
  BY <1>1, <1>2 DEF IInv, WriteInv, OrderInv, Path
<1>4. ~trouble => handles \subseteq {Path}
  BY DEF IInv, FilesInv
<1> QED BY <1>1, <1>2, <1>3, <1>4 DEF Path

\* A file that is opened is known to be there by who removes it.
LEMMA OpenKept ==
  ASSUME IInv, OpenFile
  PROVE  IInv'
<1> USE DEF OpenFile
<1>1. /\ ~Over /\ step = "open"
      /\ UNCHANGED <<job, offset, printed>>
      /\ late' \in BOOLEAN /\ ownLate' \in BOOLEAN
      /\ First.do \in {"write", "fetch", "drain"} /\ First \in Left
      /\ Path \in Own \union {"target"}
      /\ First.do = "write" /\ Path \in Own => Removed(Path) \in Left /\ ~Copying
      /\ ~OwnDeadline
  <2>1. ~Over /\ step = "open" /\ late' \in BOOLEAN /\ ownLate' \in BOOLEAN /\ job' = job
    BY Asked
  <2>2. First.do \in {"write", "fetch", "drain"} => ~OwnDeadline
    BY <2>1 DEF OwnDeadline
  <2> QED BY <2>1, <2>2, AtFile
<1> DEFINE opens == /\ handles' = handles \union {Path}
                    /\ files' = IF First.do = "write" THEN files \union {Path} ELSE files
                    /\ UNCHANGED <<proc, helper, written>>
<1>2. opens => GuestTypes'
  BY <1>1 DEF IInv, GuestTypes
<1>3. UNCHANGED guest => GuestTypes'
  BY GuestStays
<1>4. opens \/ UNCHANGED guest => proc' = proc /\ written' = written
        /\ (Copying => files' \subseteq files \union {"target"})
  BY <1>1 DEF guest
<1>5. CASE opens /\ GoTo("io") /\ result' = result /\ UNCHANGED <<chunk, trouble>>
  <2>1. UNCHANGED <<todo, result, job>> /\ step' = "io"
    BY <1>1, <1>5 DEF GoTo
  <2>2. /\ Left' = Left /\ First' = First /\ (Over' <=> Over) /\ Path' = Path
        /\ WriteInv' /\ OrderInv'
    BY <2>1, <1>4, <1>5, Stays
  <2>3. ClientTypes'
    BY <2>1, <1>1, <1>5 DEF IInv, ClientTypes
  <2>4. StepInv' /\ RunInv' /\ KillInv'
    BY <2>1, <2>2, <1>1, <1>5 DEF IInv, StepInv, RunInv, KillInv
  <2>5. FilesInv'
    <3>1. ~trouble => handles = {}
      BY <1>1 DEF IInv, FilesInv
    <3>2. ~trouble => \A f \in files' \intersect Own : Removed(f) \in Left
      BY <1>1, <1>5 DEF IInv, FilesInv
    <3> QED BY <3>1, <3>2, <2>1, <2>2, <1>1, <1>5 DEF FilesInv, Removed
  <2>6. OutputInv'
    BY <2>1, <2>2, <1>1, <1>5 DEF IInv, OutputInv
  <2> QED BY <1>2, <1>5, <2>2, <2>3, <2>4, <2>5, <2>6 DEF IInv
<1>6. CASE (opens \/ UNCHANGED guest) /\ Fail /\ UNCHANGED chunk /\ trouble' = TRUE
  <2>1. Listed(todo') /\ result' \in {result, "error"}
    BY <1>1, <1>6, FailMoves DEF IInv
  <2>2. ClientTypes'
    BY <2>1, <1>1, <1>6, MovesTypes DEF IInv, ClientTypes
  <2> QED BY <2>2, <1>1, <1>2, <1>3, <1>4, <1>6, TroubleKept
<1>7. CASE UNCHANGED <<guest, chunk>> /\ Fail
           /\ trouble' = (trouble \/ OwnDeadline \/ First.do \in {"write", "drain", "status"})
  <2>1. Listed(todo') /\ result' \in {result, "error"}
    BY <1>1, <1>7, FailMoves DEF IInv
  <2>2. CASE First.do \in {"write", "drain"}
    <3>1. trouble' = TRUE
      BY <2>2, <1>7
    <3>2. ClientTypes'
      BY <2>1, <3>1, <1>1, <1>7, MovesTypes DEF IInv, ClientTypes
    <3> QED BY <2>2, <3>1, <3>2, <1>1, <1>3, <1>4, <1>7, TroubleKept
  <2>3. CASE First.do = "fetch"
    <3>1. trouble' = trouble
      BY <2>3, <1>1, <1>7 DEF IInv, ClientTypes
    <3>2. ClientTypes'
      BY <2>1, <3>1, <1>1, <1>7, MovesTypes DEF IInv, ClientTypes
    <3> QED BY <2>3, <3>1, <3>2, <1>1, <1>7, QuietKept
  <2> QED BY <2>2, <2>3, <1>1
<1> QED BY <1>5, <1>6, <1>7 DEF Call

\* What is read is what is there; any error is followed by closing.
LEMMA ReadOrWriteKept ==
  ASSUME IInv, ReadOrWrite
  PROVE  IInv'
<1> USE DEF ReadOrWrite
<1>1. /\ ~Over /\ step = "io"
      /\ UNCHANGED <<job, offset, printed>>
      /\ late' \in BOOLEAN /\ ownLate' \in BOOLEAN /\ trouble \in BOOLEAN
      /\ NoChunk \in [size : 0 .. Window - 1, end : BOOLEAN, ok : BOOLEAN]
      /\ Failed \in [size : 0 .. Window - 1, end : BOOLEAN, ok : BOOLEAN]
  BY Asked
<1>2. /\ First.do = "drain" => Path \in Streams
      /\ First.do \in {"write", "fetch", "drain"}
  BY <1>1, AtFile
<1>3. GuestTypes' /\ proc' = proc /\ helper' = helper /\ files' = files /\ handles' = handles
      /\ written' = written
  BY <1>1, GuestStays
<1>4. /\ todo' = todo /\ step' = "close" /\ result' = result
      /\ \/ chunk' \in Chunks
         \/ chunk' = Failed
  BY DEF Closing, GoTo
<1>5. /\ Left' = Left /\ First' = First /\ (Over' <=> Over) /\ Path' = Path
      /\ WriteInv' /\ OrderInv'
  BY <1>1, <1>3, <1>4, Stays
<1>6. ASSUME chunk' \in Chunks
      PROVE  /\ chunk' \in [size : 0 .. Window - 1, end : BOOLEAN, ok : BOOLEAN]
             /\ chunk'.ok = TRUE
             /\ First.do = "drain" =>
                  /\ chunk'.size = (IF Unread(Path) < Chunk THEN Unread(Path) ELSE Chunk)
                  /\ chunk'.end = (Unread(Path) < Chunk)
  <2>1. CASE First.do # "drain"
    BY <2>1, <1>1, <1>6 DEF Chunks, NoChunk
  <2>2. CASE First.do = "drain"
    <3> DEFINE u == Unread(Path)
    <3>1. u \in 0 .. Window - 1
      <4>1. offset[Path] \in 0 .. Window - 1 /\ written[Path] \in 0 .. Window - 1
        BY <2>2, <1>2 DEF IInv, ClientTypes, GuestTypes
      <4> QED BY <4>1, GuestExecAssumption DEF Unread
    <3>2. chunk' = [size |-> IF u < Chunk THEN u ELSE Chunk, end |-> u < Chunk, ok |-> TRUE]
      BY <2>2, <1>6 DEF Chunks
    <3> HIDE DEF u
    <3>3. (IF u < Chunk THEN u ELSE Chunk) \in 0 .. Window - 1 /\ (u < Chunk) \in BOOLEAN
      BY <3>1, GuestExecAssumption
    <3>4. chunk'.size = (IF u < Chunk THEN u ELSE Chunk) /\ chunk'.end = (u < Chunk) /\ chunk'.ok = TRUE
      BY <3>2
    <3>5. chunk' \in [size : 0 .. Window - 1, end : BOOLEAN, ok : BOOLEAN]
      BY <3>2, <3>3
    <3> QED BY <3>4, <3>5 DEF u
  <2> QED BY <2>1, <2>2
<1>7. chunk' = Failed => chunk'.ok = FALSE
  BY <1>1 DEF Failed
<1>8. chunk' \in [size : 0 .. Window - 1, end : BOOLEAN, ok : BOOLEAN]
  BY <1>1, <1>4, <1>6
<1>9. trouble' \in BOOLEAN /\ (~trouble' => ~trouble /\ chunk'.ok)
  <2>1. trouble' = (trouble \/ ~chunk'.ok)
    OBVIOUS
  <2> HIDE DEF ReadOrWrite
  <2>2. chunk'.ok \in BOOLEAN
    BY <1>8
  <2> QED BY <1>1, <2>1, <2>2
<1>10. ClientTypes'
  BY <1>1, <1>4, <1>8, <1>9 DEF IInv, ClientTypes
<1>11. StepInv' /\ RunInv'
  BY <1>1, <1>2, <1>3, <1>4, <1>5 DEF IInv, StepInv, RunInv
<1>12. KillInv'
  BY <1>3, <1>4, <1>5, <1>9 DEF IInv, KillInv
<1>13. FilesInv'
  BY <1>1, <1>3, <1>4, <1>5, <1>9 DEF IInv, FilesInv, Removed
<1>14. OutputInv'
  <2>1. First.do = "drain" => Unread(Path)' = Unread(Path)
    BY <1>1, <1>3, <1>5 DEF Unread
  <2>2. First.do = "drain" /\ chunk'.ok =>
          /\ chunk'.size = (IF Unread(Path)' < Chunk THEN Unread(Path)' ELSE Chunk)
          /\ chunk'.end = (Unread(Path)' < Chunk)
    BY <1>4, <1>6, <1>7, <2>1
  <2> QED BY <2>2, <1>1, <1>3, <1>4, <1>5 DEF IInv, OutputInv
<1> QED BY <1>3, <1>5, <1>10, <1>11, <1>12, <1>13, <1>14 DEF IInv

\* Reading on by what is unread leads to what is written.
LEMMA Positions ==
  ASSUME NEW o \in 0 .. Window - 1, NEW w \in 0 .. Window - 1, NEW n \in 0 .. Window - 1
  PROVE  /\ Wrapped(o + n) \in 0 .. Window - 1
         /\ n = (IF o <= w THEN w - o ELSE w + Window - o) => Wrapped(o + n) = w
BY GuestExecAssumption DEF Wrapped

\* A stream of which the last part was read is read to the end.
LEMMA Drained ==
  ASSUME IInv, ~Over, step = "close", First.do = "drain", chunk.ok,
         result = "ok", job.mode = "stream", ~(Running \in Left \/ Asking \in Left)
  PROVE  /\ chunk.size = 0 => offset[Path] = written[Path]
         /\ chunk.end => Wrapped(offset[Path] + chunk.size) = written[Path]
<1>1. Path \in Streams
  BY AtFile
<1>2. offset[Path] \in 0 .. Window - 1 /\ written[Path] \in 0 .. Window - 1 /\ chunk.size \in 0 .. Window - 1
  BY <1>1 DEF IInv, ClientTypes, GuestTypes
<1>3. /\ chunk.size = (IF Unread(Path) < Chunk THEN Unread(Path) ELSE Chunk)
      /\ chunk.end = (Unread(Path) < Chunk)
  BY DEF IInv, OutputInv
<1>4. Unread(Path) = IF offset[Path] <= written[Path] THEN written[Path] - offset[Path]
                     ELSE written[Path] + Window - offset[Path]
  BY DEF Unread
<1>5. chunk.end => Wrapped(offset[Path] + chunk.size) = written[Path]
  <2> DEFINE u == Unread(Path)
  <2>1. chunk.end => u < Chunk
    BY <1>3
  <2>2. chunk.size = (IF u < Chunk THEN u ELSE Chunk)
    BY <1>3
  <2> HIDE DEF u
  <2>3. chunk.end => chunk.size = u
    BY <2>1, <2>2
  <2>4. u = IF offset[Path] <= written[Path] THEN written[Path] - offset[Path]
            ELSE written[Path] + Window - offset[Path]
    BY <1>4 DEF u
  <2>5. chunk.size = u => Wrapped(offset[Path] + chunk.size) = written[Path]
    <3> DEFINE o == offset[Path]
               w == written[Path]
               n == chunk.size
    <3> o \in 0 .. Window - 1 /\ w \in 0 .. Window - 1 /\ n \in 0 .. Window - 1
      BY <1>2
    <3>1. u = IF o <= w THEN w - o ELSE w + Window - o
      BY <2>4
    <3> HIDE DEF o, w, n
    <3>2. n = u => Wrapped(o + n) = w
      BY <3>1, Positions
    <3> QED BY <3>2 DEF o, w, n
  <2> QED BY <2>3, <2>5
<1>6. chunk.size = 0 => offset[Path] = written[Path]
  BY <1>2, <1>3, <1>4, GuestExecAssumption
<1> QED BY <1>5, <1>6

\* A file is closed in any case; of the output, what was read is printed.
LEMMA CloseKept ==
  ASSUME IInv, CloseFile
  PROVE  IInv'
<1> USE DEF CloseFile
<1>1. /\ ~Over /\ step = "close"
      /\ UNCHANGED <<job, files, proc, helper, written>>
      /\ late' \in BOOLEAN /\ ownLate' \in BOOLEAN /\ trouble \in BOOLEAN
      /\ chunk' \in [size : 0 .. Window - 1, end : BOOLEAN, ok : BOOLEAN]
      /\ chunk \in [size : 0 .. Window - 1, end : BOOLEAN, ok : BOOLEAN]
      /\ result \in {"ok", "error"}
  BY Asked
<1>2. /\ First.do = "drain" => Path \in Streams /\ First = Task("drain", Path)
      /\ First.do \in {"write", "fetch", "drain"} /\ First \in Left /\ First \in AllTasks
      /\ ~trouble => handles \subseteq {Path}
  BY <1>1, AtFile
<1>3. handles' \subseteq handles
  OBVIOUS
<1>4. GuestTypes'
  BY <1>1, <1>3 DEF IInv, GuestTypes
<1>5. CASE Fail /\ trouble' = TRUE /\ UNCHANGED <<offset, printed>>
  <2>1. Listed(todo') /\ result' \in {result, "error"}
    BY <1>1, <1>5, FailMoves DEF IInv
  <2>2. ClientTypes'
    BY <2>1, <1>1, <1>5, MovesTypes
  <2> QED BY <2>2, <1>1, <1>2, <1>4, <1>5, TroubleKept
<1>6. ASSUME Done, trouble' = trouble, handles' = handles \ {Path}, ClientTypes', OutputInv'
      PROVE  IInv'
  <2>1. /\ Listed(todo') /\ StepInv' /\ (~Over' => Begun')
        /\ Left' = Left \ {First} /\ result' = result
    BY <1>1, <1>6, DoneMoves DEF IInv
  <2>2. Moves({})
    BY <2>1, <1>1 DEF Moves
  <2>3. \A f \in Own : Removed(f) # First
    BY <1>2, Fields DEF Removed
  <2>4. ~trouble' => handles' = {} /\ \A f \in files' \intersect Own : Removed(f) \in Left'
    BY <2>1, <2>3, <1>1, <1>2, <1>6 DEF IInv, FilesInv
  <2>5. Running # First /\ Asking # First /\ Killing # First
    BY <1>2, Fields DEF Running, Asking, Killing
  <2>6. ~trouble' /\ proc' = "running" => {Running, Asking, Killing} \intersect Left' # {}
    BY <2>1, <2>5, <1>1, <1>6 DEF IInv, KillInv
  <2> QED BY <2>2, <2>4, <2>6, <1>4, <1>6, MovesAll
<1>7. ASSUME ~Expired, handles' = handles \ {Path}, UNCHANGED trouble, AfterClose
      PROVE  IInv'
  <2>1. CASE ~chunk.ok
    <3>1. trouble = TRUE
      BY <2>1, <1>1 DEF IInv, FilesInv
    <3> QED BY <2>1, <3>1, <1>5, <1>7 DEF AfterClose
  <2>2. CASE chunk.ok /\ (First.do # "drain" \/ chunk.size = 0)
    <3>1. Done /\ UNCHANGED <<offset, printed>>
      BY <2>2, <1>7 DEF AfterClose
    <3>2. /\ Listed(todo') /\ StepInv' /\ (~Over' => Begun')
          /\ Left' = Left \ {First} /\ result' = result
      BY <3>1, <1>1, DoneMoves DEF IInv
    <3>3. Moves({})
      BY <3>2, <1>1 DEF Moves
    <3>4. ClientTypes'
      BY <3>1, <3>2, <1>1, <1>7, MovesTypes
    <3>5. CASE First.do # "drain"
      <4>1. OutputInv'
        BY <3>1, <3>2, <3>3, <3>5, <1>1, <1>2, OutputDone
      <4> QED BY <3>1, <3>4, <4>1, <1>6, <1>7
    <3>6. CASE First.do = "drain"
      <4>1. result = "ok" /\ job.mode = "stream" /\ ~(Running \in Left \/ Asking \in Left) =>
              offset[Path] = written[Path]
        BY <2>2, <3>6, <1>1, Drained
      <4>2. Running # First /\ Asking # First /\ Killing # First
        BY <1>2, Fields DEF Running, Asking, Killing
      <4>3. step' # "close"
        BY <3>2 DEF Begun, StepInv
      <4>4. \A s \in Streams : s # Path => Task("drain", s) # First
        BY <3>6, <1>2, Fields
      <4>5. OutputInv'
        BY <4>1, <4>2, <4>3, <4>4, <3>1, <3>2, <1>1, <1>2, <3>6 DEF IInv, OutputInv
      <4> QED BY <3>1, <3>4, <4>5, <1>6, <1>7
    <3> QED BY <3>5, <3>6
  <2>3. CASE chunk.ok /\ First.do = "drain" /\ chunk.size # 0
    <3>1. /\ printed' = [printed EXCEPT ![Path] = Wrapped(@ + chunk.size)]
          /\ offset' = [offset EXCEPT ![Path] = Wrapped(@ + chunk.size)]
          /\ IF chunk.end THEN Done ELSE GoTo("open") /\ result' = result
      BY <2>3, <1>7 DEF AfterClose
    <3>2. printed = offset /\ offset \in [Streams -> 0 .. Window - 1] /\ Path \in Streams
      BY <2>3, <1>2 DEF IInv, OutputInv, ClientTypes
    <3>3. Wrapped(offset[Path] + chunk.size) \in 0 .. Window - 1
      <4>1. offset[Path] \in 0 .. Window - 1 /\ chunk.size \in 0 .. Window - 1
        BY <3>2, <1>1
      <4> QED BY <4>1, Positions
    <3>4. /\ printed' = offset' /\ offset' \in [Streams -> 0 .. Window - 1]
          /\ offset'[Path] = Wrapped(offset[Path] + chunk.size)
          /\ \A s \in Streams : s # Path => offset'[s] = offset[s]
      BY <3>1, <3>2, <3>3
    <3>5. Running # First /\ Asking # First /\ Killing # First
      BY <2>3, Fields DEF Running, Asking, Killing
    <3>6. CASE chunk.end
      <4>1. Done
        BY <3>1, <3>6
      <4>2. /\ Listed(todo') /\ StepInv' /\ (~Over' => Begun')
            /\ Left' = Left \ {First} /\ result' = result
        BY <4>1, <1>1, DoneMoves DEF IInv
      <4>3. ClientTypes'
        BY <4>2, <3>4, <1>1, <1>7 DEF IInv, ClientTypes, Listed
      <4>4. result = "ok" /\ job.mode = "stream" /\ ~(Running \in Left \/ Asking \in Left) =>
              offset'[Path] = written[Path]
        BY <2>3, <3>4, <3>6, <1>1, Drained
      <4>5. step' # "close"
        BY <4>2 DEF Begun, StepInv
      <4>6. \A s \in Streams : s # Path => Task("drain", s) # First
        BY <2>3, <1>2, Fields
      <4>7. OutputInv'
        BY <4>2, <4>4, <4>5, <4>6, <3>4, <3>5, <1>1 DEF IInv, OutputInv
      <4> QED BY <4>1, <4>3, <4>7, <1>6, <1>7
    <3>7. CASE ~chunk.end
      <4>1. todo' = todo /\ step' = "open" /\ result' = result
        BY <3>1, <3>7 DEF GoTo
      <4>2. /\ Left' = Left /\ First' = First /\ (Over' <=> Over) /\ Path' = Path
            /\ WriteInv' /\ OrderInv'
        BY <4>1, <1>1, Stays
      <4>3. ClientTypes'
        BY <4>1, <3>4, <1>1, <1>7 DEF IInv, ClientTypes
      <4>4. StepInv' /\ RunInv'
        BY <4>1, <4>2, <1>1, <1>2 DEF IInv, StepInv, RunInv
      <4>5. FilesInv' /\ KillInv'
        BY <4>1, <4>2, <1>1, <1>2, <1>7 DEF IInv, FilesInv, KillInv, Removed
      <4>6. OutputInv'
        BY <4>1, <4>2, <3>2, <3>4, <2>3, <1>1, <1>2 DEF IInv, OutputInv
      <4> QED BY <4>2, <4>3, <4>4, <4>5, <4>6, <1>4 DEF IInv
    <3> QED BY <3>6, <3>7
  <2> QED BY <2>1, <2>2, <2>3
<1> QED BY <1>5, <1>7

\* What is started in the guest is waited for, or in rounds.
LEMMA ExecKept ==
  ASSUME IInv, Exec
  PROVE  IInv'
<1> USE DEF Exec
<1>1. /\ ~Over /\ step = "exec"
      /\ UNCHANGED <<job, offset, printed>>
      /\ late' \in BOOLEAN /\ ownLate' \in BOOLEAN /\ trouble \in BOOLEAN
      /\ chunk \in [size : 0 .. Window - 1, end : BOOLEAN, ok : BOOLEAN]
      /\ result \in {"ok", "error"}
      /\ First \in Left /\ First \in AllTasks
      /\ First.do \in {"mkdir", "run", "kill", "remove"}
  BY Asked DEF IInv, StepInv
<1>2. /\ First.do = "run" <=> First = Running
      /\ First.do = "kill" <=> First = Killing
      /\ OwnDeadline <=> First.do \in {"kill", "remove"}
      /\ First.do = "run" => ~Copying
  BY <1>1, Kinds, Fields DEF Running, Killing, OwnDeadline, IInv, OrderInv
<1> DEFINE starts == /\ IF First.do = "run" THEN proc' = "running" /\ UNCHANGED helper
                        ELSE helper' = First /\ UNCHANGED proc
                     /\ UNCHANGED <<files, handles, written>>
<1>3. starts => GuestTypes'
  BY <1>1 DEF IInv, GuestTypes
<1>4. UNCHANGED guest => GuestTypes' /\ proc' = proc /\ files' = files /\ written' = written /\ helper' = helper
  BY GuestStays
<1>5. CASE starts /\ UNCHANGED <<chunk, trouble>> /\ result' = result
           /\ First.do = "run" /\ job.mode = "stream" /\ Tackle(Round \o Tail(todo))
  <2>1. /\ Listed(todo') /\ StepInv' /\ (~Over' => Begun')
        /\ Left' = RoundTasks \union (Left \ {First})
    <3>1. Tackle((IF FALSE THEN LastRound ELSE Round) \o Tail(todo))
      BY <1>5
    <3> QED BY <3>1, <1>1, <1>5, RoundMoves DEF IInv, RoundTasks
  <2>2. Running \notin Left'
    BY <2>1, <1>2, <1>5, Ranks, Members DEF RoundTasks
  <2>3. Moves(RoundTasks)
    BY <2>1, <2>2, <1>1, <1>2, <1>5 DEF Moves
  <2>4. ClientTypes'
    BY <2>1, <1>1, <1>5, MovesTypes
  <2>5. Asking \in Left' /\ Killing \notin RoundTasks
    BY <2>1, Ranks, Members DEF RoundTasks
  <2>6. proc = "none"
    BY <1>1, <1>2, <1>5 DEF IInv, RunInv
  <2>7. OutputInv'
    BY <2>1, <2>5, <2>6, <1>1, <1>5 DEF IInv, OutputInv
  <2>8. ~trouble' => handles' = {} /\ \A f \in files' \intersect Own : Removed(f) \in Left'
    <3>1. \A f \in Own : Removed(f) # First
      BY <1>5, Fields DEF Removed
    <3> QED BY <3>1, <2>1, <1>1, <1>5 DEF IInv, FilesInv
  <2> QED BY <2>3, <2>4, <2>5, <2>7, <2>8, <1>3, <1>5, MovesAll
<1>6. CASE starts /\ UNCHANGED <<chunk, trouble>> /\ result' = result
           /\ ~(First.do = "run" /\ job.mode = "stream") /\ GoTo("status")
  <2>1. UNCHANGED <<todo, result, job>> /\ step' = "status"
    BY <1>1, <1>6 DEF GoTo
  <2>2. /\ Left' = Left /\ First' = First /\ (Over' <=> Over) /\ Path' = Path
        /\ WriteInv' /\ OrderInv'
    BY <2>1, <1>2, <1>6, Stays
  <2>3. ClientTypes'
    BY <2>1, <1>1, <1>6 DEF IInv, ClientTypes
  <2>4. StepInv'
    BY <2>1, <2>2, <1>1 DEF IInv, StepInv
  <2>5. First = Running => job.mode = "capture"
    BY <1>2, <1>6 DEF IInv, ClientTypes, Jobs, Copying
  <2>6. RunInv'
    <3>1. CASE First = Running
      BY <3>1, <2>1, <2>2, <2>5, <1>2, <1>6 DEF IInv, RunInv
    <3>2. CASE First # Running
      BY <3>2, <2>1, <2>2, <1>1, <1>2, <1>6 DEF IInv, RunInv
    <3> QED BY <3>1, <3>2
  <2>7. FilesInv'
    BY <2>1, <2>2, <1>1, <1>6 DEF IInv, FilesInv, Removed
  <2>8. KillInv'
    BY <2>1, <2>2, <1>1, <1>2, <1>6 DEF IInv, KillInv
  <2>9. OutputInv'
    <3>1. CASE First = Running
      BY <3>1, <2>1, <2>2, <2>5, <1>1 DEF IInv, OutputInv
    <3>2. CASE First # Running
      BY <3>2, <2>1, <2>2, <1>1, <1>2, <1>6 DEF IInv, OutputInv
    <3> QED BY <3>1, <3>2
  <2> QED BY <1>3, <1>6, <2>2, <2>3, <2>4, <2>6, <2>7, <2>8, <2>9 DEF IInv
<1>7. CASE (starts \/ UNCHANGED guest) /\ Fail /\ UNCHANGED chunk /\ trouble' = TRUE
  <2>1. Listed(todo') /\ result' \in {result, "error"}
    BY <1>1, <1>7, FailMoves DEF IInv
  <2>2. ClientTypes'
    BY <2>1, <1>1, <1>7, MovesTypes
  <2>3. /\ Copying => proc' = proc /\ files' \subseteq files \union {"target"}
        /\ proc' = proc \/ First = Running
        /\ First.do \in {"kill", "remove"} =>
             proc' = proc /\ written' = written /\ helper' \in {helper, First}
    BY <1>2, <1>4, <1>7
  <2> QED BY <2>2, <2>3, <1>1, <1>3, <1>4, <1>7, TroubleKept
<1>8. CASE UNCHANGED <<guest, chunk>> /\ Fail
           /\ trouble' = (trouble \/ OwnDeadline \/ First.do \in {"write", "drain", "status"})
  <2>1. Listed(todo') /\ result' \in {result, "error"}
    BY <1>1, <1>8, FailMoves DEF IInv
  <2>2. CASE First.do \in {"kill", "remove"}
    <3>1. trouble' = TRUE
      BY <2>2, <1>2, <1>8
    <3>2. ClientTypes'
      BY <2>1, <3>1, <1>1, <1>8, MovesTypes
    <3> QED BY <2>2, <3>1, <3>2, <1>1, <1>4, <1>8, TroubleKept
  <2>3. CASE First.do \in {"mkdir", "run"}
    <3>1. trouble' = trouble
      BY <2>3, <1>1, <1>2, <1>8
    <3>2. ClientTypes'
      BY <2>1, <3>1, <1>1, <1>8, MovesTypes
    <3> QED BY <2>3, <3>1, <3>2, <1>1, <1>8, QuietKept
  <2> QED BY <2>2, <2>3, <1>1
<1> QED BY <1>5, <1>6, <1>7, <1>8 DEF Call

\* When the deadline has passed, what runs in the guest will be killed and what was left
\* there removed.
LEMMA GiveUpKept ==
  ASSUME IInv, ~Over, GiveUp, First.do \in {"mkdir", "run", "check", "remove"}, step \in {"status", "check"},
         UNCHANGED <<job, chunk, guest, offset, printed>>, late' \in BOOLEAN, ownLate' \in BOOLEAN
  PROVE  IInv'
<1>1. OwnDeadline => First.do = "remove"
  BY DEF OwnDeadline
<1>2. /\ Listed(todo') /\ StepInv' /\ (~Over' => Begun')
      /\ First.do = "remove" =>
           /\ Left' = {Killing} \union (Left \ {First})
           /\ result' = result /\ trouble' = TRUE
      /\ First.do # "remove" =>
           /\ Left' = {Killing} \union (Left \intersect Removing)
           /\ result' = "error" /\ trouble' = trouble
  BY <1>1, GiveUpMoves DEF IInv
<1>3. GuestTypes' /\ proc' = proc /\ files' = files /\ written' = written /\ helper' = helper /\ handles' = handles
  BY GuestStays
<1>4. Killing \notin RoundTasks
  BY Ranks, Members DEF RoundTasks
<1>5. Moves({Killing})
  BY <1>2, <1>3, <1>4 DEF Moves
<1>6. First \in Left /\ First \in AllTasks
  BY AtWork DEF IInv
<1>7. ClientTypes'
  <2>1. trouble' \in BOOLEAN /\ chunk' \in [size : 0 .. Window - 1, end : BOOLEAN, ok : BOOLEAN]
    BY <1>2 DEF IInv, ClientTypes
  <2> QED BY <2>1, <1>2, MovesTypes
<1>8. OutputInv'
  <2>1. CASE First.do # "remove"
    BY <2>1, <1>2, OutputError
  <2>2. CASE First.do = "remove"
    <3>1. Rank(First) \in 13 .. 14 /\ \A t \in Left \ {First} : Rank(First) < Rank(t)
      BY <2>2, <1>6, Kinds, AtWork DEF IInv
    <3>2. \A t \in Left : Rank(t) > 12
      <4>1. \A t \in Left \ {First} : t \in AllTasks /\ Rank(t) \in 0 .. 14
        BY AtWork, Kinds DEF IInv
      <4> QED BY <3>1, <4>1
    <3>3. Running \notin Left /\ Asking \notin Left /\ Running # Killing /\ Asking # Killing
      BY <3>2, Ranks
    <3>4. \A s \in Streams : Task("drain", s) \in Left => Task("drain", s) \in Left'
      BY <2>2, <1>2, Fields
    <3>5. Running \notin Left' /\ Asking \notin Left'
      BY <2>2, <3>3, <1>2
    <3>6. step' # "close"
      BY <1>2 DEF Begun, StepInv
    <3> QED BY <2>2, <3>3, <3>4, <3>5, <3>6, <1>2, <1>3 DEF IInv, OutputInv
  <2> QED BY <2>1, <2>2
<1>9. ~trouble' => handles' = {} /\ \A f \in files' \intersect Own : Removed(f) \in Left'
  <2>1. \A f \in Own : Removed(f) \in Removing
    BY DEF Removed, Removing
  <2> QED BY <2>1, <1>2, <1>3 DEF IInv, FilesInv
<1>10. Killing \in Left'
  BY <1>2
<1> QED BY <1>3, <1>5, <1>7, <1>8, <1>9, <1>10, MovesAll

\* Before a round the time is looked at.
LEMMA CheckKept ==
  ASSUME IInv, Check
  PROVE  IInv'
<1> USE DEF Check
<1>1. /\ ~Over /\ step = "check" /\ First.do = "check"
      /\ UNCHANGED <<job, offset, printed, guest, chunk>>
      /\ late' \in BOOLEAN /\ ownLate' \in BOOLEAN /\ trouble \in BOOLEAN
      /\ chunk \in [size : 0 .. Window - 1, end : BOOLEAN, ok : BOOLEAN]
  BY Asked DEF IInv, StepInv
<1>2. GuestTypes' /\ proc' = proc /\ files' = files /\ written' = written /\ helper' = helper /\ handles' = handles
  BY <1>1, GuestStays
<1>3. CASE GiveUp
  BY <1>1, <1>3, GiveUpKept
<1>4. CASE Done /\ UNCHANGED trouble
  <2>1. /\ Listed(todo') /\ StepInv' /\ (~Over' => Begun')
        /\ Left' = Left \ {First} /\ result' = result
    BY <1>1, <1>4, DoneMoves DEF IInv
  <2>2. Moves({})
    BY <2>1, <1>1, <1>2 DEF Moves
  <2>3. ClientTypes'
    BY <2>1, <1>1, <1>4, MovesTypes
  <2>4. OutputInv'
    BY <2>1, <2>2, <1>1, <1>2, OutputDone
  <2>5. Running # First /\ Asking # First /\ Killing # First /\ \A f \in Own : Removed(f) # First
    BY <1>1, Fields DEF Running, Asking, Killing, Removed
  <2>6. ~trouble' => handles' = {} /\ \A f \in files' \intersect Own : Removed(f) \in Left'
    BY <2>1, <2>5, <1>1, <1>2, <1>4 DEF IInv, FilesInv
  <2>7. ~trouble' /\ proc' = "running" => {Running, Asking, Killing} \intersect Left' # {}
    BY <2>1, <2>5, <1>2, <1>4 DEF IInv, KillInv
  <2> QED BY <2>2, <2>3, <2>4, <2>6, <2>7, <1>2, MovesAll
<1> QED BY <1>3, <1>4

\* What was started has ended: a round without a question, or the next task.
LEMMA NextRoundKept ==
  ASSUME IInv, ~Over, step = "status", Exited, NextRound,
         UNCHANGED <<job, chunk, guest, offset, printed, trouble>>,
         late' \in BOOLEAN, ownLate' \in BOOLEAN
  PROVE  IInv'
<1>1. /\ First \in Left /\ First \in AllTasks
      /\ First.do \in {"mkdir", "run", "kill", "remove", "status"}
      /\ trouble' \in BOOLEAN
      /\ chunk' \in [size : 0 .. Window - 1, end : BOOLEAN, ok : BOOLEAN]
  BY AtWork DEF IInv, StepInv, ClientTypes
<1>2. GuestTypes' /\ proc' = proc /\ files' = files /\ written' = written /\ helper' = helper /\ handles' = handles
  BY GuestStays
<1>3. ~trouble' => handles' = {}
  BY <1>2 DEF IInv, FilesInv
<1>4. CASE First.do = "status" /\ result' = result /\ Tackle(LastRound \o Tail(todo))
  <2>1. /\ Listed(todo') /\ StepInv' /\ (~Over' => Begun')
        /\ Left' = Drains \union (Left \ {First})
    <3>1. Tackle((IF TRUE THEN LastRound ELSE Round) \o Tail(todo))
      BY <1>4
    <3> QED BY <3>1, <1>4, RoundMoves DEF IInv
  <2>2. First = Asking /\ proc # "running"
    BY <1>1, <1>4, Kinds DEF Exited
  <2>3. Killing \notin Drains /\ Asking \notin Drains /\ Running \notin Drains /\ Drains \subseteq RoundTasks
    BY Ranks, Members DEF RoundTasks
  <2>4. Running \notin Left'
    <3>1. Asking.do = "status"
      BY Fields DEF Asking
    <3> QED BY <3>1, <2>1, <2>2, <2>3, <1>1 DEF IInv, RunInv
  <2>5. Moves(Drains)
    BY <2>1, <2>3, <1>2, <1>4 DEF Moves
  <2>6. ClientTypes'
    BY <2>1, <1>1, <1>4, MovesTypes
  <2>7. Asking \notin Left' /\ (Killing \in Left' => Killing \in Left) /\ step' # "close"
    BY <2>1, <2>2, <2>3 DEF Begun, StepInv
  <2>8. \A s \in Streams : Task("drain", s) \in Left'
    BY <2>1 DEF Drains
  <2>9. OutputInv'
    BY <2>2, <2>4, <2>7, <2>8, <1>1, <1>2, <1>4 DEF IInv, OutputInv
  <2>10. \A f \in Own : Removed(f) # First
    BY <1>4, Fields DEF Removed
  <2>11. ~trouble' => handles' = {} /\ \A f \in files' \intersect Own : Removed(f) \in Left'
    BY <2>1, <2>10, <1>2, <1>3 DEF IInv, FilesInv
  <2> QED BY <2>2, <2>5, <2>6, <2>9, <2>11, <1>2, MovesAll
<1>5. CASE First.do # "status" /\ Done
  <2>1. /\ Listed(todo') /\ StepInv' /\ (~Over' => Begun')
        /\ Left' = Left \ {First} /\ result' = result
    BY <1>5, DoneMoves DEF IInv
  <2>2. Moves({})
    BY <2>1, <1>2 DEF Moves
  <2>3. ClientTypes'
    BY <2>1, <1>1, MovesTypes
  <2>4. Asking # First /\ (First.do = "run" <=> First = Running) /\ (First.do = "kill" <=> First = Killing)
    BY <1>1, <1>5, Kinds, Fields DEF Asking, Running, Killing
  <2>5. OutputInv'
    <3>1. CASE First.do = "run"
      <4>1. job'.mode = "capture" /\ printed' = printed /\ offset' = offset
        BY <3>1, <2>4 DEF IInv, RunInv
      <4> QED BY <4>1 DEF IInv, OutputInv
    <3>2. CASE First.do # "run"
      BY <3>2, <2>1, <2>2, <1>1, <1>2, <1>5, OutputDone
    <3> QED BY <3>1, <3>2
  <2>6. ~trouble' => \A f \in files' \intersect Own : Removed(f) \in Left'
    <3>1. CASE First.do = "remove"
      <4>1. helper = NoHelper /\ First # NoHelper
        BY <3>1, <1>1, Kinds DEF Exited
      <4>2. ~trouble => \A f \in files \intersect Own : Removed(f) # First
        BY <3>1, <4>1 DEF IInv, FilesInv
      <4> QED BY <4>2, <2>1, <1>2 DEF IInv, FilesInv
    <3>2. CASE First.do # "remove"
      <4>1. \A f \in Own : Removed(f) # First
        BY <3>2, Fields DEF Removed
      <4> QED BY <4>1, <2>1, <1>2 DEF IInv, FilesInv
    <3> QED BY <3>1, <3>2
  <2>7. ~trouble' /\ proc' = "running" => {Running, Asking, Killing} \intersect Left' # {}
    <3>1. CASE First.do = "run"
      BY <3>1, <1>2 DEF Exited
    <3>2. CASE First.do = "kill"
      <4>1. helper = NoHelper /\ Killing # NoHelper
        BY <3>2, <2>4, <1>1, Kinds DEF Exited
      <4> QED BY <3>2, <4>1, <2>4, <1>2 DEF IInv, KillInv
    <3>3. CASE First.do \notin {"run", "kill"}
      BY <3>3, <2>1, <2>4, <1>2 DEF IInv, KillInv
    <3> QED BY <3>1, <3>2, <3>3
  <2> QED BY <2>2, <2>3, <2>5, <2>6, <2>7, <1>2, <1>3, MovesAll
<1>6. CASE First.do = "mkdir" /\ Fail
  <2>1. Listed(todo') /\ result' \in {result, "error"}
    BY <1>6, FailMoves DEF IInv
  <2>2. ClientTypes'
    BY <2>1, <1>1, MovesTypes
  <2> QED BY <2>2, <1>6, QuietKept
<1> QED BY <1>4, <1>5, <1>6 DEF NextRound

\* What was started has not ended: another round, or the same question again.
LEMMA AskAgainKept ==
  ASSUME IInv, ~Over, step = "status", ~Exited, AskAgain,
         UNCHANGED <<job, chunk, guest, offset, printed, trouble>>,
         late' \in BOOLEAN, ownLate' \in BOOLEAN
  PROVE  IInv'
<1>1. /\ First \in Left /\ First \in AllTasks
      /\ First.do \in {"mkdir", "run", "kill", "remove", "status"}
      /\ trouble' \in BOOLEAN
      /\ chunk' \in [size : 0 .. Window - 1, end : BOOLEAN, ok : BOOLEAN]
  BY AtWork DEF IInv, StepInv, ClientTypes
<1>2. GuestTypes' /\ proc' = proc /\ files' = files /\ written' = written /\ helper' = helper /\ handles' = handles
  BY GuestStays
<1>3. ~trouble' => handles' = {}
  BY <1>2 DEF IInv, FilesInv
<1>4. result' = result
  BY DEF AskAgain
<1>5. CASE First.do = "status"
  <2>1. /\ Listed(todo') /\ StepInv' /\ (~Over' => Begun')
        /\ Left' = RoundTasks \union (Left \ {First})
    <3>1. Tackle((IF FALSE THEN LastRound ELSE Round) \o Tail(todo))
      BY <1>5 DEF AskAgain
    <3> QED BY <3>1, <1>5, RoundMoves DEF IInv, RoundTasks
  <2>2. First = Asking /\ Asking.do = "status"
    BY <1>1, <1>5, Kinds
  <2>3. Killing \notin RoundTasks /\ Running \notin RoundTasks /\ Asking \in RoundTasks
    BY Ranks, Members DEF RoundTasks
  <2>4. Running \notin Left' /\ Asking \in Left'
    BY <2>1, <2>2, <2>3, <1>1 DEF IInv, RunInv
  <2>5. Moves(RoundTasks)
    BY <2>1, <1>2, <1>5 DEF Moves
  <2>6. ClientTypes'
    BY <2>1, <1>1, <1>4, MovesTypes
  <2>7. OutputInv'
    BY <2>1, <2>2, <2>3, <2>4, <1>1, <1>2, <1>4 DEF IInv, OutputInv
  <2>8. \A f \in Own : Removed(f) # First
    BY <1>5, Fields DEF Removed
  <2>9. ~trouble' => \A f \in files' \intersect Own : Removed(f) \in Left'
    BY <2>1, <2>8, <1>2 DEF IInv, FilesInv
  <2> QED BY <2>4, <2>5, <2>6, <2>7, <2>9, <1>2, <1>3, MovesAll
<1>6. CASE First.do # "status"
  <2>1. UNCHANGED <<todo, step, result, job>>
    BY <1>4, <1>6 DEF AskAgain, GoTo
  <2>2. /\ Left' = Left /\ First' = First /\ (Over' <=> Over) /\ Path' = Path
        /\ WriteInv' /\ OrderInv'
    BY <2>1, <1>2, Stays
  <2>3. ClientTypes'
    BY <2>1, <1>1 DEF IInv, ClientTypes
  <2>4. StepInv' /\ RunInv'
    BY <2>1, <2>2, <1>2 DEF IInv, StepInv, RunInv
  <2>5. FilesInv' /\ KillInv'
    BY <2>1, <2>2, <1>2 DEF IInv, FilesInv, KillInv, Removed
  <2>6. OutputInv'
    BY <2>1, <2>2, <1>2 DEF IInv, OutputInv
  <2> QED BY <1>2, <2>2, <2>3, <2>4, <2>5, <2>6 DEF IInv
<1> QED BY <1>5, <1>6

\* The answers to the question whether what was started has ended.
LEMMA StatusKept ==
  ASSUME IInv, Status
  PROVE  IInv'
<1> USE DEF Status
<1>1. /\ ~Over /\ step = "status"
      /\ UNCHANGED <<job, offset, printed>>
      /\ late' \in BOOLEAN /\ ownLate' \in BOOLEAN /\ trouble \in BOOLEAN
      /\ chunk \in [size : 0 .. Window - 1, end : BOOLEAN, ok : BOOLEAN]
      /\ First.do \in {"mkdir", "run", "kill", "remove", "status"}
      /\ OwnDeadline <=> First.do \in {"kill", "remove"}
  BY Asked DEF IInv, StepInv, OwnDeadline
<1>2. UNCHANGED guest => GuestTypes' /\ proc' = proc /\ files' = files /\ written' = written /\ helper' = helper
  BY GuestStays
<1>3. CASE First.do \notin {"status", "kill"} /\ GiveUp /\ UNCHANGED <<guest, chunk>>
  BY <1>1, <1>3, GiveUpKept
<1>4. CASE UNCHANGED <<guest, chunk, trouble>> /\ IF Exited THEN NextRound ELSE AskAgain
  BY <1>1, <1>4, NextRoundKept, AskAgainKept
<1>5. CASE UNCHANGED <<guest, chunk>> /\ Fail /\ trouble' = TRUE
  <2>1. Listed(todo') /\ result' \in {result, "error"}
    BY <1>1, <1>5, FailMoves DEF IInv
  <2>2. ClientTypes'
    BY <2>1, <1>1, <1>5, MovesTypes
  <2> QED BY <2>2, <1>1, <1>2, <1>5, TroubleKept
<1>6. CASE First.do \in {"status", "kill"} /\ UNCHANGED <<guest, chunk>> /\ Fail
           /\ trouble' = (trouble \/ OwnDeadline \/ First.do \in {"write", "drain", "status"})
  <2>1. trouble' = TRUE
    BY <1>1, <1>6
  <2> QED BY <2>1, <1>5, <1>6
<1>7. \/ First.do \notin {"status", "kill"} /\ GiveUp /\ UNCHANGED <<guest, chunk>>
      \/ UNCHANGED <<guest, chunk, trouble>> /\ IF Exited THEN NextRound ELSE AskAgain
      \/ UNCHANGED <<guest, chunk>> /\ Fail /\ trouble' = TRUE
      \/ First.do \in {"status", "kill"} /\ UNCHANGED <<guest, chunk>> /\ Fail
           /\ trouble' = (trouble \/ OwnDeadline \/ First.do \in {"write", "drain", "status"})
  BY DEF Call
<1> QED BY <1>3, <1>4, <1>5, <1>6, <1>7

-----------------------------------------------------------------------------
(* Time and the guest.                                                      *)

\* A deadline that passes changes nothing by itself.
LEMMA TimeKept ==
  ASSUME IInv, DeadlinePasses \/ OwnDeadlinePasses
  PROVE  IInv'
<1>1. /\ UNCHANGED <<job, todo, step, chunk, result, offset, printed, trouble, guest>>
      /\ late' \in {late, TRUE} /\ ownLate' \in {ownLate, TRUE}
  BY DEF DeadlinePasses, OwnDeadlinePasses
<1>2. GuestTypes' /\ proc' = proc /\ files' = files /\ written' = written /\ helper' = helper /\ handles' = handles
  BY <1>1, GuestStays
<1>3. /\ Left' = Left /\ First' = First /\ (Over' <=> Over) /\ Path' = Path
      /\ WriteInv' /\ OrderInv'
  BY <1>1, <1>2, Stays
<1>4. late' \in BOOLEAN /\ ownLate' \in BOOLEAN
  BY <1>1 DEF IInv, ClientTypes
<1>5. ClientTypes'
  BY <1>1, <1>4 DEF IInv, ClientTypes
<1>6. StepInv' /\ RunInv'
  BY <1>1, <1>2, <1>3 DEF IInv, StepInv, RunInv
<1>7. FilesInv' /\ KillInv'
  BY <1>1, <1>2, <1>3 DEF IInv, FilesInv, KillInv, Removed
<1>8. OutputInv'
  <2>1. Unread(Path)' = Unread(Path)
    BY <1>1, <1>2, <1>3 DEF Unread
  <2> QED BY <2>1, <1>1, <1>2, <1>3 DEF IInv, OutputInv
<1> QED BY <1>2, <1>3, <1>5, <1>6, <1>7, <1>8 DEF IInv

\* What the guest does leaves the client as it is.
LEMMA ClientStays ==
  ASSUME IInv, UNCHANGED client
  PROVE  /\ UNCHANGED <<job, todo, step, chunk, late, ownLate, result, offset, printed, trouble>>
         /\ Left' = Left /\ First' = First /\ (Over' <=> Over) /\ Path' = Path
         /\ ClientTypes' /\ WriteInv' /\ StepInv'
         /\ (proc' = proc \/ ~Copying) /\ (files' \subseteq files \union {"target"} \/ ~Copying)
              => OrderInv'
<1>1. UNCHANGED <<job, todo, step, chunk, late, ownLate, result, offset, printed, trouble>>
  BY DEF client
<1>2. /\ Left' = Left /\ First' = First /\ (Over' <=> Over) /\ Path' = Path /\ WriteInv'
      /\ (proc' = proc \/ ~Copying) /\ (files' \subseteq files \union {"target"} \/ ~Copying)
           => OrderInv'
  BY <1>1, Stays
<1>3. ClientTypes'
  BY <1>1 DEF IInv, ClientTypes
<1>4. StepInv'
  BY <1>1, <1>2 DEF IInv, StepInv
<1> QED BY <1>1, <1>2, <1>3, <1>4

\* The guest command writes only while it is waited for.
LEMMA WritesKept ==
  ASSUME IInv, Writes
  PROVE  IInv'
<1>1. /\ UNCHANGED client /\ UNCHANGED <<files, handles, proc, helper>>
      /\ proc = "running" /\ job.mode = "stream"
  BY DEF Writes
<1>2. PICK s \in Streams : written' = [written EXCEPT ![s] = Wrapped(@ + 1)]
  BY DEF Writes
<1>3. GuestTypes'
  <2>1. written[s] \in 0 .. Window - 1 /\ 1 \in 0 .. Window - 1
    BY GuestExecAssumption DEF IInv, GuestTypes
  <2>2. Wrapped(written[s] + 1) \in 0 .. Window - 1
    BY <2>1, Positions
  <2> QED BY <2>2, <1>1, <1>2 DEF IInv, GuestTypes
<1>4. /\ UNCHANGED <<job, todo, step, chunk, late, ownLate, result, offset, printed, trouble>>
      /\ Left' = Left /\ First' = First /\ (Over' <=> Over) /\ Path' = Path
      /\ ClientTypes' /\ WriteInv' /\ StepInv' /\ OrderInv'
  BY <1>1, ClientStays
<1>5. RunInv' /\ KillInv' /\ FilesInv'
  BY <1>1, <1>4 DEF IInv, RunInv, KillInv, FilesInv, Removed
<1>6. result = "ok" => Asking \in Left
  BY <1>1 DEF IInv, StepInv, OutputInv, RunInv
<1>7. OutputInv'
  BY <1>1, <1>4, <1>6 DEF IInv, OutputInv
<1> QED BY <1>3, <1>4, <1>5, <1>7 DEF IInv

\* The guest command ends by itself.
LEMMA ExitsKept ==
  ASSUME IInv, Exits
  PROVE  IInv'
<1>1. /\ UNCHANGED client /\ UNCHANGED <<files, handles, helper, written>>
      /\ proc = "running" /\ proc' = "exited"
  BY DEF Exits
<1>2. GuestTypes'
  BY <1>1 DEF IInv, GuestTypes
<1>3. ~Copying
  BY <1>1 DEF IInv, OrderInv
<1>4. /\ UNCHANGED <<job, todo, step, chunk, late, ownLate, result, offset, printed, trouble>>
      /\ Left' = Left /\ First' = First /\ (Over' <=> Over) /\ Path' = Path
      /\ ClientTypes' /\ WriteInv' /\ StepInv' /\ OrderInv'
  BY <1>1, <1>3, ClientStays
<1>5. RunInv' /\ KillInv' /\ FilesInv'
  BY <1>1, <1>4 DEF IInv, RunInv, KillInv, FilesInv, Removed
<1>6. Unread(Path)' = Unread(Path)
  BY <1>1, <1>4 DEF Unread
<1>7. OutputInv'
  BY <1>1, <1>4, <1>6 DEF IInv, OutputInv
<1> QED BY <1>2, <1>4, <1>5, <1>7 DEF IInv

\* A shell command of qtr's own takes effect: it removes what its task removes, or ends the guest command.
LEMMA HelperKept ==
  ASSUME IInv, HelperRuns
  PROVE  IInv'
<1>1. /\ UNCHANGED client /\ UNCHANGED <<handles, written>>
      /\ helper # NoHelper /\ helper' = NoHelper
      /\ files' = CASE helper = Task("remove", "script") -> files \ {"script"}
                    [] helper = Task("remove", "streams") -> files \ Streams
                    [] OTHER -> files
      /\ proc' = IF helper.do = "kill" /\ proc = "running" THEN "killed" ELSE proc
  BY DEF HelperRuns
<1>2. Task("remove", "script") # Task("remove", "streams") /\ Killing.do = "kill"
      /\ NoHelper # Killing
  BY Fields DEF Killing, NoHelper
<1>3. files' \subseteq files
  BY <1>1
<1>4. helper \in {Task("remove", "script"), Task("remove", "streams")} =>
        \A f \in files' \intersect Own : Removed(f) # helper
  BY <1>1, <1>2 DEF Removed, Own, Streams
<1>5. helper.do = "kill" => helper = Killing
  BY <1>1, Kinds DEF IInv, GuestTypes
<1>6. GuestTypes'
  BY <1>1, <1>3 DEF IInv, GuestTypes
<1>7. Copying => proc' = proc
  BY <1>1 DEF IInv, OrderInv
<1>8. /\ UNCHANGED <<job, todo, step, chunk, late, ownLate, result, offset, printed, trouble>>
      /\ Left' = Left /\ First' = First /\ (Over' <=> Over) /\ Path' = Path
      /\ ClientTypes' /\ WriteInv' /\ StepInv' /\ OrderInv'
  BY <1>1, <1>3, <1>7, ClientStays
<1>9. RunInv'
  BY <1>1, <1>8 DEF IInv, RunInv
<1>10. KillInv'
  BY <1>1, <1>2, <1>8 DEF IInv, KillInv
<1>11. FilesInv'
  <2>1. ~trouble => \A f \in files' \intersect Own : Removed(f) \in Left
    BY <1>3 DEF IInv, FilesInv
  <2>2. ~trouble /\ step = "status" /\ First.do = "remove" =>
          \A f \in files' \intersect Own : Removed(f) # First
    <3> SUFFICES ASSUME ~trouble, step = "status", First.do = "remove"
                 PROVE  \A f \in files' \intersect Own : Removed(f) # First
      OBVIOUS
    <3>1. helper = First
      BY <1>1 DEF IInv, FilesInv
    <3>2. First \in Removing
      <4>1. ~Over
        BY DEF IInv, StepInv
      <4> QED BY <4>1, AtWork, Kinds DEF IInv
    <3> QED BY <3>1, <3>2, <1>4 DEF Removing
  <2> QED BY <2>1, <2>2, <1>1, <1>3, <1>8 DEF IInv, FilesInv, Removed
<1>12. result = "ok" /\ job.mode = "stream" => proc' = proc
  BY <1>1, <1>5 DEF IInv, OutputInv
<1>13. OutputInv'
  <2>1. Unread(Path)' = Unread(Path)
    BY <1>1, <1>8 DEF Unread
  <2> QED BY <2>1, <1>1, <1>2, <1>8, <1>12 DEF IInv, OutputInv
<1> QED BY <1>6, <1>8, <1>9, <1>10, <1>11, <1>13 DEF IInv

-----------------------------------------------------------------------------
(* The tasks that were asked for.                                           *)

\* Tasks of an interval of the order.
Within(s, low, high) == Listed(s) /\ \A t \in ToSet(s) : Rank(t) \in low .. high

\* No task is anywhere in the order.
LEMMA Nothing == ToSet(<<>>) = {} /\ \A low, high : Within(<<>>, low, high)
BY Short DEF Within

\* A list that ends before another begins.
LEMMA Behind ==
  ASSUME NEW s, NEW r, NEW low \in 0 .. 14, NEW middle \in 0 .. 14, NEW next \in 0 .. 14, NEW high \in 0 .. 14,
         Within(s, low, middle), Within(r, next, high), low <= middle, middle < next, next <= high
  PROVE  Within(s \o r, low, high) /\ ToSet(s \o r) = ToSet(s) \union ToSet(r)
<1>1. \A a \in ToSet(s), b \in ToSet(r) : Rank(a) < Rank(b)
  BY DEF Within
<1>2. Listed(s \o r) /\ ToSet(s \o r) = ToSet(s) \union ToSet(r)
  BY <1>1, Joined DEF Within
<1>3. \A t \in ToSet(s) \union ToSet(r) : Rank(t) \in low .. high
  BY DEF Within
<1> QED BY <1>2, <1>3 DEF Within

\* The tasks of a streamed command between its script's being written and removed.
LEMMA Streaming ==
  LET s == <<Task("write", "out"), Task("write", "err"), Task("run", "none"), Task("remove", "streams")>>
  IN  /\ Within(s, 5, 13)
      /\ ToSet(s) = {Task("write", "out"), Task("write", "err"), Running, Task("remove", "streams")}
<1> DEFINE s == <<Task("write", "out"), Task("write", "err"), Running, Task("remove", "streams")>>
<1>1. Task("write", "out") \in AllTasks /\ Task("write", "err") \in AllTasks
  BY DEF AllTasks, Own, Streams
<1>2. Rank(Task("write", "out")) = 5 /\ Rank(Task("write", "err")) = 6
  BY DEF Rank, Task
<1>3. s \in Seq(AllTasks) /\ Len(s) = 4 /\ DOMAIN s = 1 .. 4
      /\ s[1] = Task("write", "out") /\ s[2] = Task("write", "err") /\ s[3] = Running
      /\ s[4] = Task("remove", "streams")
  BY <1>1, Members
<1> HIDE DEF s
<1>4. Ordered(s)
  BY <1>2, <1>3, Ranks DEF Ordered
<1>5. ToSet(s) = {Task("write", "out"), Task("write", "err"), Running, Task("remove", "streams")}
  BY <1>3 DEF ToSet
<1>6. Within(s, 5, 13)
  BY <1>2, <1>3, <1>4, <1>5, Ranks DEF Within, Listed
<1> QED BY <1>5, <1>6 DEF s, Running

\* What was asked for is a list in order, of the tasks of its mode.
LEMMA AskedFor ==
  ASSUME NEW j \in Jobs
  PROVE  /\ Listed(Tasks(j)) /\ Tasks(j) # <<>> /\ Head(Tasks(j)) = Task("ready", "none")
         /\ ToSet(Tasks(j)) =
              {Task("ready", "none")}
              \union (IF j.mode = "copyIn" /\ j.parents THEN {Task("mkdir", "target")} ELSE {})
              \union (IF j.mode = "copyIn" THEN {Task("write", "target")} ELSE {})
              \union (IF j.mode = "copyOut" THEN {Task("fetch", "target")} ELSE {})
              \union (IF j.script THEN {Task("write", "script")} ELSE {})
              \union (IF j.mode = "capture" THEN {Running} ELSE {})
              \union (IF j.mode = "stream"
                      THEN {Task("write", "out"), Task("write", "err"), Running, Task("remove", "streams")}
                      ELSE {})
              \union (IF j.script THEN {Task("remove", "script")} ELSE {})
<1> DEFINE ready == <<Task("ready", "none")>>
           mkdir == If(j.mode = "copyIn" /\ j.parents, <<Task("mkdir", "target")>>)
           write == If(j.mode = "copyIn", <<Task("write", "target")>>)
           fetch == If(j.mode = "copyOut", <<Task("fetch", "target")>>)
           script == If(j.script, <<Task("write", "script")>>)
           run == If(j.mode = "capture", <<Task("run", "none")>>)
           streams == <<Task("write", "out"), Task("write", "err"), Task("run", "none"), Task("remove", "streams")>>
           stream == If(j.mode = "stream", streams)
           end == If(j.script, <<Task("remove", "script")>>)
<1>1. /\ Task("ready", "none") \in AllTasks /\ Rank(Task("ready", "none")) = 0
      /\ Task("mkdir", "target") \in AllTasks /\ Rank(Task("mkdir", "target")) = 1
      /\ Task("write", "target") \in AllTasks /\ Rank(Task("write", "target")) = 2
      /\ Task("fetch", "target") \in AllTasks /\ Rank(Task("fetch", "target")) = 3
      /\ Task("write", "script") \in AllTasks /\ Rank(Task("write", "script")) = 4
  BY DEF AllTasks, Own, Rank, Task
<1>2. \A t \in AllTasks : \A n : Rank(t) = n /\ n \in 0 .. 14 => Within(<<t>>, n, n) /\ ToSet(<<t>>) = {t}
  BY Short DEF Within
<1>3. j.parents \in BOOLEAN /\ j.script \in BOOLEAN
      /\ j.mode \in {"capture", "stream", "copyIn", "copyOut"}
      /\ (j.mode = "capture" => j.mode # "stream")
  BY DEF Jobs
<1>4. Within(ready, 0, 0) /\ ToSet(ready) = {Task("ready", "none")}
  BY <1>1, <1>2
<1>5. Within(mkdir, 1, 1)
      /\ ToSet(mkdir) = IF j.mode = "copyIn" /\ j.parents THEN {Task("mkdir", "target")} ELSE {}
  <2>1. Within(<<Task("mkdir", "target")>>, 1, 1) /\ ToSet(<<Task("mkdir", "target")>>) = {Task("mkdir", "target")}
    BY <1>1, <1>2
  <2> QED BY <2>1, Nothing DEF If
<1>6. Within(write, 2, 2) /\ ToSet(write) = IF j.mode = "copyIn" THEN {Task("write", "target")} ELSE {}
  <2>1. Within(<<Task("write", "target")>>, 2, 2) /\ ToSet(<<Task("write", "target")>>) = {Task("write", "target")}
    BY <1>1, <1>2
  <2> QED BY <2>1, Nothing DEF If
<1>7. Within(fetch, 3, 3) /\ ToSet(fetch) = IF j.mode = "copyOut" THEN {Task("fetch", "target")} ELSE {}
  <2>1. Within(<<Task("fetch", "target")>>, 3, 3) /\ ToSet(<<Task("fetch", "target")>>) = {Task("fetch", "target")}
    BY <1>1, <1>2
  <2> QED BY <2>1, Nothing DEF If
<1>8. Within(script, 4, 4) /\ ToSet(script) = IF j.script THEN {Task("write", "script")} ELSE {}
  <2>1. Within(<<Task("write", "script")>>, 4, 4) /\ ToSet(<<Task("write", "script")>>) = {Task("write", "script")}
    BY <1>1, <1>2
  <2> QED BY <2>1, Nothing DEF If
<1>9. Within(run, 11, 11) /\ ToSet(run) = IF j.mode = "capture" THEN {Running} ELSE {}
  <2>1. Within(<<Running>>, 11, 11) /\ ToSet(<<Running>>) = {Running}
    BY <1>2, Ranks, Members
  <2> QED BY <2>1, Nothing DEF If, Running
<1>10. /\ Within(stream, 5, 13)
       /\ ToSet(stream) = IF j.mode = "stream"
            THEN {Task("write", "out"), Task("write", "err"), Running, Task("remove", "streams")} ELSE {}
  BY Streaming, Nothing DEF If
<1>11. Within(end, 14, 14) /\ ToSet(end) = IF j.script THEN {Task("remove", "script")} ELSE {}
  <2>1. Within(<<Task("remove", "script")>>, 14, 14) /\ ToSet(<<Task("remove", "script")>>) = {Task("remove", "script")}
    BY <1>2, Ranks, Members
  <2> QED BY <2>1, Nothing DEF If
<1>12. Tasks(j) = ((((((ready \o mkdir) \o write) \o fetch) \o script) \o run) \o stream) \o end
  BY DEF Tasks
<1> HIDE DEF ready, mkdir, write, fetch, script, run, stream, end
<1> DEFINE copying == (ready \o mkdir) \o write
           before == (copying \o fetch) \o script
           during == (before \o run) \o stream
<1>13. Within(ready \o mkdir, 0, 1) /\ ToSet(ready \o mkdir) = ToSet(ready) \union ToSet(mkdir)
  BY <1>4, <1>5, Behind
<1>14. Within(copying, 0, 2) /\ ToSet(copying) = ToSet(ready \o mkdir) \union ToSet(write)
  BY <1>6, <1>13, Behind
<1> HIDE DEF copying
<1>15. Within(copying \o fetch, 0, 3) /\ ToSet(copying \o fetch) = ToSet(copying) \union ToSet(fetch)
  BY <1>7, <1>14, Behind
<1>16. Within(before, 0, 4) /\ ToSet(before) = ToSet(copying \o fetch) \union ToSet(script)
  BY <1>8, <1>15, Behind
<1> HIDE DEF before
<1>17. Within(during, 0, 13) /\ ToSet(during) = ToSet(before) \union ToSet(run) \union ToSet(stream)
  <2>1. CASE j.mode = "stream"
    <3>1. ToSet(run) = {} /\ Within(run, 4, 4)
      BY <2>1, <1>3, <1>9 DEF Within
    <3>2. Within(run, 5, 5)
      BY <3>1 DEF Within
    <3>3. Within(before \o run, 0, 5) /\ ToSet(before \o run) = ToSet(before) \union ToSet(run)
      BY <3>2, <1>16, Behind
    <3>4. \A t \in ToSet(before \o run) : Rank(t) \in 0 .. 4
      BY <3>1, <3>3, <1>16 DEF Within
    <3>5. Within(before \o run, 0, 4)
      BY <3>3, <3>4 DEF Within
    <3> QED BY <3>3, <3>5, <1>10, Behind
  <2>2. CASE j.mode # "stream"
    <3>1. ToSet(stream) = {} /\ Within(stream, 12, 13)
      BY <2>2, <1>10 DEF Within
    <3>2. Within(before \o run, 0, 11) /\ ToSet(before \o run) = ToSet(before) \union ToSet(run)
      BY <1>9, <1>16, Behind
    <3> QED BY <3>1, <3>2, Behind
  <2> QED BY <2>1, <2>2
<1>18. Tasks(j) = during \o end
  BY <1>12 DEF during, before, copying
<1> HIDE DEF during
<1>19. Listed(Tasks(j)) /\ ToSet(Tasks(j)) = ToSet(during) \union ToSet(end)
  <2>1. Within(during \o end, 0, 14) /\ ToSet(during \o end) = ToSet(during) \union ToSet(end)
    BY <1>11, <1>17, Behind
  <2> QED BY <2>1, <1>18 DEF Within
<1>20. /\ Task("ready", "none") \in ToSet(Tasks(j))
       /\ ToSet(Tasks(j)) = ToSet(ready) \union ToSet(mkdir) \union ToSet(write) \union ToSet(fetch)
            \union ToSet(script) \union ToSet(run) \union ToSet(stream) \union ToSet(end)
  BY <1>4, <1>13, <1>14, <1>15, <1>16, <1>17, <1>19
<1>21. Tasks(j) # <<>>
  BY <1>20, Short
<1>22. Head(Tasks(j)) = Task("ready", "none")
  <2>1. Head(Tasks(j)) \in AllTasks /\ \A t \in ToSet(Tasks(j)) : t = Head(Tasks(j)) \/ Rank(Head(Tasks(j))) < Rank(t)
    BY <1>19, <1>21, Rest
  <2> QED BY <2>1, <1>1, <1>20, Kinds
<1> QED BY <1>4, <1>5, <1>6, <1>7, <1>8, <1>9, <1>10, <1>11, <1>19, <1>20, <1>21, <1>22

-----------------------------------------------------------------------------
(* The theorems.                                                            *)

\* In the beginning everything is still to be done.
LEMMA Initially == Init => IInv
<1> SUFFICES ASSUME Init PROVE IInv
  OBVIOUS
<1> USE DEF Init
<1>1. /\ Listed(todo) /\ ~Over /\ First = Task("ready", "none")
      /\ Left =
           {Task("ready", "none")}
           \union (IF job.mode = "copyIn" /\ job.parents THEN {Task("mkdir", "target")} ELSE {})
           \union (IF job.mode = "copyIn" THEN {Task("write", "target")} ELSE {})
           \union (IF job.mode = "copyOut" THEN {Task("fetch", "target")} ELSE {})
           \union (IF job.script THEN {Task("write", "script")} ELSE {})
           \union (IF job.mode = "capture" THEN {Running} ELSE {})
           \union (IF job.mode = "stream"
                   THEN {Task("write", "out"), Task("write", "err"), Running, Task("remove", "streams")}
                   ELSE {})
           \union (IF job.script THEN {Task("remove", "script")} ELSE {})
  BY AskedFor DEF Over, First, Left
<1>2. 0 \in 0 .. Window - 1
  BY GuestExecAssumption
<1>3. ClientTypes
  <2>1. chunk \in [size : 0 .. Window - 1, end : BOOLEAN, ok : BOOLEAN]
    BY <1>2 DEF NoChunk
  <2> QED BY <2>1, <1>1, <1>2 DEF ClientTypes, Listed
<1>4. GuestTypes
  BY <1>2 DEF GuestTypes
<1>5. StepInv
  BY <1>1, Fields DEF StepInv
<1>6. job \in Jobs /\ (Copying => ~job.script) /\ (~Copying => ~job.parents)
      /\ (Copying <=> job.mode \in {"copyIn", "copyOut"})
  BY DEF Jobs, Copying
<1>7. OrderInv
  <2>1. Copying => \A t \in Left : t.do \notin {"run", "check", "drain", "status"} /\ t.path \notin Own
    BY <1>1, <1>6, Fields DEF Own, Streams
  <2>2. ~Copying => \A t \in Left : t.do \notin {"mkdir", "fetch"} /\ t.path # "target"
    BY <1>1, <1>6, Fields DEF Running
  <2> QED BY <2>1, <2>2, <1>1 DEF OrderInv, Listed
<1>8. WriteInv
  <2> SUFFICES ASSUME NEW f \in Own, Task("write", f) \in Left PROVE Removed(f) \in Left
    BY DEF WriteInv
  <2>1. CASE f = "script"
    <3>1. job.script
      BY <2>1, <1>1, Fields DEF Running
    <3> QED BY <2>1, <3>1, <1>1 DEF Removed
  <2>2. CASE f \in Streams
    <3>1. job.mode = "stream"
      BY <2>2, <1>1, Fields DEF Running, Streams
    <3>2. f # "script"
      BY <2>2 DEF Streams
    <3> QED BY <3>1, <3>2, <1>1 DEF Removed
  <2> QED BY <2>1, <2>2 DEF Own
<1>9. FilesInv
  BY DEF FilesInv
<1>10. RunInv
  <2>1. \A t \in Left : t.do \notin {"check", "drain", "status"}
    BY <1>1, Fields DEF Running
  <2> QED BY <2>1 DEF RunInv
<1>11. KillInv
  BY DEF KillInv
<1>12. OutputInv
  <2>1. Killing \notin Left /\ helper # Killing
    BY <1>1, Fields DEF Running, Killing, NoHelper
  <2>2. Asking \notin Left
    BY <1>1, Fields DEF Running, Asking
  <2>3. job.mode = "stream" => Running \in Left
    BY <1>1
  <2> QED BY <2>1, <2>2, <2>3 DEF OutputInv
<1> QED BY <1>3, <1>4, <1>5, <1>7, <1>8, <1>9, <1>10, <1>11, <1>12 DEF IInv

\* Every step keeps the invariant.
LEMMA Always == IInv /\ [Next]_vars => IInv'
<1> SUFFICES ASSUME IInv, [Next]_vars PROVE IInv'
  OBVIOUS
<1>1. CASE UNCHANGED vars
  <2>1. UNCHANGED client /\ UNCHANGED <<files, handles, proc, helper, written>>
    BY <1>1 DEF vars, guest
  <2>2. /\ UNCHANGED <<job, todo, step, chunk, late, ownLate, result, offset, printed, trouble>>
        /\ Left' = Left /\ First' = First /\ (Over' <=> Over) /\ Path' = Path
        /\ ClientTypes' /\ WriteInv' /\ StepInv' /\ OrderInv'
    BY <2>1, ClientStays
  <2>3. GuestTypes' /\ RunInv' /\ KillInv' /\ FilesInv'
    BY <2>1, <2>2 DEF IInv, GuestTypes, RunInv, KillInv, FilesInv, Removed
  <2>4. OutputInv'
    <3>1. Unread(Path)' = Unread(Path)
      BY <2>1, <2>2 DEF Unread
    <3> QED BY <3>1, <2>1, <2>2 DEF IInv, OutputInv
  <2> QED BY <2>2, <2>3, <2>4 DEF IInv
<1>2. CASE Client
  BY <1>2, OpenKept, ReadOrWriteKept, CloseKept, PingKept, InfoKept, ExecKept, StatusKept, CheckKept DEF Client
<1>3. CASE DeadlinePasses \/ OwnDeadlinePasses
  BY <1>3, TimeKept
<1>4. CASE Guest
  BY <1>4, WritesKept, ExitsKept, HelperKept DEF Guest
<1> QED BY <1>1, <1>2, <1>3, <1>4 DEF Next

\* The inductive invariant of a command in a guest: what is still to do is enough
\* to tidy up what was left there and to read what was written.
THEOREM Invariance == Spec => []IInv
BY Initially, Always, PTL DEF Spec

\* A command that succeeds has ended in the guest and its output is printed, whole
\* and once, for every size of a chunk and however far the guest runs ahead
\* (stream_guest_command, drain_guest_output_stream).
THEOREM Completeness == Spec => []OutputComplete
<1>1. IInv => OutputComplete
  <2> SUFFICES ASSUME IInv PROVE OutputComplete
    OBVIOUS
  <2>1. TypeOK
    BY DEF IInv, ClientTypes, GuestTypes, TypeOK
  <2>2. Over => Left = {}
    BY Short DEF Over, Left
  <2>3. ASSUME Over, result = "ok", job.mode = "stream" PROVE proc = "exited" /\ printed = written
    <3>1. proc = "exited" /\ printed = offset /\ \A s \in Streams : offset[s] = written[s]
      BY <2>2, <2>3 DEF IInv, OutputInv
    <3>2. offset = written
      BY <3>1 DEF IInv, ClientTypes, GuestTypes
    <3> QED BY <3>1, <3>2
  <2> QED BY <2>1, <2>3 DEF OutputComplete, IInv, OutputInv
<1> QED BY <1>1, Invariance, PTL

\* Nothing of qtr stays in a guest whose agent answers, whatever fails and whenever
\* the deadline passes (run_command_with_deadline, cleanup_guest_paths).
THEOREM Tidiness == Spec => []NothingLeft
<1>1. IInv => NothingLeft
  <2> SUFFICES ASSUME IInv, Over, ~trouble
               PROVE  handles = {} /\ files \intersect Own = {} /\ proc # "running"
    BY DEF NothingLeft
  <2>1. Left = {} /\ step = "end"
    BY Short DEF Over, Left, IInv, StepInv
  <2> QED BY <2>1 DEF IInv, FilesInv, KillInv
<1> QED BY <1>1, Invariance, PTL
=============================================================================
