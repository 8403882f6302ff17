------------------------- MODULE StorageConfigProofs -------------------------
(***************************************************************************)
(* Proofs about StorageConfig, for any number of commands, backends and    *)
(* targets and for whatever names the targets suggest.                     *)
(***************************************************************************)
EXTENDS StorageConfig, FiniteSetTheorems, NaturalsInduction, WellFoundedInduction,
        SequenceTheorems, TLAPS

\* In a backend a name means one volume and a target has one name.
SoundVolumes(volumes) ==
  /\ volumes \subseteq Volume
  /\ \A v, w \in volumes : v.name = w.name <=> v.target = w.target

\* In a configuration a backend's name means one backend.
Sound(config) ==
  /\ config \subseteq Entry
  /\ \A b \in config : SoundVolumes(b.volumes)
  /\ \A b, c \in config : b.name = c.name => b = c

Steps == {"add", "scan", "connect", "disconnect", "write", "rename"}
Records == [op : {"add", "scan", "connect", "disconnect"}, step : Steps, on : Backends,
            state : SUBSET Entry, stale : BOOLEAN]

Types ==
  /\ command \in [Commands -> Records \union {Idle}]
  /\ temp \in [Commands -> (SUBSET Entry) \union {NoFile, Partial}]
  /\ overwritten \in BOOLEAN

FileInv == file = NoFile \/ Sound(file)

\* What a command has loaded or is going to save is sound, and it has the backend
\* that it is about.
StateInv ==
  \A c \in Commands : command[c] # Idle =>
    /\ Sound(command[c].state)
    /\ command[c].step \in {"scan", "connect", "disconnect"} =>
         command[c].on \in Names(command[c].state)
    /\ command[c].step = "add" => command[c].on \notin Names(command[c].state)
    /\ command[c].step = "rename" => temp[c] = command[c].state

\* As long as nobody saved over the change of another: nothing that was given is
\* gone, nothing was loaded that was not given, and who does not know of everything
\* is not going to save unnoticed.
GivenInv ==
  ~overwritten =>
    /\ given = Known
    /\ \A t \in sessions : \E x \in Known : x[3] = t
    /\ \A c \in Commands : command[c] # Idle =>
         /\ command[c].step \notin {"write", "rename"} => Triples(command[c].state) \subseteq given
         /\ ~command[c].stale => given \subseteq Triples(command[c].state)

IInv == Types /\ FileInv /\ StateInv /\ GivenInv

-----------------------------------------------------------------------------
(* What the commands compute.                                                *)

\* Every set of numbers that has one has a least one.
LEMMA Least ==
  ASSUME NEW T, T \subseteq Nat, T # {}
  PROVE  \E x \in T : \A y \in T : x <= y
<1>. DEFINE R == OpToRel(<, Nat)
<1>1. IsWellFoundedOn(R, Nat)
  BY NatLessThanWellFounded
<1>2. \A x, y \in Nat : <<x, y>> \in R <=> x < y
  BY DEF OpToRel
<1>3. PICK x \in T : \A y \in T : ~(<<y, x>> \in R)
  <2>. HIDE DEF R
  <2>. QED
    BY <1>1, WFMin
<1>. HIDE DEF R
<1>4. ASSUME NEW y \in T PROVE x <= y
  <2>1. x \in Nat /\ y \in Nat
    OBVIOUS
  <2>2. ~(<<y, x>> \in R)
    BY <1>3
  <2>3. ~(y < x)
    BY <1>2, <2>1, <2>2
  <2>. QED
    BY <2>1, <2>3
<1>. QED
  BY <1>4

\* Induction, for a set of numbers.
LEMMA Counting ==
  ASSUME NEW T, 0 \in T, \A n \in Nat : n \in T => n + 1 \in T
  PROVE  Nat \subseteq T
<1>1. SUFFICES ASSUME Nat \ T # {} PROVE FALSE
  OBVIOUS
<1>2. PICK x \in Nat \ T : \A y \in Nat \ T : x <= y
  BY <1>1, Least
<1>3. x # 0 /\ x - 1 \in Nat /\ x = (x - 1) + 1
  BY <1>2
<1>4. x - 1 \in T
  BY <1>2, <1>3
<1>. QED
  BY <1>2, <1>3, <1>4

\* A name with a number is a name, and tells the number.
LEMMA NumberedName ==
  ASSUME NEW base \in Seq(Parts)
  PROVE  /\ \A n \in 2 .. MaxSuffix : Append(base, n) \in Seq(Parts)
         /\ \A m, n \in 2 .. MaxSuffix : Append(base, m) = Append(base, n) => m = n
<1>1. \A n \in 2 .. MaxSuffix : n \in Parts
  BY StorageConfigAssumption
<1>2. ASSUME NEW n \in 2 .. MaxSuffix
      PROVE  Append(base, n) \in Seq(Parts) /\ Append(base, n)[Len(base) + 1] = n
  BY <1>1, AppendProperties
<1>. QED
  BY <1>2

\* unique_volume_name finds a name, and one that no volume has.
LEMMA NameIsFree ==
  ASSUME NEW volumes, SoundVolumes(volumes), NEW target \in Targets,
         \A v \in volumes : v.target # target
  PROVE  /\ UniqueName(volumes, BaseName[target]) \in Seq(Parts)
         /\ \A v \in volumes : v.name # UniqueName(volumes, BaseName[target])
<1>. DEFINE base == BaseName[target]
            taken == {v.name : v \in volumes}
            free == {n \in 2 .. MaxSuffix : Append(base, n) \notin taken}
<1>1. base \in Seq(Parts)
  BY StorageConfigAssumption
<1>2. free # {}
  <2>. SUFFICES ASSUME free = {} PROVE FALSE
    OBVIOUS
  <2>. DEFINE owner == [n \in 2 .. MaxSuffix |-> CHOOSE v \in volumes : v.name = Append(base, n)]
              of == [n \in 2 .. MaxSuffix |-> owner[n].target]
  <2>1. ASSUME NEW n \in 2 .. MaxSuffix
        PROVE  owner[n] \in volumes /\ owner[n].name = Append(base, n)
    <3>1. \E v \in volumes : v.name = Append(base, n)
      OBVIOUS
    <3>. QED
      BY <3>1
  <2>2. of \in [2 .. MaxSuffix -> Targets \ {target}]
    BY <2>1 DEF SoundVolumes, Volume
  <2>3. /\ IsFiniteSet(Targets \ {target}) /\ IsFiniteSet(2 .. MaxSuffix)
        /\ Cardinality(Targets \ {target}) < Cardinality(2 .. MaxSuffix)
    <3>1. /\ IsFiniteSet(Targets \ {target}) /\ Cardinality(Targets) \in Nat
          /\ Cardinality(Targets \ {target}) = Cardinality(Targets) - 1
      BY FS_RemoveElement, FS_CardinalityType, StorageConfigAssumption
    <3>2. Cardinality(Targets) # 0
      BY FS_EmptySet, StorageConfigAssumption
    <3>3. MaxSuffix \in Int /\ 2 \in Int /\ MaxSuffix >= 2 /\ Cardinality(Targets) < MaxSuffix
      BY <3>1, <3>2, StorageConfigAssumption
    <3>4. IsFiniteSet(2 .. MaxSuffix) /\ Cardinality(2 .. MaxSuffix) = MaxSuffix - 1
      BY <3>3, FS_Interval
    <3>. QED
      BY <3>1, <3>3, <3>4
  <2>. HIDE DEF of
  <2>4. PICK m \in 2 .. MaxSuffix, n \in 2 .. MaxSuffix : m # n /\ of[m] = of[n]
    <3>. DEFINE numbers == 2 .. MaxSuffix
                others == Targets \ {target}
    <3>. HIDE DEF numbers, others
    <3>1. of \in [numbers -> others] /\ IsFiniteSet(numbers) /\ IsFiniteSet(others)
          /\ Cardinality(others) < Cardinality(numbers)
      BY <2>2, <2>3 DEF numbers, others
    <3>2. \E m, n \in numbers : m # n /\ of[m] = of[n]
      BY <3>1, FS_PigeonHole
    <3>. QED
      BY <3>2 DEF numbers
  <2>5. owner[m].target = owner[n].target
    BY <2>4 DEF of
  <2>6. owner[m].name = owner[n].name
    BY <2>1, <2>5 DEF SoundVolumes
  <2>. QED
    BY <1>1, <2>1, <2>4, <2>6, NumberedName
<1>3. CASE base \notin taken
  BY <1>1, <1>3 DEF UniqueName
<1>4. CASE base \in taken
  <2>. DEFINE least == CHOOSE n \in free : \A m \in free : n <= m
  <2>1. free \subseteq Nat
    OBVIOUS
  <2>2. least \in free
    <3>. HIDE DEF free
    <3>1. \E n \in free : \A m \in free : n <= m
      BY <1>2, <2>1, Least
    <3>. QED
      BY <3>1
  <2>3. UniqueName(volumes, base) = Append(base, least)
    BY <1>4 DEF UniqueName
  <2>4. Append(base, least) \notin taken /\ Append(base, least) \in Seq(Parts)
    BY <1>1, <2>2, NumberedName
  <2>. HIDE DEF least
  <2>. QED
    BY <2>3, <2>4
<1>. QED
  BY <1>3, <1>4

\* One target more.
LEMMA OneMore ==
  ASSUME NEW volumes, SoundVolumes(volumes), NEW target \in Targets
  PROVE  SoundVolumes(WithTarget(volumes, target)) /\ volumes \subseteq WithTarget(volumes, target)
<1>1. CASE \E v \in volumes : v.target = target
  BY <1>1 DEF WithTarget
<1>2. CASE ~\E v \in volumes : v.target = target
  <2>1. PICK new : new = [name |-> UniqueName(volumes, BaseName[target]), target |-> target]
    OBVIOUS
  <2>2. new \in Volume /\ new.target = target /\ \A v \in volumes : v.name # new.name
    BY <1>2, <2>1, NameIsFree DEF Volume
  <2>3. WithTarget(volumes, target) = volumes \union {new}
    BY <1>2, <2>1 DEF WithTarget, Named
  <2>. QED
    BY <1>2, <2>2, <2>3 DEF SoundVolumes
<1>. QED
  BY <1>1, <1>2

\* merge_iscsi_nodes keeps the volumes that there are, and the new ones get names
\* that no other has.
LEMMA Merged ==
  ASSUME NEW volumes, SoundVolumes(volumes), NEW nodes \in Seq(Targets)
  PROVE  SoundVolumes(Merge(volumes, nodes)) /\ volumes \subseteq Merge(volumes, nodes)
<1>. DEFINE After(f, n) == IF n = 0 THEN volumes ELSE WithTarget(f[n - 1], nodes[n])
            Runs(f, k) == f = [n \in 0 .. k |-> After(f, n)]
            last == Len(nodes)
<1>1. last \in Nat /\ \A n \in 1 .. last : nodes[n] \in Targets
  OBVIOUS
<1>2. \A k \in Nat : \E f : Runs(f, k)
  <2>. DEFINE T == {k \in Nat : \E f : Runs(f, k)}
  <2>1. 0 \in T
    <3>1. Runs([n \in 0 .. 0 |-> volumes], 0)
      OBVIOUS
    <3>. QED
      BY <3>1
  <2>2. ASSUME NEW k \in T PROVE k + 1 \in T
    <3>1. PICK f : Runs(f, k)
      OBVIOUS
    <3>. DEFINE g == [n \in 0 .. k + 1 |-> IF n = k + 1 THEN WithTarget(f[k], nodes[k + 1]) ELSE f[n]]
    <3>2. ASSUME NEW n \in 0 .. k + 1 PROVE g[n] = After(g, n)
      <4>1. CASE n = k + 1
        BY <4>1
      <4>2. CASE n # k + 1 /\ n # 0
        <5>1. n \in 0 .. k /\ n - 1 \in 0 .. k /\ n - 1 \in 0 .. k + 1 /\ n - 1 # k + 1
          BY <4>2
        <5>2. f[n] = WithTarget(f[n - 1], nodes[n])
          BY <3>1, <4>2, <5>1
        <5>. QED
          BY <4>2, <5>1, <5>2
      <4>3. CASE n = 0
        BY <3>1, <4>3
      <4>. QED
        BY <4>1, <4>2, <4>3
    <3>3. Runs(g, k + 1)
      <4>1. g = [n \in 0 .. k + 1 |-> g[n]]
        OBVIOUS
      <4>. HIDE DEF g
      <4>. QED
        BY <3>2, <4>1
    <3>. HIDE DEF g, Runs
    <3>. QED
      BY <3>3
  <2>. HIDE DEF T
  <2>3. Nat \subseteq T
    BY <2>1, <2>2, Counting
  <2>. QED
    BY <2>3 DEF T
<1>. DEFINE merged == CHOOSE f : Runs(f, last)
<1>3. Runs(merged, last)
  <2>. HIDE DEF Runs, last
  <2>1. \E f : Runs(f, last)
    BY <1>1, <1>2
  <2>. QED
    BY <2>1
<1>4. Merge(volumes, nodes) = merged[last]
  BY DEF Merge
<1>. HIDE DEF merged
<1>5. /\ merged[0] = volumes
      /\ \A n \in 1 .. last : merged[n] = WithTarget(merged[n - 1], nodes[n])
  BY <1>1, <1>3
<1>. HIDE DEF Runs, After, last
<1>. DEFINE Good(m) == SoundVolumes(m) /\ volumes \subseteq m
            G == {n \in Nat : n <= last => Good(merged[n])}
<1>6. 0 \in G
  BY <1>5
<1>7. ASSUME NEW n \in Nat, n \in G PROVE n + 1 \in G
  <2>. SUFFICES ASSUME n + 1 <= last PROVE Good(merged[n + 1])
    OBVIOUS
  <2>1. n + 1 \in 1 .. last /\ (n + 1) - 1 = n /\ n <= last
    BY <1>1
  <2>2. merged[n + 1] = WithTarget(merged[n], nodes[n + 1]) /\ nodes[n + 1] \in Targets
    BY <1>1, <1>5, <2>1
  <2>. QED
    BY <1>7, <2>1, <2>2, OneMore
<1>. HIDE DEF G
<1>8. last \in G
  BY <1>1, <1>6, <1>7, Counting
<1>. QED
  BY <1>1, <1>4, <1>8 DEF G

\* What sendtargets answers are targets.
LEMMA AnswersAreTargets == Answers \subseteq Seq(Targets)
<1>. SUFFICES ASSUME NEW nodes \in Answers PROVE nodes \in Seq(Targets)
  OBVIOUS
<1>1. PICK s \in SUBSET Targets : nodes \in [1 .. Cardinality(s) -> s]
  BY DEF Answers, SetToAllKPermutations, SetToSeqs
<1>2. Cardinality(s) \in Nat
  BY FS_Subset, FS_CardinalityType, StorageConfigAssumption
<1>. QED
  BY <1>1, <1>2

-----------------------------------------------------------------------------
(* Every step keeps the invariant.                                           *)

\* The file of a sound configuration is not mistaken for one that is not there or
\* not whole.
LEMMA Different ==
  /\ \A config \in SUBSET Entry : config # NoFile /\ config # Partial
  /\ NoFile # Partial
BY StorageConfigAssumption DEF NoFile, Partial

\* A configuration without backends.
LEMMA EmptyIsSound == Sound({}) /\ Triples({}) = {} /\ Names({}) = {}
BY DEF Sound, Triples, Names

\* The backend of a name.
LEMMA BackendFound ==
  ASSUME NEW config, NEW name \in Names(config)
  PROVE  Backend(config, name) \in config /\ Backend(config, name).name = name
BY DEF Names, Backend

\* A new backend has no volumes.
LEMMA Added ==
  ASSUME NEW config, Sound(config), NEW name \in Backends \ Names(config)
  PROVE  LET new == config \union {[name |-> name, volumes |-> {}]}
         IN  Sound(new) /\ Triples(config) \subseteq Triples(new)
<1>1. PICK b : b = [name |-> name, volumes |-> {}]
  OBVIOUS
<1>2. b \in Entry /\ b.name = name /\ SoundVolumes(b.volumes)
  BY <1>1 DEF Entry, SoundVolumes
<1>3. \A c \in config : c.name # name
  BY DEF Names
<1>. QED
  BY <1>1, <1>2, <1>3 DEF Sound, Triples

\* A scan only adds to its backend.
LEMMA Scanned ==
  ASSUME NEW config, Sound(config), NEW old \in config, NEW nodes \in Answers
  PROVE  LET new == (config \ {old}) \union {[old EXCEPT !.volumes = Merge(@, nodes)]}
         IN  Sound(new) /\ Triples(config) \subseteq Triples(new)
<1>1. PICK b : b = [old EXCEPT !.volumes = Merge(@, nodes)]
  OBVIOUS
<1>2. old \in Entry /\ SoundVolumes(old.volumes)
  BY DEF Sound
<1>3. b.name = old.name /\ b.volumes = Merge(old.volumes, nodes)
  BY <1>1, <1>2 DEF Entry
<1>4. SoundVolumes(b.volumes) /\ old.volumes \subseteq b.volumes
  BY <1>2, <1>3, Merged, AnswersAreTargets
<1>5. b \in Entry
  BY <1>1, <1>2, <1>4 DEF Entry, SoundVolumes
<1>. DEFINE new == (config \ {old}) \union {b}
<1>6. Sound(new)
  BY <1>3, <1>4, <1>5 DEF Sound
<1>7. ASSUME NEW c \in config, NEW v \in c.volumes
      PROVE  <<c.name, v.name, v.target>> \in Triples(new)
  <2>1. CASE c = old
    BY <1>3, <1>4, <2>1 DEF Triples
  <2>2. CASE c # old
    BY <2>2 DEF Triples
  <2>. QED
    BY <2>1, <2>2
<1>8. Triples(config) \subseteq Triples(new)
  BY <1>7 DEF Triples
<1>. QED
  BY <1>1, <1>6, <1>8

\* What a command becomes.
LEMMA Does ==
  ASSUME Types, NEW c \in Commands, NEW value, Do(c, value)
  PROVE  command'[c] = value /\ \A d \in Commands \ {c} : command'[d] = command[d]
BY DEF Types, Do

\* A command that saves goes on with a configuration that has all it has loaded.
LEMMA Saves ==
  ASSUME IInv, NEW c \in Commands, Add(c) \/ (Scan(c) /\ ~Finish(c))
  PROVE  \E state : /\ Sound(state) /\ Triples(command[c].state) \subseteq Triples(state)
                    /\ Save(c, state)
<1>1. command[c] # Idle /\ command[c].step \in {"add", "scan"}
  BY DEF Add, Scan, Idle
<1>2. command[c] \in Records /\ Sound(command[c].state)
  BY <1>1 DEF IInv, Types, StateInv
<1>3. CASE Add(c)
  <2>1. command[c].on \in Backends \ Names(command[c].state)
    BY <1>1, <1>2, <1>3 DEF Add, IInv, StateInv, Records
  <2>. QED
    BY <1>2, <1>3, <2>1, Added DEF Add
<1>4. CASE Scan(c) /\ ~Finish(c)
  <2>1. command[c].on \in Names(command[c].state)
    BY <1>1, <1>4 DEF Scan, IInv, StateInv
  <2>. DEFINE old == Backend(command[c].state, command[c].on)
  <2>2. old \in command[c].state
    BY <2>1, BackendFound
  <2>3. PICK nodes \in Answers :
          Save(c, (command[c].state \ {old}) \union {[old EXCEPT !.volumes = Merge(@, nodes)]})
    BY <1>4 DEF Scan
  <2>. HIDE DEF old
  <2>. QED
    BY <1>2, <2>2, <2>3, Scanned
<1>. QED
  BY <1>3, <1>4

\* What has to hold of a command that is at work.
Fine(r, new) ==
  /\ Sound(r.state)
  /\ r.step \in {"scan", "connect", "disconnect"} => r.on \in Names(r.state)
  /\ r.step = "add" => r.on \notin Names(r.state)
  /\ r.step = "rename" => new = r.state
  /\ ~overwritten =>
       /\ r.step \notin {"write", "rename"} => Triples(r.state) \subseteq given
       /\ ~r.stale => given \subseteq Triples(r.state)

\* What the invariant says of each command at work.
LEMMA AllFine ==
  ASSUME IInv, NEW c \in Commands, command[c] # Idle
  PROVE  command[c] \in Records /\ Fine(command[c], temp[c])
BY DEF IInv, Types, StateInv, GivenInv, Fine

\* A step of one command that changes no file but its own new one.
LEMMA Becomes ==
  ASSUME IInv, NEW c \in Commands, NEW r \in Records \union {Idle}, Do(c, r),
         NEW new \in (SUBSET Entry) \union {NoFile, Partial}, temp' = [temp EXCEPT ![c] = new],
         r # Idle => Fine(r, new),
         ~overwritten => \A t \in sessions' : t \in sessions \/ \E x \in Known : x[3] = t,
         UNCHANGED <<file, given, overwritten>>
  PROVE  IInv'
<1>1. /\ command'[c] = r /\ temp'[c] = new
      /\ \A d \in Commands \ {c} : command'[d] = command[d] /\ temp'[d] = temp[d]
  BY Does DEF IInv, Types
<1>2. Types' /\ FileInv'
  BY DEF IInv, Types, FileInv, Do
<1>3. \A d \in Commands : command'[d] # Idle => Fine(command'[d], temp'[d])
  BY <1>1, AllFine
<1>4. StateInv'
  BY <1>3 DEF StateInv, Fine
<1>5. Known' = Known
  BY DEF Known
<1>6. GivenInv'
  BY <1>3, <1>5 DEF GivenInv, Fine, IInv
<1>. QED
  BY <1>2, <1>4, <1>6 DEF IInv

\* A command that ends, with or without its new file.
LEMMA Ends ==
  ASSUME IInv, NEW c \in Commands, Finish(c),
         UNCHANGED temp \/ temp' = [temp EXCEPT ![c] = NoFile],
         ~overwritten => \A t \in sessions' : t \in sessions \/ \E x \in Known : x[3] = t,
         UNCHANGED <<file, given, overwritten>>
  PROVE  IInv'
<1>1. temp[c] \in (SUBSET Entry) \union {NoFile, Partial} /\ temp = [temp EXCEPT ![c] = temp[c]]
  BY DEF IInv, Types
<1>2. \E new \in (SUBSET Entry) \union {NoFile, Partial} : temp' = [temp EXCEPT ![c] = new]
  BY <1>1
<1>. QED
  BY <1>2, Becomes DEF Finish

\* load_state.
LEMMA LoadStep ==
  ASSUME IInv, NEW c \in Commands, Load(c)
  PROVE  IInv'
<1>. DEFINE state == IF file = NoFile THEN {} ELSE file
<1>1. Sound(state) /\ Triples(state) = Known
  BY EmptyIsSound DEF IInv, FileInv, Known
<1>. HIDE DEF state
<1>2. PICK op \in {"add", "scan", "connect", "disconnect"}, on \in Backends :
        /\ on \in Names(state) <=> op # "add"
        /\ Do(c, [op |-> op, step |-> op, on |-> on, state |-> state, stale |-> FALSE])
  BY DEF Load, state
<1>3. PICK r : r = [op |-> op, step |-> op, on |-> on, state |-> state, stale |-> FALSE]
  OBVIOUS
<1>4. r \in Records
  BY <1>1, <1>3 DEF Records, Steps, Sound
<1>5. Fine(r, temp[c])
  BY <1>1, <1>2, <1>3 DEF Fine, IInv, GivenInv
<1>6. temp[c] \in (SUBSET Entry) \union {NoFile, Partial} /\ temp' = [temp EXCEPT ![c] = temp[c]]
  BY DEF Load, IInv, Types
<1>. QED
  BY <1>2, <1>3, <1>4, <1>5, <1>6, Becomes DEF Load

\* What add_iscsi and scan are about to save.
LEMMA SaveStep ==
  ASSUME IInv, NEW c \in Commands, Add(c) \/ Scan(c)
  PROVE  IInv'
<1>1. CASE Finish(c)
  BY <1>1, Ends DEF Add, Scan
<1>2. CASE ~Finish(c)
  <2>1. PICK state : /\ Sound(state) /\ Triples(command[c].state) \subseteq Triples(state)
                     /\ Save(c, state)
    BY <1>2, Saves
  <2>2. command[c] # Idle
    BY DEF Add, Scan, Idle
  <2>3. command[c] \in Records /\ Fine(command[c], temp[c])
    BY <2>2, AllFine
  <2>4. PICK r : r = [command[c] EXCEPT !.step = "write", !.state = state]
    OBVIOUS
  <2>5. r \in Records /\ r.step = "write" /\ r.state = state /\ r.stale = command[c].stale
    BY <2>1, <2>3, <2>4 DEF Records, Steps, Sound
  <2>6. Fine(r, temp[c])
    BY <2>1, <2>3, <2>5 DEF Fine
  <2>7. temp[c] \in (SUBSET Entry) \union {NoFile, Partial} /\ temp' = [temp EXCEPT ![c] = temp[c]]
    BY DEF Add, Scan, IInv, Types
  <2>. QED
    BY <2>1, <2>4, <2>5, <2>6, <2>7, Becomes DEF Save, Add, Scan
<1>. QED
  BY <1>1, <1>2

\* save_state up to the move.
LEMMA WriteStep ==
  ASSUME IInv, NEW c \in Commands, WriteFile(c)
  PROVE  IInv'
<1>1. command[c] # Idle /\ command[c].step = "write"
  BY DEF WriteFile, Idle
<1>2. command[c] \in Records /\ Fine(command[c], temp[c])
  BY <1>1, AllFine
<1>3. CASE temp' = [temp EXCEPT ![c] = Partial] /\ UNCHANGED command
  <2>1. Do(c, command[c])
    BY <1>3 DEF Do, IInv, Types
  <2>2. Fine(command[c], Partial)
    BY <1>1, <1>2 DEF Fine
  <2>. QED
    BY <1>2, <1>3, <2>1, <2>2, Becomes DEF WriteFile
<1>4. CASE /\ temp' = [temp EXCEPT ![c] = command[c].state]
           /\ Do(c, [command[c] EXCEPT !.step = "rename"])
  <2>1. PICK r : r = [command[c] EXCEPT !.step = "rename"]
    OBVIOUS
  <2>2. /\ r \in Records /\ r.step = "rename" /\ r.state = command[c].state
        /\ r.stale = command[c].stale /\ r.state \subseteq Entry
    BY <1>2, <2>1 DEF Records, Steps
  <2>3. Fine(r, r.state)
    BY <1>2, <2>2 DEF Fine
  <2>. QED
    BY <1>4, <2>1, <2>2, <2>3, Becomes DEF WriteFile
<1>5. CASE temp' = [temp EXCEPT ![c] = NoFile] /\ Finish(c)
  BY <1>5, Ends DEF WriteFile
<1>. QED
  BY <1>3, <1>4, <1>5 DEF WriteFile

\* save_state's move.
LEMMA RenameStep ==
  ASSUME IInv, NEW c \in Commands, Rename(c)
  PROVE  IInv'
<1>1. command[c] # Idle /\ command[c].step = "rename"
  BY DEF Rename, Idle
<1>2. command[c] \in Records /\ Fine(command[c], temp[c])
  BY <1>1, AllFine
<1>3. /\ temp[c] = command[c].state /\ Sound(temp[c])
      /\ ~overwritten /\ ~command[c].stale => given \subseteq Triples(temp[c])
  BY <1>1, <1>2 DEF Fine
<1>4. CASE Finish(c) /\ UNCHANGED <<file, given, overwritten>>
  BY <1>4, Ends DEF Rename
<1>5. CASE /\ file' = temp[c]
           /\ overwritten' = (overwritten \/ command[c].stale)
           /\ given' = IF overwritten' THEN {} ELSE given \union Triples(temp[c])
           /\ command' = [d \in Commands |->
                            IF d = c \/ command[d] = Idle THEN Idle
                            ELSE [command[d] EXCEPT !.stale = TRUE]]
  <2>1. ASSUME NEW d \in Commands, command'[d] # Idle
        PROVE  /\ d # c /\ command[d] # Idle
               /\ command'[d] \in Records /\ command'[d].stale
               /\ command'[d].step = command[d].step /\ command'[d].on = command[d].on
               /\ command'[d].state = command[d].state
               /\ temp'[d] = temp[d]
    <3>1. d # c /\ command[d] # Idle /\ command'[d] = [command[d] EXCEPT !.stale = TRUE]
      BY <1>5, <2>1
    <3>2. command[d] \in Records
      BY <3>1 DEF IInv, Types
    <3>. QED
      BY <3>1, <3>2 DEF Records, Rename, IInv, Types
  <2>2. Types'
    <3>1. command' \in [Commands -> Records \union {Idle}]
      <4>1. command' = [d \in Commands |-> command'[d]]
        BY <1>5
      <4>2. \A d \in Commands : command'[d] \in Records \union {Idle}
        BY <2>1
      <4>. QED
        BY <4>1, <4>2
    <3>2. overwritten' \in BOOLEAN
      BY <1>2, <1>5 DEF Records, IInv, Types
    <3>. QED
      BY <3>1, <3>2 DEF Types, Rename, IInv
  <2>3. FileInv'
    BY <1>3, <1>5 DEF FileInv
  <2>4. StateInv'
    BY <2>1 DEF StateInv, IInv
  <2>5. GivenInv'
    <3>. SUFFICES ASSUME ~overwritten' PROVE GivenInv'
      BY DEF GivenInv
    <3>1. ~overwritten /\ ~command[c].stale /\ given' = given \union Triples(temp[c])
      BY <1>5
    <3>2. Known' = Triples(temp[c])
      <4>1. file' # NoFile
        BY <1>3, <1>5, Different DEF Sound
      <4>. QED
        BY <1>5, <4>1 DEF Known
    <3>3. given' = Known' /\ given \subseteq given'
      BY <1>3, <3>1, <3>2
    <3>4. \A t \in sessions' : \E x \in Known' : x[3] = t
      BY <3>1, <3>3 DEF Rename, IInv, GivenInv
    <3>5. ASSUME NEW d \in Commands, command'[d] # Idle
          PROVE  /\ command'[d].step \notin {"write", "rename"} =>
                      Triples(command'[d].state) \subseteq given'
                 /\ command'[d].stale
      BY <2>1, <3>1, <3>3, <3>5 DEF IInv, GivenInv
    <3>. QED
      BY <3>3, <3>4, <3>5 DEF GivenInv
  <2>. QED
    BY <2>2, <2>3, <2>4, <2>5 DEF IInv
<1>. QED
  BY <1>4, <1>5 DEF Rename

\* login and logout: the volume that is asked for is one that was given.
LEMMA SessionStep ==
  ASSUME IInv, NEW c \in Commands, Connect(c) \/ Disconnect(c)
  PROVE  IInv'
<1>1. command[c] # Idle /\ command[c].step \in {"connect", "disconnect"}
  BY DEF Connect, Disconnect, Idle
<1>2. Fine(command[c], temp[c])
  BY <1>1, AllFine
<1>3. ASSUME ~overwritten, NEW v \in Volumes(c)
      PROVE  \E x \in Known : x[3] = v.target
  <2>. DEFINE b == Backend(command[c].state, command[c].on)
  <2>1. b \in command[c].state /\ v \in b.volumes
    BY <1>1, <1>2, BackendFound DEF Fine, Volumes
  <2>. HIDE DEF b
  <2>2. <<b.name, v.name, v.target>> \in Triples(command[c].state)
    BY <2>1 DEF Triples
  <2>3. Triples(command[c].state) \subseteq Known
    BY <1>1, <1>2, <1>3 DEF Fine, IInv, GivenInv
  <2>4. <<b.name, v.name, v.target>>[3] = v.target
    OBVIOUS
  <2>. QED
    BY <2>2, <2>3, <2>4
<1>4. \A t \in sessions' : t \in sessions \/ \E v \in Volumes(c) : t = v.target
  BY DEF Connect, Disconnect
<1>. QED
  BY <1>3, <1>4, Ends DEF Connect, Disconnect

\* A command that is killed.
LEMMA KilledStep ==
  ASSUME IInv, NEW c \in Commands, Killed(c)
  PROVE  IInv'
BY Ends DEF Killed

\* The inductive invariant holds at the start.
LEMMA InitInv == Init => IInv
<1>. SUFFICES ASSUME Init PROVE IInv
  OBVIOUS
<1>. USE DEF Init
<1>1. Types /\ FileInv
  BY DEF Types, FileInv
<1>2. StateInv
  BY DEF StateInv
<1>3. GivenInv
  BY DEF GivenInv, Known
<1>. QED
  BY <1>1, <1>2, <1>3 DEF IInv

-----------------------------------------------------------------------------
(* What follows.                                                             *)

\* The inductive invariant.
THEOREM Invariance == Spec => []IInv
<1>1. ASSUME IInv, [Next]_vars PROVE IInv'
  <2>1. CASE Next
    BY <2>1, <1>1, LoadStep, SaveStep, WriteStep, RenameStep, SessionStep, KilledStep DEF Next
  <2>2. CASE UNCHANGED vars
    BY <1>1, <2>2 DEF vars, IInv, Types, FileInv, StateInv, GivenInv, Known
  <2>. QED
    BY <1>1, <2>1, <2>2
<1>. QED
  BY <1>1, InitInv, PTL DEF Spec

\* There is always a whole configuration with unambiguous names, however the
\* commands interleave, wherever they are killed, whatever the backends offer and in
\* whatever order.
THEOREM Wholeness == Spec => []ConfigWhole
<1>1. IInv => ConfigWhole
  <2>. SUFFICES ASSUME IInv PROVE ConfigWhole
    OBVIOUS
  <2>1. file # Partial
    BY Different DEF IInv, FileInv, Sound
  <2>2. file # NoFile => Sound(file)
    BY DEF IInv, FileInv
  <2>3. ASSUME NEW x \in Known, NEW y \in Known, x[1] = y[1]
        PROVE  x[2] = y[2] <=> x[3] = y[3]
    <3>1. file # NoFile
      BY DEF Known
    <3>2. PICK b \in file : \E v \in b.volumes : x = <<b.name, v.name, v.target>>
      BY <3>1 DEF Known, Triples
    <3>3. PICK d \in file : \E w \in d.volumes : y = <<d.name, w.name, w.target>>
      BY <3>1 DEF Known, Triples
    <3>4. b = d
      BY <2>2, <2>3, <3>1, <3>2, <3>3 DEF Sound
    <3>. QED
      BY <2>2, <3>1, <3>2, <3>3, <3>4 DEF Sound, SoundVolumes
  <2>. QED
    BY <2>1, <2>2, <2>3 DEF ConfigWhole, Sound
<1>. QED
  BY <1>1, Invariance, PTL

\* A command that saves, without having overwritten what another saved, forgets no
\* volume and renames none, and no session is left without a volume.
THEOREM Remembrance == Spec => []NothingForgotten
<1>1. IInv => NothingForgotten
  BY DEF IInv, GivenInv, NothingForgotten
<1>. QED
  BY <1>1, Invariance, PTL
=============================================================================
