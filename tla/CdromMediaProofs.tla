-------------------------- MODULE CdromMediaProofs --------------------------
(***************************************************************************)
(* Proofs about CdromMedia, for any number of commands, requests, uploads, *)
(* ISOs and VMs that are defined one after the other.                      *)
(***************************************************************************)
EXTENDS CdromMedia, TLAPS

Definitions == [uuid : Nat, tray : Trays]

WorkSteps == {"none", "edit", "apply", "define", "read", "persist", "live", "undo",
              "active", "inactive", "current", "unlink"}
Works == [op : Ops, step : WorkSteps, to : Trays, old : Definitions \union {NoDef},
          active : BOOLEAN]

UploadSteps == {"none", "receive"} \union Publishing
UploadRecords == [step : UploadSteps, iso : Isos \union {NoFile}, seed : BOOLEAN]

DomainTypes ==
  /\ {inactive, live, image} \subseteq Definitions \union {NoDef}
  /\ state \in States
  /\ autostart \in BOOLEAN
  /\ uuids \in Nat

CallTypes ==
  /\ DOMAIN call = Cli \union Handlers
  /\ \A c \in Cli \union Handlers : "vm" \in DOMAIN call[c] /\ call[c].vm \in 0 .. uuids

MediaTypes ==
  /\ file \in [Isos -> Uploads \union {NoFile}]
  /\ staging \subseteq Uploads
  /\ upload \in [Uploads -> UploadRecords]
  /\ work \in [Handlers -> Works]
  /\ server \in {"up", "down"}
  /\ drift \in {"none", "restored", "changed"}
  /\ orphaned \in BOOLEAN

\* The definitions of the VM are of one VM, the guest's state fits to whether it has
\* one, and there is no saved state while it runs.
DomainInv ==
  /\ state = "shutoff" <=> ~Active
  /\ autostart => Defined
  /\ image # NoDef => Defined /\ ~Active
  /\ \A d \in {inactive, live, image} \ {NoDef} : d.uuid = Uuid /\ d.uuid <= uuids

Deleting == {"active", "inactive", "current", "unlink"}

\* What a request may remember, depending on where it is.
Remembers(w) ==
  /\ w.step = "none" => w = NoWork
  /\ w.step \in Deleting <=> w.op = "delete"
  /\ w.op = "delete" => w.to \in Isos
  /\ w.step \in {"define", "persist", "live", "undo"} => w.old \in Definitions

WorkInv == \A h \in Handlers : Remembers(work[h])

Busy(h) == ~Idle(h) \/ work[h] # NoWork
InPublication(u) == upload[u].step \in Publishing

\* Who holds the resource lock holds it alone.
LockInv ==
  /\ \A h \in Handlers : Idle(h) \/ work[h] = NoWork
  /\ \A h, k \in Handlers : Busy(h) /\ Busy(k) => h = k
  /\ \A u, v \in Uploads : InPublication(u) /\ InPublication(v) => u = v
  /\ \A h \in Handlers, u \in Uploads : ~(Busy(h) /\ InPublication(u))

Used(i) == HasIso(inactive, i) \/ HasIso(live, i) \/ HasIso(image, i)

\* An upload that is being published has its ISO from the link to the end.
UploadInv ==
  \A u \in Uploads :
    /\ upload[u].step # "none" => upload[u].iso \in Isos
    /\ upload[u].step = "link" => ~Published(upload[u].iso)
    /\ upload[u].step \in {"sync", "unstage", "finish"} => file[upload[u].iso] = u

\* What is in use, or is going to be, is there; what may be taken back is not in use.
UseInv ==
  ~orphaned =>
    /\ \A i \in Isos : Used(i) => Published(i)
    /\ \A h \in Handlers : work[h].op # "delete" =>
         \A i \in Isos : work[h].to = i \/ HasIso(work[h].old, i) => Published(i)
    /\ \A u \in Uploads : upload[u].step \in {"sync", "unstage"} => ~Used(upload[u].iso)

\* What a deletion has found out, and what the commands that go on meanwhile leave
\* of it.
DeleteInv ==
  \A h \in Handlers :
    LET i == work[h].to
        Restored == HasIso(live, i) => drift = "restored"
    IN  /\ work[h].step = "inactive" /\ ~work[h].active => HasIso(InactiveXml, i) \/ Restored
        /\ work[h].step \in {"current", "unlink"} => ~HasIso(inactive, i)
        /\ work[h].step = "unlink" => Restored

Same == Active /\ drift = "none"

\* The guest has what the definition says, or, while a request changes one after the
\* other, what the definition said before.
TrayInv ==
  /\ Same /\ Defined /\ ~At("live") /\ ~At("undo") => live.tray = inactive.tray
  /\ \A h \in Handlers :
       /\ work[h].step \in {"persist", "live", "undo"} /\ Same => live.tray = work[h].old.tray
       /\ work[h].step = "live" /\ Defined => inactive.tray = work[h].to

StagingInv == Up => \A u \in staging : upload[u].step # "none"

IInv ==
  /\ DomainTypes /\ CallTypes /\ MediaTypes
  /\ DomainInv /\ WorkInv /\ LockInv /\ UploadInv
  /\ UseInv /\ DeleteInv /\ TrayInv /\ StagingInv

-----------------------------------------------------------------------------
(* The steps, grouped by what they do to the definitions.                    *)

\* What commands, guests and the host do to the VM.
Boots ==
  /\ Defined /\ ~Active /\ Active'
  /\ live' = IF image # NoDef THEN image ELSE inactive
  /\ image' = NoDef
  /\ UNCHANGED <<inactive, uuids>>

GoesDown ==
  /\ ~Active'
  /\ image' \in {image, live}
  /\ image' # image => Defined /\ Active
  /\ UNCHANGED <<inactive, uuids>>

IsUndefined ==
  /\ image = NoDef /\ inactive' = NoDef
  /\ UNCHANGED <<live, image, uuids>>

StaysItself ==
  /\ image' \in {image, NoDef}
  /\ UNCHANGED <<inactive, live, uuids>>

Moves == Boots \/ GoesDown \/ IsUndefined \/ StaysItself


\* The calls of libvirt.
LEMMA Performed ==
  ASSUME DomainTypes, DomainInv, NEW what, Perform(what)
  PROVE  Moves /\ DomainTypes' /\ DomainInv'
<1>. USE DEF DomainTypes, DomainInv, Active, Defined, Exists, Uuid, Definitions, States,
             Moves, Boots, GoesDown, IsUndefined, StaysItself
<1>1. ASSUME Create PROVE Moves /\ DomainTypes' /\ DomainInv'
  BY <1>1 DEF Create, Boot
<1>2. ASSUME Destroy \/ Save PROVE Moves /\ DomainTypes' /\ DomainInv'
  BY <1>2 DEF Destroy, Save, GoesOff
<1>3. ASSUME Ask \/ Suspend \/ Resume \/ RemoveSaved PROVE Moves /\ DomainTypes' /\ DomainInv'
  BY <1>3 DEF Ask, Suspend, Resume, RemoveSaved, domain
<1>4. ASSUME Undefine PROVE Moves /\ DomainTypes' /\ DomainInv'
  BY <1>4 DEF Undefine
<1>. QED
  BY <1>1, <1>2, <1>3, <1>4 DEF Perform

\* A definition that libvirt accepts is one of the VM there is, or of a new one.
LEMMA Redefined ==
  ASSUME DomainTypes, DomainInv, NEW d \in Definitions, DefineXml(d)
  PROVE  /\ DomainTypes' /\ DomainInv'
         /\ inactive' = d /\ uuids <= uuids' /\ UNCHANGED <<live, image>>
BY CdromMediaAssumption DEF DefineXml, DomainTypes, DomainInv, Active, Defined, Exists, Uuid,
   Definitions, States, Trays

\* The host starts again, with the VM or without.
LEMMA Rebooted ==
  ASSUME DomainTypes, DomainInv, HostReboots
  PROVE  /\ DomainTypes' /\ DomainInv'
         /\ UNCHANGED <<inactive, uuids>>
         /\ \/ ~Active' /\ image' = image
            \/ /\ Defined /\ Active' /\ image' = NoDef
               /\ live' = IF image # NoDef THEN image ELSE inactive
BY DEF HostReboots, Boot, GoesOff, DomainTypes, DomainInv, Active, Defined, Exists, Uuid,
   Definitions, States

\* A call that begins, goes on or ends, of a command or a request that has the lock.
LEMMA CallChanges ==
  ASSUME DomainTypes, CallTypes, DomainInv, NEW c \in Cli \union Handlers,
         \/ \E plans : Begin(c, plans)
         \/ ~Idle(c) /\ UNCHANGED uuids /\ (Advance(c) \/ End(c))
  PROVE  /\ CallTypes' /\ UNCHANGED uuids
         /\ \A k \in (Cli \union Handlers) \ {c} : call'[k] = call[k]
<1>1. 0 \in 0 .. uuids
  BY DEF DomainTypes
<1>2. CASE \E plans : Begin(c, plans)
  <2>1. Uuid \in 0 .. uuids /\ Exists
    BY <1>2 DEF Begin, Exists, Defined, Active, Uuid, DomainInv, DomainTypes, Definitions
  <2>2. PICK plan : call' = [call EXCEPT ![c] = [vm |-> Uuid, plan |-> plan]]
    BY <1>2 DEF Begin
  <2>. QED
    BY <1>2, <2>1, <2>2 DEF Begin, CallTypes, domain
<1>3. CASE ~Idle(c) /\ UNCHANGED uuids /\ (Advance(c) \/ End(c))
  BY <1>1, <1>3 DEF Advance, End, CallTypes, NoCall
<1>. QED
  BY <1>2, <1>3

\* One step of a command, of a request, of the guest or of the host.
LEMMA OneStep ==
  ASSUME DomainTypes, CallTypes, DomainInv, NEW c \in Cli \union Handlers,
         Step(c) \/ WaitTimesOut(c)
  PROVE  /\ Moves /\ DomainTypes' /\ DomainInv' /\ CallTypes' /\ ~Idle(c)
         /\ \A k \in (Cli \union Handlers) \ {c} : call'[k] = call[k]
<1>1. Moves /\ UNCHANGED uuids /\ DomainTypes' /\ DomainInv'
  <2>1. CASE UNCHANGED domain
    BY <2>1 DEF domain, Moves, StaysItself, DomainTypes, DomainInv, Active, Defined, Uuid
  <2>2. CASE \E what : Perform(what)
    BY <2>2, Performed DEF Moves, Boots, GoesDown, IsUndefined, StaysItself
  <2>. QED
    BY <2>1, <2>2 DEF Step, LibvirtCall, Waited, WaitTimesOut
<1>2. ~Idle(c) /\ (Advance(c) \/ End(c))
  BY DEF Step, LibvirtCall, Waited, WaitTimesOut
<1>. QED
  BY <1>1, <1>2, CallChanges

\* Who did not have the lock does not get it unless it is free.
Queues(c) ==
  \A h \in Handlers : ~Idle(h)' => ~Idle(h) \/ (LockFree /\ h = c)

\* A step of a lifecycle command, of a guest or of the host keeps the types and the
\* facts about the domain, turns each request only as Moves says, and at most one
\* command comes to the lock.
LEMMA LifecycleStep ==
  ASSUME DomainTypes, CallTypes, DomainInv, Lifecycle
  PROVE  /\ Moves /\ DomainTypes' /\ DomainInv' /\ CallTypes'
         /\ \E c : Queues(c)
<1>1. ASSUME NEW c \in Cli, Command(c)
      PROVE  Moves /\ DomainTypes' /\ DomainInv' /\ CallTypes' /\ Queues(c)
  <2>1. UNCHANGED domain /\ CallTypes'
    BY <1>1, CallChanges DEF Command, Begin
  <2>2. \A k \in (Cli \union Handlers) \ {c} : call'[k] = call[k]
    BY <1>1, CallChanges DEF Command
  <2>. QED
    BY <2>1, <2>2, VmLifecycleAssumption DEF domain, Moves, StaysItself, DomainTypes, DomainInv, Active, Defined, Uuid,
       Queues, Idle
<1>2. ASSUME NEW h \in Handlers, LockFree, Request(h)
      PROVE  Moves /\ DomainTypes' /\ DomainInv' /\ CallTypes' /\ Queues(h)
  <2>1. UNCHANGED domain /\ CallTypes'
    BY <1>2, CallChanges DEF Request, Begin
  <2>2. \A k \in (Cli \union Handlers) \ {h} : call'[k] = call[k]
    BY <1>2, CallChanges DEF Request
  <2>. QED
    BY <1>2, <2>1, <2>2 DEF domain, Moves, StaysItself, DomainTypes, DomainInv, Active, Defined, Uuid,
       Queues, Idle
<1>3. ASSUME NEW c \in Cli \union Handlers, Step(c) \/ WaitTimesOut(c)
      PROVE  Moves /\ DomainTypes' /\ DomainInv' /\ CallTypes' /\ Queues(c)
  BY <1>3, OneStep DEF Queues, Idle
<1>4. ASSUME Autostart \/ Environment
      PROVE  Moves /\ DomainTypes' /\ DomainInv' /\ CallTypes' /\ Queues(0)
  <2>2. CASE GuestPowersOff
    BY <2>2 DEF GuestPowersOff, GoesOff, DomainTypes, DomainInv, Active, Defined, Uuid, States,
       Moves, GoesDown, CallTypes, Queues, Idle
  <2>3. CASE GuestSleeps \/ GuestWakes
    BY <2>3 DEF GuestSleeps, GuestWakes, DomainTypes, DomainInv, Active, Defined,
       Uuid, States, Moves, StaysItself, CallTypes, Queues, Idle
  <2>4. CASE Autostart
    <3>1. autostart' \in BOOLEAN /\ Defined /\ UNCHANGED <<inactive, live, image, state, uuids, call>>
      BY <2>4 DEF Autostart
    <3>. QED
      BY <3>1 DEF DomainTypes, DomainInv, Active, Defined,
         Uuid, States, Moves, StaysItself, CallTypes, Queues, Idle
  <2>. QED
    BY <1>4, <2>2, <2>3, <2>4 DEF Environment
<1>. QED
  BY <1>1, <1>2, <1>3, <1>4 DEF Lifecycle

-----------------------------------------------------------------------------
(* The requests.                                                             *)

\* What a request turns into.
LEMMA Replaced ==
  ASSUME work \in [Handlers -> Works], NEW h \in Handlers, NEW w \in Works, Work(h, w)
  PROVE  /\ work' \in [Handlers -> Works]
         /\ work'[h] = w
         /\ \A k \in Handlers \ {h} : work'[k] = work[k]
BY DEF Work

\* A request that is at rest.
LEMMA AtRest == NoWork \in Works
BY DEF NoWork, Works, Ops, WorkSteps, Trays

\* What a request begins with.
Begins(w) ==
  /\ w \in Works /\ Remembers(w)
  /\ w.step \in {"edit", "read", "apply", "define", "active"}
  /\ w.op # "delete" => w.to \in Insertable \union {NoTray}
  /\ \A i \in Isos : ~HasIso(w.old, i)

\* A request begins when it gets the lock.
LEMMA Starts ==
  ASSUME IInv, NEW h \in Handlers,
         \/ SetMedia(h) \/ AddTray(h) \/ RemoveTray(h) \/ Update(h) \/ CreateVm(h)
         \/ DeleteIso(h)
  PROVE  \E w : Begins(w) /\ Start(h, w)
<1>. USE AtRest, CdromMediaAssumption DEF Begins, Remembers, Deleting, Works, Ops, WorkSteps, HasIso
<1>1. CASE SetMedia(h)
  <2>1. PICK to \in Insertable :
          \/ Start(h, [NoWork EXCEPT !.op = "set", !.step = "edit", !.to = to])
          \/ Start(h, [NoWork EXCEPT !.op = "set", !.step = "read", !.to = to])
    BY <1>1 DEF SetMedia
  <2>. QED
    BY <2>1 DEF Insertable, NoWork, Trays
<1>2. CASE AddTray(h) \/ RemoveTray(h) \/ Update(h)
  <2>1. PICK to \in Insertable \union {NoTray}, op \in {"add", "remove", "update"}, step \in {"edit", "apply"} :
          Start(h, [NoWork EXCEPT !.op = op, !.step = step, !.to = to])
    BY <1>2 DEF AddTray, RemoveTray, Update
  <2>. QED
    BY <2>1 DEF Insertable, NoWork, Trays
<1>3. CASE CreateVm(h)
  <2>1. PICK to \in Insertable \union {NoTray} :
          Start(h, [NoWork EXCEPT !.op = "define", !.step = "define", !.to = to,
                                  !.old = [uuid |-> uuids + 1, tray |-> NoTray]])
    BY <1>3 DEF CreateVm
  <2>2. [uuid |-> uuids + 1, tray |-> NoTray] \in Definitions
    BY DEF IInv, DomainTypes, Definitions, Trays
  <2>. QED
    BY <2>1, <2>2 DEF Insertable, NoWork, Trays
<1>4. CASE DeleteIso(h)
  <2>1. PICK i \in Isos : Start(h, [NoWork EXCEPT !.op = "delete", !.step = "active", !.to = i])
    BY <1>4 DEF DeleteIso
  <2>. QED
    BY <2>1 DEF NoWork, Trays
<1>. QED
  BY <1>1, <1>2, <1>3, <1>4

\* A request goes on with what it remembers, or ends.
GoesOn(h, w) ==
  /\ w \in Works /\ Remembers(w) /\ Work(h, w)
  /\ w = NoWork \/ (w.op = work[h].op /\ w.to = work[h].to)

\* A request that goes on to another step keeps what it remembers.
LEMMA Went ==
  ASSUME IInv, NEW h \in Handlers, NEW step \in WorkSteps \ {"none"},
         step \in Deleting <=> work[h].op = "delete",
         step \in {"define", "persist", "live", "undo"} => work[h].old \in Definitions,
         Go(h, step)
  PROVE  GoesOn(h, [work[h] EXCEPT !.step = step])
<1>1. work[h] \in Works
  BY DEF IInv, MediaTypes
<1>. QED
  BY <1>1 DEF IInv, WorkInv, Go, Work, GoesOn, Remembers, Works

\* A request that ends remembers nothing.
LEMMA Ended ==
  ASSUME NEW h \in Handlers, Finished(h)
  PROVE  GoesOn(h, NoWork)
BY AtRest, CdromMediaAssumption DEF Finished, Work, GoesOn, Remembers, Deleting, NoWork

\* Whoever holds the lock.
LEMMA Alone ==
  ASSUME IInv, NEW h \in Handlers, work[h].step # "none"
  PROVE  /\ ~LockFree
         /\ \A k \in Handlers : Idle(k)
         /\ \A k \in Handlers \ {h} : work[k] = NoWork
         /\ \A u \in Uploads : ~InPublication(u)
         /\ \A step : step # "none" => (At(step) <=> work[h].step = step)
<1>1. Busy(h) /\ work[h] # NoWork
  BY DEF Busy, NoWork
<1>2. \A k \in Handlers \ {h} : Idle(k) /\ work[k] = NoWork
  BY <1>1 DEF IInv, LockInv, Busy
<1>3. \A step : step # "none" => (At(step) <=> work[h].step = step)
  BY <1>2 DEF At, NoWork
<1>. QED
  BY <1>1, <1>2, <1>3 DEF IInv, LockInv, LockFree

\* A publication holds the installation lock alone.
LEMMA LockHeld ==
  ASSUME IInv, NEW u \in Uploads, InPublication(u)
  PROVE  /\ ~LockFree
         /\ \A k \in Handlers : Idle(k) /\ work[k] = NoWork
         /\ \A v \in Uploads \ {u} : ~InPublication(v)
BY DEF IInv, LockInv, LockFree, Busy, InPublication

\* The steps of a request that holds the lock.
LEMMA MediaGoesOn ==
  ASSUME IInv, NEW h \in Handlers, Media(h)
  PROVE  work[h].step # "none" /\ \E w : GoesOn(h, w)
<1>. USE DEF Deleting, WorkSteps
<1>. /\ work[h] \in Works
     /\ Remembers(work[h])
  BY DEF IInv, MediaTypes, WorkInv, Remembers
<1>1. CASE Edit(h)
  BY <1>1, Went, Ended DEF Edit, Remembers
<1>2. CASE ApplyReads(h)
  <2>1. /\ Exists => InactiveXml \in Definitions
        /\ [uuid |-> uuids + 1, tray |-> NoTray] \in Definitions
    BY DEF Exists, InactiveXml, Defined, Active, IInv, DomainTypes, Definitions, Trays
  <2>2. ASSUME NEW d \in Definitions, Work(h, [work[h] EXCEPT !.step = "define", !.old = d])
        PROVE  \E w : GoesOn(h, w)
    <3>1. GoesOn(h, [work[h] EXCEPT !.step = "define", !.old = d])
      BY <1>2, <2>2 DEF ApplyReads, GoesOn, Remembers, Works
    <3>. QED
      BY <3>1
  <2>. QED
    BY <1>2, <2>1, <2>2, Ended DEF ApplyReads
<1>3. CASE Define(h) \/ Undo(h) \/ Unlink(h)
  BY <1>3, Ended DEF Define, Undo, Unlink
<1>4. CASE ReadBoth(h)
  <2>1. Exists => InactiveXml \in Definitions
    BY DEF Exists, InactiveXml, Defined, Active, IInv, DomainTypes
  <2>2. ASSUME Exists, Work(h, [work[h] EXCEPT !.step = "persist", !.old = InactiveXml])
        PROVE  \E w : GoesOn(h, w)
    <3>1. GoesOn(h, [work[h] EXCEPT !.step = "persist", !.old = InactiveXml])
      BY <1>4, <2>1, <2>2 DEF ReadBoth, GoesOn, Remembers, Works
    <3>. QED
      BY <3>1
  <2>. QED
    BY <1>4, <2>2, Ended DEF ReadBoth
<1>5. CASE Persist(h)
  BY <1>5, Went, Ended DEF Persist, Remembers
<1>6. CASE ChangeLive(h)
  BY <1>6, Went, Ended DEF ChangeLive, Remembers
<1>7. CASE FindActive(h)
  <2>1. ASSUME Work(h, [work[h] EXCEPT !.step = "inactive", !.active = Active])
        PROVE  \E w : GoesOn(h, w)
    <3>1. Active \in BOOLEAN
      BY DEF Active
    <3>2. GoesOn(h, [work[h] EXCEPT !.step = "inactive", !.active = Active])
      <4>. HIDE DEF Active
      <4>. QED
        BY <1>7, <2>1, <3>1 DEF FindActive, GoesOn, Remembers, Works
    <3>. QED
      BY <3>2
  <2>. QED
    BY <1>7, <2>1, Went DEF FindActive, Remembers
<1>8. CASE FindPersistent(h)
  BY <1>8, Went, Ended DEF FindPersistent, Remembers
<1>9. CASE FindLive(h)
  BY <1>9, Went, Ended DEF FindLive, Remembers
<1>. QED
  BY <1>1, <1>2, <1>3, <1>4, <1>5, <1>6, <1>7, <1>8, <1>9
     DEF Media, Edit, ApplyReads, Define, ReadBoth, Persist, ChangeLive, Undo, FindActive,
         FindPersistent, FindLive, Unlink

-----------------------------------------------------------------------------
(* The uploads.                                                              *)

\* What the steps of an upload leave alone.
UploadActs(u) == Receive(u) \/ BuildSeed(u) \/ UploadStep(u) \/ ClientLeaves(u)

\* An upload that is not there is a record of its type.
LEMMA NoUploadIsRecord == NoUpload \in UploadRecords
BY DEF NoUpload, UploadRecords, UploadSteps

\* What an upload turns into.
Turns(u, r) ==
  /\ r \in UploadRecords /\ upload' = [upload EXCEPT ![u] = r]
  /\ r.step \in Publishing => InPublication(u) \/ LockFree
  /\ r.step # "none" => r.iso \in Isos

\* Every step of an upload, its client's departure included, changes that upload alone.
LEMMA UploadTurns ==
  ASSUME IInv, NEW u \in Uploads, UploadActs(u)
  PROVE  UNCHANGED Outside /\ \E r : Turns(u, r)
<1>. USE DEF Turns, InPublication
<1>1. /\ upload \in [Uploads -> UploadRecords]
      /\ upload[u].step # "none" => upload[u].iso \in Isos
  BY DEF IInv, MediaTypes, UploadInv
<1>2. upload[u] \in UploadRecords
  BY <1>1
<1>3. Gone(u) => \E r : Turns(u, r)
  <2>1. Gone(u) => Turns(u, NoUpload)
    BY NoUploadIsRecord DEF Gone, NoUpload, Publishing
  <2>. QED
    BY <2>1
<1>4. ASSUME NEW s \in UploadSteps, To(u, s), upload[u].step # "none",
             s \in Publishing => InPublication(u) \/ LockFree
      PROVE  \E r : Turns(u, r)
  <2>1. PICK r : r = [upload[u] EXCEPT !.step = s]
    OBVIOUS
  <2>2. r \in UploadRecords /\ r.step = s /\ r.iso = upload[u].iso
    BY <1>2, <2>1 DEF UploadRecords
  <2>3. upload' = [upload EXCEPT ![u] = r]
    BY <1>1, <1>4, <2>1 DEF To
  <2>. QED
    BY <1>1, <1>4, <2>2, <2>3
<1>5. CASE Receive(u) \/ BuildSeed(u)
  <2>1. PICK i \in Isos, seed \in BOOLEAN :
          upload' = [upload EXCEPT ![u] = [step |-> "receive", iso |-> i, seed |-> seed]]
    BY <1>5 DEF Receive, BuildSeed, Admit
  <2>2. PICK r : r = [step |-> "receive", iso |-> i, seed |-> seed]
    OBVIOUS
  <2>3. Turns(u, r)
    BY <2>1, <2>2 DEF UploadRecords, UploadSteps, Publishing
  <2>4. UNCHANGED Outside
    BY <1>5 DEF Receive, BuildSeed, Admit
  <2>. QED
    BY <2>3, <2>4
<1>6. CASE Reject(u) \/ BuilderFails(u) \/ ClientLeaves(u)
  <2>1. (UNCHANGED upload \/ Gone(u)) /\ UNCHANGED Outside
    BY <1>6 DEF Reject, BuilderFails, ClientLeaves, Discard
  <2>2. UNCHANGED upload => Turns(u, upload[u])
    BY <1>1, <1>2
  <2>. QED
    BY <1>3, <2>1, <2>2
<1>7. CASE Publish(u)
  BY <1>3, <1>4, <1>7 DEF Publish, EndUpload, UploadSteps, Publishing
<1>8. CASE Link(u) \/ SyncLink(u)
  BY <1>3, <1>4, <1>8 DEF Link, SyncLink, Retract, EndUpload, UploadSteps, Publishing
<1>9. CASE Unstage(u) \/ Finish(u)
  BY <1>3, <1>4, <1>9 DEF Unstage, Finish, Retract, EndUpload, UploadSteps, Publishing
<1>. QED
  BY <1>5, <1>6, <1>7, <1>8, <1>9 DEF UploadStep, UploadActs

\* An upload touches no other.
LEMMA UploadTouches ==
  ASSUME IInv, NEW u \in Uploads, UploadActs(u)
  PROVE  /\ UNCHANGED Outside
         /\ upload' \in [Uploads -> UploadRecords]
         /\ \A v \in Uploads \ {u} : upload'[v] = upload[v]
         /\ InPublication(u)' => InPublication(u) \/ LockFree
         /\ upload'[u].step # "none" => upload'[u].iso \in Isos
<1>1. PICK r : Turns(u, r)
  BY UploadTurns
<1>2. upload'[u] = r
  BY <1>1 DEF Turns, IInv, MediaTypes
<1>. QED
  BY <1>1, <1>2, UploadTurns DEF Turns, InPublication, IInv, MediaTypes

-----------------------------------------------------------------------------
(* Every step keeps the invariant.                                           *)

\* Who takes a step.
LEMMA NextSteps ==
  ASSUME IInv, [Next]_vars
  PROVE  \/ Lifecycle /\ UNCHANGED media
         \/ \E h \in Handlers : (\E w : Begins(w) /\ Start(h, w)) \/ Media(h)
         \/ \E u \in Uploads : UploadActs(u)
         \/ Crash \/ Reboot \/ StartServer
         \/ UNCHANGED vars
BY Starts DEF Next, Actions, UploadActs

\* What a request that holds the lock does to the definitions.
LEMMA MediaOnDomain ==
  ASSUME IInv, NEW h \in Handlers, Media(h)
  PROVE  /\ DomainTypes' /\ DomainInv' /\ UNCHANGED <<call, image>> /\ uuids <= uuids'
         /\ UNCHANGED <<inactive, live>> \/ work[h].step \in {"define", "persist", "live", "undo"}
<1>. DomainTypes /\ DomainInv
  BY DEF IInv
<1>1. ASSUME UNCHANGED <<domain, call>>
      PROVE  /\ DomainTypes' /\ DomainInv' /\ UNCHANGED <<call, image>> /\ uuids <= uuids'
             /\ UNCHANGED <<inactive, live>>
  BY <1>1 DEF domain, DomainTypes, DomainInv, Active, Defined, Uuid
<1>2. ASSUME NEW d \in Definitions, DefineXml(d), UNCHANGED call
      PROVE  DomainTypes' /\ DomainInv' /\ UNCHANGED <<call, image>> /\ uuids <= uuids'
  BY <1>2, Redefined
<1>3. work[h].step \in {"define", "persist", "undo"} =>
        work[h].old \in Definitions /\ WithTray(work[h].old, work[h].to) \in Definitions
  BY DEF IInv, WorkInv, Remembers, MediaTypes, Works, WithTray, Definitions
<1>4. CASE Define(h) \/ Persist(h) \/ Undo(h)
  BY <1>1, <1>2, <1>3, <1>4 DEF Define, Persist, Undo
<1>5. CASE ChangeLive(h)
  <2>1. CASE UNCHANGED domain
    BY <1>1, <1>5, <2>1 DEF ChangeLive
  <2>2. CASE ~UNCHANGED domain
    <3>1. /\ Active /\ live' = WithTray(live, work[h].to)
          /\ UNCHANGED <<inactive, image, state, autostart, uuids, call>>
      BY <1>5, <2>2 DEF ChangeLive
    <3>2. live' \in Definitions /\ live'.uuid = live.uuid
      BY <3>1 DEF DomainTypes, Active, WithTray, Definitions, IInv, MediaTypes, Works
    <3>. QED
      BY <1>5, <3>1, <3>2, CdromMediaAssumption
         DEF DomainTypes, DomainInv, Active, Defined, Uuid, Definitions, Trays, ChangeLive
  <2>. QED
    BY <2>1, <2>2
<1>6. CASE \/ Edit(h) \/ ApplyReads(h) \/ ReadBoth(h) \/ FindActive(h) \/ FindPersistent(h)
           \/ FindLive(h) \/ Unlink(h)
  BY <1>1, <1>6 DEF Edit, ApplyReads, ReadBoth, FindActive, FindPersistent, FindLive, Unlink
<1>. QED
  BY <1>4, <1>5, <1>6 DEF Media, Define, Persist, Undo, ChangeLive

\* The VM.
LEMMA DomainStep ==
  ASSUME IInv, [Next]_vars
  PROVE  DomainTypes' /\ DomainInv' /\ CallTypes'
<1>. DomainTypes /\ DomainInv /\ CallTypes
  BY DEF IInv
<1>1. ASSUME UNCHANGED domain PROVE DomainTypes' /\ DomainInv' /\ UNCHANGED uuids
  BY <1>1 DEF domain, DomainTypes, DomainInv, Active, Defined, Uuid
<1>2. ASSUME UNCHANGED <<domain, call>> PROVE DomainTypes' /\ DomainInv' /\ CallTypes'
  BY <1>1, <1>2 DEF CallTypes
<1>3. ASSUME NEW h \in Handlers, Media(h) PROVE DomainTypes' /\ DomainInv' /\ CallTypes'
  BY <1>3, MediaOnDomain DEF CallTypes, DomainTypes
<1>4. ASSUME Crash PROVE DomainTypes' /\ DomainInv' /\ CallTypes'
  BY <1>1, <1>4 DEF Crash, CallTypes, NoCall, DomainTypes
<1>5. ASSUME Reboot PROVE DomainTypes' /\ DomainInv' /\ CallTypes'
  BY <1>5, Rebooted DEF Reboot, HostReboots, CallTypes, NoCall, DomainTypes
<1>6. ASSUME NEW u \in Uploads, UploadActs(u) PROVE DomainTypes' /\ DomainInv' /\ CallTypes'
  BY <1>2, <1>6, UploadTouches DEF Outside
<1>. QED
  BY <1>2, <1>3, <1>4, <1>5, <1>6, NextSteps, LifecycleStep DEF Start, StartServer, vars

\* The types of the rest.
LEMMA MediaTypesStep ==
  ASSUME IInv, [Next]_vars
  PROVE  MediaTypes'
<1>. MediaTypes
  BY DEF IInv
<1>1. drift' \in {"none", "restored", "changed"}
  <2>1. CASE UNCHANGED vars
    BY <2>1 DEF vars, MediaTypes
  <2>2. CASE NoteDrift
    BY <2>2 DEF NoteDrift, MediaTypes
  <2>. QED
    BY <2>1, <2>2 DEF Next
<1>2. ASSUME Lifecycle, UNCHANGED media PROVE MediaTypes'
  BY <1>1, <1>2 DEF media, MediaTypes
<1>3. ASSUME NEW h \in Handlers, NEW w, Begins(w), Start(h, w) PROVE MediaTypes'
  BY <1>1, <1>3, Replaced DEF Begins, Start, Files, MediaTypes
<1>4. ASSUME NEW h \in Handlers, Media(h) PROVE MediaTypes'
  <2>1. work' \in [Handlers -> Works]
    BY <1>4, MediaGoesOn, Replaced DEF GoesOn, MediaTypes
  <2>2. CASE Unlink(h)
    <3>1. orphaned' \in BOOLEAN
      BY <2>2 DEF Unlink, MediaTypes
    <3>. QED
      BY <1>1, <2>1, <2>2, <3>1 DEF Unlink, MediaTypes
  <2>3. CASE UNCHANGED Files
    BY <1>1, <2>1, <2>3 DEF Files, MediaTypes
  <2>. QED
    BY <1>4, <2>2, <2>3 DEF Media, Edit, ApplyReads, Define, ReadBoth, Persist, ChangeLive, Undo,
       FindActive, FindPersistent, FindLive
<1>5. ASSUME NEW u \in Uploads, UploadActs(u) PROVE MediaTypes'
  <2>1. file' \in [Isos -> Uploads \union {NoFile}]
    BY <1>5 DEF UploadActs, UploadStep, Receive, BuildSeed, Admit, Reject, BuilderFails, Discard,
       ClientLeaves, Publish, Link, SyncLink, Unstage, Retract, Finish, MediaTypes
  <2>2. staging' \subseteq Uploads
    BY <1>5 DEF UploadActs, UploadStep, Receive, BuildSeed, Admit, Reject, BuilderFails, Discard,
       ClientLeaves, Publish, Link, SyncLink, Unstage, Retract, Finish, EndUpload, MediaTypes
  <2>. QED
    BY <1>1, <1>5, <2>1, <2>2, UploadTouches DEF Outside, MediaTypes
<1>6. ASSUME Crash \/ Reboot PROVE MediaTypes'
  BY <1>1, <1>6, AtRest, NoUploadIsRecord DEF Crash, Reboot, Forget, MediaTypes
<1>7. ASSUME StartServer PROVE MediaTypes'
  BY <1>1, <1>7 DEF StartServer, MediaTypes
<1>8. ASSUME UNCHANGED vars PROVE MediaTypes'
  BY <1>8 DEF vars, media, MediaTypes
<1>. QED
  BY <1>2, <1>3, <1>4, <1>5, <1>6, <1>7, <1>8, NextSteps

\* What the requests remember.
LEMMA WorkStep ==
  ASSUME IInv, [Next]_vars
  PROVE  WorkInv'
<1>. WorkInv /\ work \in [Handlers -> Works]
  BY DEF IInv, MediaTypes
<1>1. UNCHANGED work => WorkInv'
  BY DEF WorkInv, Remembers
<1>2. ASSUME NEW h \in Handlers, NEW w \in Works, Remembers(w), Work(h, w)
      PROVE  WorkInv'
  BY <1>2, Replaced DEF WorkInv, Remembers
<1>3. ASSUME NEW h \in Handlers, Media(h) PROVE WorkInv'
  BY <1>2, <1>3, MediaGoesOn DEF GoesOn
<1>4. ASSUME NEW h \in Handlers, NEW w, Begins(w), Start(h, w) PROVE WorkInv'
  BY <1>2, <1>4 DEF Begins, Start
<1>5. ASSUME NEW u \in Uploads, UploadActs(u) PROVE WorkInv'
  BY <1>1, <1>5, UploadTouches DEF Outside
<1>6. ASSUME Crash \/ Reboot PROVE WorkInv'
  <2>1. \A h \in Handlers : work'[h] = NoWork
    BY <1>6 DEF Crash, Reboot, Forget
  <2>2. NoWork.step = "none" /\ NoWork.op = "none"
    BY DEF NoWork
  <2>. QED
    BY <2>1, <2>2 DEF WorkInv, Remembers, Deleting
<1>. QED
  BY <1>1, <1>3, <1>4, <1>5, <1>6, NextSteps DEF media, StartServer, vars

\* The lock has one holder.
LEMMA LockStep ==
  ASSUME IInv, [Next]_vars
  PROVE  LockInv'
<1>. LockInv /\ work \in [Handlers -> Works]
  BY DEF IInv, MediaTypes
<1>1. UNCHANGED <<call, work, upload>> => LockInv'
  BY DEF LockInv, Busy, Idle, InPublication
<1>2. ASSUME Lifecycle, UNCHANGED media PROVE LockInv'
  <2>1. PICK c : Queues(c)
    BY <1>2, LifecycleStep DEF IInv
  <2>2. UNCHANGED <<work, upload>>
    BY <1>2 DEF media
  <2>3. \A h \in Handlers : Busy(h)' => Busy(h) \/ (LockFree /\ h = c)
    BY <2>1, <2>2 DEF Busy, Queues
  <2>4. CASE LockFree
    <3>1. /\ \A h \in Handlers : work'[h] = NoWork /\ ~Busy(h)
          /\ \A u \in Uploads : ~InPublication(u)'
      BY <2>2, <2>4 DEF LockFree, Busy, InPublication
    <3>. QED
      BY <2>3, <3>1 DEF LockInv
  <2>5. CASE ~LockFree
    <3>1. \A h \in Handlers : ~Idle(h)' => ~Idle(h)
      BY <2>1, <2>5 DEF Queues
    <3>2. \A u \in Uploads : InPublication(u)' <=> InPublication(u)
      BY <2>2 DEF InPublication
    <3>. QED
      BY <2>2, <2>3, <2>5, <3>1, <3>2 DEF LockInv
  <2>. QED
    BY <2>4, <2>5
<1>3. ASSUME NEW h \in Handlers, NEW w \in Works, Work(h, w), UNCHANGED <<call, upload>>,
             \A k \in Handlers : Idle(k), \A k \in Handlers \ {h} : work[k] = NoWork,
             \A u \in Uploads : ~InPublication(u)
      PROVE  LockInv'
  <2>1. /\ \A k \in Handlers : Idle(k)'
        /\ \A k \in Handlers \ {h} : ~Busy(k)'
        /\ \A u \in Uploads : ~InPublication(u)'
    BY <1>3, Replaced DEF Busy, Idle, InPublication
  <2>. QED
    BY <2>1 DEF LockInv
<1>4. ASSUME NEW h \in Handlers, NEW w, Begins(w), Start(h, w) PROVE LockInv'
  <2>1. /\ w \in Works /\ Work(h, w) /\ UNCHANGED <<call, upload>>
        /\ \A k \in Handlers : Idle(k) /\ work[k] = NoWork
        /\ \A u \in Uploads : ~InPublication(u)
    BY <1>4 DEF Begins, Start, Files, LockFree, InPublication
  <2>. QED
    BY <1>3, <2>1
<1>5. ASSUME NEW h \in Handlers, Media(h) PROVE LockInv'
  <2>1. UNCHANGED <<call, upload>>
    BY <1>5 DEF Media, Edit, ApplyReads, Define, ReadBoth, Persist, ChangeLive, Undo,
       FindActive, FindPersistent, FindLive, Unlink, Files
  <2>2. work[h].step # "none" /\ \E w \in Works : Work(h, w)
    BY <1>5, MediaGoesOn DEF GoesOn
  <2>. QED
    BY <1>3, <2>1, <2>2, Alone
<1>6. ASSUME NEW u \in Uploads, UploadActs(u) PROVE LockInv'
  <2>1. /\ UNCHANGED <<call, work>>
        /\ \A v \in Uploads \ {u} : InPublication(v)' <=> InPublication(v)
        /\ InPublication(u)' => InPublication(u) \/ LockFree
    BY <1>6, UploadTouches DEF Outside, InPublication
  <2>2. \A h \in Handlers : Busy(h)' <=> Busy(h)
    BY <2>1 DEF Busy, Idle
  <2>3. LockFree => (\A h \in Handlers : ~Busy(h)) /\ \A v \in Uploads : ~InPublication(v)
    BY DEF LockFree, Busy, InPublication
  <2>4. CASE LockFree
    <3>1. \A v \in Uploads : InPublication(v)' => v = u
      BY <2>1, <2>3, <2>4
    <3>2. \A h \in Handlers : ~Busy(h)'
      BY <2>2, <2>3, <2>4
    <3>. QED
      BY <3>1, <3>2 DEF LockInv, Busy
  <2>5. CASE ~LockFree
    <3>1. \A v \in Uploads : InPublication(v)' => InPublication(v)
      BY <2>1, <2>5
    <3>. QED
      BY <2>1, <2>2, <3>1 DEF LockInv, Idle
  <2>. QED
    BY <2>4, <2>5
<1>7. ASSUME Crash \/ Reboot PROVE LockInv'
  <2>1. /\ \A h \in Handlers : work'[h] = NoWork
        /\ \A u \in Uploads : ~InPublication(u)'
    BY <1>7 DEF Crash, Reboot, Forget, InPublication, NoUpload, Publishing
  <2>2. \A h \in Handlers : Idle(h)'
    BY <1>7 DEF Crash, Reboot, HostReboots, IInv, CallTypes, Idle
  <2>. QED
    BY <2>1, <2>2 DEF LockInv, Busy
<1>8. ASSUME StartServer PROVE LockInv'
  BY <1>1, <1>8 DEF StartServer
<1>. QED
  BY <1>1, <1>2, <1>4, <1>5, <1>6, <1>7, <1>8, NextSteps DEF vars, media

\* The uploads that are published.
LEMMA UploadInvStep ==
  ASSUME IInv, [Next]_vars
  PROVE  UploadInv'
<1>. UploadInv /\ file \in [Isos -> Uploads \union {NoFile}]
  BY DEF IInv, MediaTypes
<1>1. UNCHANGED <<upload, file>> => UploadInv'
  BY DEF UploadInv, Published
<1>2. ASSUME NEW h \in Handlers, Media(h) PROVE UploadInv'
  <2>1. CASE Unlink(h)
    <3>1. \A u \in Uploads : ~InPublication(u)
      BY <2>1, Alone DEF Unlink
    <3>. QED
      BY <2>1, <3>1 DEF Unlink, UploadInv, InPublication, Publishing
  <2>2. CASE UNCHANGED <<upload, file>>
    BY <1>1, <2>2
  <2>. QED
    BY <1>2, <2>1, <2>2 DEF Media, Edit, ApplyReads, Define, ReadBoth, Persist, ChangeLive, Undo,
       FindActive, FindPersistent, FindLive, Files
<1>3. ASSUME NEW u \in Uploads, UploadActs(u) PROVE UploadInv'
  <2>1. /\ \A v \in Uploads \ {u} : upload'[v] = upload[v]
        /\ upload'[u].step # "none" => upload'[u].iso \in Isos
        /\ upload \in [Uploads -> UploadRecords]
    BY <1>3, UploadTouches DEF IInv, MediaTypes
  <2>2. \A v \in Uploads \ {u} : InPublication(v) => UNCHANGED file
    <3>1. InPublication(u) => \A v \in Uploads \ {u} : ~InPublication(v)
      BY LockHeld
    <3>2. UNCHANGED file \/ InPublication(u)
      BY <1>3 DEF UploadActs, Receive, BuildSeed, Admit, Reject, BuilderFails, Discard,
         ClientLeaves, Publish, Link, SyncLink, Unstage, Finish, InPublication, Publishing, UploadStep
    <3>. QED
      BY <3>1, <3>2
  <2>3. /\ upload'[u].step = "link" => file'[upload'[u].iso] = NoFile
        /\ upload'[u].step \in {"sync", "unstage", "finish"} => file'[upload'[u].iso] = u
    <3>. USE DEF UploadInv, Published
    <3>1. CASE Receive(u) \/ BuildSeed(u)
      <4>1. upload'[u].step = "receive"
        BY <2>1, <3>1 DEF Receive, BuildSeed, Admit
      <4>. QED
        BY <4>1
    <3>2. CASE Reject(u) \/ BuilderFails(u) \/ ClientLeaves(u)
      <4>1. UNCHANGED file /\ (UNCHANGED upload \/ Gone(u))
        BY <3>2 DEF Reject, BuilderFails, Discard, ClientLeaves, Outside
      <4>2. CASE Gone(u)
        BY <2>1, <4>2 DEF Gone, NoUpload
      <4>. QED
        BY <4>1, <4>2
    <3>3. CASE Publish(u)
      <4>1. CASE Gone(u)
        BY <2>1, <4>1 DEF Gone, NoUpload
      <4>2. CASE ~Gone(u)
        <5>1. upload[u] \in UploadRecords /\ UNCHANGED file /\ ~Published(upload[u].iso) /\ To(u, "link")
          BY <2>1, <3>3, <4>2 DEF Publish, EndUpload
        <5>2. upload'[u].step = "link" /\ upload'[u].iso = upload[u].iso
          BY <2>1, <5>1 DEF To, UploadRecords
        <5>. QED
          BY <5>1, <5>2
      <4>. QED
        BY <4>1, <4>2
    <3>4. CASE Link(u)
      BY <2>1, <3>4 DEF Link, EndUpload, Gone, NoUpload, To, UploadRecords
    <3>5. CASE SyncLink(u)
      BY <2>1, <3>5 DEF SyncLink, Retract, EndUpload, Gone, NoUpload, To, UploadRecords
    <3>6. CASE Unstage(u)
      BY <2>1, <3>6 DEF Unstage, Retract, EndUpload, Gone, NoUpload, To, UploadRecords
    <3>7. CASE Finish(u)
      BY <2>1, <3>7 DEF Finish, EndUpload, Gone, NoUpload
    <3>. QED
      BY <1>3, <3>1, <3>2, <3>3, <3>4, <3>5, <3>6, <3>7 DEF UploadActs, UploadStep
  <2>4. ASSUME NEW v \in Uploads \ {u}
        PROVE  /\ upload'[v].step # "none" => upload'[v].iso \in Isos
               /\ upload'[v].step = "link" => file'[upload'[v].iso] = NoFile
               /\ upload'[v].step \in {"sync", "unstage", "finish"} => file'[upload'[v].iso] = v
    BY <2>1, <2>2 DEF UploadInv, InPublication, Publishing, Published
  <2>. QED
    BY <2>1, <2>3, <2>4 DEF UploadInv, Published
<1>4. ASSUME Crash \/ Reboot PROVE UploadInv'
  BY <1>4 DEF Crash, Reboot, Forget, UploadInv, NoUpload
<1>. QED
  BY <1>1, <1>2, <1>3, <1>4, NextSteps DEF media, vars, Start, Files, StartServer

\* What the VM and its guest do puts no ISO in use.
LEMMA MovesUse ==
  ASSUME Moves
  PROVE  \A i : Used(i)' => Used(i)
BY DEF Moves, Boots, GoesDown, IsUndefined, StaysItself, Used, HasIso, Active, Defined

\* A request puts in use what it was asked to, or what it found.
LEMMA MediaUses ==
  ASSUME IInv, NEW h \in Handlers, Media(h)
  PROVE  /\ \A i \in Isos : Used(i)' =>
              \/ Used(i)
              \/ work[h].op # "delete" /\ (work[h].to = i \/ HasIso(work[h].old, i))
         /\ \A i \in Isos : work'[h].to = i \/ HasIso(work'[h].old, i) =>
              work[h].to = i \/ HasIso(work[h].old, i) \/ Used(i)
<1>. /\ work \in [Handlers -> Works] /\ work[h] \in Works /\ Remembers(work[h])
     /\ DomainTypes
  BY DEF IInv, MediaTypes, WorkInv
<1>0. PICK w : GoesOn(h, w)
  BY MediaGoesOn
<1>1. work'[h] = w
  BY <1>0 DEF GoesOn, Work
<1>2. Finished(h) => work'[h].old = NoDef
  BY DEF Finished, NoWork
<1>3. \A step : Go(h, step) => work'[h].old = work[h].old
  BY DEF Go, Works
<1>4. \A step, d : Work(h, [work[h] EXCEPT !.step = step, !.old = d]) => work'[h].old = d
  BY DEF Work, Works
<1>5. Work(h, [work[h] EXCEPT !.step = "inactive", !.active = Active]) => work'[h].old = work[h].old
  BY DEF Work, Works
<1>6. work'[h].to = work[h].to \/ work'[h].to = Empty
  BY <1>0, <1>1 DEF GoesOn, NoWork
<1>7. \A i \in Isos : HasIso(work'[h].old, i) => HasIso(work[h].old, i) \/ Used(i)
  <2>1. CASE ApplyReads(h)
    <3>1. work'[h].old \in {NoDef, InactiveXml, [uuid |-> uuids + 1, tray |-> NoTray]}
      BY <1>2, <1>4, <2>1 DEF ApplyReads
    <3>. QED
      BY <3>1, CdromMediaAssumption DEF HasIso, Used, InactiveXml, Defined
  <2>2. CASE ReadBoth(h)
    <3>1. work'[h].old \in {NoDef, InactiveXml}
      BY <1>2, <1>4, <2>2 DEF ReadBoth
    <3>. QED
      BY <3>1 DEF HasIso, Used, InactiveXml, Defined
  <2>3. CASE /\ ~ApplyReads(h) /\ ~ReadBoth(h)
    <3>1. \/ Finished(h) \/ \E step : Go(h, step)
          \/ Work(h, [work[h] EXCEPT !.step = "inactive", !.active = Active])
      BY <2>3 DEF Media, Edit, Define, Persist, ChangeLive, Undo, FindActive, FindPersistent, FindLive, Unlink
    <3>2. work'[h].old \in {work[h].old, NoDef}
      BY <1>2, <1>3, <1>5, <3>1
    <3>. QED
      BY <3>2 DEF HasIso
  <2>. QED
    BY <2>1, <2>2, <2>3
<1>8. \A i \in Isos : Used(i)' =>
              \/ Used(i)
              \/ work[h].op # "delete" /\ (work[h].to = i \/ HasIso(work[h].old, i))
  <2>1. CASE UNCHANGED <<inactive, live, image>>
    BY <2>1 DEF Used
  <2>2. CASE ~UNCHANGED <<inactive, live, image>>
    <3>1. /\ work[h].step \in {"define", "persist", "live", "undo"} /\ image' = image
          /\ UNCHANGED <<inactive, live>> \/ Define(h) \/ Persist(h) \/ ChangeLive(h) \/ Undo(h)
      BY <2>2, MediaOnDomain DEF Media, Edit, ApplyReads, ReadBoth, FindActive, FindPersistent, FindLive, Unlink, domain
    <3>2. work[h].op # "delete" /\ work[h].old \in Definitions
      BY <3>1 DEF Remembers, Deleting
    <3>3. /\ inactive' \in {inactive, work[h].old, WithTray(work[h].old, work[h].to)}
          /\ live' = live \/ (Active /\ live' = WithTray(live, work[h].to))
      BY <2>2, <3>1 DEF Define, Persist, ChangeLive, Undo, DefineXml, domain
    <3>4. /\ WithTray(work[h].old, work[h].to).tray = work[h].to
          /\ Active => WithTray(live, work[h].to).tray = work[h].to
      BY <3>2 DEF WithTray, Definitions, DomainTypes, Active
    <3>5. work[h].old # NoDef
      BY <3>2, CdromMediaAssumption DEF Definitions, Trays
    <3>. QED
      BY <3>1, <3>2, <3>3, <3>4, <3>5 DEF Used, HasIso
  <2>. QED
    BY <2>1, <2>2
<1>. QED
  BY <1>6, <1>7, <1>8, CdromMediaAssumption

\* What a step of an upload does to its ISO.
LEMMA UploadPublishes ==
  ASSUME IInv, NEW u \in Uploads, UploadActs(u)
  PROVE  /\ \/ UNCHANGED file
            \/ /\ upload[u].step = "link" /\ file[upload[u].iso] = NoFile
               /\ file' = [file EXCEPT ![upload[u].iso] = u]
            \/ /\ upload[u].step \in {"sync", "unstage"} /\ upload'[u] = NoUpload
               /\ file' = [file EXCEPT ![upload[u].iso] = NoFile]
         /\ upload'[u].step \in {"sync", "unstage"} /\ upload[u].step \notin {"sync", "unstage"} =>
              upload[u].step = "link" /\ file[upload[u].iso] = NoFile
         /\ upload'[u].step # "none" /\ InPublication(u) => upload'[u].iso = upload[u].iso
<1>. upload[u] \in UploadRecords /\ upload \in [Uploads -> UploadRecords]
  BY DEF IInv, MediaTypes
<1>1. Gone(u) => upload'[u] = NoUpload /\ upload'[u].step = "none"
  BY DEF Gone, NoUpload
<1>2. \A s : To(u, s) => upload'[u].step = s /\ upload'[u].iso = upload[u].iso
  BY DEF To, UploadRecords
<1>3. CASE Receive(u) \/ BuildSeed(u)
  <2>1. /\ UNCHANGED file /\ upload[u] = NoUpload
        /\ \E i, seed : upload'[u] = [step |-> "receive", iso |-> i, seed |-> seed]
    BY <1>3 DEF Receive, BuildSeed, Admit
  <2>. QED
    BY <2>1 DEF InPublication, NoUpload, Publishing
<1>4. CASE Reject(u) \/ BuilderFails(u) \/ ClientLeaves(u)
  <2>1. UNCHANGED file /\ (UNCHANGED upload \/ Gone(u))
    BY <1>4 DEF Reject, BuilderFails, Discard, ClientLeaves, Outside
  <2>. QED
    BY <1>1, <2>1
<1>5. CASE Publish(u)
  BY <1>1, <1>2, <1>5 DEF Publish, EndUpload, InPublication, Publishing
<1>6. CASE Link(u)
  BY <1>1, <1>2, <1>6 DEF Link, EndUpload, Published
<1>7. CASE SyncLink(u)
  BY <1>1, <1>2, <1>7 DEF SyncLink, Retract, EndUpload
<1>8. CASE Unstage(u) \/ Finish(u)
  BY <1>1, <1>2, <1>8 DEF Unstage, Retract, Finish, EndUpload
<1>. QED
  BY <1>3, <1>4, <1>5, <1>6, <1>7, <1>8 DEF UploadActs, UploadStep

\* What is in use is there.
LEMMA UseStep ==
  ASSUME IInv, [Next]_vars
  PROVE  UseInv'
<1>. /\ UseInv /\ DomainTypes /\ file \in [Isos -> Uploads \union {NoFile}]
     /\ work \in [Handlers -> Works]
  BY DEF IInv, MediaTypes
<1>1. /\ NoWork.op = "none"
      /\ \A i \in Isos : NoWork.to # i /\ ~HasIso(NoWork.old, i)
  BY CdromMediaAssumption DEF NoWork, HasIso
<1>2. ASSUME \A i \in Isos : Used(i)' => Used(i), UNCHANGED <<file, orphaned>>,
             (UNCHANGED <<work, upload>>) \/
                /\ \A h \in Handlers : work'[h] = NoWork
                /\ \A u \in Uploads : upload'[u] = NoUpload
      PROVE  UseInv'
  <2>1. CASE UNCHANGED <<work, upload>>
    <3>1. \A u \in Uploads : upload[u].step \in {"sync", "unstage"} => upload[u].iso \in Isos
      BY DEF IInv, UploadInv
    <3>. QED
      BY <1>2, <2>1, <3>1 DEF UseInv, Published
  <2>2. CASE /\ \A h \in Handlers : work'[h] = NoWork
             /\ \A u \in Uploads : upload'[u] = NoUpload
    <3>1. \A u \in Uploads : upload'[u].step = "none"
      BY <2>2 DEF NoUpload
    <3>. QED
      BY <1>1, <1>2, <2>2, <3>1 DEF UseInv, Published
  <2>. QED
    BY <1>2, <2>1, <2>2
<1>3. ASSUME Lifecycle, UNCHANGED media PROVE UseInv'
  BY <1>2, <1>3, LifecycleStep, MovesUse DEF IInv, media
<1>4. ASSUME NEW h \in Handlers, NEW w, Begins(w), Start(h, w) PROVE UseInv'
  <2>1. UNCHANGED <<inactive, live, image, file, upload, orphaned>>
    BY <1>4 DEF Start, domain, Files
  <2>2. \A i \in Isos : w.op # "delete" /\ (w.to = i \/ HasIso(w.old, i)) => Published(i)
    BY <1>4, CdromMediaAssumption DEF Begins, Insertable
  <2>3. work'[h] = w /\ \A k \in Handlers \ {h} : work'[k] = work[k]
    BY <1>4, Replaced DEF Begins, Start
  <2>. QED
    BY <2>1, <2>2, <2>3 DEF UseInv, Used, Published
<1>5. ASSUME NEW h \in Handlers, Media(h) PROVE UseInv'
  <2>1. /\ UNCHANGED upload
        /\ \A u \in Uploads : upload[u].step \notin {"sync", "unstage"}
        /\ \A k \in Handlers \ {h} : work[k] = NoWork
    BY <1>5, MediaGoesOn, Alone DEF Media, Edit, ApplyReads, Define, ReadBoth, Persist, ChangeLive, Undo,
       FindActive, FindPersistent, FindLive, Unlink, Files, InPublication, Publishing
  <2>2. PICK w : GoesOn(h, w)
    BY <1>5, MediaGoesOn
  <2>3. work'[h] = w /\ \A k \in Handlers \ {h} : work'[k] = NoWork
    BY <2>1, <2>2, Replaced DEF GoesOn
  <2>4. w = NoWork \/ w.op = work[h].op
    BY <2>2 DEF GoesOn
  <2>5. CASE Unlink(h)
    <3>1. PICK i \in Isos : i = work[h].to
      BY <2>5 DEF Unlink, IInv, WorkInv, Remembers, Deleting
    <3>2. ~orphaned' => ~orphaned /\ ~Used(i)
      BY <2>5, <3>1 DEF Unlink, IInv, DeleteInv, Used
    <3>3. work'[h] = NoWork /\ file' = [file EXCEPT ![i] = NoFile] /\ UNCHANGED <<inactive, live, image>>
      BY <2>5, <3>1 DEF Unlink, Finished, domain
    <3>. QED
      BY <1>1, <2>1, <2>3, <3>2, <3>3 DEF UseInv, Used, Published
  <2>6. CASE ~Unlink(h)
    <3>1. UNCHANGED <<file, orphaned>>
      BY <1>5, <2>6 DEF Media, Edit, ApplyReads, Define, ReadBoth, Persist, ChangeLive, Undo,
         FindActive, FindPersistent, FindLive, Files
    <3>2. ~orphaned => \A i \in Isos : Used(i)' => Published(i)
      BY <1>5, MediaUses DEF UseInv
    <3>3. ASSUME ~orphaned, w.op # "delete", NEW i \in Isos, w.to = i \/ HasIso(w.old, i)
          PROVE  Published(i)
      BY <1>1, <1>5, <2>3, <2>4, <3>3, MediaUses DEF UseInv
    <3>. QED
      BY <1>1, <2>1, <2>3, <3>1, <3>2, <3>3 DEF UseInv, Published
  <2>. QED
    BY <2>5, <2>6
<1>6. ASSUME NEW u \in Uploads, UploadActs(u) PROVE UseInv'
  <2>1. UNCHANGED <<inactive, live, image, work, orphaned>>
    BY <1>6, UploadTouches DEF Outside, domain
  <2>2. \A v \in Uploads \ {u} : upload'[v] = upload[v]
    BY <1>6, UploadTouches
  <2>3. \A i : Used(i)' <=> Used(i)
    BY <2>1 DEF Used
  <2>4. InPublication(u) => \A k \in Handlers : work[k] = NoWork
    BY LockHeld
  <2>5. ~orphaned /\ upload'[u].step \in {"sync", "unstage"} => ~Used(upload'[u].iso)
    <3>1. upload[u].step # "none" => upload[u].iso \in Isos
      BY DEF IInv, UploadInv
    <3>2. CASE upload[u].step \in {"sync", "unstage"}
      BY <1>6, <3>2, UploadPublishes DEF UseInv, InPublication, Publishing
    <3>3. CASE upload[u].step \notin {"sync", "unstage"}
      BY <1>6, <3>1, <3>3, UploadPublishes DEF UseInv, InPublication, Publishing, Published
    <3>. QED
      BY <3>2, <3>3
  <2>6. CASE \A i \in Isos : Published(i) => file'[i] # NoFile
    BY <2>1, <2>2, <2>3, <2>5, <2>6 DEF UseInv, Published
  <2>7. CASE ~\A i \in Isos : Published(i) => file'[i] # NoFile
    <3>1. /\ upload[u].step \in {"sync", "unstage"} /\ upload'[u] = NoUpload
          /\ file' = [file EXCEPT ![upload[u].iso] = NoFile]
      BY <1>6, <2>7, UploadPublishes, CdromMediaAssumption DEF Published
    <3>2. ~orphaned => ~Used(upload[u].iso)
      BY <3>1 DEF UseInv
    <3>3. \A k \in Handlers : work'[k] = NoWork
      BY <2>1, <2>4, <3>1 DEF InPublication, Publishing
    <3>. QED
      BY <1>1, <2>1, <2>2, <2>3, <2>5, <3>1, <3>2, <3>3 DEF UseInv, Published
  <2>. QED
    BY <2>6, <2>7
<1>7. ASSUME Crash PROVE UseInv'
  BY <1>2, <1>7 DEF Crash, Forget, domain, Used
<1>8. ASSUME Reboot PROVE UseInv'
  <2>1. \A i : Used(i)' => Used(i)
    BY <1>8, Rebooted DEF Reboot, IInv, Used, HasIso, Active
  <2>. QED
    BY <1>2, <1>8, <2>1 DEF Reboot, Forget
<1>9. ASSUME StartServer \/ UNCHANGED vars PROVE UseInv'
  <2>1. UNCHANGED <<inactive, live, image, file, orphaned, work, upload>>
    BY <1>9 DEF StartServer, vars, media, domain
  <2>. QED
    BY <1>2, <2>1 DEF Used
<1>. QED
  BY <1>3, <1>4, <1>5, <1>6, <1>7, <1>8, <1>9, NextSteps

\* When guest and definition may have come apart, and when they have not.
LEMMA Drifts ==
  ASSUME [Next]_vars, Active'
  PROVE  /\ live' = live /\ drift = "restored" => drift' = "restored"
         /\ ~Active => /\ image # NoDef => drift' = "restored"
                       /\ ~LockFree => drift' # "none"
         /\ live' = live /\ drift' = "none" =>
              /\ drift = "none"
              /\ At("define") => inactive' = inactive
              /\ At("undo") => inactive' # inactive \/ work' = work
              /\ At("live") \/ At("undo") => server' = server
<1>1. CASE NoteDrift
  <2>1. CASE ~Active
    <3>1. live' # live
      BY <2>1 DEF Active
    <3>. QED
      BY <1>1, <2>1, <3>1 DEF NoteDrift
  <2>2. CASE Active
    BY <1>1, <2>2 DEF NoteDrift
  <2>. QED
    BY <2>1, <2>2
<1>2. CASE UNCHANGED vars
  BY <1>2 DEF vars, domain, media, Active
<1>. QED
  BY <1>1, <1>2 DEF Next

\* What a deletion knows of one ISO.
Knows(w) ==
  LET Restored == HasIso(live, w.to) => drift = "restored"
  IN  /\ w.step = "inactive" /\ ~w.active => HasIso(InactiveXml, w.to) \/ Restored
      /\ w.step \in {"current", "unlink"} => ~HasIso(inactive, w.to)
      /\ w.step = "unlink" => Restored

\* The invariant of deletions, one request at a time.
LEMMA KnowsAll == DeleteInv <=> \A h \in Handlers : Knows(work[h])
BY DEF DeleteInv, Knows

\* A deletion knows enough, whatever commands and guests do meanwhile.
LEMMA DeleteStep ==
  ASSUME IInv, [Next]_vars
  PROVE  DeleteInv'
<1>. \A h \in Handlers : Knows(work[h])
  BY KnowsAll DEF IInv
<1>0. (\A h \in Handlers : Knows(work[h]))' => DeleteInv'
  BY KnowsAll, PTL
<1>1. \A w : w.step \notin Deleting => Knows(w)'
  BY DEF Knows, Deleting
<1>2. ASSUME NEW w, Knows(w), Moves
      PROVE  Knows(w)'
  <2>1. ASSUME HasIso(live, w.to), drift = "restored", HasIso(live', w.to), live' = live
        PROVE  drift' = "restored"
    BY <2>1, Drifts DEF HasIso, Active
  <2>2. CASE Boots
    <3>1. CASE image # NoDef
      BY <1>2, <2>2, <3>1, Drifts DEF Boots, Knows, HasIso
    <3>2. CASE image = NoDef
      <4>1. live' = inactive /\ inactive' = inactive /\ InactiveXml' = inactive
        BY <2>2, <3>2 DEF Boots, InactiveXml, Defined
      <4>. QED
        BY <1>2, <2>2, <4>1 DEF Knows
    <3>. QED
      BY <3>1, <3>2
  <2>3. CASE GoesDown
    <3>1. live' = NoDef /\ inactive' = inactive
      BY <2>3 DEF GoesDown, Active
    <3>. QED
      BY <1>2, <3>1 DEF Knows, HasIso
  <2>4. CASE IsUndefined
    <3>1. live' = live /\ inactive' = NoDef /\ InactiveXml' = live
      BY <2>4 DEF IsUndefined, InactiveXml, Defined
    <3>. QED
      BY <1>2, <2>1, <3>1 DEF Knows, HasIso
  <2>5. CASE StaysItself
    <3>1. live' = live /\ inactive' = inactive /\ InactiveXml' = InactiveXml
      BY <2>5 DEF StaysItself, InactiveXml, Defined
    <3>. QED
      BY <1>2, <2>1, <3>1 DEF Knows, HasIso
  <2>. QED
    BY <1>2, <2>2, <2>3, <2>4, <2>5 DEF Moves
<1>3. UNCHANGED domain => Moves
  BY DEF domain, Moves, StaysItself
<1>4. NoWork.step \notin Deleting
  BY DEF NoWork, Deleting
<1>5. ASSUME Lifecycle, UNCHANGED media PROVE DeleteInv'
  BY <1>0, <1>2, <1>5, LifecycleStep DEF IInv, media
<1>6. ASSUME UNCHANGED <<domain, work>> PROVE DeleteInv'
  BY <1>0, <1>2, <1>3, <1>6
<1>7. ASSUME NEW h \in Handlers, NEW w \in Works, Work(h, w), Knows(w)',
             \A k \in Handlers \ {h} : work[k] = NoWork
      PROVE  DeleteInv'
  <2>1. work'[h] = w /\ \A k \in Handlers \ {h} : work'[k] = NoWork
    BY <1>7, Replaced DEF IInv, MediaTypes
  <2>2. ASSUME NEW k \in Handlers PROVE Knows(work[k])'
    BY <1>1, <1>4, <1>7, <2>1
  <2>. QED
    BY <1>0, <2>2
<1>8. ASSUME NEW h \in Handlers, NEW w, Begins(w), Start(h, w) PROVE DeleteInv'
  <2>1. w.step \notin {"inactive", "current", "unlink"}
    BY <1>8 DEF Begins
  <2>2. Knows(w)'
    BY <2>1 DEF Knows
  <2>3. w \in Works /\ Work(h, w) /\ \A k \in Handlers : work[k] = NoWork
    BY <1>8 DEF Begins, Start, LockFree
  <2>. QED
    BY <1>7, <2>2, <2>3
<1>9. ASSUME NEW h \in Handlers, Media(h) PROVE DeleteInv'
  <2>1. PICK w : GoesOn(h, w)
    BY <1>9, MediaGoesOn
  <2>2. /\ work \in [Handlers -> Works] /\ work[h] \in Works
        /\ Remembers(work[h]) /\ work'[h] = w
        /\ \A k \in Handlers \ {h} : work[k] = NoWork
        /\ w \in Works /\ Remembers(w) /\ Work(h, w)
    BY <1>9, <2>1, MediaGoesOn, Alone, Replaced DEF IInv, MediaTypes, WorkInv, GoesOn
  <2>3. w.step \in Deleting => w.to = work[h].to /\ work[h].op = "delete"
    BY <2>1, <2>2, <1>4 DEF GoesOn, Remembers
  <2>4. CASE w.step \notin Deleting
    BY <1>1, <1>7, <2>2, <2>4
  <2>5. CASE w.step \in Deleting
    <3>1. work[h].step \in Deleting /\ w # NoWork
      BY <2>2, <2>3, <2>5, <1>4 DEF Remembers
    <3>2. FindActive(h) \/ FindPersistent(h) \/ FindLive(h)
      BY <1>9, <3>1, <2>2 DEF Deleting, Media, Edit, ApplyReads, Define, ReadBoth, Persist,
         ChangeLive, Undo, Unlink, Finished, Work, NoWork
    <3>3. /\ UNCHANGED <<inactive, live>> /\ InactiveXml' = InactiveXml
          /\ HasIso(live, w.to) => Active'
      BY <3>2 DEF FindActive, FindPersistent, FindLive, domain, InactiveXml, Defined, Active, HasIso
    <3>4. \A s : Go(h, s) => w.step = s
      BY <2>2 DEF Go, Works
    <3>5. work[h].to = w.to /\ Knows(work[h])
      BY <2>3, <2>5
    <3>6. ASSUME FindActive(h) PROVE Knows(w)'
      <4>1. CASE Exists
        <5>1. w = [work[h] EXCEPT !.step = "inactive", !.active = Active]
          BY <2>2, <3>6, <4>1 DEF FindActive, Work
        <5>2. w.step = "inactive" /\ (w.active <=> Active)
          <6>. HIDE DEF Active
          <6>. QED
            BY <2>2, <5>1 DEF Works
        <5>. QED
          BY <3>3, <5>2 DEF Knows, HasIso, Active
      <4>2. CASE ~Exists
        BY <3>3, <3>4, <3>6, <4>2 DEF FindActive, Knows, HasIso, Exists, Defined, Active
      <4>. QED
        BY <4>1, <4>2
    <3>7. ASSUME FindPersistent(h) PROVE Knows(w)'
      <4>1. work[h].step = "inactive" /\ Exists /\ InactiveXml.tray # w.to
        BY <2>2, <3>1, <3>5, <3>7 DEF FindPersistent, Finished
      <4>2. ~HasIso(inactive, w.to) /\ ~HasIso(InactiveXml, w.to)
        BY <4>1 DEF HasIso, InactiveXml, Defined
      <4>3. w.step = IF work[h].active THEN "current" ELSE "unlink"
        BY <2>2, <3>1, <3>4, <3>7 DEF FindPersistent, Finished
      <4>4. ~work[h].active /\ HasIso(live, w.to) => drift = "restored"
        BY <3>5, <4>1, <4>2 DEF Knows
      <4>5. HasIso(live, w.to) /\ drift = "restored" => drift' = "restored"
        BY <3>3, Drifts
      <4>. QED
        BY <3>3, <4>2, <4>3, <4>4, <4>5 DEF Knows
    <3>8. ASSUME FindLive(h) PROVE Knows(w)'
      <4>1. /\ work[h].step = "current" /\ (IF Active THEN live ELSE inactive).tray # w.to
            /\ w.step = "unlink"
        BY <2>2, <3>1, <3>4, <3>5, <3>8 DEF FindLive, Finished
      <4>2. ~HasIso(live, w.to) /\ ~HasIso(inactive, w.to)
        BY <3>5, <4>1 DEF Knows, HasIso, Active
      <4>. QED
        BY <3>3, <4>1, <4>2 DEF Knows
    <3>9. Knows(w)'
      BY <3>2, <3>6, <3>7, <3>8
    <3>. QED
      BY <1>7, <2>2, <3>9
  <2>. QED
    BY <2>4, <2>5
<1>10. ASSUME Crash \/ Reboot PROVE DeleteInv'
  <2>1. \A h \in Handlers : work'[h] = NoWork
    BY <1>10 DEF Crash, Reboot, Forget
  <2>2. ASSUME NEW h \in Handlers PROVE Knows(work[h])'
    BY <1>1, <1>4, <2>1
  <2>. QED
    BY <1>0, <2>2
<1>. QED
  BY <1>5, <1>6, <1>8, <1>9, <1>10, NextSteps, UploadTouches DEF StartServer, Outside, vars, media

\* What guest and definition say of the tray, with the part of each request apart.
Between ==
  Same /\ Defined /\ ~At("live") /\ ~At("undo") => live.tray = inactive.tray
Halfway(w) ==
  /\ w.step \in {"persist", "live", "undo"} /\ Same => live.tray = w.old.tray
  /\ w.step = "live" /\ Defined => inactive.tray = w.to

\* The invariant of the trays, the domain's part and each request's.
LEMMA TrayParts == TrayInv <=> Between /\ \A h \in Handlers : Halfway(work[h])
BY DEF TrayInv, Between, Halfway

\* Guest and definition have the same tray, or it is known why not.
LEMMA TrayStep ==
  ASSUME IInv, [Next]_vars
  PROVE  TrayInv'
<1>. Between /\ \A h \in Handlers : Halfway(work[h])
  BY TrayParts DEF IInv
<1>. work \in [Handlers -> Works]
  BY DEF IInv, MediaTypes
<1>1. (Between /\ \A h \in Handlers : Halfway(work[h]))' => TrayInv'
  BY TrayParts, PTL
<1>2. Same' /\ live' = live => /\ Same
                               /\ At("define") => inactive' = inactive
                               /\ At("undo") => inactive' # inactive \/ work' = work
                               /\ At("live") \/ At("undo") => server' = server
  BY Drifts DEF Same, Active
<1>3. \A w : w.step \notin {"persist", "live", "undo"} => Halfway(w)'
  BY DEF Halfway
<1>4. NoWork.step = "none"
  BY DEF NoWork
<1>5. ASSUME Moves, UNCHANGED work
      PROVE  TrayInv'
  <2>1. At("live")' <=> At("live")
    BY <1>5 DEF At
  <2>2. At("undo")' <=> At("undo")
    BY <1>5 DEF At
  <2>3. CASE Boots
    <3>1. image # NoDef => ~Same'
      BY <2>3, Drifts DEF Boots, Same
    <3>2. ~LockFree => ~Same'
      BY <2>3, Drifts DEF Boots, Same
    <3>3. image = NoDef => live' = inactive'
      BY <2>3 DEF Boots
    <3>4. Between'
      BY <3>1, <3>3 DEF Between
    <3>5. ASSUME NEW h \in Handlers PROVE Halfway(work[h])'
      <4>1. CASE work[h] = NoWork
        BY <1>3, <1>4, <1>5, <4>1
      <4>2. CASE work[h] # NoWork
        <5>1. ~Same'
          BY <3>2, <4>2 DEF LockFree
        <5>2. work[h].step = "live" /\ Defined => inactive'.tray = work[h].to
          BY <2>3 DEF Boots, Halfway
        <5>. QED
          BY <1>5, <2>3, <5>1, <5>2 DEF Halfway, Boots
      <4>. QED
        BY <4>1, <4>2
    <3>. QED
      BY <1>1, <3>4, <3>5
  <2>4. CASE GoesDown
    <3>1. ~Same' /\ UNCHANGED inactive
      BY <2>4 DEF GoesDown, Same
    <3>. QED
      BY <1>1, <1>5, <3>1 DEF Between, Halfway, Defined
  <2>5. CASE IsUndefined \/ StaysItself
    <3>1. UNCHANGED live /\ (UNCHANGED inactive \/ ~Defined')
      BY <2>5 DEF IsUndefined, StaysItself, Defined
    <3>2. Between'
      BY <1>2, <2>1, <2>2, <3>1 DEF Between, Defined
    <3>3. ASSUME NEW h \in Handlers PROVE Halfway(work[h])'
      BY <1>2, <1>5, <3>1 DEF Halfway, Defined
    <3>. QED
      BY <1>1, <3>2, <3>3
  <2>. QED
    BY <1>5, <2>3, <2>4, <2>5 DEF Moves
<1>6. UNCHANGED domain => Moves
  BY DEF domain, Moves, StaysItself
<1>7. ASSUME Lifecycle, UNCHANGED media PROVE TrayInv'
  BY <1>5, <1>7, LifecycleStep DEF IInv, media
<1>8. ASSUME UNCHANGED <<domain, work>> PROVE TrayInv'
  BY <1>5, <1>6, <1>8
<1>9. ASSUME NEW h \in Handlers, NEW w \in Works, Work(h, w),
             \A k \in Handlers \ {h} : work[k] = NoWork
      PROVE  /\ At("live")' <=> w.step = "live"
             /\ At("undo")' <=> w.step = "undo"
             /\ \A step \in {"define", "live", "undo"} : At(step) <=> work[h].step = step
             /\ Between' /\ Halfway(w)' => TrayInv'
  <2>1. work'[h] = w /\ \A k \in Handlers \ {h} : work'[k] = NoWork
    BY <1>9, Replaced
  <2>2. Halfway(w)' => \A k \in Handlers : Halfway(work[k])'
    BY <1>3, <1>4, <2>1
  <2>3. (At("live")' <=> w.step = "live") /\ (At("undo")' <=> w.step = "undo")
    BY <1>4, <2>1 DEF At
  <2>4. \A step \in {"define", "live", "undo"} : At(step) <=> work[h].step = step
    BY <1>4, <1>9 DEF At
  <2>. QED
    BY <1>1, <2>2, <2>3, <2>4
<1>10. ASSUME NEW h \in Handlers, NEW w, Begins(w), Start(h, w) PROVE TrayInv'
  <2>1. w \in Works /\ Work(h, w) /\ \A k \in Handlers : work[k] = NoWork
    BY <1>10 DEF Begins, Start, LockFree
  <2>2. Halfway(w)'
    BY <1>3, <1>10 DEF Begins
  <2>3. UNCHANGED <<inactive, live>>
    BY <1>10 DEF Start, domain
  <2>4. ~At("live") /\ ~At("undo")
    BY <1>4, <1>9, <2>1
  <2>5. Between'
    BY <1>2, <2>3, <2>4 DEF Between, Defined
  <2>. QED
    BY <1>9, <2>1, <2>2, <2>5
<1>11. ASSUME NEW h \in Handlers, Media(h) PROVE TrayInv'
  <2>1. PICK w : GoesOn(h, w)
    BY <1>11, MediaGoesOn
  <2>2. /\ work[h] \in Works /\ Remembers(work[h]) /\ work'[h] = w
        /\ \A k \in Handlers \ {h} : work[k] = NoWork
        /\ w \in Works /\ Work(h, w)
        /\ work[h].step # "none" /\ Halfway(work[h])
    BY <1>11, <2>1, MediaGoesOn, Alone, Replaced DEF IInv, WorkInv, MediaTypes, GoesOn
  <2>3. /\ At("live")' <=> w.step = "live"
        /\ At("undo")' <=> w.step = "undo"
        /\ \A step \in {"define", "live", "undo"} : At(step) <=> work[h].step = step
        /\ Between' /\ Halfway(w)' => TrayInv'
    BY <1>9, <2>2
  <2>4. Finished(h) => w = NoWork
    BY <2>2 DEF Finished
  <2>5. \A step : Go(h, step) => w = [work[h] EXCEPT !.step = step]
    BY <2>2 DEF Go
  <2>6. Halfway(NoWork)'
    BY <1>3, <1>4
  <2>7. ASSUME UNCHANGED domain, work[h].step \notin {"live", "undo"}
        PROVE  Between'
    BY <1>2, <2>3, <2>7 DEF Between, Defined, domain
  <2>8. ASSUME UNCHANGED domain, work[h].step \notin {"live", "undo"},
               w.step \notin {"persist", "live", "undo"}
        PROVE  Between' /\ Halfway(w)'
    BY <1>3, <2>7, <2>8
  <2>9. ASSUME Edit(h) PROVE Between' /\ Halfway(w)'
    BY <1>4, <2>2, <2>4, <2>5, <2>8, <2>9 DEF Edit, Works
  <2>10. ASSUME ApplyReads(h) PROVE Between' /\ Halfway(w)'
    <3>1. /\ UNCHANGED domain /\ work[h].step = "apply"
          /\ w = NoWork \/ \E d : Work(h, [work[h] EXCEPT !.step = "define", !.old = d])
      BY <2>4, <2>10 DEF ApplyReads
    <3>2. \A d : Work(h, [work[h] EXCEPT !.step = "define", !.old = d]) => w.step = "define"
      BY <2>2 DEF Work, Works
    <3>. QED
      BY <1>4, <2>8, <3>1, <3>2
  <2>11. ASSUME FindActive(h) \/ FindPersistent(h) \/ FindLive(h) \/ Unlink(h)
         PROVE  Between' /\ Halfway(w)'
    <3>1. /\ UNCHANGED domain /\ work[h].step \in Deleting
          /\ \/ w = NoWork \/ Go(h, "unlink") \/ Go(h, "current")
             \/ Work(h, [work[h] EXCEPT !.step = "inactive", !.active = Active])
      BY <2>4, <2>11 DEF FindActive, FindPersistent, FindLive, Unlink, Deleting
    <3>2. Work(h, [work[h] EXCEPT !.step = "inactive", !.active = Active]) => w.step = "inactive"
      BY <2>2 DEF Work, Works
    <3>3. Go(h, "unlink") \/ Go(h, "current") => w.step \in Deleting
      BY <2>2, <2>5 DEF Works, Deleting
    <3>. QED
      BY <1>4, <2>8, <3>1, <3>2, <3>3 DEF Deleting
  <2>12. ASSUME ReadBoth(h) PROVE Between' /\ Halfway(w)'
    <3>1. CASE w = NoWork
      BY <1>4, <2>8, <2>12, <3>1 DEF ReadBoth
    <3>2. CASE w # NoWork
      <4>1. /\ Exists /\ w = [work[h] EXCEPT !.step = "persist", !.old = InactiveXml]
            /\ UNCHANGED domain /\ work[h].step = "read"
        BY <2>2, <2>4, <2>12, <3>2 DEF ReadBoth, Work
      <4>2. w.step = "persist" /\ w.old = InactiveXml
        BY <2>2, <4>1 DEF Works
      <4>3. Same => live.tray = InactiveXml.tray
        BY <2>3, <4>1 DEF Between, InactiveXml
      <4>. QED
        BY <1>2, <2>7, <4>1, <4>2, <4>3 DEF Halfway, domain
    <3>. QED
      BY <3>1, <3>2
  <2>13. ASSUME Define(h) PROVE Between' /\ Halfway(w)'
    <3>1. w = NoWork /\ UNCHANGED live /\ work[h].step = "define"
      BY <2>4, <2>13 DEF Define, DefineXml, domain
    <3>. QED
      BY <1>2, <2>3, <2>6, <3>1 DEF Between, Defined
  <2>14. ASSUME Persist(h) PROVE Between' /\ Halfway(w)'
    <3>1. CASE w = NoWork
      <4>1. UNCHANGED domain
        BY <1>4, <2>2, <2>5, <2>14, <3>1 DEF Persist, Works
      <4>. QED
        BY <1>4, <2>8, <2>14, <3>1, <4>1 DEF Persist
    <3>2. CASE w # NoWork
      <4>1. /\ inactive' = WithTray(work[h].old, work[h].to) /\ UNCHANGED live
            /\ w = [work[h] EXCEPT !.step = "live"] /\ work[h].step = "persist"
        BY <2>4, <2>5, <2>14, <3>2 DEF Persist, DefineXml
      <4>2. w.step = "live" /\ w.to = work[h].to /\ w.old = work[h].old
        BY <2>2, <4>1 DEF Works
      <4>3. inactive'.tray = w.to
        BY <2>2, <4>1, <4>2 DEF Remembers, WithTray, Definitions
      <4>. QED
        BY <1>2, <2>2, <2>3, <4>1, <4>2, <4>3 DEF Between, Halfway
    <3>. QED
      BY <3>1, <3>2
  <2>15. ASSUME ChangeLive(h) PROVE Between' /\ Halfway(w)'
    <3>1. CASE w = NoWork
      <4>1. /\ Active /\ live' = WithTray(live, work[h].to) /\ UNCHANGED inactive
            /\ work[h].step = "live"
        BY <1>4, <2>2, <2>5, <2>15, <3>1 DEF ChangeLive, Works
      <4>2. live'.tray = work[h].to
        BY <4>1 DEF Active, WithTray, IInv, DomainTypes, Definitions
      <4>. QED
        BY <2>2, <2>6, <3>1, <4>1, <4>2 DEF Between, Halfway, Defined
    <3>2. CASE w # NoWork
      <4>1. UNCHANGED live /\ w = [work[h] EXCEPT !.step = "undo"] /\ work[h].step = "live"
        BY <2>4, <2>5, <2>15, <3>2 DEF ChangeLive, domain
      <4>2. w.step = "undo" /\ w.old = work[h].old
        BY <2>2, <4>1 DEF Works
      <4>. QED
        BY <1>2, <2>2, <2>3, <4>1, <4>2 DEF Between, Halfway
    <3>. QED
      BY <3>1, <3>2
  <2>16. ASSUME Undo(h) PROVE Between' /\ Halfway(w)'
    <3>1. w = NoWork /\ UNCHANGED live /\ work[h].step = "undo" /\ work' # work
      BY <1>4, <2>2, <2>4, <2>16 DEF Undo, DefineXml, domain
    <3>2. inactive' = inactive \/ inactive' = work[h].old
      BY <2>16 DEF Undo, DefineXml, domain
    <3>. QED
      BY <1>2, <2>2, <2>3, <2>6, <3>1, <3>2 DEF Between, Halfway
  <2>. QED
    BY <1>11, <2>3, <2>9, <2>10, <2>11, <2>12, <2>13, <2>14, <2>15, <2>16 DEF Media
<1>12. ASSUME Crash PROVE TrayInv'
  <2>1. /\ \A h \in Handlers : work'[h] = NoWork
        /\ UNCHANGED <<inactive, live>> /\ server' # server
    BY <1>12 DEF Crash, Forget, domain, Up
  <2>2. Between'
    BY <1>2, <2>1 DEF Between, Defined
  <2>3. ASSUME NEW h \in Handlers PROVE Halfway(work[h])'
    BY <1>3, <1>4, <2>1
  <2>. QED
    BY <1>1, <2>2, <2>3
<1>13. ASSUME Reboot PROVE TrayInv'
  <2>1. \A h \in Handlers : work'[h] = NoWork
    BY <1>13 DEF Reboot, Forget
  <2>2. ~Active' \/ (Active' /\ inactive' = inactive /\ live' = IF image # NoDef THEN image ELSE inactive)
    BY <1>13, Rebooted DEF Reboot, IInv
  <2>3. Active' /\ image # NoDef => ~Same'
    BY <2>2, Drifts DEF Same, IInv, DomainInv
  <2>4. Between'
    BY <2>2, <2>3 DEF Between, Same
  <2>5. ASSUME NEW h \in Handlers PROVE Halfway(work[h])'
    BY <1>3, <1>4, <2>1
  <2>. QED
    BY <1>1, <2>4, <2>5
<1>. QED
  BY <1>7, <1>8, <1>10, <1>11, <1>12, <1>13, NextSteps, UploadTouches
     DEF StartServer, Outside, vars, media

\* What is staged belongs to an upload.
LEMMA StagingStep ==
  ASSUME IInv, [Next]_vars
  PROVE  StagingInv'
<1>. StagingInv /\ upload \in [Uploads -> UploadRecords]
  BY DEF IInv, MediaTypes
<1>1. UNCHANGED <<staging, upload, server>> => StagingInv'
  BY DEF StagingInv, Up
<1>2. ASSUME NEW h \in Handlers, Media(h) PROVE StagingInv'
  BY <1>1, <1>2 DEF Media, Edit, ApplyReads, Define, ReadBoth, Persist, ChangeLive, Undo,
     FindActive, FindPersistent, FindLive, Unlink, Files
<1>3. ASSUME NEW u \in Uploads, UploadActs(u) PROVE StagingInv'
  <2>1. /\ \A v \in Uploads \ {u} : upload'[v] = upload[v]
        /\ UNCHANGED server
    BY <1>3, UploadTouches DEF Outside
  <2>2. Gone(u) => upload'[u].step = "none"
    BY DEF Gone, NoUpload
  <2>3. \A s : To(u, s) => upload'[u].step = s
    BY DEF To, UploadRecords
  <2>4. /\ staging' \subseteq staging \union {u}
        /\ u \in staging' /\ upload'[u].step = "none" => u \in staging /\ upload[u].step = "none"
    <3>1. CASE Receive(u) \/ BuildSeed(u)
      <4>1. upload'[u].step = "receive" /\ staging' = staging \union {u}
        BY <3>1 DEF Receive, BuildSeed, Admit
      <4>. QED
        BY <4>1
    <3>2. CASE Reject(u) \/ BuilderFails(u) \/ ClientLeaves(u)
      BY <3>2 DEF Reject, BuilderFails, ClientLeaves, Discard
    <3>3. CASE Publish(u) \/ Link(u) \/ SyncLink(u)
      BY <2>3, <3>3 DEF Publish, Link, SyncLink, Retract, EndUpload
    <3>4. CASE Unstage(u) \/ Finish(u)
      BY <2>3, <3>4 DEF Unstage, Finish, Retract, EndUpload
    <3>. QED
      BY <1>3, <3>1, <3>2, <3>3, <3>4 DEF UploadActs, UploadStep
  <2>. QED
    BY <2>1, <2>4 DEF StagingInv, Up, IInv, MediaTypes
<1>4. ASSUME Crash \/ Reboot \/ StartServer PROVE StagingInv'
  BY <1>4 DEF Crash, Reboot, Forget, StartServer, StagingInv, Up
<1>. QED
  BY <1>1, <1>2, <1>3, <1>4, NextSteps DEF vars, media, Start, Files

\* The inductive invariant holds at the start.
LEMMA InitInv == Init => IInv
<1>. SUFFICES ASSUME Init PROVE IInv
  OBVIOUS
<1>1. DomainTypes /\ CallTypes /\ DomainInv
  <2>1. DomainTypes /\ DomainInv
    BY DEF Init, LifecycleInit, DomainTypes, DomainInv, Active, Defined, States
  <2>2. uuids = 0 /\ call = [c \in Cli \union Handlers |-> NoCall] /\ NoCall.vm = 0
    BY DEF Init, LifecycleInit, NoCall
  <2>3. "vm" \in DOMAIN NoCall /\ 0 \in 0 .. 0
    BY DEF NoCall
  <2>. QED
    BY <2>1, <2>2, <2>3 DEF CallTypes
<1>2. MediaTypes
  BY AtRest, NoUploadIsRecord DEF Init, MediaTypes
<1>3. /\ \A h \in Handlers : work[h] = NoWork /\ Idle(h)
      /\ \A u \in Uploads : upload[u] = NoUpload
  BY DEF Init, LifecycleInit, Idle
<1>4. /\ NoWork.op = "none" /\ NoWork.step = "none" /\ NoUpload.step = "none"
      /\ \A i \in Isos : NoWork.to # i /\ ~HasIso(NoWork.old, i)
  BY CdromMediaAssumption DEF NoWork, NoUpload, HasIso
<1>5. WorkInv /\ LockInv
  BY <1>3, <1>4 DEF WorkInv, Remembers, Deleting, LockInv, Busy, InPublication, Publishing
<1>6. UploadInv /\ StagingInv
  BY <1>3, <1>4 DEF UploadInv, StagingInv, Init
<1>7. \A i : ~Used(i)
  BY DEF Init, LifecycleInit, Used, HasIso
<1>8. UseInv
  BY <1>3, <1>4, <1>7 DEF UseInv
<1>9. DeleteInv
  BY <1>3, <1>4 DEF DeleteInv
<1>10. TrayInv
  BY <1>3, <1>4 DEF TrayInv, Same, Active, Init, LifecycleInit
<1>. QED
  BY <1>1, <1>2, <1>5, <1>6, <1>8, <1>9, <1>10 DEF IInv

-----------------------------------------------------------------------------
(* What follows.                                                             *)

\* The inductive invariant.
THEOREM Invariance == Spec => []IInv
<1>1. ASSUME IInv, [Next]_vars PROVE IInv'
  BY <1>1, DomainStep, MediaTypesStep, WorkStep, LockStep, UploadInvStep, UseStep, DeleteStep,
     TrayStep, StagingStep DEF IInv
<1>. QED
  BY <1>1, InitInv, PTL DEF Spec

\* No ISO is deleted that the definition or the guest has in its tray, whatever is
\* defined, started and stopped while delete_iso looks for one.
THEOREM InUseIsKept == Spec => []MediaHeld
<1>1. IInv => MediaHeld
  BY DEF IInv, UseInv, Used, MediaHeld
<1>. QED
  BY <1>1, Invariance, PTL

\* After set_managed_cdrom_media the guest and the definition have the same media,
\* whichever of its two changes failed.
THEOREM Agreement == Spec => []TraysAgree
<1>1. IInv => TraysAgree
  <2>. SUFFICES ASSUME IInv PROVE TraysAgree
    OBVIOUS
  <2>1. LockFree => ~At("live") /\ ~At("undo")
    BY DEF LockFree, At, NoWork
  <2>. QED
    BY <2>1 DEF IInv, TrayInv, Same, TraysAgree
<1>. QED
  BY <1>1, Invariance, PTL

\* The staging area keeps nothing of an upload that is over, and everything has its
\* type.
THEOREM Sweeping == Spec => []StagingSwept
<1>1. IInv => StagingSwept
  <2>. SUFFICES ASSUME IInv PROVE StagingSwept
    OBVIOUS
  <2>1. TypeOK
    BY DEF IInv, DomainTypes, CallTypes, MediaTypes, DomainInv, TypeOK, LifecycleOK, Works, Definitions
  <2>. QED
    BY <2>1 DEF IInv, StagingInv, StagingSwept
<1>. QED
  BY <1>1, Invariance, PTL

\* publish_iso leaves the whole ISO or nothing of it, and replaces none.
THEOREM Publication == Spec => PublishedOrGone
<1>1. ASSUME IInv, [Next]_vars PROVE [EndsWhole]_vars
  <2>. /\ MediaTypes /\ UploadInv /\ file \in [Isos -> Uploads \union {NoFile}]
       /\ upload \in [Uploads -> UploadRecords]
    BY <1>1 DEF IInv, MediaTypes
  <2>1. ASSUME UNCHANGED <<file, upload>> PROVE EndsWhole
    BY <2>1 DEF EndsWhole, NoUpload, Publishing
  <2>2. ASSUME NEW h \in Handlers, Media(h) PROVE EndsWhole
    <3>1. UNCHANGED upload /\ (UNCHANGED file \/ file' = [file EXCEPT ![work[h].to] = NoFile])
      BY <2>2 DEF Media, Edit, ApplyReads, Define, ReadBoth, Persist, ChangeLive, Undo,
         FindActive, FindPersistent, FindLive, Unlink, Files
    <3>. QED
      BY <3>1 DEF EndsWhole, NoUpload, Publishing
  <2>3. ASSUME NEW u \in Uploads, UploadActs(u) PROVE EndsWhole
    <3>1. \A v \in Uploads \ {u} : upload'[v] = upload[v]
      BY <1>1, <2>3, UploadTouches
    <3>2. \A i \in Isos : Published(i) /\ file'[i] # file[i] => file'[i] = NoFile
      BY <1>1, <2>3, UploadPublishes DEF Published
    <3>3. upload[u].step \in Publishing /\ upload'[u] = NoUpload =>
            (file'[upload[u].iso] = u <=> upload[u].step = "finish")
      <4>. SUFFICES ASSUME upload[u].step \in Publishing, upload'[u] = NoUpload
                    PROVE  file'[upload[u].iso] = u <=> upload[u].step = "finish"
        OBVIOUS
      <4>1. upload[u].iso \in Isos /\ NoUpload.step = "none" /\ NoFile # u
        BY CdromMediaAssumption DEF UploadInv, Publishing, NoUpload
      <4>2. CASE upload[u].step = "link"
        <5>1. UNCHANGED file
          BY <2>3, <4>1, <4>2 DEF UploadActs, UploadStep, Receive, BuildSeed, Admit, NoUpload, Reject, BuilderFails,
             Discard, ClientLeaves, Publish, Link, SyncLink, Unstage, Finish, To, UploadRecords
        <5>. QED
          BY <4>1, <4>2, <5>1 DEF UploadInv, Published
      <4>3. CASE upload[u].step \in {"sync", "unstage"}
        <5>1. Retract(u)
          BY <2>3, <4>1, <4>3 DEF UploadActs, UploadStep, Receive, BuildSeed, Admit, NoUpload, Reject, BuilderFails,
             Discard, ClientLeaves, Publish, Link, SyncLink, Unstage, Finish, To, UploadRecords
        <5>. QED
          BY <4>1, <4>3, <5>1 DEF Retract
      <4>4. CASE upload[u].step = "finish"
        BY <1>1, <2>3, <4>4, UploadPublishes DEF UploadInv
      <4>. QED
        BY <4>2, <4>3, <4>4 DEF Publishing
    <3>. QED
      BY <3>1, <3>2, <3>3 DEF EndsWhole, NoUpload, Publishing
  <2>4. ASSUME Crash \/ Reboot PROVE EndsWhole
    BY <2>4 DEF Crash, Reboot, Forget, EndsWhole
  <2>. QED
    BY <1>1, <2>1, <2>2, <2>3, <2>4, NextSteps DEF vars, media, Start, Files, StartServer
<1>. QED
  BY <1>1, Invariance, PTL DEF Spec, PublishedOrGone
=============================================================================
