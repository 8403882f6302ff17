---------------------------- MODULE VmLifecycle ----------------------------
(***************************************************************************)
(* The life of a VM under the commands of qtr vm and the lifecycle         *)
(* requests of the server (src/src/vm.rs, src/src/web.rs).  A command      *)
(* looks the VM up by its name, finds out its state and then makes one or  *)
(* more calls of libvirt; between any two of its steps others act.  The    *)
(* server's requests hold the resource lock from the first step to the     *)
(* last, the commands of the CLI hold nothing.                             *)
(*                                                                         *)
(* There is one name.  A VM that is defined under it after another was     *)
(* removed is a new one, with a uuid of its own: a handle of the old one   *)
(* is of no use.                                                           *)
(***************************************************************************)
EXTENDS Naturals, Sequences

CONSTANTS
  Cli,       \* commands of the CLI that run at the same time
  Handlers,  \* requests that the server serves at the same time
  NoDef,     \* no definition
  MaxVms     \* bound: how often a VM is defined anew under the name

ASSUME VmLifecycleAssumption ==
  /\ Cli \intersect Handlers = {}
  /\ MaxVms \in Nat \ {0}

VARIABLES
  inactive,   \* the persistent definition, NoDef if there is none
  live,       \* the definition that the guest runs with, NoDef if it is off
  image,      \* the definition in the managed save image, NoDef without one
  state,      \* what virDomainGetState says
  autostart,  \* whether the VM starts with the host
  uuids,      \* how many VMs there have been
  call        \* what each command and request still has to do, and to which VM

domain == <<inactive, live, image, state, autostart, uuids>>

States == {"shutoff", "running", "paused", "pmsuspended"}

NoCall == [vm |-> 0, plan |-> <<>>]

Defined == inactive # NoDef
Active == live # NoDef
Exists == Defined \/ Active
Uuid == IF Defined THEN inactive.uuid ELSE live.uuid

-----------------------------------------------------------------------------
(* What libvirt does (taken from the calls that vm.rs makes).               *)

\* A guest that stops; without a persistent definition that is the end of it.
GoesOff ==
  /\ live' = NoDef
  /\ state' = "shutoff"

\* virDomainCreate goes on from the managed save image if there is one.
Boot ==
  /\ live' = IF image # NoDef THEN image ELSE inactive
  /\ state' = "running"
  /\ image' = NoDef

Create ==
  /\ Defined /\ ~Active
  /\ Boot
  /\ UNCHANGED <<inactive, autostart, uuids>>

Destroy ==
  /\ Active
  /\ GoesOff
  /\ UNCHANGED <<inactive, image, autostart, uuids>>

\* A guest does what it is asked for when it likes, if at all.
Ask == Active /\ UNCHANGED domain

Suspend ==
  /\ Active
  /\ state # "pmsuspended"
  /\ state' = "paused"
  /\ UNCHANGED <<inactive, live, image, autostart, uuids>>

Resume ==
  /\ Active
  /\ state # "pmsuspended"
  /\ state' = "running"
  /\ UNCHANGED <<inactive, live, image, autostart, uuids>>

Save ==
  /\ Active /\ Defined
  /\ image' = live
  /\ GoesOff
  /\ UNCHANGED <<inactive, autostart, uuids>>

RemoveSaved ==
  /\ Defined
  /\ image' = NoDef
  /\ UNCHANGED <<inactive, live, state, autostart, uuids>>

Undefine ==
  /\ Defined
  /\ image = NoDef
  /\ inactive' = NoDef
  /\ autostart' = FALSE
  /\ UNCHANGED <<live, image, state, uuids>>

\* Another VM of that name is not replaced.
DefineXml(definition) ==
  /\ Exists => Uuid = definition.uuid
  /\ inactive' = definition
  /\ uuids' = IF definition.uuid > uuids THEN definition.uuid ELSE uuids
  /\ UNCHANGED <<live, image, state, autostart>>

Perform(what) ==
  \/ what = "create" /\ Create
  \/ what = "destroy" /\ Destroy
  \/ what \in {"shutdown", "reboot"} /\ Ask
  \/ what = "suspend" /\ Suspend
  \/ what = "resume" /\ Resume
  \/ what = "save" /\ Save
  \/ what = "removeSaved" /\ RemoveSaved
  \/ what = "undefine" /\ Undefine

\* Whether the call is one that libvirt carries out.
Possible(what) ==
  /\ what \in {"create", "undefine", "removeSaved", "save"} => Defined
  /\ what = "create" => ~Active
  /\ what \in {"destroy", "shutdown", "reboot", "suspend", "resume", "save"} => Active
  /\ what \in {"suspend", "resume"} => state # "pmsuspended"
  /\ what = "undefine" => image = NoDef

-----------------------------------------------------------------------------
(* What a command decides to do, from what it finds.  A command that has     *)
(* nothing to do, or refuses, makes no plan.                                 *)

\* start_domain, wait_shutdown_domain, undefine_domain: a VM that is already
\* running is as good as one started.
StartPlans ==
  {(IF Active THEN <<>> ELSE <<"create">>) \o after :
     after \in {<<>>, <<"wait">>, <<"wait", "undefine">>}}

StopPlans ==
  {<<how>> \o after : how \in {"shutdown", "destroy"}, after \in {<<>>, <<"wait">>}}

\* Without --force-stop an active VM is refused.
RemovePlans == {IF Active THEN <<"destroy", "undefine">> ELSE <<"undefine">>}

\* A reset is like a reboot here.
RebootPlans == {<<"reboot">>}
SuspendPlans == {<<what>> : what \in IF state = "running" THEN {"suspend"} ELSE {}}
ResumePlans == {<<what>> : what \in IF state = "paused" THEN {"resume"} ELSE {}}

CommandPlans ==
  StartPlans \union RemovePlans \union SuspendPlans \union ResumePlans
  \union (IF Active THEN StopPlans \union RebootPlans \union {<<"save">>} ELSE {})
  \union (IF ~Active /\ image # NoDef THEN {<<"create">>} ELSE {})
  \union (IF image # NoDef THEN {<<"removeSaved">>} ELSE {})

BugRequestPlans ==
  SuspendPlans \union ResumePlans
  \union (IF Active THEN RebootPlans \union {<<"shutdown", "wait">>, <<"destroy">>}
          ELSE {<<"create">>, <<"undefine">>})

\* start_vm, run_locked_vm_action, shutdown_vm, destroy_vm, undefine_vm: none of
\* them waits for the guest.
RequestPlans ==
  SuspendPlans \union ResumePlans
  \union (IF Active THEN RebootPlans \union {<<"shutdown">>, <<"destroy">>}
          ELSE {<<"create">>, <<"undefine">>})

-----------------------------------------------------------------------------
(* Commands and requests.                                                   *)

Idle(c) == call[c] = NoCall

Begin(c, plans) ==
  /\ Idle(c)
  /\ Exists
  /\ \E plan \in plans \ {<<>>} : call' = [call EXCEPT ![c] = [vm |-> Uuid, plan |-> plan]]
  /\ UNCHANGED domain

Command(c) == Begin(c, CommandPlans)
Request(h) == Begin(h, RequestPlans)

\* autostart_by_name asks nothing first.
Autostart ==
  /\ Defined
  /\ autostart' = ~autostart
  /\ UNCHANGED <<inactive, live, image, state, uuids, call>>

NextCall(c) == Head(call[c].plan)
Advance(c) ==
  call' = [call EXCEPT ![c] = IF Len(@.plan) = 1 THEN NoCall ELSE [@ EXCEPT !.plan = Tail(@)]]
End(c) == call' = [call EXCEPT ![c] = NoCall]

HandleValid(c) == Exists /\ Uuid = call[c].vm

\* One call of libvirt; the first that fails ends the command.
LibvirtCall(c) ==
  /\ ~Idle(c)
  /\ NextCall(c) # "wait"
  /\ IF HandleValid(c) /\ Possible(NextCall(c))
     THEN Perform(NextCall(c)) /\ Advance(c)
     ELSE End(c) /\ UNCHANGED domain

\* One round of wait_for_shutdown that finds the VM off, or no VM to ask about.
Waited(c) ==
  /\ ~Idle(c)
  /\ NextCall(c) = "wait"
  /\ IF HandleValid(c) THEN ~Active /\ Advance(c) ELSE End(c)
  /\ UNCHANGED domain

WaitTimesOut(c) ==
  /\ ~Idle(c)
  /\ NextCall(c) = "wait"
  /\ HandleValid(c) /\ Active
  /\ End(c)
  /\ UNCHANGED domain

Step(c) == LibvirtCall(c) \/ Waited(c)

-----------------------------------------------------------------------------
(* The guest and the host.                                                  *)

GuestPowersOff ==
  /\ state = "running"
  /\ GoesOff
  /\ UNCHANGED <<inactive, image, autostart, uuids, call>>

GuestSleeps ==
  /\ state = "running"
  /\ state' = "pmsuspended"
  /\ UNCHANGED <<inactive, live, image, autostart, uuids, call>>

GuestWakes ==
  /\ state = "pmsuspended"
  /\ state' = "running"
  /\ UNCHANGED <<inactive, live, image, autostart, uuids, call>>

HostReboots ==
  /\ call' = [c \in DOMAIN call |-> NoCall]
  /\ IF autostart THEN Boot ELSE GoesOff /\ UNCHANGED image
  /\ UNCHANGED <<inactive, autostart, uuids>>

Environment == GuestPowersOff \/ GuestSleeps \/ GuestWakes

LifecycleInit ==
  /\ inactive = NoDef /\ live = NoDef /\ image = NoDef
  /\ state = "shutoff"
  /\ autostart = FALSE
  /\ uuids = 0
  /\ call = [c \in Cli \union Handlers |-> NoCall]

-----------------------------------------------------------------------------

LifecycleOK ==
  /\ state \in States
  /\ (state = "shutoff") <=> ~Active
  /\ autostart \in BOOLEAN
  /\ autostart => Defined
  /\ image # NoDef => Defined
  /\ \A d \in {inactive, live, image} \ {NoDef} : d.uuid = Uuid /\ d.uuid <= uuids
  /\ \A c \in DOMAIN call : call[c].vm \in 0 .. uuids

=============================================================================
