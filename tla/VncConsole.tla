----------------------------- MODULE VncConsole -----------------------------
(***************************************************************************)
(* The console of a VM in the browser (src/src/web.rs): a ticket is issued *)
(* to an authenticated client, a WebSocket is opened with it, and the      *)
(* server carries bytes between it and the VNC port of the guest that      *)
(* libvirt names (src/src/vm.rs).  VMs start and stop meanwhile, and a     *)
(* port that one has left may be given to another.                         *)
(***************************************************************************)
EXTENDS Naturals

CONSTANTS
  Vms,
  Ports,
  Tickets,   \* the random names of tickets, each of which is used once
  Requests,  \* requests and consoles that the server has at the same time
  Lifetime,  \* how long a ticket is good, VNC_TICKET_LIFETIME
  Off,       \* the guest is not running
  NoPort,    \* it runs without VNC
  NoTicket

ASSUME VncConsoleAssumption ==
  /\ Lifetime \in Nat \ {0}
  /\ Off # NoPort /\ {Off, NoPort} \intersect Ports = {}
  /\ NoTicket \notin Tickets
  /\ Off \notin Vms

VARIABLES
  guest,    \* the VNC port of each VM
  issued,   \* the tickets there have been
  store,    \* vnc_tickets: those that the server knows
  owner,    \* vm_name
  left,     \* how long each is still good; 0 when expires_at has passed
  uses,     \* history: how often each has opened a console
  request   \* what each request is doing

tickets == <<issued, store, owner, left, uses>>
vars == <<guest, tickets, request>>

Idle == [step |-> "none", vm |-> Off, ticket |-> NoTicket, port |-> Off, to |-> Off,
         stopped |-> FALSE, browser |-> "here", in |-> "read", out |-> "read"]

Steps == {"none", "insert", "lookup", "connect", "bridge"}

Running(v) == guest[v] # Off

Set(r, value) == request' = [request EXCEPT ![r] = value]
Over(r) == Set(r, Idle)

-----------------------------------------------------------------------------
(* Guests.                                                                  *)

FreePorts == Ports \ {guest[v] : v \in Vms}

GuestStarts(v) ==
  /\ ~Running(v)
  /\ \E p \in FreePorts \union {NoPort} : guest' = [guest EXCEPT ![v] = p]
  /\ UNCHANGED <<tickets, request>>

\* Its connections break.
GuestStops(v) ==
  /\ Running(v)
  /\ guest' = [guest EXCEPT ![v] = Off]
  /\ request' = [r \in Requests |->
                   IF request[r].step = "connect" /\ request[r].vm = v
                   THEN [request[r] EXCEPT !.stopped = TRUE]
                   ELSE IF request[r].step = "bridge" /\ request[r].to = v
                   THEN [request[r] EXCEPT !.to = Off]
                   ELSE request[r]]
  /\ UNCHANGED tickets

-----------------------------------------------------------------------------
(* Tickets.                                                                 *)

\* create_vnc_ticket: vnc_endpoint_by_name_api finds an endpoint; the ticket
\* follows after that.
AskForTicket(r, v) ==
  /\ request[r] = Idle
  /\ guest[v] \in Ports
  /\ Set(r, [Idle EXCEPT !.step = "insert", !.vm = v])
  /\ UNCHANGED <<guest, tickets>>

\* Tickets that have expired are dropped.
InsertTicket(r, t) ==
  /\ request[r].step = "insert"
  /\ t \notin issued
  /\ issued' = issued \union {t}
  /\ store' = {s \in store : left[s] > 0} \union {t}
  /\ owner' = [owner EXCEPT ![t] = request[r].vm]
  /\ left' = [left EXCEPT ![t] = Lifetime]
  /\ Over(r)
  /\ UNCHANGED <<guest, uses>>

TimePasses ==
  /\ left' = [t \in Tickets |-> IF left[t] > 0 THEN left[t] - 1 ELSE 0]
  /\ UNCHANGED <<guest, issued, store, owner, uses, request>>

\* What is no longer in the store has no time left.
Good(t) == t \in store /\ left[t] > 0

BugConsumeTicket(r, t, v) ==
  /\ request[r] = Idle
  /\ t \in store
  /\ \/ /\ Good(t)
        /\ uses' = [uses EXCEPT ![t] = @ + 1]
        /\ Set(r, [Idle EXCEPT !.step = "lookup", !.vm = v, !.ticket = t])
     \/ ~Good(t) /\ UNCHANGED <<uses, request>>
  /\ store' = store \ {t}
  /\ left' = [left EXCEPT ![t] = 0]
  /\ UNCHANGED <<guest, issued, owner>>

BugKeepTicket(r, t, v) ==
  /\ request[r] = Idle
  /\ Good(t) /\ owner[t] = v
  /\ uses' = [uses EXCEPT ![t] = @ + 1]
  /\ Set(r, [Idle EXCEPT !.step = "lookup", !.vm = v, !.ticket = t])
  /\ UNCHANGED <<guest, issued, store, left, owner>>

\* vnc_ws and consume_vnc_ticket: a ticket that is no longer good is dropped, one
\* for another VM is refused and remains.
ConsumeTicket(r, t, v) ==
  /\ request[r] = Idle
  /\ t \in store
  /\ \/ /\ Good(t) /\ owner[t] = v
        /\ uses' = [uses EXCEPT ![t] = @ + 1]
        /\ Set(r, [Idle EXCEPT !.step = "lookup", !.vm = v, !.ticket = t])
     \/ ~Good(t) /\ UNCHANGED <<uses, request>>
  /\ store' = store \ {t}
  /\ left' = [left EXCEPT ![t] = 0]
  /\ UNCHANGED <<guest, issued, owner>>

-----------------------------------------------------------------------------
(* Consoles.                                                                *)

\* handle_vnc_upgrade: the endpoint of the VM as it is now, or an error.
LookUp(r) ==
  /\ request[r].step = "lookup"
  /\ LET port == guest[request[r].vm]
     IN  IF port \in Ports THEN Set(r, [request[r] EXCEPT !.step = "connect", !.port = port])
         ELSE Over(r)
  /\ UNCHANGED <<guest, tickets>>

\* TcpStream::connect reaches whoever has that port.
Connect(r) ==
  /\ request[r].step = "connect"
  /\ \/ \E v \in Vms : guest[v] = request[r].port /\ 
             Set(r, [request[r] EXCEPT !.step = "bridge", !.port = Off, !.to = v])
     \/ Over(r)
  /\ UNCHANGED <<guest, tickets>>

Bridged(r) == request[r].step = "bridge"

BrowserGone(r) == request[r].browser = "gone"
GuestGone(r) == request[r].to = Off

BrowserLeaves(r) ==
  /\ Bridged(r) /\ ~BrowserGone(r)
  /\ Set(r, [request[r] EXCEPT !.browser = "gone"])
  /\ UNCHANGED <<guest, tickets>>

\* bridge_vnc: a message is read from one side, and while it is written to the
\* other nothing more is read.
Receive(r) ==
  /\ Bridged(r)
  /\ \/ /\ request[r].in = "read" /\ ~BrowserGone(r)
        /\ Set(r, [request[r] EXCEPT !.in = "write"])
     \/ /\ request[r].out = "read" /\ ~GuestGone(r)
        /\ Set(r, [request[r] EXCEPT !.out = "write"])
  /\ UNCHANGED <<guest, tickets>>

Send(r) ==
  /\ Bridged(r)
  /\ \/ /\ request[r].in = "write" /\ ~GuestGone(r)
        /\ Set(r, [request[r] EXCEPT !.in = "read"])
     \/ /\ request[r].out = "write" /\ ~BrowserGone(r)
        /\ Set(r, [request[r] EXCEPT !.out = "read"])
  /\ UNCHANGED <<guest, tickets>>

InEnds(r) ==
  \/ request[r].in = "read" /\ BrowserGone(r)
  \/ request[r].in = "write" /\ GuestGone(r)
OutEnds(r) ==
  \/ request[r].out = "read" /\ GuestGone(r)
  \/ request[r].out = "write" /\ BrowserGone(r)

BugCloseBridge(r) ==
  /\ Bridged(r)
  /\ InEnds(r) /\ OutEnds(r)
  /\ Over(r)
  /\ UNCHANGED <<guest, tickets>>

\* tokio::select: the first of the two directions that ends, ends both.
CloseBridge(r) ==
  /\ Bridged(r)
  /\ InEnds(r) \/ OutEnds(r)
  /\ Over(r)
  /\ UNCHANGED <<guest, tickets>>

\* A restart of the server; its tickets are only in memory.
Restart ==
  /\ store' = {}
  /\ left' = [t \in Tickets |-> 0]
  /\ request' = [r \in Requests |-> Idle]
  /\ UNCHANGED <<guest, issued, owner, uses>>

-----------------------------------------------------------------------------

Init ==
  /\ guest = [v \in Vms |-> Off]
  /\ issued = {} /\ store = {}
  /\ owner = [t \in Tickets |-> Off]
  /\ left = [t \in Tickets |-> 0]
  /\ uses = [t \in Tickets |-> 0]
  /\ request = [r \in Requests |-> Idle]

Serve(r) == LookUp(r) \/ Connect(r) \/ CloseBridge(r)

Next ==
  \/ \E v \in Vms : GuestStarts(v) \/ GuestStops(v)
  \/ \E r \in Requests :
       \/ \E v \in Vms : AskForTicket(r, v)
       \/ \E t \in Tickets : InsertTicket(r, t)
       \/ \E t \in Tickets, v \in Vms : ConsumeTicket(r, t, v)
       \/ BrowserLeaves(r) \/ Receive(r) \/ Send(r)
       \/ Serve(r)
  \/ TimePasses
  \/ Restart

Spec == Init /\ [][Next]_vars

\* Besides the server itself: who is there takes what is sent to it.
FairSpec == Spec /\ \A r \in Requests : WF_vars(Serve(r)) /\ SF_vars(Send(r))

-----------------------------------------------------------------------------
(* What has to hold.                                                        *)

TypeOK ==
  /\ guest \in [Vms -> Ports \union {Off, NoPort}]
  /\ issued \subseteq Tickets /\ store \subseteq issued
  /\ owner \in [Tickets -> Vms \union {Off}]
  /\ left \in [Tickets -> 0 .. Lifetime]
  /\ uses \in [Tickets -> Nat]
  /\ \A r \in Requests : request[r].step \in Steps

standing ==
  [t \in Tickets |->
     IF uses[t] = 1 THEN "used"
     ELSE IF uses[t] > 1 THEN "abused"
     ELSE IF Good(t) THEN "valid"
     ELSE IF t \in issued THEN "void"
     ELSE "unissued"]

Promise == INSTANCE TicketUse WITH NoVm <- Off, standing <- standing, owner <- owner

\* A ticket opens one console, once, in its time, whatever is asked at the same
\* time, before and after a restart.
TicketsHonoured == Promise!Spec

\* A console shows the guest of the VM that its ticket was issued for, although the
\* port is looked up after the ticket and dialled after that; the exception is a VM
\* that stopped in between, whose port another may have.
RightGuest ==
  /\ TypeOK
  /\ \A r \in Requests :
       Bridged(r) /\ ~request[r].stopped =>
         request[r].to \in {Off, owner[request[r].ticket]}

\* A console that has lost its browser or its guest is closed, although the server
\* may be in the middle of writing to the one that is left.
BridgeEnds ==
  \A r \in Requests : (Bridged(r) /\ (BrowserGone(r) \/ GuestGone(r))) ~> ~Bridged(r)

=============================================================================
