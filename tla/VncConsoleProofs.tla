-------------------------- MODULE VncConsoleProofs --------------------------
(***************************************************************************)
(* Proofs about VncConsole, for any number of VMs, ports, tickets and      *)
(* requests and any lifetime of a ticket.                                  *)
(***************************************************************************)
EXTENDS VncConsole, TLAPS

RequestRecord ==
  [step : Steps, vm : Vms \union {Off}, ticket : Tickets \union {NoTicket},
   port : Ports \union {Off}, to : Vms \union {Off}, stopped : BOOLEAN,
   browser : {"here", "gone"}, in : {"read", "write"}, out : {"read", "write"}]

StateInv ==
  /\ guest \in [Vms -> Ports \union {Off, NoPort}]
  /\ issued \subseteq Tickets /\ store \subseteq issued
  /\ owner \in [Tickets -> Vms \union {Off}]
  /\ left \in [Tickets -> 0 .. Lifetime]
  /\ uses \in [Tickets -> Nat]
  /\ request \in [Requests -> RequestRecord]

\* No port belongs to two guests.
PortInv ==
  \A v, w \in Vms : guest[v] \in Ports /\ guest[v] = guest[w] => v = w

\* What the server still knows has not been used, and what it has forgotten, or
\* never known, has no time left.
TicketInv ==
  \A t \in Tickets :
    /\ uses[t] \in {0, 1}
    /\ t \in store \/ t \notin issued => uses[t] = 0
    /\ t \notin store => left[t] = 0

\* A request that has consumed a ticket acts for the ticket's VM, and knows the port
\* of that VM for as long as the VM does not stop.
RequestOK(q) ==
  /\ q.step = "insert" => q.vm \in Vms
  /\ q.step \in {"lookup", "connect", "bridge"} =>
       q.ticket \in issued /\ q.vm \in Vms /\ owner[q.ticket] = q.vm
  /\ q.step = "connect" =>
       q.port \in Ports /\ (q.stopped = TRUE \/ guest[q.vm] = q.port)
  /\ q.step = "bridge" =>
       q.stopped = TRUE \/ q.to \in {Off, q.vm}

RequestInv == \A r \in Requests : RequestOK(request[r])

IInv == StateInv /\ PortInv /\ TicketInv /\ RequestInv

-----------------------------------------------------------------------------
(* The invariant is inductive: each of its parts, over the actions that can *)
(* disturb it.                                                              *)

\* A request that is at rest.
LEMMA IdleIsRecord == Idle \in RequestRecord
BY DEF Idle, RequestRecord, Steps

\* No ticket, no console, no guest.
LEMMA InitInv == Init => IInv
<1> SUFFICES ASSUME Init PROVE IInv
  OBVIOUS
<1>1. StateInv
  BY IdleIsRecord, VncConsoleAssumption DEF Init, StateInv
<1>2. PortInv
  BY VncConsoleAssumption DEF Init, PortInv
<1>3. TicketInv
  BY DEF Init, TicketInv
<1>4. RequestInv
  BY DEF Init, RequestInv, RequestOK, Idle
<1>. QED
  BY <1>1, <1>2, <1>3, <1>4 DEF IInv

\* What a request turns into.
LEMMA Replaced ==
  ASSUME request \in [Requests -> RequestRecord],
         NEW r \in Requests, NEW q \in RequestRecord, Set(r, q)
  PROVE  /\ request' \in [Requests -> RequestRecord]
         /\ request'[r] = q
         /\ \A s \in Requests \ {r} : request'[s] = request[s]
BY DEF Set

\* A request that is going to insert a ticket.
LEMMA Asking ==
  ASSUME NEW v \in Vms, NEW q, q = [Idle EXCEPT !.step = "insert", !.vm = v]
  PROVE  q \in RequestRecord /\ q.step = "insert" /\ q.vm = v
BY IdleIsRecord DEF RequestRecord, Steps, Idle

\* Of what a request is while it carries bytes, and of what a guest that stops does
\* to it.
LEMMA Carrying ==
  ASSUME NEW p \in RequestRecord, NEW q,
         \/ q = [p EXCEPT !.browser = "gone"]
         \/ \E way \in {"read", "write"} : q = [p EXCEPT !.in = way]
         \/ \E way \in {"read", "write"} : q = [p EXCEPT !.out = way]
  PROVE  /\ q \in RequestRecord /\ q.step = p.step /\ q.to = p.to
         /\ q.vm = p.vm /\ q.ticket = p.ticket /\ q.stopped = p.stopped
BY DEF RequestRecord

\* What a guest that stops does to a request.
LEMMA Stopping ==
  ASSUME NEW p \in RequestRecord, NEW q, q = [p EXCEPT !.stopped = TRUE]
  PROVE  /\ q \in RequestRecord /\ q.step = p.step /\ q.port = p.port
         /\ q.vm = p.vm /\ q.ticket = p.ticket /\ q.stopped = TRUE
BY DEF RequestRecord

\* What it does to a console that is connected to it.
LEMMA Breaking ==
  ASSUME NEW p \in RequestRecord, NEW q, q = [p EXCEPT !.to = Off]
  PROVE  /\ q \in RequestRecord /\ q.step = p.step
         /\ q.vm = p.vm /\ q.ticket = p.ticket /\ q.to = Off
BY DEF RequestRecord

\* The record each action of a request leaves behind.
LEMMA Successors ==
  ASSUME IInv, NEW r \in Requests
  PROVE  /\ \A v \in Vms : AskForTicket(r, v) =>
              \E q \in RequestRecord : Set(r, q) /\ q.step = "insert" /\ q.vm = v
         /\ \A t \in Tickets, v \in Vms : ConsumeTicket(r, t, v) =>
              \/ UNCHANGED request
              \/ \E q \in RequestRecord :
                   Set(r, q) /\ q.step = "lookup" /\ q.vm = v /\ q.ticket = t
         /\ BrowserLeaves(r) \/ Receive(r) \/ Send(r) =>
              \E q \in RequestRecord :
                /\ Set(r, q) /\ q.step = "bridge" /\ q.to = request[r].to
                /\ q.vm = request[r].vm /\ q.ticket = request[r].ticket
                /\ q.stopped = request[r].stopped
         /\ LookUp(r) =>
              \/ Set(r, Idle)
              \/ \E q \in RequestRecord :
                   /\ Set(r, q) /\ q.step = "connect" /\ q.port = guest[request[r].vm]
                   /\ q.port \in Ports
                   /\ q.vm = request[r].vm /\ q.ticket = request[r].ticket
         /\ Connect(r) =>
              \/ Set(r, Idle)
              \/ \E q \in RequestRecord :
                   /\ Set(r, q) /\ q.step = "bridge"
                   /\ q.to \in Vms /\ guest[q.to] = request[r].port
                   /\ q.vm = request[r].vm /\ q.ticket = request[r].ticket
                   /\ q.stopped = request[r].stopped
<1>. request[r] \in RequestRecord
  BY DEF IInv, StateInv
<1>1. ASSUME NEW v \in Vms, AskForTicket(r, v)
      PROVE  \E q \in RequestRecord : Set(r, q) /\ q.step = "insert" /\ q.vm = v
  <2>1. PICK q : q = [Idle EXCEPT !.step = "insert", !.vm = v]
    OBVIOUS
  <2>. QED
    BY <1>1, <2>1, Asking DEF AskForTicket
<1>2. ASSUME NEW t \in Tickets, NEW v \in Vms, ConsumeTicket(r, t, v), request' # request
      PROVE  \E q \in RequestRecord :
               Set(r, q) /\ q.step = "lookup" /\ q.vm = v /\ q.ticket = t
  <2>1. PICK q : q = [Idle EXCEPT !.step = "lookup", !.vm = v, !.ticket = t]
    OBVIOUS
  <2>2. q \in RequestRecord /\ q.step = "lookup" /\ q.vm = v /\ q.ticket = t
    BY <2>1, IdleIsRecord DEF RequestRecord, Steps, Idle
  <2>3. Set(r, q)
    BY <1>2, <2>1 DEF ConsumeTicket
  <2>. QED
    BY <2>2, <2>3
<1>3. ASSUME BrowserLeaves(r) \/ Receive(r) \/ Send(r)
      PROVE  \E q \in RequestRecord :
                /\ Set(r, q) /\ q.step = "bridge" /\ q.to = request[r].to
                /\ q.vm = request[r].vm /\ q.ticket = request[r].ticket
                /\ q.stopped = request[r].stopped
  <2>1. request[r].step = "bridge"
    BY <1>3 DEF BrowserLeaves, Receive, Send, Bridged
  <2>2. PICK q : /\ Set(r, q)
                 /\ \/ q = [request[r] EXCEPT !.browser = "gone"]
                    \/ \E way \in {"read", "write"} : q = [request[r] EXCEPT !.in = way]
                    \/ \E way \in {"read", "write"} : q = [request[r] EXCEPT !.out = way]
    BY <1>3 DEF BrowserLeaves, Receive, Send
  <2>. QED
    BY <2>1, <2>2, Carrying
<1>4. ASSUME LookUp(r), ~Set(r, Idle)
      PROVE  \E q \in RequestRecord :
                   /\ Set(r, q) /\ q.step = "connect" /\ q.port = guest[request[r].vm]
                   /\ q.port \in Ports
                   /\ q.vm = request[r].vm /\ q.ticket = request[r].ticket
  <2>1. guest[request[r].vm] \in Ports
    BY <1>4 DEF LookUp, Over
  <2>2. PICK q : q = [request[r] EXCEPT !.step = "connect", !.port = guest[request[r].vm]]
    OBVIOUS
  <2>3. Set(r, q)
    BY <1>4, <2>1, <2>2 DEF LookUp
  <2>4. /\ q \in RequestRecord /\ q.step = "connect" /\ q.port = guest[request[r].vm]
        /\ q.vm = request[r].vm /\ q.ticket = request[r].ticket
    BY <2>1, <2>2 DEF RequestRecord, Steps
  <2>. QED
    BY <2>1, <2>3, <2>4
<1>5. ASSUME Connect(r), ~Set(r, Idle)
      PROVE  \E q \in RequestRecord :
                   /\ Set(r, q) /\ q.step = "bridge"
                   /\ q.to \in Vms /\ guest[q.to] = request[r].port
                   /\ q.vm = request[r].vm /\ q.ticket = request[r].ticket
                   /\ q.stopped = request[r].stopped
  <2>1. PICK v \in Vms :
          /\ guest[v] = request[r].port
          /\ Set(r, [request[r] EXCEPT !.step = "bridge", !.port = Off, !.to = v])
    BY <1>5 DEF Connect, Over
  <2>2. PICK q : q = [request[r] EXCEPT !.step = "bridge", !.port = Off, !.to = v]
    OBVIOUS
  <2>3. /\ q \in RequestRecord /\ q.step = "bridge" /\ q.to = v
        /\ q.vm = request[r].vm /\ q.ticket = request[r].ticket
        /\ q.stopped = request[r].stopped
    BY <2>2 DEF RequestRecord, Steps
  <2>4. Set(r, q)
    BY <2>1, <2>2
  <2>. QED
    BY <2>1, <2>3, <2>4
<1>. QED
  BY <1>1, <1>2, <1>3, <1>4, <1>5
\* What a request or a console does in a step.
Acts(r) ==
  \/ \E v \in Vms : AskForTicket(r, v)
  \/ \E t \in Tickets : InsertTicket(r, t)
  \/ \E t \in Tickets, v \in Vms : ConsumeTicket(r, t, v)
  \/ BrowserLeaves(r) \/ Receive(r) \/ Send(r)
  \/ Serve(r)

\* Who takes a step: a guest, a request, the clock, or the server that restarts.
LEMMA NextSteps ==
  ASSUME [Next]_vars
  PROVE  \/ \E v \in Vms : GuestStarts(v) \/ GuestStops(v)
         \/ \E r \in Requests : Acts(r)
         \/ TimePasses \/ Restart \/ UNCHANGED vars
BY DEF Next, Acts

\* A request that takes a step changes no guest and no other request.
LEMMA ActsReplace ==
  ASSUME IInv, NEW r \in Requests, Acts(r)
  PROVE  /\ guest' = guest
         /\ request' \in [Requests -> RequestRecord]
         /\ \A s \in Requests \ {r} : request'[s] = request[s]
<1>. request \in [Requests -> RequestRecord]
  BY DEF IInv, StateInv
<1>1. guest' = guest
  BY DEF Acts, AskForTicket, InsertTicket, ConsumeTicket, BrowserLeaves, Receive, Send,
         Serve, LookUp, Connect, CloseBridge
<1>2. UNCHANGED request \/ \E q \in RequestRecord : Set(r, q)
  <2>1. CASE (\E t \in Tickets : InsertTicket(r, t)) \/ CloseBridge(r)
    BY <2>1, IdleIsRecord DEF InsertTicket, CloseBridge, Over
  <2>. QED
    BY <2>1, Successors, IdleIsRecord DEF Acts, Serve
<1>. QED
  BY <1>1, <1>2, Replaced

\* The shapes of the variables.
LEMMA StateStep == ASSUME IInv, [Next]_vars PROVE StateInv'
<1>. StateInv
  BY DEF IInv
<1>1. ASSUME NEW v \in Vms, GuestStarts(v)
      PROVE  StateInv'
  BY <1>1 DEF GuestStarts, StateInv, FreePorts, tickets
<1>2. ASSUME NEW v \in Vms, GuestStops(v)
      PROVE  StateInv'
  <2>1. request' \in [Requests -> RequestRecord]
    BY <1>2, Stopping, Breaking DEF GuestStops, StateInv
  <2>. QED
    BY <1>2, <2>1 DEF GuestStops, StateInv, tickets
<1>3. ASSUME NEW r \in Requests, Acts(r)
      PROVE  StateInv'
  <2>1. ASSUME NEW t \in Tickets, InsertTicket(r, t)
        PROVE  StateInv'
    <3>1. request[r].vm \in Vms
      BY <2>1 DEF InsertTicket, IInv, RequestInv, RequestOK
    <3>2. guest' = guest /\ request' \in [Requests -> RequestRecord]
      BY <1>3, ActsReplace
    <3>. QED
      BY <2>1, <3>1, <3>2, VncConsoleAssumption DEF InsertTicket, StateInv
  <2>2. ASSUME NEW t \in Tickets, NEW v \in Vms, ConsumeTicket(r, t, v)
        PROVE  StateInv'
    <3>1. guest' = guest /\ request' \in [Requests -> RequestRecord]
      BY <1>3, ActsReplace
    <3>2. uses' \in [Tickets -> Nat]
      BY <2>2 DEF ConsumeTicket, StateInv
    <3>3. left' \in [Tickets -> 0 .. Lifetime]
      BY <2>2, VncConsoleAssumption DEF ConsumeTicket, StateInv
    <3>. QED
      BY <2>2, <3>1, <3>2, <3>3 DEF ConsumeTicket, StateInv
  <2>3. CASE UNCHANGED tickets
    BY <1>3, <2>3, ActsReplace DEF StateInv, tickets
  <2>. QED
    BY <1>3, <2>1, <2>2, <2>3
       DEF Acts, AskForTicket, BrowserLeaves, Receive, Send, Serve, LookUp, Connect,
           CloseBridge
<1>4. CASE TimePasses
  BY <1>4, VncConsoleAssumption DEF TimePasses, StateInv
<1>5. CASE Restart
  BY <1>5, IdleIsRecord, VncConsoleAssumption DEF Restart, StateInv
<1>6. CASE UNCHANGED vars
  BY <1>6 DEF vars, tickets, StateInv
<1>. QED
  BY <1>1, <1>2, <1>3, <1>4, <1>5, <1>6, NextSteps

\* A port is one guest's: one that starts takes a free one.
LEMMA PortStep == ASSUME IInv, [Next]_vars PROVE PortInv'
<1>. StateInv /\ PortInv
  BY DEF IInv
<1>1. ASSUME NEW v \in Vms, GuestStarts(v)
      PROVE  PortInv'
  BY <1>1, VncConsoleAssumption DEF GuestStarts, FreePorts, PortInv, StateInv
<1>2. ASSUME NEW v \in Vms, GuestStops(v)
      PROVE  PortInv'
  BY <1>2, VncConsoleAssumption DEF GuestStops, PortInv, StateInv
<1>3. CASE guest' = guest
  BY <1>3 DEF PortInv
<1>. QED
  BY <1>1, <1>2, <1>3, NextSteps, ActsReplace DEF TimePasses, Restart, vars

\* A ticket in the store has not been used, and one that is not has no time left.
LEMMA TicketStep == ASSUME IInv, [Next]_vars PROVE TicketInv'
<1>. StateInv /\ TicketInv
  BY DEF IInv
<1>1. ASSUME NEW r \in Requests, NEW t \in Tickets, InsertTicket(r, t)
      PROVE  TicketInv'
  BY <1>1 DEF InsertTicket, TicketInv, StateInv
<1>2. ASSUME NEW r \in Requests, NEW t \in Tickets, NEW v \in Vms, ConsumeTicket(r, t, v)
      PROVE  TicketInv'
  BY <1>2 DEF ConsumeTicket, TicketInv, StateInv, Good
<1>3. CASE TimePasses
  BY <1>3, VncConsoleAssumption DEF TimePasses, TicketInv, StateInv
<1>4. CASE Restart
  BY <1>4 DEF Restart, TicketInv, StateInv
<1>5. CASE UNCHANGED tickets
  BY <1>5 DEF TicketInv, tickets
<1>. QED
  BY <1>1, <1>2, <1>3, <1>4, <1>5, NextSteps
     DEF GuestStarts, GuestStops, Acts, AskForTicket, BrowserLeaves, Receive, Send,
         Serve, LookUp, Connect, CloseBridge, vars
\* A request that the step leaves alone is as right as before.
LEMMA OthersKept ==
  ASSUME IInv, NEW s \in Requests, request'[s] = request[s],
         guest' = guest, issued \subseteq issued',
         \A t \in issued : owner'[t] = owner[t]
  PROVE  RequestOK(request[s])'
BY DEF IInv, RequestInv, RequestOK

\* A request that is at rest relies on nothing.
LEMMA IdleOK ==
  ASSUME NEW s \in Requests, request'[s] = Idle
  PROVE  RequestOK(request[s])'
BY DEF Idle, RequestOK

\* The port that is dialled is the one of the ticket's VM, or that has stopped: no
\* other guest answers there.
LEMMA ConnectStep ==
  ASSUME IInv, NEW r \in Requests, Connect(r)
  PROVE  RequestOK(request[r])'
<1>. StateInv /\ RequestOK(request[r]) /\ request[r].step = "connect"
  BY DEF IInv, RequestInv, Connect
<1>1. CASE Set(r, Idle)
  BY <1>1, IdleIsRecord, Replaced, IdleOK DEF StateInv
<1>2. CASE ~Set(r, Idle)
  <2>1. PICK q \in RequestRecord :
          /\ Set(r, q) /\ q.step = "bridge"
          /\ q.to \in Vms /\ guest[q.to] = request[r].port
          /\ q.vm = request[r].vm /\ q.ticket = request[r].ticket
          /\ q.stopped = request[r].stopped
    BY <1>2, Successors
  <2>2. request'[r] = q
    BY <2>1, Replaced DEF StateInv
  <2>3. request[r].stopped = TRUE \/ q.to = q.vm
    BY <2>1 DEF IInv, PortInv, RequestOK
  <2>4. UNCHANGED <<issued, owner>>
    BY DEF Connect, tickets
  <2>. QED
    BY <2>1, <2>2, <2>3, <2>4 DEF RequestOK
<1>. QED
  BY <1>1, <1>2

\* What a request relies on after its own step.
LEMMA ActsOK ==
  ASSUME IInv, NEW r \in Requests, Acts(r)
  PROVE  RequestOK(request[r])'
<1>. StateInv /\ RequestOK(request[r])
  BY DEF IInv, RequestInv
<1>1. ASSUME NEW v \in Vms, AskForTicket(r, v)
      PROVE  RequestOK(request[r])'
  BY <1>1, Successors, Replaced DEF StateInv, RequestOK
<1>2. CASE \E t \in Tickets : InsertTicket(r, t)
  BY <1>2, IdleIsRecord, Replaced, IdleOK DEF InsertTicket, Over, StateInv
<1>3. ASSUME NEW t \in Tickets, NEW v \in Vms, ConsumeTicket(r, t, v)
      PROVE  RequestOK(request[r])'
  <2>1. UNCHANGED <<guest, issued, owner>>
    BY <1>3 DEF ConsumeTicket
  <2>2. CASE UNCHANGED request
    BY <2>1, <2>2, OthersKept
  <2>3. CASE ~UNCHANGED request
    <3>1. PICK q \in RequestRecord :
            Set(r, q) /\ q.step = "lookup" /\ q.vm = v /\ q.ticket = t
      BY <1>3, <2>3, Successors
    <3>2. request'[r] = q
      BY <3>1, Replaced DEF StateInv
    <3>3. t \in issued /\ owner[t] = v
      BY <1>3, <2>3 DEF ConsumeTicket, StateInv
    <3>. QED
      BY <2>1, <3>1, <3>2, <3>3 DEF RequestOK
  <2>. QED
    BY <2>2, <2>3
<1>4. CASE BrowserLeaves(r) \/ Receive(r) \/ Send(r)
  <2>1. PICK q \in RequestRecord :
          /\ Set(r, q) /\ q.step = "bridge" /\ q.to = request[r].to
          /\ q.vm = request[r].vm /\ q.ticket = request[r].ticket
          /\ q.stopped = request[r].stopped
    BY <1>4, Successors
  <2>2. request'[r] = q
    BY <2>1, Replaced DEF StateInv
  <2>3. request[r].step = "bridge" /\ UNCHANGED <<issued, owner>>
    BY <1>4 DEF BrowserLeaves, Receive, Send, Bridged, tickets
  <2>. QED
    BY <2>1, <2>2, <2>3 DEF RequestOK
<1>5. CASE LookUp(r)
  <2>1. CASE Set(r, Idle)
    BY <2>1, IdleIsRecord, Replaced, IdleOK DEF StateInv
  <2>2. CASE ~Set(r, Idle)
    <3>1. PICK q \in RequestRecord :
            /\ Set(r, q) /\ q.step = "connect" /\ q.port = guest[request[r].vm]
            /\ q.port \in Ports
            /\ q.vm = request[r].vm /\ q.ticket = request[r].ticket
      BY <1>5, <2>2, Successors
    <3>2. request'[r] = q
      BY <3>1, Replaced DEF StateInv
    <3>3. request[r].step = "lookup" /\ UNCHANGED <<guest, issued, owner>>
      BY <1>5 DEF LookUp, tickets
    <3>. QED
      BY <3>1, <3>2, <3>3 DEF RequestOK
  <2>. QED
    BY <2>1, <2>2
<1>6. CASE CloseBridge(r)
  BY <1>6, IdleIsRecord, Replaced, IdleOK DEF CloseBridge, Over, StateInv
<1>. QED
  BY <1>1, <1>2, <1>3, <1>4, <1>5, <1>6, ConnectStep DEF Acts, Serve

\* Tickets are issued once, so that their VM never changes.
LEMMA OwnersKept ==
  ASSUME IInv, [Next]_vars
  PROVE  issued \subseteq issued' /\ \A t \in issued : owner'[t] = owner[t]
<1>. StateInv
  BY DEF IInv
<1>1. ASSUME NEW r \in Requests, NEW t \in Tickets, InsertTicket(r, t)
      PROVE  issued \subseteq issued' /\ \A u \in issued : owner'[u] = owner[u]
  BY <1>1 DEF InsertTicket, StateInv
<1>2. CASE UNCHANGED <<issued, owner>>
  BY <1>2
<1>. QED
  BY <1>1, <1>2, NextSteps
     DEF GuestStarts, GuestStops, Acts, AskForTicket, ConsumeTicket, BrowserLeaves,
         Receive, Send, Serve, LookUp, Connect, CloseBridge, TimePasses, Restart,
         vars, tickets

\* What each request relies on, after a step of anybody.
LEMMA RequestStep == ASSUME IInv, [Next]_vars PROVE RequestInv'
<1>. StateInv /\ RequestInv
  BY DEF IInv
<1>1. ASSUME NEW v \in Vms, GuestStarts(v), NEW s \in Requests
      PROVE  RequestOK(request[s])'
  <2>1. /\ UNCHANGED <<issued, owner, request>>
        /\ \A w \in Vms : guest[w] \in Ports => guest'[w] = guest[w]
    BY <1>1, VncConsoleAssumption DEF GuestStarts, Running, StateInv, tickets
  <2>. QED
    BY <2>1 DEF RequestInv, RequestOK
<1>2. ASSUME NEW v \in Vms, GuestStops(v), NEW s \in Requests
      PROVE  RequestOK(request[s])'
  <2>. RequestOK(request[s]) /\ request[s] \in RequestRecord
    BY DEF RequestInv, StateInv
  <2>1. UNCHANGED <<issued, owner>> /\ \A w \in Vms \ {v} : guest'[w] = guest[w]
    BY <1>2 DEF GuestStops, StateInv, tickets
  <2>2. CASE request[s].step = "connect" /\ request[s].vm = v
    <3>1. request'[s] = [request[s] EXCEPT !.stopped = TRUE]
      BY <1>2, <2>2 DEF GuestStops
    <3>2. PICK q : q = request'[s]
      OBVIOUS
    <3>3. q.step = "connect" /\ q.port = request[s].port /\ q.vm = v
          /\ q.ticket = request[s].ticket /\ q.stopped = TRUE
      BY <2>2, <3>1, <3>2, Stopping
    <3>. QED
      BY <2>1, <2>2, <3>2, <3>3 DEF RequestOK
  <2>3. CASE request[s].step = "bridge" /\ request[s].to = v
    <3>1. request'[s] = [request[s] EXCEPT !.to = Off]
      BY <1>2, <2>3 DEF GuestStops
    <3>2. PICK q : q = request'[s]
      OBVIOUS
    <3>3. q.step = "bridge" /\ q.to = Off /\ q.vm = request[s].vm
          /\ q.ticket = request[s].ticket
      BY <2>3, <3>1, <3>2, Breaking
    <3>. QED
      BY <2>1, <2>3, <3>2, <3>3 DEF RequestOK
  <2>4. CASE ~(\/ request[s].step = "connect" /\ request[s].vm = v
               \/ request[s].step = "bridge" /\ request[s].to = v)
    <3>1. request'[s] = request[s]
      BY <1>2, <2>4 DEF GuestStops
    <3>. QED
      BY <2>1, <2>4, <3>1 DEF RequestOK
  <2>. QED
    BY <2>2, <2>3, <2>4
<1>3. ASSUME NEW r \in Requests, Acts(r), NEW s \in Requests
      PROVE  RequestOK(request[s])'
  BY <1>3, ActsOK, ActsReplace, OwnersKept, OthersKept
<1>4. ASSUME TimePasses \/ UNCHANGED vars, NEW s \in Requests
      PROVE  RequestOK(request[s])'
  BY <1>4, OthersKept DEF TimePasses, vars, tickets
<1>5. ASSUME Restart, NEW s \in Requests
      PROVE  RequestOK(request[s])'
  BY <1>5, IdleOK DEF Restart
<1>. QED
  BY <1>1, <1>2, <1>3, <1>4, <1>5, NextSteps DEF RequestInv

\* The inductive invariant of the consoles and their tickets.
THEOREM Invariance == Spec => []IInv
<1>1. ASSUME IInv, [Next]_vars PROVE IInv'
  BY <1>1, StateStep, PortStep, TicketStep, RequestStep DEF IInv
<1>. QED
  BY InitInv, <1>1, PTL DEF Spec

-----------------------------------------------------------------------------
(* What a client can rely on.                                               *)

\* vnc_ws: whoever opens a console with a ticket sees the guest of the VM that the
\* ticket was issued for.
THEOREM ConsoleIsRight == Spec => []RightGuest
<1>1. ASSUME IInv PROVE TypeOK
  <2>1. ASSUME NEW r \in Requests PROVE request[r].step \in Steps
    BY <1>1 DEF IInv, StateInv, RequestRecord
  <2>. QED
    BY <1>1, <2>1 DEF IInv, StateInv, TypeOK
<1>2. ASSUME IInv, NEW r \in Requests, Bridged(r), ~request[r].stopped
      PROVE  request[r].to \in {Off, owner[request[r].ticket]}
  BY <1>2 DEF IInv, RequestInv, RequestOK, Bridged
<1>3. IInv => RightGuest
  BY <1>1, <1>2 DEF RightGuest
<1>. QED
  BY <1>3, Invariance, PTL
\* What a ticket stands for, in a state of the invariant.
LEMMA StandingOf ==
  ASSUME IInv, NEW t \in Tickets
  PROVE  /\ uses[t] = 1 => standing[t] = "used"
         /\ uses[t] = 0 /\ Good(t) => standing[t] = "valid"
         /\ uses[t] = 0 /\ ~Good(t) /\ t \in issued => standing[t] = "void"
         /\ t \notin issued => standing[t] = "unissued"
         /\ uses[t] \in {0, 1} /\ (uses[t] = 1 => t \in issued \ store)
         /\ Good(t) => uses[t] = 0 /\ t \in issued
BY DEF standing, IInv, StateInv, TicketInv, Good

\* To insert a ticket is to issue it.
LEMMA InsertIssues ==
  ASSUME IInv, IInv', NEW r \in Requests, NEW t \in Tickets, InsertTicket(r, t)
  PROVE  Promise!Issue(t, request[r].vm)
<1>. StateInv /\ TicketInv
  BY DEF IInv
<1>1. t \notin store /\ uses[t] = 0
  BY DEF InsertTicket, StateInv, TicketInv
<1>2. standing[t] = "unissued"
  BY StandingOf DEF InsertTicket
<1>3. standing'[t] = "valid"
  BY <1>1, VncConsoleAssumption DEF InsertTicket, StateInv, standing, Good
<1>4. ASSUME NEW s \in Tickets \ {t} PROVE standing'[s] = standing[s]
  <2>1. uses'[s] = uses[s] /\ left'[s] = left[s] /\ (s \in issued' <=> s \in issued)
    BY DEF InsertTicket, StateInv
  <2>2. Good(s)' <=> Good(s)
    BY <2>1 DEF InsertTicket, Good
  <2>. QED
    BY <2>1, <2>2 DEF standing
<1>5. standing' = [standing EXCEPT ![t] = "valid"]
  BY <1>3, <1>4 DEF standing
<1>. QED
  BY <1>2, <1>5 DEF Promise!Issue, InsertTicket

\* To consume a ticket is to use it, or nothing when it has expired.
LEMMA ConsumeUses ==
  ASSUME IInv, IInv', NEW r \in Requests, NEW t \in Tickets, NEW v \in Vms,
         ConsumeTicket(r, t, v)
  PROVE  Promise!Use(t) \/ UNCHANGED <<standing, owner>>
<1>. StateInv /\ TicketInv /\ t \in store /\ t \in issued
  BY DEF IInv, StateInv, ConsumeTicket
<1>1. ~Good(t)'
  BY DEF ConsumeTicket, Good
<1>2. ASSUME NEW s \in Tickets \ {t} PROVE standing'[s] = standing[s]
  <2>1. uses'[s] = uses[s] /\ left'[s] = left[s] /\ (s \in issued' <=> s \in issued)
    BY DEF ConsumeTicket, StateInv
  <2>2. Good(s)' <=> Good(s)
    BY <2>1 DEF ConsumeTicket, Good
  <2>. QED
    BY <2>1, <2>2 DEF standing
<1>3. CASE Good(t)
  <2>1. uses[t] = 0 /\ uses'[t] = 1
    BY <1>3 DEF ConsumeTicket, StateInv, TicketInv
  <2>2. standing[t] = "valid" /\ standing'[t] = "used"
    BY <1>3, <2>1 DEF standing
  <2>3. standing' = [standing EXCEPT ![t] = "used"]
    BY <1>2, <2>2 DEF standing
  <2>. QED
    BY <2>2, <2>3 DEF Promise!Use, ConsumeTicket
<1>4. CASE ~Good(t)
  <2>1. uses[t] = 0 /\ UNCHANGED <<uses, issued, owner>>
    BY <1>4 DEF ConsumeTicket, TicketInv
  <2>2. standing'[t] = standing[t]
    BY <1>1, <1>4, <2>1 DEF standing
  <2>3. standing' = standing
    BY <1>2, <2>2 DEF standing
  <2>. QED
    BY <2>1, <2>3
<1>. QED
  BY <1>3, <1>4

\* Time, and a restart, only take the validity of tickets away.
LEMMA LapseExpires ==
  ASSUME IInv, IInv', TimePasses \/ Restart
  PROVE  \E expired \in SUBSET Tickets : Promise!Expire(expired)
<1>. DEFINE expired == {t \in Tickets : standing[t] = "valid" /\ ~Good(t)'}
<1>. StateInv /\ TicketInv
  BY DEF IInv
<1>1. UNCHANGED <<issued, owner, uses>>
  BY DEF TimePasses, Restart
<1>2. ASSUME NEW t \in Tickets, Good(t)' PROVE Good(t)
  BY <1>2 DEF TimePasses, Restart, Good, StateInv
<1>3. ASSUME NEW t \in Tickets
      PROVE  standing'[t] = IF t \in expired THEN "void" ELSE standing[t]
  <2>1. CASE uses[t] = 1
    BY <1>1, <2>1, StandingOf DEF standing
  <2>2. CASE uses[t] = 0 /\ Good(t)'
    BY <1>1, <1>2, <2>2, StandingOf DEF standing
  <2>3. CASE uses[t] = 0 /\ ~Good(t)'
    BY <1>1, <2>3, StandingOf DEF standing
  <2>. QED
    BY <2>1, <2>2, <2>3 DEF TicketInv
<1>4. expired \subseteq Promise!Valid
  BY DEF Promise!Valid
<1>5. standing' = [t \in Tickets |-> IF t \in expired THEN "void" ELSE standing[t]]
  BY <1>3 DEF standing
<1>. QED
  BY <1>1, <1>4, <1>5 DEF Promise!Expire

\* consume_vnc_ticket: the server's tickets are good for one console each, within
\* their time, whatever is asked at once and however often the server restarts.
THEOREM Implementation == Spec => TicketsHonoured
<1>1. Init => Promise!Init
  BY DEF Init, Promise!Init, standing, Good
<1>2. ASSUME IInv, IInv', [Next]_vars
      PROVE  [Promise!Next]_<<standing, owner>>
  <2>1. ASSUME NEW r \in Requests, NEW t \in Tickets, InsertTicket(r, t)
        PROVE  Promise!Next
    <3>1. request[r].vm \in Vms
      BY <1>2, <2>1 DEF InsertTicket, IInv, RequestInv, RequestOK
    <3>. QED
      BY <1>2, <2>1, <3>1, InsertIssues DEF Promise!Next
  <2>2. ASSUME NEW r \in Requests, NEW t \in Tickets, NEW v \in Vms, ConsumeTicket(r, t, v)
        PROVE  Promise!Next \/ UNCHANGED <<standing, owner>>
    BY <1>2, <2>2, ConsumeUses DEF Promise!Next
  <2>3. CASE TimePasses \/ Restart
    BY <1>2, <2>3, LapseExpires DEF Promise!Next
  <2>4. CASE UNCHANGED tickets
    BY <2>4 DEF tickets, standing, Good
  <2>. QED
    BY <1>2, <2>1, <2>2, <2>3, <2>4, NextSteps
       DEF GuestStarts, GuestStops, Acts, AskForTicket, BrowserLeaves, Receive, Send,
           Serve, LookUp, Connect, CloseBridge, vars
<1>. QED
  BY <1>1, <1>2, Invariance, PTL DEF Spec, TicketsHonoured, Promise!Spec

=============================================================================
