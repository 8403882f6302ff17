----------------------------- MODULE TicketUse -----------------------------
(***************************************************************************)
(* What a console ticket promises (docs/web-api.md: short-lived,           *)
(* single-use): it is issued for one VM, opens one console of that VM, and *)
(* is void when it was not used in time.                                   *)
(***************************************************************************)
CONSTANTS
  Tickets,
  Vms,
  NoVm  \* an unissued ticket is for no VM

VARIABLES
  standing,  \* what each ticket is good for
  owner      \* the VM it was issued for

Standings == {"unissued", "valid", "used", "void"}

Init ==
  /\ standing = [t \in Tickets |-> "unissued"]
  /\ owner = [t \in Tickets |-> NoVm]

Valid == {t \in Tickets : standing[t] = "valid"}

Issue(t, v) ==
  /\ standing[t] = "unissued"
  /\ standing' = [standing EXCEPT ![t] = "valid"]
  /\ owner' = [owner EXCEPT ![t] = v]

Use(t) ==
  /\ standing[t] = "valid"
  /\ standing' = [standing EXCEPT ![t] = "used"]
  /\ owner' = owner

Expire(expired) ==
  /\ expired \subseteq Valid
  /\ standing' = [t \in Tickets |-> IF t \in expired THEN "void" ELSE standing[t]]
  /\ owner' = owner

Next ==
  \/ \E t \in Tickets : (\E v \in Vms : Issue(t, v)) \/ Use(t)
  \/ \E expired \in SUBSET Tickets : Expire(expired)

Spec == Init /\ [][Next]_<<standing, owner>>

=============================================================================
