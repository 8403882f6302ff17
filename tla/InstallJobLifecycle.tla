------------------------ MODULE InstallJobLifecycle ------------------------
(***************************************************************************)
(* What the install-job API promises a client, with nothing of how the     *)
(* server keeps the promise: no queue, no worker, no cancellation flag.    *)
(* A job reserves the VM name and the image it asks for from the moment it *)
(* is accepted until it reaches a terminal status, and the status moves    *)
(* along the edges below only.  JobService implements this specification.  *)
(***************************************************************************)

CONSTANTS
  Jobs,     \* job identifiers (UUIDs); a job is one install request
  VmName,   \* VmName[j]: the VM name the request of j asks for
  ImageId   \* ImageId[j]: the image the request of j asks to create

VARIABLES
  status,           \* the status column of install_jobs, "absent" before the row exists
  cancelRequested   \* the rows whose cancel_requested column is 1

vars == <<status, cancelRequested>>

Reserving == {"queued", "running", "interrupted"}
Terminal == {"succeeded", "failed", "cancelled"}
Statuses == Reserving \union Terminal \union {"absent"}

\* JobStatus::reserves_resources
ReservesResources(j) == status[j] \in Reserving

\* Two requests that cannot both be accepted at the same time.
Overlap(i, j) == VmName[i] = VmName[j] \/ ImageId[i] = ImageId[j]

Init ==
  /\ status = [j \in Jobs |-> "absent"]
  /\ cancelRequested = {}

\* A request is accepted only while nothing else reserves its name or image.
Accept(j) ==
  /\ status[j] = "absent"
  /\ \A i \in Jobs : ReservesResources(i) => ~Overlap(i, j)
  /\ status' = [status EXCEPT ![j] = "queued"]
  /\ UNCHANGED cancelRequested

Begin(j) ==
  /\ status[j] = "queued"
  /\ j \notin cancelRequested
  /\ status' = [status EXCEPT ![j] = "running"]
  /\ UNCHANGED cancelRequested

\* A job ends as cancelled only if somebody asked for that.
End(j) ==
  /\ status[j] = "running"
  /\ \E s \in Terminal :
       /\ s = "cancelled" => j \in cancelRequested
       /\ status' = [status EXCEPT ![j] = s]
  /\ UNCHANGED cancelRequested

\* The job could not be started: it fails without having run.  This is the
\* one edge out of a terminal status, when a cancellation came first.
Abandon(j) ==
  /\ status[j] \in {"queued", "cancelled"}
  /\ status' = [status EXCEPT ![j] = "failed"]
  /\ UNCHANGED cancelRequested

Cancel(j) ==
  /\ ReservesResources(j)
  /\ cancelRequested' = cancelRequested \union {j}
  /\ status' = [status EXCEPT ![j] = IF @ = "running" THEN @ ELSE "cancelled"]

\* The server stopped and came back: whatever was running is uncertain.
Interrupt ==
  /\ status' = [j \in Jobs |-> IF status[j] = "running" THEN "interrupted" ELSE status[j]]
  /\ UNCHANGED cancelRequested

Next ==
  \/ \E j \in Jobs : Accept(j) \/ Begin(j) \/ End(j) \/ Abandon(j) \/ Cancel(j)
  \/ Interrupt

Spec == Init /\ [][Next]_vars
============================================================================
