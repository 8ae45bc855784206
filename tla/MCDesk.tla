------------------------------- MODULE MCDesk -------------------------------
(***************************************************************************)
(* The conversations at the desk for TLC: a customer's thread, the pickups *)
(* booked in it, what the staff dictate, and the scheduler that wakes the  *)
(* workers up.  A step of one reads no state of the others, so each is     *)
(* explored from its own initial state instead of in their product: part   *)
(* says which one moves.                                                   *)
(***************************************************************************)
EXTENDS CustomerThread, PickupBooking, StaffDesk, Scheduler, TLC

CONSTANTS poster, expense

VARIABLE part

\* The poster prompt and the staff's expense closing.
Ways == poster :> "prompt" @@ expense :> "queued"

vars == <<threadVars, pickupVars, deskVars, schedVars, part>>

Init ==
    /\ part \in {"thread", "pickup", "staff", "scheduler"}
    /\ ThreadInit /\ PickupInit /\ DeskInit /\ SchedInit

Next ==
    \/ part = "thread" /\ ThreadNext /\ UNCHANGED <<pickupVars, deskVars, schedVars, part>>
    \/ part = "pickup" /\ PickupNext /\ UNCHANGED <<threadVars, deskVars, schedVars, part>>
    \/ part = "staff" /\ DeskNext /\ UNCHANGED <<threadVars, pickupVars, schedVars, part>>
    \/ part = "scheduler" /\ SchedNext /\ UNCHANGED <<threadVars, pickupVars, deskVars, part>>

\* A worker may stand for election from the start, so the scheduler's fairness
\* is asked for in its own part only.
Stands == part = "scheduler" /\ Electing /\ UNCHANGED <<threadVars, pickupVars, deskVars, part>>

\* In the other parts the thread stays at its start, where no fair step is enabled.
Spec == Init /\ [][Next]_vars /\ ThreadFairness /\ WF_vars(Stands)

\* Every variable of the four has its type, whoever has moved.
TypeOK == ThreadTypeOK /\ PickupTypeOK /\ DeskTypeOK /\ SchedTypeOK
=============================================================================
