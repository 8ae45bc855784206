------------------------------ MODULE MCSends -------------------------------
(***************************************************************************)
(* What the shop sends, for TLC: the queue behind every message, and the   *)
(* cases passed to the owner.  A step of one reads no row of the other, so *)
(* each is explored from its own initial state instead of in their         *)
(* product: part says which one moves.                                     *)
(***************************************************************************)
EXTENDS MCOutboundQueue, Escalations

CONSTANTS w1, w2, x1, x2, r1

VARIABLE part

sendVars == <<vars, escalationVars, part>>

InQueue       == part = "queue" /\ UNCHANGED <<escalationVars, part>>
InEscalations == part = "escalations" /\ UNCHANGED <<vars, part>>

SendInit == part \in {"queue", "escalations"} /\ Init /\ EscalationInit

SendNext ==
    \/ InQueue /\ Next
    \/ InEscalations /\ EscalationNext

\* A drain or a job may start at any time, so each part's fairness is asked for
\* in that part only; the queue's is FairSpec of OutboundQueue.
SendSpec ==
    /\ SendInit /\ [][SendNext]_sendVars
    /\ \A d \in Drainer : WF_sendVars(InQueue /\ DrainStep(d))
    /\ \A m \in Msg : WF_sendVars(InQueue /\ BackoffElapses(m))
    /\ WF_sendVars(InEscalations /\ Rounds)
=============================================================================
