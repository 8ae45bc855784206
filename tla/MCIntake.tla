------------------------------ MODULE MCIntake ------------------------------
(***************************************************************************)
(* What a customer's message starts, for TLC: the journal its webhook body *)
(* goes through, and the nudges to a customer who only enquired.  A step   *)
(* of one reads no row of the other, so each is explored from its own      *)
(* initial state instead of in their product: part says which one moves.   *)
(***************************************************************************)
EXTENDS MCWebhookJournal, Nudges

CONSTANTS w1, w2

VARIABLE part

intakeVars == <<vars, nudgeVars, part>>

Journals == part = "journal" /\ UNCHANGED <<nudgeVars, part>>

IntakeInit == part \in {"journal", "nudges"} /\ Init /\ NudgeInit

IntakeNext ==
    \/ Journals /\ Next
    \/ part = "nudges" /\ NudgeNext /\ UNCHANGED <<vars, part>>

\* A retry may start at any time, so the journal's fairness (FairSpec of
\* WebhookJournal) is asked for in its own part only.
IntakeSpec ==
    /\ IntakeInit /\ [][IntakeNext]_intakeVars
    /\ \A h \in Handler : WF_intakeVars(Journals /\ HandlerStep(h))
    /\ \A r \in Retrier : WF_intakeVars(Journals /\ RetryStep(r))
    /\ \A e \in Event : WF_intakeVars(Journals /\ Ages(e))
=============================================================================
