------------------------------- MODULE AiQuota -------------------------------
(***************************************************************************)
(* What a call to the model is allowed to cost (check_ai_quota and         *)
(* ai_quota_guard in app/services/quota.py, _generate_with_fallback and    *)
(* _record_usage in app/services/llm_client.py): the owner's monthly       *)
(* budget, weighed under an advisory lock and backed by a reservation that *)
(* lives until the call's usage is recorded, and the daily cap on calls,   *)
(* weighed under a lock against recorded calls only.                       *)
(*                                                                         *)
(* The lock keeps two calls from weighing at once, not others from writing *)
(* in between: the usage is summed by one statement and the reservations   *)
(* by a later one, and recording a usage or releasing takes no lock.  The  *)
(* estimate leaves out the conversation so far and the tools' schemas, so  *)
(* an answer may cost more than was reserved for it.                       *)
(***************************************************************************)
EXTENDS Naturals, FiniteSets, FiniteSetsExt

CONSTANTS
    Call,      \* calls made side by side
    Model,     \* the models a call may use
    Cost,      \* the estimate reserved for a call to each
    Price,     \* what a call to each may turn out to cost
    Cheap,     \* the model tried last
    Budget,    \* llm_monthly_budget_usd
    Cap,       \* llm_daily_request_cap
    MaxFlaws   \* bound on failing calls, lost records and crashes

ASSUME QuotaAssumption ==
    /\ IsFiniteSet(Call) /\ Call # {}
    /\ Cheap \in Model /\ Cost \in [Model -> Nat] /\ Price \in [Model -> SUBSET Nat]
    /\ Budget \in Nat /\ Cap \in Nat /\ MaxFlaws \in Nat

VARIABLES
    call,     \* each call: where it is and the model it is at
    reserved, \* llm_budget_reservations, by call
    check,    \* what the holder of the budget's lock has read, and what it missed since
    spent,    \* the cost of the month's llm_usage rows
    rows,     \* today's llm_usage rows
    billed,   \* what the provider charges
    hidden,   \* history: charged and never recorded
    above,    \* history: recorded above what was reserved
    slipped,  \* history: in neither of the two sums a call was weighed by
    missed,   \* history: calls let through that left no row
    admitted, \* history: calls let through today
    flaws

quotaVars == <<call, reserved, check, spent, rows, billed, hidden, above, slipped, missed,
               admitted, flaws>>

----------------------------------------------------------------------------

\* refused: over the budget, its row not written yet.  late: out of time, likewise.
QuotaPhase == {"idle", "asking", "weighing", "calling", "answered", "late", "refused", "ended"}

\* seen: the sum of the usage.  unread: calls whose usage was recorded since,
\* their reservations still there.  gone: such reservations, released.
Check == [seen : Nat, unread : SUBSET Call, gone : Nat]

QuotaTypeOK ==
    /\ call \in [Call -> [at : QuotaPhase, model : Model]]
    /\ reserved \in [Call -> Nat]
    /\ check \in Check
    /\ {spent, rows, billed, hidden, above, slipped, missed, admitted} \subseteq Nat
    /\ flaws \in 0 .. MaxFlaws

NoCheck == [seen |-> 0, unread |-> {}, gone |-> 0]

QuotaInit ==
    /\ call = [c \in Call |-> [at |-> "idle", model |-> Cheap]]
    /\ reserved = [c \in Call |-> 0]
    /\ check = NoCheck
    /\ spent = 0 /\ rows = 0 /\ billed = 0
    /\ hidden = 0 /\ above = 0 /\ slipped = 0 /\ missed = 0 /\ admitted = 0
    /\ flaws = 0

Reserved == SumFunction(reserved)
Flaw == flaws < MaxFlaws /\ flaws' = flaws + 1

Weighing == \E c \in Call : call[c].at = "weighing"

To(c, phase) == call' = [call EXCEPT ![c].at = phase]

\* The cheap model is tried after any other; after it the call has failed.
NextModel(c) ==
    call' = [call EXCEPT ![c] = IF @.model = Cheap THEN [@ EXCEPT !.at = "ended"]
                                                   ELSE [at |-> "asking", model |-> Cheap]]

----------------------------------------------------------------------------

Ask(c, m) ==
    /\ call[c].at = "idle"
    /\ call' = [call EXCEPT ![c] = [at |-> "asking", model |-> m]]
    /\ UNCHANGED <<reserved, check, spent, rows, billed, hidden, above, slipped, missed, admitted, flaws>>

\* The lock is taken and the month's usage summed.
Weigh(c) ==
    /\ call[c].at = "asking" /\ ~Weighing
    /\ check' = [NoCheck EXCEPT !.seen = spent]
    /\ To(c, "weighing")
    /\ UNCHANGED <<reserved, spent, rows, billed, hidden, above, slipped, missed, admitted, flaws>>

\* Mutant: calls in flight are not counted.
FitsUnreserved(m) == check.seen + Cost[m] <= Budget

\* The reservations are summed by a later statement than the usage.
Fits(m) == check.seen + Reserved + Cost[m] <= Budget

\* Mutant: one call too many.
OneMoreToday == rows <= Cap

BelowCap == rows < Cap

\* The budget, then the cap under its own lock, and the reservation.
Admit(c) ==
    LET m == call[c].model IN
    /\ call[c].at = "weighing" /\ Fits(m) /\ BelowCap
    /\ reserved' = [reserved EXCEPT ![c] = Cost[m]]
    /\ admitted' = admitted + 1
    /\ slipped' = slipped + check.gone
    /\ check' = NoCheck
    /\ To(c, "calling")
    /\ UNCHANGED <<spent, rows, billed, hidden, above, missed, flaws>>

OverBudget(c) ==
    /\ call[c].at = "weighing" /\ ~Fits(call[c].model)
    /\ check' = NoCheck
    /\ To(c, "refused")
    /\ UNCHANGED <<reserved, spent, rows, billed, hidden, above, slipped, missed, admitted, flaws>>

\* The cap, or the plan's own limit with no credit left.
OverCap(c) ==
    /\ call[c].at = "weighing"
    /\ check' = NoCheck
    /\ To(c, "ended")
    /\ UNCHANGED <<reserved, spent, rows, billed, hidden, above, slipped, missed, admitted, flaws>>

Excess(c, cost) == IF cost > Cost[call[c].model] THEN cost - Cost[call[c].model] ELSE 0

\* The usage is recorded at what the answer cost; a failure to record it is
\* logged only.
Answered(c, cost) ==
    /\ call[c].at = "calling" /\ cost \in Price[call[c].model]
    /\ billed' = billed + cost
    /\ \/ /\ spent' = spent + cost /\ rows' = rows + 1
          /\ above' = above + Excess(c, cost)
          /\ check' = [check EXCEPT !.unread = IF Weighing THEN @ \cup {c} ELSE @]
          /\ UNCHANGED <<hidden, missed, flaws>>
       \/ /\ Flaw /\ hidden' = hidden + cost /\ missed' = missed + 1
          /\ UNCHANGED <<check, spent, rows, above>>
    /\ To(c, "answered")
    /\ UNCHANGED <<reserved, slipped, admitted>>

\* ai_quota_guard's finally, after the usage row.
Release(c) ==
    /\ call[c].at = "answered"
    /\ reserved' = [reserved EXCEPT ![c] = 0]
    /\ check' = IF c \in check.unread
                THEN [check EXCEPT !.unread = @ \ {c}, !.gone = @ + reserved[c]]
                ELSE check
    /\ To(c, "ended")
    /\ UNCHANGED <<spent, rows, billed, hidden, above, slipped, missed, admitted, flaws>>

\* An answer without text, or cut off before its JSON ended: charged, and
\* given up before anything is recorded.
Spoilt(c, cost) ==
    /\ Flaw /\ call[c].at = "calling" /\ cost \in Price[call[c].model]
    /\ billed' = billed + cost /\ hidden' = hidden + cost /\ missed' = missed + 1
    /\ reserved' = [reserved EXCEPT ![c] = 0]
    /\ NextModel(c)
    /\ UNCHANGED <<check, spent, rows, above, slipped, admitted>>

\* Rate limit or server error, put down in a row that cost nothing, if that can
\* be written; then the next model, or another attempt under the same reservation.
Refused(c) ==
    /\ Flaw /\ call[c].at = "calling"
    /\ \/ /\ rows' \in {rows, rows + 1}
          /\ UNCHANGED <<call, reserved, missed>>
       \/ /\ \/ rows' = rows + 1 /\ UNCHANGED missed
             \/ missed' = missed + 1 /\ UNCHANGED rows
          /\ reserved' = [reserved EXCEPT ![c] = 0]
          /\ NextModel(c)
    /\ UNCHANGED <<check, spent, billed, hidden, above, slipped, admitted>>

\* No answer arrived, though the provider may have charged for one: no row, and
\* another attempt under the same reservation, the next model, or with a key
\* that is refused the end of the call.
Unreached(c, cost) ==
    /\ Flaw /\ call[c].at = "calling" /\ cost \in {0} \cup Price[call[c].model]
    /\ billed' = billed + cost /\ hidden' = hidden + cost
    /\ \/ UNCHANGED <<call, reserved, missed>>
       \/ /\ missed' = missed + 1
          /\ reserved' = [reserved EXCEPT ![c] = 0]
          /\ NextModel(c) \/ To(c, "ended")
    /\ UNCHANGED <<check, spent, rows, above, slipped, admitted>>

\* The call's window ends: the reservation goes first, the row follows.
TimeOut(c, cost) ==
    /\ Flaw /\ call[c].at = "calling" /\ cost \in {0} \cup Price[call[c].model]
    /\ billed' = billed + cost /\ hidden' = hidden + cost
    /\ reserved' = [reserved EXCEPT ![c] = 0]
    /\ To(c, "late")
    /\ UNCHANGED <<check, spent, rows, above, slipped, missed, admitted>>

\* A refusal or a timeout is recorded as a call that cost nothing.
RecordNothing(c) ==
    /\ call[c].at \in {"refused", "late"}
    /\ \/ rows' = rows + 1 /\ UNCHANGED <<missed, flaws>>
       \/ /\ Flaw /\ rows' = rows
          /\ missed' = IF call[c].at = "late" THEN missed + 1 ELSE missed
    /\ NextModel(c)
    /\ UNCHANGED <<reserved, check, spent, billed, hidden, above, slipped, admitted>>

\* The process dies, wherever its calls are, with what they may have been
\* charged; reservations outlive their calls.
Dies(charged) ==
    LET calling == {c \in Call : call[c].at = "calling"}
        cost    == SumFunction(charged)
    IN
    /\ Flaw
    /\ \A c \in Call : charged[c] \in {0} \cup IF c \in calling THEN Price[call[c].model] ELSE {}
    /\ call' = [c \in Call |-> IF call[c].at = "idle" THEN call[c] ELSE [call[c] EXCEPT !.at = "ended"]]
    /\ check' = NoCheck
    /\ billed' = billed + cost /\ hidden' = hidden + cost
    /\ missed' = missed + Cardinality(calling) + Cardinality({c \in Call : call[c].at = "late"})
    /\ UNCHANGED <<reserved, spent, rows, above, slipped, admitted>>

\* Two minutes later; a call that lives has ended in 45 seconds.
Expire(c) ==
    /\ call[c].at = "ended" /\ reserved[c] > 0
    /\ reserved' = [reserved EXCEPT ![c] = 0]
    /\ UNCHANGED <<call, check, spent, rows, billed, hidden, above, slipped, missed, admitted, flaws>>

Charge == {0} \cup UNION {Price[m] : m \in Model}

QuotaNext ==
    \/ \E c \in Call :
          \/ \E m \in Model : Ask(c, m)
          \/ Weigh(c) \/ Admit(c) \/ OverBudget(c) \/ OverCap(c)
          \/ \E cost \in Charge :
                Answered(c, cost) \/ Spoilt(c, cost) \/ Unreached(c, cost) \/ TimeOut(c, cost)
          \/ Release(c) \/ Refused(c) \/ RecordNothing(c) \/ Expire(c)
    \/ \E charged \in [Call -> Charge] : Dies(charged)

QuotaSpec == QuotaInit /\ [][QuotaNext]_quotaVars

----------------------------------------------------------------------------

\* The provider charges no more than the monthly budget, whatever calls run side
\* by side, but for answers whose cost was never recorded, for what answers cost
\* above their estimates, and for a reservation released between the two sums a
\* call was weighed by, with its usage recorded after the first.  The "hard
\* stop" on a day's calls gives way to calls side by side, which see the same
\* rows, by one each, and to calls that left no row.
BudgetHeld ==
    /\ billed <= Budget + hidden + above + slipped
    /\ admitted <= Cap + (Cardinality(Call) - 1) + missed
=============================================================================
