--------------------------- MODULE OutboundQueue ---------------------------
(***************************************************************************)
(* The outbound gateway and its retry queue (app/services/whatsapp.py).    *)
(*                                                                         *)
(* A caller sends a message through send_message.  When the WAHA gateway   *)
(* fails transiently the message becomes a row of outbound_queue, and      *)
(* drain_outbound_queue retries the rows that are due.  Two drains can     *)
(* overlap: a scheduler leader that lost its advisory lock does not stop   *)
(* the job it is running.  Each attempt is guarded by a durable claim in   *)
(* sent_events (scheduler._claim).                                         *)
(*                                                                         *)
(* Every database commit, and every call to the gateway, is one step.      *)
(***************************************************************************)
EXTENDS Integers, FiniteSets

CONSTANTS
    Msg,          \* logical messages the application sends, one call each
    AiMsg,        \* those sent_by "ai": the retry is gated on the agent's switches
    Untenanted,   \* those first sent outside any tenant context
    Drainer,      \* concurrent executions of drain_outbound_queue
    MaxAttempts,  \* MAX_OUTBOUND_ATTEMPTS (8 in the code)
    BatchLimit,   \* .limit(30)
    MaxCrashes,   \* bound on process crashes
    Ambiguous     \* may the gateway deliver and still be seen to fail?

ASSUME OutboundAssumption ==
    /\ IsFiniteSet(Msg)
    /\ AiMsg \subseteq Msg /\ Untenanted \subseteq Msg
    /\ MaxAttempts \in Nat \ {0}
    /\ BatchLimit \in Nat \ {0}
    /\ MaxCrashes \in Nat
    /\ Ambiguous \in BOOLEAN

VARIABLES
    caller,     \* the first send_message call of each message
    status,     \* its outbound_queue row, "none" before there is one
    attempts,
    error,      \* last_error, by cause
    born,       \* created_at, as a rank among the rows
    due,        \* next_attempt_at has passed
    aged,       \* the row is older than MAX_OUTBOUND_AGE
    halted,     \* agent off, customer paused or opted out, or a human took over
    claims,     \* sent_events: <<m, n>> for "outbound-retry:{m}:attempt:{n}"
    pc,         \* where each drain is
    todo,       \* its remaining snapshot: <<message, attempts_before>> pairs
    cur,        \* the pair it is working on
    expired,    \* the messages older than MAX_OUTBOUND_AGE at its `now`
    answer,     \* how its gateway call ended
    calls,      \* history: gateway calls made for each message and attempt
    delivered,  \* history: copies of each message that reached the recipient
    crashes     \* crashes so far

callerVars == <<caller, born>>
rowVars    == <<status, attempts, error>>
drainVars  == <<pc, todo, cur, expired, answer>>
histVars   == <<calls, delivered>>
vars == <<callerVars, rowVars, due, aged, halted, claims, drainVars, histVars, crashes>>

Tries    == 0 .. MaxAttempts - 1
Ticket   == Msg \X Tries
NoTicket == << >>
Causes   == {"none", "untenanted", "stale", "suppressed", "duplicate", "failed"}
Places   == {"idle", "loop", "row", "suppress", "claim", "duplicate", "call", "settle"}
Statuses == {"none", "queued", "sent", "dead"}

(***************************************************************************)
(* What a gateway call can end in, for the code that made it.  "ok" and    *)
(* "timeout" reached the recipient; "timeout" is reported as a transient   *)
(* WahaError although the message went out, and "unrecorded" as whatever   *)
(* the failing commit of _record_outbound raises.  "refused" covers every  *)
(* permanent SendError: quota, policy, missing intent, a 4xx answer.       *)
(***************************************************************************)
Reached(outcome) == outcome \in {"ok", "timeout", "unrecorded"}
Answers == {"ok", "refused", "transient", "error"}
             \cup (IF Ambiguous THEN {"timeout", "unrecorded"} ELSE {})

TypeOK ==
    /\ caller \in [Msg -> {"unsent", "calling", "enqueue", "finished"}]
    /\ status \in [Msg -> Statuses]
    /\ attempts \in [Msg -> 0 .. MaxAttempts]
    /\ error \in [Msg -> Causes]
    /\ born \in [Msg -> Nat]
    /\ due \in [Msg -> BOOLEAN]
    /\ aged \in [Msg -> BOOLEAN]
    /\ halted \in [Msg -> BOOLEAN]
    /\ claims \in SUBSET Ticket
    /\ pc \in [Drainer -> Places]
    /\ todo \in [Drainer -> SUBSET Ticket]
    /\ cur \in [Drainer -> Ticket \cup {NoTicket}]
    /\ expired \in [Drainer -> SUBSET Msg]
    /\ answer \in [Drainer -> Answers \cup {"none"}]
    /\ \A d \in Drainer : pc[d] \notin {"idle", "loop"} => cur[d] \in Ticket
    /\ \A m \in Msg : status[m] = "queued" => attempts[m] < MaxAttempts
    /\ calls \in [Ticket -> Nat]
    /\ delivered \in [Msg -> Nat]
    /\ crashes \in 0 .. MaxCrashes

----------------------------------------------------------------------------
Init ==
    /\ caller = [m \in Msg |-> "unsent"]
    /\ status = [m \in Msg |-> "none"]
    /\ attempts = [m \in Msg |-> 0]
    /\ error = [m \in Msg |-> "none"]
    /\ born = [m \in Msg |-> 0]
    /\ due = [m \in Msg |-> FALSE]
    /\ aged = [m \in Msg |-> FALSE]
    /\ halted = [m \in Msg |-> FALSE]
    /\ claims = {}
    /\ pc = [d \in Drainer |-> "idle"]
    /\ todo = [d \in Drainer |-> {}]
    /\ cur = [d \in Drainer |-> NoTicket]
    /\ expired = [d \in Drainer |-> {}]
    /\ answer = [d \in Drainer |-> "none"]
    /\ calls = [t \in Ticket |-> 0]
    /\ delivered = [m \in Msg |-> 0]
    /\ crashes = 0

(***************************************************************************)
(* The caller's side: send_message with enqueue_on_fail.                   *)
(***************************************************************************)

\* The gateway is called for the first time.
Send(m) ==
    /\ caller[m] = "unsent"
    /\ caller' = [caller EXCEPT ![m] = "calling"]
    /\ UNCHANGED <<born, rowVars, due, aged, halted, claims, drainVars, histVars, crashes>>

\* The call returns.  Only a transient WahaError is queued.
SendReturns(m, outcome) ==
    /\ caller[m] = "calling"
    /\ caller' = [caller EXCEPT ![m] =
                    IF outcome \in {"transient", "timeout"} THEN "enqueue" ELSE "finished"]
    /\ delivered' = [delivered EXCEPT ![m] = IF Reached(outcome) THEN @ + 1 ELSE @]
    /\ UNCHANGED <<born, rowVars, due, aged, halted, claims, drainVars, calls, crashes>>

\* _enqueue_outbound commits the row; next_attempt_at defaults to now().
Enqueue(m) ==
    /\ caller[m] = "enqueue"
    /\ caller' = [caller EXCEPT ![m] = "finished"]
    /\ status' = [status EXCEPT ![m] = "queued"]
    /\ attempts' = [attempts EXCEPT ![m] = 0]
    /\ born' = [born EXCEPT ![m] = Cardinality({k \in Msg : status[k] # "none"})]
    /\ due' = [due EXCEPT ![m] = TRUE]
    /\ UNCHANGED <<error, aged, halted, claims, drainVars, histVars, crashes>>

\* _enqueue_outbound swallows its own failure: the message is only logged.
EnqueueFails(m) ==
    /\ caller[m] = "enqueue"
    /\ caller' = [caller EXCEPT ![m] = "finished"]
    /\ UNCHANGED <<born, rowVars, due, aged, halted, claims, drainVars, histVars, crashes>>

\* The calling process dies, before or after the gateway took the message.
CallerCrashes(m, reached) ==
    /\ crashes < MaxCrashes
    /\ caller[m] \in {"calling", "enqueue"}
    /\ reached => caller[m] = "calling"
    /\ caller' = [caller EXCEPT ![m] = "finished"]
    /\ delivered' = [delivered EXCEPT ![m] = IF reached THEN @ + 1 ELSE @]
    /\ crashes' = crashes + 1
    /\ UNCHANGED <<born, rowVars, due, aged, halted, claims, drainVars, calls>>

----------------------------------------------------------------------------
(***************************************************************************)
(* The environment: time passes, people use the switches.                  *)
(***************************************************************************)

BackoffElapses(m) ==
    /\ status[m] = "queued" /\ ~due[m]
    /\ due' = [due EXCEPT ![m] = TRUE]
    /\ UNCHANGED <<callerVars, rowVars, aged, halted, claims, drainVars, histVars, crashes>>

RowAges(m) ==
    /\ status[m] = "queued" /\ ~aged[m]
    /\ aged' = [aged EXCEPT ![m] = TRUE]
    /\ UNCHANGED <<callerVars, rowVars, due, halted, claims, drainVars, histVars, crashes>>

\* Stop, pause, opt-out or a manager's reply; and their undoing.
SwitchAgent(m) ==
    /\ m \in AiMsg
    /\ halted' = [halted EXCEPT ![m] = ~@]
    /\ UNCHANGED <<callerVars, rowVars, due, aged, claims, drainVars, histVars, crashes>>

----------------------------------------------------------------------------
(***************************************************************************)
(* drain_outbound_queue.                                                   *)
(***************************************************************************)

\* On to the next row of the snapshot; or out of the drain altogether.
Continue(d) ==
    /\ pc' = [pc EXCEPT ![d] = "loop"]
    /\ cur' = [cur EXCEPT ![d] = NoTicket]
    /\ answer' = [answer EXCEPT ![d] = "none"]

Leave(d) ==
    /\ pc' = [pc EXCEPT ![d] = "idle"]
    /\ todo' = [todo EXCEPT ![d] = {}]
    /\ cur' = [cur EXCEPT ![d] = NoTicket]
    /\ expired' = [expired EXCEPT ![d] = {}]
    /\ answer' = [answer EXCEPT ![d] = "none"]

\* The rows a select returns: queued, due, the oldest BatchLimit of them.
DueRows == {m \in Msg : status[m] = "queued" /\ due[m]}
Selected ==
    {m \in DueRows : Cardinality({k \in DueRows : born[k] < born[m]}) < BatchLimit}

Snapshot == {<<m, attempts[m]>> : m \in Selected}
TooOld == {m \in Msg : aged[m]}

\* `now`, the select and the snapshot of the rows' values.
SelectRows(d) ==
    /\ pc[d] = "idle"
    /\ Selected # {}
    /\ todo' = [todo EXCEPT ![d] = Snapshot]
    /\ expired' = [expired EXCEPT ![d] = TooOld]
    /\ pc' = [pc EXCEPT ![d] = "loop"]
    /\ UNCHANGED <<callerVars, rowVars, due, aged, halted, claims, cur, answer, histVars, crashes>>

\* The next row of the snapshot, oldest first.
TakeRow(d) ==
    /\ pc[d] = "loop"
    /\ \E t \in todo[d] :
          /\ \A u \in todo[d] : born[t[1]] <= born[u[1]]
          /\ cur' = [cur EXCEPT ![d] = t]
          /\ todo' = [todo EXCEPT ![d] = @ \ {t}]
    /\ pc' = [pc EXCEPT ![d] = "row"]
    /\ UNCHANGED <<callerVars, rowVars, due, aged, halted, claims, expired, answer, histVars, crashes>>

EndDrain(d) ==
    /\ pc[d] = "loop" /\ todo[d] = {}
    /\ Leave(d)
    /\ UNCHANGED <<callerVars, rowVars, due, aged, halted, claims, histVars, crashes>>

\* An UPDATE to status "dead" with a last_error.
DeadLetter(m, cause) ==
    /\ status' = [status EXCEPT ![m] = "dead"]
    /\ error' = [error EXCEPT ![m] = cause]

\* No tenant in the payload: fail closed.  The UPDATE is by id alone.
RejectUntenanted(d) ==
    LET m == cur[d][1] IN
    /\ pc[d] = "row"
    /\ m \in Untenanted
    /\ DeadLetter(m, "untenanted")
    /\ UNCHANGED attempts
    /\ Continue(d)
    /\ UNCHANGED <<callerVars, due, aged, halted, claims, todo, expired, histVars, crashes>>

\* Past MAX_OUTBOUND_AGE.  The UPDATE is by id alone and rewrites attempts.
ExpireStale(d) ==
    LET m == cur[d][1] IN
    /\ pc[d] = "row"
    /\ m \notin Untenanted /\ m \in expired[d]
    /\ DeadLetter(m, "stale")
    /\ attempts' = [attempts EXCEPT ![m] = cur[d][2]]
    /\ Continue(d)
    /\ UNCHANGED <<callerVars, due, aged, halted, claims, todo, expired, histVars, crashes>>

\* The AI gate reads the switches; other messages have no gate.
Gate(d) ==
    LET m == cur[d][1] IN
    /\ pc[d] = "row"
    /\ m \notin Untenanted /\ m \notin expired[d]
    /\ pc' = [pc EXCEPT ![d] = IF m \in AiMsg /\ halted[m] THEN "suppress" ELSE "claim"]
    /\ UNCHANGED <<callerVars, rowVars, due, aged, halted, claims, todo, cur, expired, answer,
                   histVars, crashes>>

\* The closed gate's UPDATE, by id alone.
SuppressAi(d) ==
    LET m == cur[d][1] IN
    /\ pc[d] = "suppress"
    /\ DeadLetter(m, "suppressed")
    /\ UNCHANGED attempts
    /\ Continue(d)
    /\ UNCHANGED <<callerVars, due, aged, halted, claims, todo, expired, histVars, crashes>>

\* Mutant of Claim: the result of _claim is not looked at.
ClaimIgnored(d) ==
    /\ pc[d] = "claim"
    /\ claims' = claims \cup {cur[d]}
    /\ pc' = [pc EXCEPT ![d] = "call"]
    /\ UNCHANGED <<callerVars, rowVars, due, aged, halted, todo, cur, expired, answer,
                   histVars, crashes>>

\* _claim: the insert of a unique key either commits or finds the key taken.
Claim(d) ==
    /\ pc[d] = "claim"
    /\ claims' = claims \cup {cur[d]}
    /\ pc' = [pc EXCEPT ![d] = IF cur[d] \in claims THEN "duplicate" ELSE "call"]
    /\ UNCHANGED <<callerVars, rowVars, due, aged, halted, todo, cur, expired, answer,
                   histVars, crashes>>

\* Mutants of SuppressDuplicate: the row is moved on to its next attempt; the
\* row's attempt is not compared; the row is left as it is.
DuplicateRequeued(d) ==
    LET m == cur[d][1] IN
    /\ pc[d] = "duplicate"
    /\ attempts' = IF status[m] = "queued" /\ attempts[m] + 1 < MaxAttempts
                   THEN [attempts EXCEPT ![m] = @ + 1] ELSE attempts
    /\ UNCHANGED <<status, error>>
    /\ Continue(d)
    /\ UNCHANGED <<callerVars, due, aged, halted, claims, todo, expired, histVars, crashes>>

DuplicateUnguarded(d) ==
    LET m == cur[d][1] IN
    /\ pc[d] = "duplicate"
    /\ IF status[m] = "queued"
       THEN DeadLetter(m, "duplicate")
       ELSE UNCHANGED <<status, error>>
    /\ UNCHANGED attempts
    /\ Continue(d)
    /\ UNCHANGED <<callerVars, due, aged, halted, claims, todo, expired, histVars, crashes>>

DuplicateSkipped(d) ==
    /\ pc[d] = "duplicate"
    /\ Continue(d)
    /\ UNCHANGED <<callerVars, rowVars, due, aged, halted, claims, todo, expired, histVars, crashes>>

\* The claim was taken: dead-letter, but only a row still at that attempt.
SuppressDuplicate(d) ==
    LET m == cur[d][1] IN
    /\ pc[d] = "duplicate"
    /\ IF status[m] = "queued" /\ attempts[m] = cur[d][2]
       THEN DeadLetter(m, "duplicate")
       ELSE UNCHANGED <<status, error>>
    /\ UNCHANGED attempts
    /\ Continue(d)
    /\ UNCHANGED <<callerVars, due, aged, halted, claims, todo, expired, histVars, crashes>>

\* send_message(enqueue_on_fail=False) runs and answers.
CallGateway(d, outcome) ==
    /\ pc[d] = "call"
    /\ answer' = [answer EXCEPT ![d] = outcome]
    /\ calls' = [calls EXCEPT ![cur[d]] = @ + 1]
    /\ delivered' = [delivered EXCEPT ![cur[d][1]] = IF Reached(outcome) THEN @ + 1 ELSE @]
    /\ pc' = [pc EXCEPT ![d] = "settle"]
    /\ UNCHANGED <<callerVars, rowVars, due, aged, halted, claims, todo, cur, expired, crashes>>

\* Mutant of SettledStatus: one retry too many.
SettledLate(n, outcome) ==
    IF outcome = "ok" THEN "sent"
    ELSE IF outcome = "refused" \/ n + 1 > MaxAttempts THEN "dead" ELSE "queued"

\* What the row becomes: sent, dead, or queued again for the next attempt.
SettledStatus(n, outcome) ==
    IF outcome = "ok" THEN "sent"
    ELSE IF outcome = "refused" \/ n + 1 >= MaxAttempts THEN "dead" ELSE "queued"

\* The except branches and the else branch: one UPDATE by id, one commit.
Settle(d) ==
    LET m == cur[d][1] IN
    /\ pc[d] = "settle"
    /\ status' = [status EXCEPT ![m] = SettledStatus(cur[d][2], answer[d])]
    /\ IF answer[d] = "ok"
       THEN UNCHANGED <<attempts, error>>
       ELSE /\ attempts' = [attempts EXCEPT ![m] = cur[d][2] + 1]
            /\ error' = [error EXCEPT ![m] = "failed"]
    /\ due' = [due EXCEPT ![m] = FALSE]
    /\ Continue(d)
    /\ UNCHANGED <<callerVars, aged, halted, claims, todo, expired, histVars, crashes>>

\* The process running the drain dies: its snapshot and position are gone.
DrainCrashes(d) ==
    /\ crashes < MaxCrashes
    /\ pc[d] # "idle"
    /\ crashes' = crashes + 1
    /\ Leave(d)
    /\ UNCHANGED <<callerVars, rowVars, due, aged, halted, claims, histVars>>

\* It dies inside the gateway call, after the message has left.
DrainCrashesInCall(d) ==
    /\ crashes < MaxCrashes
    /\ pc[d] = "call"
    /\ crashes' = crashes + 1
    /\ calls' = [calls EXCEPT ![cur[d]] = @ + 1]
    /\ delivered' = [delivered EXCEPT ![cur[d][1]] = @ + 1]
    /\ Leave(d)
    /\ UNCHANGED <<callerVars, rowVars, due, aged, halted, claims>>

----------------------------------------------------------------------------
CallerStep(m) ==
    \/ Send(m)
    \/ \E outcome \in Answers : SendReturns(m, outcome)
    \/ Enqueue(m)
    \/ EnqueueFails(m)

DrainStep(d) ==
    \/ SelectRows(d)
    \/ TakeRow(d)
    \/ EndDrain(d)
    \/ RejectUntenanted(d)
    \/ ExpireStale(d)
    \/ Gate(d)
    \/ SuppressAi(d)
    \/ Claim(d)
    \/ SuppressDuplicate(d)
    \/ \E outcome \in Answers : CallGateway(d, outcome)
    \/ Settle(d)

Next ==
    \/ \E m \in Msg : \/ CallerStep(m)
                      \/ \E reached \in BOOLEAN : CallerCrashes(m, reached)
                      \/ BackoffElapses(m)
                      \/ RowAges(m)
                      \/ SwitchAgent(m)
    \/ \E d \in Drainer : DrainStep(d) \/ DrainCrashes(d) \/ DrainCrashesInCall(d)

Spec == Init /\ [][Next]_vars

(***************************************************************************)
(* The durability job runs every five minutes and every await in it has a  *)
(* timeout, so a drain that can move does; time passes.  Nothing obliges a *)
(* caller to send, a process to crash or a person to touch a switch.       *)
(***************************************************************************)
FairSpec ==
    /\ Spec
    /\ \A d \in Drainer : WF_vars(DrainStep(d))
    /\ \A m \in Msg : WF_vars(BackoffElapses(m))

----------------------------------------------------------------------------
(***************************************************************************)
(* Properties.                                                             *)
(***************************************************************************)

\* "One durable claim per queue-row attempt": however drains overlap and
\* crash, the gateway is called at most once for each attempt of a row.
AttemptCalledOnce == \A t \in Ticket : calls[t] <= 1

\* The recipient never gets a message twice.  It holds when the gateway's
\* failures are honest (Ambiguous = FALSE): the claims make up for crashes,
\* stale snapshots and overlapping drains, but not for a lost answer.
DeliveredAtMostOnce == \A m \in Msg : delivered[m] <= 1

\* Suppressing a duplicate never costs a message: with no crash so far and
\* no drain under way, no row was left dead by the loser of a claim.
DuplicateSuppressionSpares ==
    (crashes = 0 /\ \A d \in Drainer : pc[d] = "idle")
        => \A m \in Msg : ~(status[m] = "dead" /\ error[m] = "duplicate")

\* "until it goes out or dead-letters": every queued row ends.
QueuedRowEnds ==
    \A m \in Msg : status[m] = "queued" ~> status[m] \in {"sent", "dead"}

=============================================================================
