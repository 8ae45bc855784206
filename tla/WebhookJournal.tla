--------------------------- MODULE WebhookJournal ---------------------------
(***************************************************************************)
(* The inbound webhook journal (app/routers/webhook.py).                   *)
(*                                                                         *)
(* Every webhook body becomes a webhook_events row before it is processed. *)
(* Processing stores the message (unique wa_message_id), works out the     *)
(* reply, and marks the row.  retry_stuck_webhook_events replays rows left *)
(* "received" or "failed" for five minutes; two executions of it overlap   *)
(* while the scheduler leadership changes hands.                           *)
(*                                                                         *)
(* Every database commit is one step.  Workers are the request handlers    *)
(* and the retry jobs: both run _handle_inbound_message.                   *)
(***************************************************************************)
EXTENDS Integers, FiniteSets

CONSTANTS
    Event,        \* distinct webhook bodies
    Offered,      \* what each of them may hold, a set of members of Body
    Message,      \* distinct wa_message_ids
    Handler,      \* concurrent webhook requests
    Retrier,      \* concurrent executions of retry_stuck_webhook_events
    MaxAttempts,  \* _MAX_EVENT_ATTEMPTS (5 in the code)
    BatchLimit,   \* .limit(50)
    MaxFaults     \* bound on crashes and failed journal updates

(***************************************************************************)
(* A body is one message from one source.  "mapped": the tenant is in the  *)
(* journal row; "home": only live processing finds one, by falling back to *)
(* the home shop; "unknown": nobody knows the phone_number_id.  WAHA rows  *)
(* are always written under the home tenant.  "readable": normalize_phone  *)
(* makes a number of the sender.                                           *)
(***************************************************************************)
Body == {b \in [source  : {"meta", "waha", "dotpe"}, route : {"mapped", "home", "unknown"},
                sender  : {"readable", "unreadable"}, message : Message] :
            /\ b.source = "waha"  => b.route = "mapped"
            /\ b.source = "dotpe" => b.route # "unknown"}
NoBody == [source |-> "none", route |-> "unknown", sender |-> "unreadable", message |-> "none"]

ASSUME JournalAssumption ==
    /\ IsFiniteSet(Event) /\ IsFiniteSet(Handler) /\ IsFiniteSet(Retrier)
    /\ Handler \cap Retrier = {}
    /\ Offered \in [Event -> SUBSET Body]
    /\ MaxAttempts \in Nat \ {0}
    /\ BatchLimit \in Nat \ {0}
    /\ MaxFaults \in Nat

Worker == Handler \cup Retrier

VARIABLES
    body,      \* what each event carries, once journaled
    status,    \* webhook_events.status, "none" before the row
    attempts,  \* webhook_events.attempts
    arrival,   \* received_at, as a rank among the rows
    old,       \* received_at is more than five minutes ago
    stored,    \* messages with a row in conversations
    pc,        \* where each worker is
    on,        \* the event it works on
    todo,      \* a retry job's remaining rows: <<event, attempts>> pairs
    answers,   \* history: reply chains completed for each message
    replays,   \* history: replays started of each event
    faults     \* crashes and failed updates so far

eventVars == <<body, arrival>>
histVars  == <<answers, replays>>
vars == <<eventVars, status, attempts, old, stored, pc, on, todo, histVars, faults>>

Nothing    == "none"
Unsettled  == {"received", "failed"}
Journaled  == {e \in Event : status[e] # "none"}
Busy(w)    == pc[w] \in {"process", "reply", "mark"}

TypeOK ==
    /\ body \in [Event -> Body \cup {NoBody}]
    /\ status \in [Event -> {"none", "received", "processed", "failed", "dead"}]
    /\ attempts \in [Event -> Nat]
    /\ arrival \in [Event -> Nat]
    /\ old \in [Event -> BOOLEAN]
    /\ stored \in SUBSET Message
    /\ pc \in [Worker -> {"idle", "batch", "process", "reply", "mark"}]
    /\ on \in [Worker -> Event \cup {Nothing}]
    /\ todo \in [Worker -> SUBSET (Event \X Nat)]
    /\ answers \in [Message -> Nat]
    /\ replays \in [Event -> Nat]
    /\ faults \in 0 .. MaxFaults
    /\ \A e \in Journaled : body[e] \in Body
    /\ \A w \in Worker : Busy(w) => on[w] \in Journaled
    /\ \A w \in Worker : \A t \in todo[w] : t[1] \in Journaled
    /\ \A w \in Worker : pc[w] = "batch" => todo[w] # {}

Init ==
    /\ body = [e \in Event |-> NoBody]
    /\ status = [e \in Event |-> "none"]
    /\ attempts = [e \in Event |-> 0]
    /\ arrival = [e \in Event |-> 0]
    /\ old = [e \in Event |-> FALSE]
    /\ stored = {}
    /\ pc = [w \in Worker |-> "idle"]
    /\ on = [w \in Worker |-> Nothing]
    /\ todo = [w \in Worker |-> {}]
    /\ answers = [m \in Message |-> 0]
    /\ replays = [e \in Event |-> 0]
    /\ faults = 0

----------------------------------------------------------------------------
\* _journal_event inserts the row; processing follows in the same request.
\* The same body again violates the unique event_key, is answered
\* "duplicate" and changes nothing.
Deliver(h, e, b) ==
    /\ pc[h] = "idle"
    /\ status[e] = "none"
    /\ body' = [body EXCEPT ![e] = b]
    /\ status' = [status EXCEPT ![e] = "received"]
    /\ arrival' = [arrival EXCEPT ![e] = Cardinality(Journaled)]
    /\ pc' = [pc EXCEPT ![h] = "process"]
    /\ on' = [on EXCEPT ![h] = e]
    /\ UNCHANGED <<attempts, old, stored, todo, histVars, faults>>

\* Five minutes after received_at; the age of a settled row matters to nobody.
Ages(e) ==
    /\ status[e] \in Unsettled /\ ~old[e]
    /\ old' = [old EXCEPT ![e] = TRUE]
    /\ UNCHANGED <<eventVars, status, attempts, stored, pc, on, todo, histVars, faults>>

----------------------------------------------------------------------------
(***************************************************************************)
(* Processing one event: _process_payload and _handle_inbound_message,     *)
(* then _mark_event.                                                       *)
(***************************************************************************)

\* Mutant of MarkEvent: the attempt is not counted.
MarkUncounted(e, verdict) ==
    /\ status' = [status EXCEPT ![e] = verdict]
    /\ UNCHANGED <<attempts, faults>>

\* An UPDATE by key alone, whatever the row has become since; its own
\* failure is swallowed.
MarkEvent(e, verdict) ==
    \/ /\ status' = [status EXCEPT ![e] = verdict]
       /\ attempts' = [attempts EXCEPT ![e] = @ + 1]
       /\ UNCHANGED faults
    \/ /\ faults < MaxFaults
       /\ faults' = faults + 1
       /\ UNCHANGED <<status, attempts>>

\* Mutant of Return: the end of the batch is not noticed.
ReturnToBatch(w) ==
    /\ pc' = [pc EXCEPT ![w] = "batch"]
    /\ on' = [on EXCEPT ![w] = Nothing]

\* A handler's request is over; a retry job goes on to its next row.
Return(w) ==
    /\ pc' = [pc EXCEPT ![w] = IF todo'[w] = {} THEN "idle" ELSE "batch"]
    /\ on' = [on EXCEPT ![w] = Nothing]

Conclude(w, verdict) ==
    /\ MarkEvent(on[w], verdict)
    /\ UNCHANGED todo
    /\ Return(w)

\* A live Meta change for a phone_number_id nobody has connected: skipped.
SkipUnknown(h) ==
    /\ pc[h] = "process"
    /\ body[on[h]].route = "unknown"
    /\ Conclude(h, "processed")
    /\ UNCHANGED <<eventVars, old, stored, histVars>>

\* A WAHA sender whose @lid cannot be resolved now: dropped with a warning.
LidUnresolved(h) ==
    /\ pc[h] = "process"
    /\ body[on[h]].source = "waha"
    /\ Conclude(h, "processed")
    /\ UNCHANGED <<eventVars, old, stored, histVars>>

\* Only a warning for a sender whose number cannot be made out: nothing is
\* stored, and nothing failed.
SenderUnread(w) ==
    /\ pc[w] = "process"
    /\ body[on[w]].route # "unknown" /\ body[on[w]].sender = "unreadable"
    /\ Conclude(w, "processed")
    /\ UNCHANGED <<eventVars, old, stored, histVars>>

Inbound(w) ==
    pc[w] = "process" /\ body[on[w]].route # "unknown" /\ body[on[w]].sender = "readable"

\* The conversations row commits.
Store(w) ==
    LET m == body[on[w]].message IN
    /\ Inbound(w)
    /\ m \notin stored
    /\ stored' = stored \cup {m}
    /\ pc' = [pc EXCEPT ![w] = "reply"]
    /\ UNCHANGED <<eventVars, status, attempts, old, on, todo, histVars, faults>>

\* Mutant of StoreDuplicate: the reply is worked out again.
DuplicateAnswered(w) ==
    /\ Inbound(w)
    /\ body[on[w]].message \in stored
    /\ pc' = [pc EXCEPT ![w] = "reply"]
    /\ UNCHANGED <<eventVars, status, attempts, old, stored, on, todo, histVars, faults>>

\* uq_conversations_wa_message_id is violated: the provider repeated itself.
StoreDuplicate(w) ==
    /\ Inbound(w)
    /\ body[on[w]].message \in stored
    /\ Conclude(w, "processed")
    /\ UNCHANGED <<eventVars, old, stored, histVars>>

\* Lead capture, gates, model, send: to the end of the reply chain, with a
\* message sent or a decision to stay silent.  A SendError is caught.
Reply(w) ==
    LET m == body[on[w]].message IN
    /\ pc[w] = "reply"
    /\ answers' = [answers EXCEPT ![m] = @ + 1]
    /\ pc' = [pc EXCEPT ![w] = "mark"]
    /\ UNCHANGED <<eventVars, status, attempts, old, stored, on, todo, replays, faults>>

Finish(w) ==
    /\ pc[w] = "mark"
    /\ Conclude(w, "processed")
    /\ UNCHANGED <<eventVars, old, stored, histVars>>

\* Mutant of ProcessingFails: the event is marked as if it had succeeded.
FailureSwallowed(w) ==
    /\ pc[w] \in {"process", "reply"}
    /\ Conclude(w, "processed")
    /\ UNCHANGED <<eventVars, old, stored, histVars>>

\* An exception before the commit (two first messages of a new customer
\* both inserting it, a database error) or after it, outside any except.
ProcessingFails(w) ==
    /\ pc[w] \in {"process", "reply"}
    /\ Conclude(w, "failed")
    /\ UNCHANGED <<eventVars, old, stored, histVars>>

\* The worker's process dies.
Crash(w) ==
    /\ faults < MaxFaults
    /\ pc[w] # "idle"
    /\ faults' = faults + 1
    /\ pc' = [pc EXCEPT ![w] = "idle"]
    /\ on' = [on EXCEPT ![w] = Nothing]
    /\ todo' = [todo EXCEPT ![w] = {}]
    /\ UNCHANGED <<eventVars, status, attempts, old, stored, histVars>>

----------------------------------------------------------------------------
(***************************************************************************)
(* retry_stuck_webhook_events.                                             *)
(***************************************************************************)

\* Mutant of Stuck: rows whose processing never finished are not looked for.
StuckFailed == {e \in Event : status[e] = "failed" /\ old[e]}

\* The rows a select returns: unsettled for five minutes, oldest first.
Stuck == {e \in Event : status[e] \in Unsettled /\ old[e]}
Selected == {e \in Stuck : Cardinality({f \in Stuck : arrival[f] < arrival[e]}) < BatchLimit}

SelectStuck(r) ==
    /\ pc[r] = "idle"
    /\ Selected # {}
    /\ todo' = [todo EXCEPT ![r] = {<<e, attempts[e]>> : e \in Selected}]
    /\ pc' = [pc EXCEPT ![r] = "batch"]
    /\ UNCHANGED <<eventVars, status, attempts, old, stored, on, histVars, faults>>

\* t is the next row of the batch, and it is taken.
Take(r, t) ==
    /\ pc[r] = "batch"
    /\ \A u \in todo[r] : arrival[t[1]] <= arrival[u[1]]
    /\ todo' = [todo EXCEPT ![r] = @ \ {t}]

\* Too many attempts; or a DotPe row without a tenant: dead.
GiveUp(r) ==
    \E t \in todo[r] :
        /\ Take(r, t)
        /\ \/ t[2] >= MaxAttempts
           \/ body[t[1]].source = "dotpe" /\ body[t[1]].route # "mapped"
        /\ MarkEvent(t[1], "dead")
        /\ Return(r)
        /\ UNCHANGED <<eventVars, old, stored, histVars>>

CountReplay(e) ==
    /\ replays' = [replays EXCEPT ![e] = @ + 1]
    /\ UNCHANGED answers

\* _process_payload refuses a Meta row that has no tenant of its own.
RefuseUntenanted(r) ==
    \E t \in todo[r] :
        /\ Take(r, t)
        /\ t[2] < MaxAttempts
        /\ body[t[1]].source = "meta" /\ body[t[1]].route # "mapped"
        /\ CountReplay(t[1])
        /\ MarkEvent(t[1], "failed")
        /\ Return(r)
        /\ UNCHANGED <<eventVars, old, stored>>

\* _process_payload walks payload["entry"], which a WAHA body does not have.
WalkWahaPayload(r) ==
    \E t \in todo[r] :
        /\ Take(r, t)
        /\ t[2] < MaxAttempts
        /\ body[t[1]].source = "waha"
        /\ CountReplay(t[1])
        /\ MarkEvent(t[1], "processed")
        /\ Return(r)
        /\ UNCHANGED <<eventVars, old, stored>>

\* Everything else goes through _handle_inbound_message once more.
Replay(r) ==
    \E t \in todo[r] :
        /\ Take(r, t)
        /\ t[2] < MaxAttempts
        /\ body[t[1]].source # "waha" /\ body[t[1]].route = "mapped"
        /\ CountReplay(t[1])
        /\ pc' = [pc EXCEPT ![r] = "process"]
        /\ on' = [on EXCEPT ![r] = t[1]]
        /\ UNCHANGED <<eventVars, status, attempts, old, stored, faults>>

----------------------------------------------------------------------------
Process(w) ==
    \/ SenderUnread(w)
    \/ Store(w)
    \/ StoreDuplicate(w)
    \/ Reply(w)
    \/ Finish(w)
    \/ ProcessingFails(w)

HandlerStep(h) ==
    \/ SkipUnknown(h)
    \/ LidUnresolved(h)
    \/ Process(h)

RetryStep(r) ==
    \/ SelectStuck(r)
    \/ GiveUp(r)
    \/ RefuseUntenanted(r)
    \/ WalkWahaPayload(r)
    \/ Replay(r)
    \/ Process(r)

Next ==
    \/ \E h \in Handler : \/ \E e \in Event : \E b \in Offered[e] : Deliver(h, e, b)
                          \/ HandlerStep(h)
    \/ \E r \in Retrier : RetryStep(r)
    \/ \E w \in Worker : Crash(w)
    \/ \E e \in Event : Ages(e)

Spec == Init /\ [][Next]_vars

(***************************************************************************)
(* A started request or retry goes on; the retry job runs every few        *)
(* minutes; time passes.  Providers owe nothing.                           *)
(***************************************************************************)
FairSpec ==
    /\ Spec
    /\ \A h \in Handler : WF_vars(HandlerStep(h))
    /\ \A r \in Retrier : WF_vars(RetryStep(r))
    /\ \A e \in Event : WF_vars(Ages(e))

----------------------------------------------------------------------------
(***************************************************************************)
(* Properties.                                                             *)
(***************************************************************************)

\* Whatever is redelivered, replayed or raced, the customer's message is
\* answered at most once.
AnsweredOnce == \A m \in Message : answers[m] <= 1

\* A Meta or DotPe event of a connected shop is closed as processed only when
\* its message is in the inbox, unless its sender has no number to answer.
ProcessedMeansStored ==
    \A e \in Event :
        /\ status[e] = "processed"
        /\ body[e].source # "waha" /\ body[e].route # "unknown" /\ body[e].sender = "readable"
        => body[e].message \in stored

\* A poison event is not replayed for ever: each replay is paid for by a
\* counted attempt or a fault, save for the overlap of two retry jobs.
ReplaysBounded ==
    \A e \in Event : replays[e] <= MaxAttempts + faults + Cardinality(Retrier) - 1

\* "If processing dies, a scheduler job replays the event": no journaled
\* event stays unsettled.
JournalSettles ==
    \A e \in Event : status[e] \in Unsettled ~> status[e] \in {"processed", "dead"}

\* "If processing dies, a scheduler job replays the event from the
\* journal": a failed event with a number to answer becomes a processed one
\* only when its message has reached the inbox.
ReplayStores ==
    [][\A e \in Event :
          /\ status[e] = "failed" /\ status'[e] = "processed"
          /\ body[e].route # "unknown" /\ body[e].sender = "readable"
          => body[e].message \in stored']_vars

=============================================================================
