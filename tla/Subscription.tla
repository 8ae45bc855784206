---------------------------- MODULE Subscription ----------------------------
(***************************************************************************)
(* A shop's own subscription (app/services/billing.py): the payment        *)
(* provider's events, delivered at least once and in any order, are        *)
(* journaled and then acted on (handle_event); the sweep of every night    *)
(* and of the control panel (run_subscription_sweep) puts a shop whose     *)
(* time is over first into read-only and then under lock.  Both load the   *)
(* tenant before other awaits and write only the columns that differ from  *)
(* what they loaded.                                                       *)
(***************************************************************************)
EXTENDS Naturals, FiniteSetsExt

CONSTANTS
    Event,     \* the provider's events
    Kind,      \* of each: "paid", "started", or "failed" (also halted, cancelled)
    EntityOf,  \* the payment each is about, or without one the subscription
    Identified, \* those that come with an id of their own
    Named,     \* those whose notes or subscription lead to the shop
    Until,     \* the paid period's end as the event tells it, or 0
    Delivery,  \* deliveries handled side by side
    TrialEnd,  \* the last day of the trial
    Cycle,     \* days a payment buys
    Grace,     \* grace_days
    LastDay,   \* bound on days
    MaxBreaks  \* bound on handlers that die or raise

ASSUME SubscriptionAssumption ==
    /\ Kind \in [Event -> {"paid", "started", "failed"}]
    /\ \A e \in Event : EntityOf[e] \notin Event
    /\ Until \in [Event -> Nat]
    /\ {TrialEnd, Cycle, Grace, LastDay, MaxBreaks} \subseteq Nat

VARIABLES
    status,   \* tenants.status
    end,      \* tenants.current_period_end, 0 for null
    journal,  \* the events in billing_events
    invoices, \* invoices by rzp_payment_id
    deliver,  \* each delivery: idle, or the event and the tenant it has loaded
    nightly,  \* the sweep: idle, or the status it will write
    today,
    breaks,
    soured,   \* history: a failure was acted on after the last payment
    beside,    \* history: the last payment was acted on beside another writer
    broken    \* history: events journaled whose handler died or raised

billVars == <<status, end, journal, invoices, deliver, nightly, today, breaks, soured, beside, broken>>

----------------------------------------------------------------------------

Status == {"trial", "active", "past_due", "locked"}

SubTypeOK ==
    /\ status \in Status
    /\ end \in Nat
    /\ journal \subseteq Event
    /\ invoices \subseteq {EntityOf[e] : e \in Event}
    /\ deliver \in [Delivery -> {[at |-> "idle"]}
          \cup [at : {"loaded", "acting"}, event : Event, status : Status, end : Nat]]
    /\ nightly \in Status \cup {"idle"}
    /\ today \in 0 .. LastDay
    /\ breaks \in 0 .. MaxBreaks
    /\ soured \in BOOLEAN /\ beside \in BOOLEAN
    /\ broken \subseteq journal

SubInit ==
    /\ status = "trial" /\ end = 0
    /\ journal = {} /\ invoices = {}
    /\ deliver = [d \in Delivery |-> [at |-> "idle"]]
    /\ nightly = "idle"
    /\ today = 0 /\ breaks = 0
    /\ soured = FALSE /\ beside = FALSE
    /\ broken = {}

\* The journal's unique event_id: an event without an id of its own goes by its
\* payment's, so two events of one payment share it.
KeyOf(e) == IF e \in Identified THEN e ELSE EntityOf[e]

KeyTaken(e) == \E j \in journal : KeyOf(j) = KeyOf(e)

Rest(d) == deliver' = [deliver EXCEPT ![d] = [at |-> "idle"]]

\* A column is written only if it differs from what was loaded.
Write(d, new) == status' = IF deliver[d].status = new THEN status ELSE new

----------------------------------------------------------------------------

\* The event's key is not yet in the journal: else it is answered as a duplicate.
Load(d, e) ==
    /\ deliver[d].at = "idle" /\ ~KeyTaken(e)
    /\ deliver' = [deliver EXCEPT ![d] = [at |-> "loaded", event |-> e, status |-> status, end |-> end]]
    /\ UNCHANGED <<status, end, journal, invoices, nightly, today, breaks, soured, beside, broken>>

\* Committed before anything is done, and for an event that leads to no shop
\* that is all; the second of two deliveries at once breaks the unique event_id
\* and is answered with an error.
Journal(d) ==
    LET e == deliver[d].event IN
    /\ deliver[d].at = "loaded"
    /\ journal' = IF KeyTaken(e) THEN journal ELSE journal \cup {e}
    /\ IF KeyTaken(e) \/ e \notin Named THEN Rest(d) ELSE deliver' = [deliver EXCEPT ![d].at = "acting"]
    /\ UNCHANGED <<status, end, invoices, nightly, today, breaks, soured, beside, broken>>

\* Mutant: one receipt for the shop, not one for each payment.
ReceiptOnce(p) == invoices' = IF invoices = {} THEN {p} ELSE invoices

Receipt(p) == invoices' = invoices \cup {p}

\* Mutant: a payment reopens only a read-only shop.
ReopensReadOnly(d) ==
    status' = IF deliver[d].status \in {"trial", "past_due"} THEN "active" ELSE status

Reopens(d) == Write(d, "active")

\* The period ends when the event says so, or a cycle after the loaded end.
ActPaid(d) ==
    LET l == deliver[d]
        new == IF Until[l.event] # 0 THEN Until[l.event] ELSE Max({l.end, today}) + Cycle
    IN
    /\ l.at = "acting" /\ Kind[l.event] = "paid"
    /\ Reopens(d)
    /\ end' = IF new = l.end THEN end ELSE new
    /\ Receipt(EntityOf[l.event])
    /\ soured' = FALSE
    /\ beside' = (nightly # "idle" \/ l.status # status)
    /\ Rest(d)
    /\ UNCHANGED <<journal, nightly, today, breaks, broken>>

\* The mandate is there; the first charge is an event of its own.
ActStarted(d) ==
    /\ deliver[d].at = "acting" /\ Kind[deliver[d].event] = "started"
    /\ Write(d, "active")
    /\ Rest(d)
    /\ UNCHANGED <<end, journal, invoices, nightly, today, breaks, soured, beside, broken>>

ActFailed(d) ==
    /\ deliver[d].at = "acting" /\ Kind[deliver[d].event] = "failed"
    /\ Write(d, "past_due")
    /\ soured' = TRUE
    /\ Rest(d)
    /\ UNCHANGED <<end, journal, invoices, nightly, today, breaks, beside, broken>>

\* The process dies, or the act raises and is rolled back (two events of one
\* payment meeting at its invoice, too): the event stays journaled.
Break(d) ==
    /\ breaks < MaxBreaks /\ breaks' = breaks + 1
    /\ deliver[d].at = "acting"
    /\ broken' = broken \cup {deliver[d].event}
    /\ Rest(d)
    /\ UNCHANGED <<status, end, journal, invoices, nightly, today, soured, beside>>

Lapsed == (status = "trial" /\ TrialEnd < today) \/ (status = "active" /\ end # 0 /\ end < today)

Over == Max({TrialEnd, end}) + Grace < today

\* The sweep reads the shop and decides: its time is over, and for longer than
\* the grace.  A shop within its grace only gets a reminder.
SweepLoads ==
    /\ nightly = "idle"
    /\ \/ (Lapsed \/ status = "past_due") /\ Over /\ nightly' = "locked"
       \/ Lapsed /\ ~Over /\ nightly' = "past_due"
    /\ UNCHANGED <<status, end, journal, invoices, deliver, today, breaks, soured, beside, broken>>

\* It commits when it has been through all shops and sent their reminders.
SweepCommits ==
    /\ nightly # "idle"
    /\ status' = nightly
    /\ nightly' = "idle"
    /\ UNCHANGED <<end, journal, invoices, deliver, today, breaks, soured, beside, broken>>

Tomorrow ==
    /\ today < LastDay /\ today' = today + 1
    /\ UNCHANGED <<status, end, journal, invoices, deliver, nightly, breaks, soured, beside, broken>>

SubNext ==
    \/ \E d \in Delivery :
          \/ \E e \in Event : Load(d, e)
          \/ Journal(d) \/ ActPaid(d) \/ ActStarted(d) \/ ActFailed(d) \/ Break(d)
    \/ SweepLoads \/ SweepCommits
    \/ Tomorrow

SubSpec == SubInit /\ [][SubNext]_billVars

----------------------------------------------------------------------------

\* A shop that has paid for today is not locked, and is read-only only after
\* a failed or cancelled charge, unless the payment was acted on while the
\* sweep, or another event, was writing the same tenant.
\* "The money trail must survive": a payment whose retry would be answered as a
\* duplicate has its receipt, or its key is that of an event being acted on, or
\* was taken by one that was no payment (its failed attempt), led to no shop, or
\* whose handler died or raised after the journal's commit.
PaidIsServed ==
    /\ end > today /\ ~beside => status # "locked" /\ (status = "past_due" => soured)
    /\ \A e \in Event, j \in journal \ broken :
          /\ Kind[e] = "paid" /\ KeyOf(e) = KeyOf(j)
          /\ Kind[j] = "paid" /\ j \in Named
          => \/ EntityOf[e] \in invoices
             \/ \E d \in Delivery : deliver[d].at = "acting" /\ deliver[d].event = j
=============================================================================
