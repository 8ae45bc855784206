---------------------------- MODULE PickupBooking ----------------------------
(***************************************************************************)
(* A pickup booked in the chat (build_ai_reply and _create_pickup_order in *)
(* app/services/ai_agent.py).  The details a customer gives become a       *)
(* summary kept in customers.ai_pending_intake and sent with two buttons;  *)
(* a button of that summary, or a plain "haan" while it is the newest      *)
(* message, books the order from the kept copy.  Messages are handled side *)
(* by side, each with the customer row as it was when the message came.    *)
(***************************************************************************)
EXTENDS Naturals, FiniteSets

CONSTANTS
    MaxMessages,  \* bound on the customer's messages
    MaxSummaries, \* bound on summaries made
    MaxMishaps    \* bound on crashes and failed orders

ASSUME PickupAssumption == MaxMessages \in Nat /\ MaxSummaries \in Nat /\ MaxMishaps \in Nat

Message == 1 .. MaxMessages
Summary == 1 .. MaxSummaries

VARIABLES
    pending,   \* ai_pending_intake: {} or the one summary kept
    newest,    \* the newest outbound message: a summary, or 0 for any other
    made,      \* summaries made so far
    delivered, \* summaries the customer has, with their buttons
    replying,  \* what each message's handler is doing
    orders,    \* the orders booked, with the message that booked them
    washed,    \* those past pickup: the duplicate guard does not see them
    mishaps,   \* so far
    raced      \* history: two bookings were checked before either was made

pickupVars == <<pending, newest, made, delivered, replying, orders, washed, mishaps, raced>>

----------------------------------------------------------------------------

Kept == {{}} \cup {{s} : s \in Summary}

Text  == {[say |-> "details"], [say |-> "haan"], [say |-> "nahi"]}
Tap   == [say : {"yes", "no"}, for : Summary]

Nobody == [at |-> "new"]

\* sight: the summaries the customer could be answering, the newest message
\* and those on their way, when the message was written.
Handling == [at : {"read", "booking", "creating", "sending"}, said : Text \cup Tap,
             loaded : Kept, sight : SUBSET Summary]

Order == [from : Summary, by : Message, sight : SUBSET Summary]

PickupTypeOK ==
    /\ pending \in Kept
    /\ newest \in 0 .. MaxSummaries
    /\ made \in 0 .. MaxSummaries
    /\ delivered \subseteq 1 .. made
    /\ replying \in [Message -> {Nobody, [at |-> "done"]} \cup Handling]
    /\ orders \subseteq Order
    /\ washed \subseteq orders
    /\ mishaps \in 0 .. MaxMishaps
    /\ raced \in BOOLEAN

PickupInit ==
    /\ pending = {}
    /\ newest = 0 /\ made = 0
    /\ delivered = {}
    /\ replying = [m \in Message |-> Nobody]
    /\ orders = {} /\ washed = {}
    /\ mishaps = 0
    /\ raced = FALSE

Become(m, phase) == replying' = [replying EXCEPT ![m].at = phase]
End(m) == replying' = [replying EXCEPT ![m] = [at |-> "done"]]

At(phase) == {m \in Message : replying[m].at = phase}

\* Any other reply is now the newest outbound message; it may fail to go out.
Answer(m) == End(m) /\ newest' \in {0, newest}

----------------------------------------------------------------------------

Sight(said) ==
    IF said \in Tap THEN {said.for}
    ELSE ({newest} \cup UNION {replying[m].loaded : m \in At("sending")}) \ {0}

Receive(m, said) ==
    /\ m = Cardinality(Message \ At("new")) + 1
    /\ said \in Tap => said.for \in delivered
    /\ replying' = [replying EXCEPT ![m] =
          [at |-> "read", said |-> said, loaded |-> pending, sight |-> Sight(said)]]
    /\ UNCHANGED <<pending, newest, made, delivered, orders, washed, mishaps, raced>>

\* Mutant: whatever is kept is what the customer confirms.
ConfirmsKept(said, kept) == said.say \in {"yes", "haan"}

\* A button names its summary by key; a typed "haan" counts when the newest
\* outbound message is the kept summary.
Confirms(said, kept) ==
    \/ said.say = "yes" /\ said.for \in kept
    \/ said.say = "haan" /\ newest \in kept

Cancels(said, kept) ==
    \/ said.say = "no" /\ said.for \in kept
    \/ said.say = "nahi" /\ kept # {}

Confirm(m) ==
    LET r == replying[m] IN
    /\ r.at = "read" /\ r.loaded # {} /\ Confirms(r.said, r.loaded)
    /\ pending' = {}
    /\ Become(m, "booking")
    /\ UNCHANGED <<newest, made, delivered, orders, washed, mishaps, raced>>

Cancel(m) ==
    LET r == replying[m] IN
    /\ r.at = "read" /\ Cancels(r.said, r.loaded)
    /\ pending' = {}
    /\ Answer(m)
    /\ UNCHANGED <<made, delivered, orders, washed, mishaps, raced>>

\* The model answers something else: to chat, to an old button, or because
\* the kept copy has passed its day.
Chat(m) ==
    /\ replying[m].at = "read"
    /\ Answer(m)
    /\ UNCHANGED <<pending, made, delivered, orders, washed, mishaps, raced>>

\* Mutant: the new summary is kept beside the old one.
KeepsBoth(s) == pending' = pending \cup {s}

\* A new summary takes the place of the one kept.
Keeps(s) == pending' = {s}

\* The details are complete (a "haan" that confirms nothing may repeat them):
\* the summary is kept first and sent afterwards.
Summarise(m) ==
    LET r == replying[m] s == made + 1 IN
    /\ r.at = "read" /\ s \in Summary
    /\ r.said.say \in {"details", "haan"}
    /\ made' = s
    /\ Keeps(s)
    /\ replying' = [replying EXCEPT ![m].at = "sending", ![m].loaded = {s}]
    /\ UNCHANGED <<newest, delivered, orders, washed, mishaps, raced>>

\* A newer message, a stop switch or a failed send may keep it back.
SendSummary(m) ==
    LET r == replying[m] IN
    /\ r.at = "sending"
    /\ End(m)
    /\ \/ newest' \in r.loaded /\ delivered' = delivered \cup r.loaded
       \/ UNCHANGED <<newest, delivered>>
    /\ UNCHANGED <<pending, made, orders, washed, mishaps, raced>>

\* Mutant: the order is made without looking for one already open.
CheckNothing(m) ==
    /\ replying[m].at = "booking"
    /\ Become(m, "creating")
    /\ UNCHANGED <<pending, newest, made, delivered, orders, washed, mishaps, raced>>

\* _create_pickup_order: an order not yet washed is answered with its status.
CheckDuplicate(m) ==
    /\ replying[m].at = "booking"
    /\ \/ /\ orders # washed /\ Answer(m)
          /\ UNCHANGED raced
       \/ /\ orders = washed /\ Become(m, "creating")
          /\ raced' = (raced \/ At("creating") # {})
          /\ UNCHANGED newest
    /\ UNCHANGED <<pending, made, delivered, orders, washed, mishaps>>

Create(m) ==
    LET r == replying[m] IN
    /\ r.at = "creating"
    /\ orders' = orders \cup {[from |-> s, by |-> m, sight |-> r.sight] : s \in r.loaded}
    /\ Answer(m)
    /\ UNCHANGED <<pending, made, delivered, washed, mishaps, raced>>

\* The order fails, and the customer is told it is not booked.
CreateFails(m) ==
    /\ mishaps < MaxMishaps /\ mishaps' = mishaps + 1
    /\ replying[m].at = "creating"
    /\ Answer(m)
    /\ UNCHANGED <<pending, made, delivered, orders, washed, raced>>

\* The laundry moves on; the process dies.
Wash(o) ==
    /\ o \in orders \ washed /\ washed' = washed \cup {o}
    /\ UNCHANGED <<pending, newest, made, delivered, replying, orders, mishaps, raced>>

Die ==
    /\ mishaps < MaxMishaps /\ mishaps' = mishaps + 1
    /\ replying' = [m \in Message |->
          IF replying[m].at = "new" THEN Nobody ELSE [at |-> "done"]]
    /\ UNCHANGED <<pending, newest, made, delivered, orders, washed, raced>>

PickupNext ==
    \/ \E m \in Message :
          \/ \E said \in Text \cup Tap : Receive(m, said)
          \/ Confirm(m) \/ Cancel(m) \/ Chat(m) \/ Summarise(m) \/ SendSummary(m)
          \/ CheckDuplicate(m) \/ Create(m) \/ CreateFails(m)
    \/ \E o \in orders : Wash(o)
    \/ Die

PickupSpec == PickupInit /\ [][PickupNext]_pickupVars

----------------------------------------------------------------------------

\* An order is booked from the summary the customer tapped, or from one that
\* was the newest message, or on its way, when the "haan" was written: never
\* from a later or an earlier version of the details.
BookedAsConfirmed == \A o \in orders : o.from \in o.sight

\* "Duplicate guard: don't stack": two unwashed pickups of one customer take
\* two confirmations that were checked before either order was made.
StackedByRace == Cardinality(orders \ washed) > 1 => raced

\* A pickup is what the customer confirmed, and one at a time.
BookingsHeld == BookedAsConfirmed /\ StackedByRace
=============================================================================
