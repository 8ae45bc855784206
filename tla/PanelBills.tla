----------------------------- MODULE PanelBills -----------------------------
(***************************************************************************)
(* Bills made at the staff panel, staff_panel.py create_bill: at the       *)
(* counter, for a pickup task that has an order, and for one that has only *)
(* a customer; with a reward coupon of that customer, and the rewards the  *)
(* bill earns.  An action is one commit of a request, or a read it later   *)
(* relies on.                                                              *)
(***************************************************************************)
EXTENDS Integers, FiniteSets

CONSTANTS
    Asker,           \* requests in flight at the same time
    Pickup,          \* pickup tasks of the customer
    Bill,            \* orders of the customer
    PickupBill,      \* the order a task starts with, or Unbilled
    Counter, Unbilled,
    Threshold,       \* RewardRule.threshold, in bills
    MaxAsked,
    MaxHitches       \* exceptions, deaths, buttons, staff replies, cancelled orders,
                     \* rewards taken back

ASSUME PanelAssumption ==
    /\ Counter \notin Pickup /\ Unbilled \notin Bill
    /\ IsFiniteSet(Asker) /\ IsFiniteSet(Bill)
    /\ PickupBill \in [Pickup -> Bill \cup {Unbilled}]
    \* uq_tasks_open_order_kind: an order has one open pickup task.
    /\ \A t, u \in Pickup : PickupBill[t] \in Bill /\ PickupBill[t] = PickupBill[u] => t = u
    /\ {Threshold, MaxAsked, MaxHitches} \subseteq Nat

VARIABLES
    errand,          \* tasks: open, the billing mark in reply, order_id
    bills,           \* orders: stage, total set, coupon taken off, advance
    coupon,          \* the reward coupon: active, and the orders that redeemed it
    prizes,          \* rewards earned in the rule's window
    asker,           \* local state of the requests
    asks, hitches,
    foundBeside,     \* history: how often the coupon was found valid beside another who had
    judgedBeside,    \* history: how often the rule was found met beside another who had
    rewritten,       \* history: how often a staff reply took a task's mark away
    spilt,           \* history: discounted orders that never got their redemption
    unclear,         \* history: tasks whose order was made and reported failed
    shut             \* history: tasks whose request died with the mark set

panelVars == <<errand, bills, coupon, prizes, asker, asks, hitches, foundBeside, judgedBeside,
               rewritten, spilt, unclear, shut>>

NoAsk == [at |-> "free", for |-> Counter, bill |-> Unbilled, cut |-> FALSE]

AskSteps == {"free", "creating", "checked", "made", "judging", "earning", "linking", "failing",
             "locked", "redeeming", "paying", "closing", "moving"}

PanelTypeOK ==
    /\ errand \in [Pickup -> [open: BOOLEAN, mark: BOOLEAN, bill: Bill \cup {Unbilled}]]
    /\ bills \in [Bill -> [stage: {"none", "assigned", "received", "picked", "cancelled"},
                           priced: BOOLEAN, cut: BOOLEAN, advances: Nat,
                           for: Pickup \cup {Counter}]]
    /\ coupon \in [active: BOOLEAN, used: SUBSET Bill] /\ prizes \in Nat
    /\ asker \in [Asker -> [at: AskSteps, for: Pickup \cup {Counter}, bill: Bill \cup {Unbilled},
                            cut: BOOLEAN]]
    /\ asks \in 0..MaxAsked /\ hitches \in 0..MaxHitches
    /\ {foundBeside, judgedBeside} \subseteq Nat /\ rewritten \in [Pickup -> Nat]
    /\ spilt \subseteq Bill
    /\ {unclear, shut} \subseteq SUBSET Pickup

PanelInit ==
    /\ errand = [t \in Pickup |-> [open |-> TRUE, mark |-> FALSE, bill |-> PickupBill[t]]]
    /\ bills = [b \in Bill |->
         [stage |-> IF \E t \in Pickup : PickupBill[t] = b THEN "assigned" ELSE "none",
          priced |-> FALSE, cut |-> FALSE, advances |-> 0,
          for |-> IF \E t \in Pickup : PickupBill[t] = b
                  THEN CHOOSE t \in Pickup : PickupBill[t] = b ELSE Counter]]
    /\ coupon = [active |-> TRUE, used |-> {}] /\ prizes = 0
    /\ asker = [q \in Asker |-> NoAsk] /\ asks = 0 /\ hitches = 0
    /\ foundBeside = 0 /\ judgedBeside = 0 /\ rewritten = [t \in Pickup |-> 0]
    /\ spilt = {} /\ unclear = {} /\ shut = {}

panelHistory == <<foundBeside, judgedBeside, rewritten, spilt, unclear, shut>>
AtStep(q, place) == asker[q].at = place
Go(q, place) == asker' = [asker EXCEPT ![q].at = place]

\* A request for the task t holds the task's row lock.
TaskLocked(t) == \E q \in Asker : AtStep(q, "locked") /\ asker[q].for = t

----------------------------------------------------------------------------
(* The way in: the task is read under its lock.                            *)

\* Mutant of Unmarked: only the order tells that a pickup is being billed.
MarkIgnored(t) == TRUE
Unmarked(t) == ~errand[t].mark

\* A task without an order is marked before create_order gives the lock up.
Mark(q, t, deal) ==
    /\ AtStep(q, "free") /\ asks < MaxAsked
    /\ errand[t].open /\ ~TaskLocked(t) /\ errand[t].bill = Unbilled /\ Unmarked(t)
    /\ errand' = [errand EXCEPT ![t].mark = TRUE]
    /\ asker' = [asker EXCEPT ![q] = [NoAsk EXCEPT !.at = "creating", !.for = t, !.cut = deal]]
    /\ asks' = asks + 1
    /\ UNCHANGED <<bills, coupon, prizes, hitches, panelHistory>>

AtCounter(q, deal) ==
    /\ AtStep(q, "free") /\ asks < MaxAsked
    /\ asker' = [asker EXCEPT ![q] = [NoAsk EXCEPT !.at = "creating", !.cut = deal]]
    /\ asks' = asks + 1
    /\ UNCHANGED <<errand, bills, coupon, prizes, hitches, panelHistory>>

\* Mutant of CouponValid: the redemptions are not counted.
CouponWhenever == coupon.active
\* validate_coupon for a coupon of this customer with a limit of one.
CouponValid == coupon.active /\ coupon.used = {}

\* Somebody else has found the coupon valid and has not redeemed it yet.
HeldBeside(q) ==
    \E p \in Asker \ {q} :
        asker[p].cut /\ asker[p].at \in {"checked", "made", "locked", "redeeming"}

\* One more, if this is so.
OneMoreIf(n, sure) == IF sure THEN n + 1 ELSE n

\* A task with an order: both rows are locked, the coupon is judged, and the
\* lock is held until the bill is written.
LockLinked(q, t, deal) ==
    LET mine == errand[t].bill IN
    /\ AtStep(q, "free") /\ asks < MaxAsked
    /\ errand[t].open /\ ~TaskLocked(t) /\ mine # Unbilled
    /\ bills[mine].stage = "assigned" /\ ~bills[mine].priced
    /\ deal => CouponValid
    /\ asker' = [asker EXCEPT ![q] = [at |-> "locked", for |-> t, bill |-> mine, cut |-> deal]]
    /\ asks' = asks + 1
    /\ foundBeside' = OneMoreIf(foundBeside, deal /\ HeldBeside(q))
    /\ UNCHANGED <<errand, bills, coupon, prizes, hitches, judgedBeside, rewritten, spilt,
                   unclear, shut>>

WriteBill(q) ==
    LET mine == asker[q].bill IN
    /\ AtStep(q, "locked")
    /\ bills' = [bills EXCEPT ![mine].priced = TRUE, ![mine].cut = asker[q].cut]
    /\ Go(q, IF asker[q].cut THEN "redeeming" ELSE "paying")
    /\ UNCHANGED <<errand, coupon, prizes, asks, hitches, panelHistory>>

----------------------------------------------------------------------------
(* order_service.create_order.                                             *)

\* A coupon that does not hold ends in a rollback and an OrderError.
CheckCoupon(q) ==
    /\ AtStep(q, "creating")
    /\ Go(q, IF asker[q].cut /\ ~CouponValid THEN "failing" ELSE "checked")
    /\ foundBeside' = OneMoreIf(foundBeside, asker[q].cut /\ CouponValid /\ HeldBeside(q))
    /\ UNCHANGED <<errand, bills, coupon, prizes, asks, hitches, judgedBeside, rewritten, spilt,
                   unclear, shut>>

Insert(q, b) ==
    /\ AtStep(q, "checked") /\ bills[b].stage = "none"
    /\ bills' = [bills EXCEPT ![b] = [stage |-> "received", priced |-> TRUE, cut |-> asker[q].cut,
                                      advances |-> 0, for |-> asker[q].for]]
    /\ asker' = [asker EXCEPT ![q].at = IF asker[q].cut THEN "made" ELSE "judging", ![q].bill = b]
    /\ UNCHANGED <<errand, coupon, prizes, asks, hitches, panelHistory>>

\* redeem_coupon commits after the order, on both ways.
Redeem(q) ==
    /\ asker[q].at \in {"made", "redeeming"}
    /\ coupon' = [coupon EXCEPT !.used = @ \cup {asker[q].bill}]
    /\ Go(q, IF AtStep(q, "made") THEN "judging" ELSE "paying")
    /\ UNCHANGED <<errand, bills, prizes, asks, hitches, panelHistory>>

Counted == {b \in Bill : bills[b].priced /\ bills[b].stage # "cancelled"}

\* Mutant of Deserved: what was earned in the window is not looked up.
DeservedAgain == Cardinality(Counted) >= Threshold
Deserved == Cardinality(Counted) >= Threshold /\ prizes = 0

AfterCreate(q) == IF asker[q].for = Counter THEN "paying" ELSE "linking"

\* rewards.evaluate: the count and the look for an earlier reward, then the reward.
Judge(q) ==
    /\ AtStep(q, "judging")
    /\ Go(q, IF Deserved THEN "earning" ELSE AfterCreate(q))
    /\ judgedBeside' = OneMoreIf(judgedBeside,
                                 Deserved /\ \E p \in Asker \ {q} : AtStep(p, "earning"))
    /\ UNCHANGED <<errand, bills, coupon, prizes, asks, hitches, foundBeside, rewritten, spilt,
                   unclear, shut>>

Earn(q) ==
    /\ AtStep(q, "earning")
    /\ prizes' = prizes + 1
    /\ Go(q, AfterCreate(q))
    /\ UNCHANGED <<errand, bills, coupon, asks, hitches, panelHistory>>

Hitch == hitches < MaxHitches /\ hitches' = hitches + 1

\* An exception in create_order: before its commit nothing is left, after it
\* the order stands although the request is told it failed.
Fail(q) ==
    /\ asker[q].at \in {"creating", "checked", "made", "judging"} /\ Hitch
    /\ Go(q, "failing")
    /\ spilt' = IF AtStep(q, "made") THEN spilt \cup {asker[q].bill} ELSE spilt
    /\ unclear' = IF asker[q].bill # Unbilled THEN unclear \cup ({asker[q].for} \cap Pickup)
                  ELSE unclear
    /\ UNCHANGED <<errand, bills, coupon, prizes, asks, foundBeside, judgedBeside, rewritten,
                   shut>>

\* Mutant of Unmark: the failure is reported and the mark left.
KeepMark(q) ==
    /\ AtStep(q, "failing")
    /\ asker' = [asker EXCEPT ![q] = NoAsk]
    /\ UNCHANGED <<errand, bills, coupon, prizes, asks, hitches, panelHistory>>

\* The failed request takes its mark off, so that the bill can be made again.
Unmark(q) ==
    /\ AtStep(q, "failing") /\ ~TaskLocked(asker[q].for)
    /\ errand' = IF asker[q].for = Counter THEN errand
                 ELSE [errand EXCEPT ![asker[q].for].mark = FALSE]
    /\ asker' = [asker EXCEPT ![q] = NoAsk]
    /\ UNCHANGED <<bills, coupon, prizes, asks, hitches, panelHistory>>

LinkBill(q) ==
    /\ AtStep(q, "linking") /\ ~TaskLocked(asker[q].for)
    /\ errand' = [errand EXCEPT ![asker[q].for] = [@ EXCEPT !.mark = FALSE, !.bill = asker[q].bill]]
    /\ Go(q, "paying")
    /\ UNCHANGED <<bills, coupon, prizes, asks, hitches, panelHistory>>

----------------------------------------------------------------------------
(* After the bill: the advance, the task, the order's status.              *)

\* A bill without an advance skips the ledger and changes nothing here.
TakeAdvance(q) ==
    /\ AtStep(q, "paying")
    /\ bills' = [bills EXCEPT ![asker[q].bill].advances = @ + 1]
    /\ IF asker[q].for = Counter THEN asker' = [asker EXCEPT ![q] = NoAsk] ELSE Go(q, "closing")
    /\ UNCHANGED <<errand, coupon, prizes, asks, hitches, panelHistory>>

\* complete_task has one winner; the loser's request ends in a conflict.
CloseErrand(q) ==
    LET t == asker[q].for IN
    /\ AtStep(q, "closing") /\ ~TaskLocked(t)
    /\ errand' = [errand EXCEPT ![t].open = FALSE]
    /\ IF errand[t].open THEN Go(q, "moving") ELSE asker' = [asker EXCEPT ![q] = NoAsk]
    /\ UNCHANGED <<bills, coupon, prizes, asks, hitches, panelHistory>>

Collected(b) == [bills EXCEPT ![b].stage = IF @ = "cancelled" THEN @ ELSE "picked"]

\* The request's copy of the order may be older than a cancellation.
Move(q) ==
    /\ AtStep(q, "moving")
    /\ \/ bills' = Collected(asker[q].bill)
       \/ bills' = [bills EXCEPT ![asker[q].bill].stage = "picked"]
    /\ asker' = [asker EXCEPT ![q] = NoAsk]
    /\ UNCHANGED <<errand, coupon, prizes, asks, hitches, panelHistory>>

\* The process goes down with the request in it.
AskerDies(q) ==
    LET s == asker[q] IN
    /\ s.at # "free" /\ Hitch
    /\ asker' = [asker EXCEPT ![q] = NoAsk]
    /\ spilt' = IF s.at \in {"made", "redeeming"} THEN spilt \cup {s.bill} ELSE spilt
    /\ shut' = IF s.for # Counter /\ errand[s.for].mark THEN shut \cup {s.for} ELSE shut
    /\ UNCHANGED <<errand, bills, coupon, prizes, asks, foundBeside, judgedBeside, rewritten,
                   unclear>>

----------------------------------------------------------------------------
(* Others: the task's button, a reply of its staff, a cancelled order, a   *)
(* reward taken back.                                                      *)

Button(t) ==
    /\ Hitch
    /\ errand[t].open /\ ~TaskLocked(t)
    /\ errand' = [errand EXCEPT ![t].open = FALSE]
    /\ bills' = IF errand[t].bill = Unbilled THEN bills ELSE Collected(errand[t].bill)
    /\ UNCHANGED <<coupon, prizes, asker, asks, panelHistory>>

\* note_reply: what a staff member writes about an open task goes to the column
\* that holds the mark.
NoteReply(t) ==
    /\ Hitch
    /\ errand[t].open /\ errand[t].mark /\ ~TaskLocked(t)
    /\ errand' = [errand EXCEPT ![t].mark = FALSE]
    /\ rewritten' = [rewritten EXCEPT ![t] = @ + 1]
    /\ UNCHANGED <<bills, coupon, prizes, asker, asks, foundBeside, judgedBeside, spilt, unclear,
                   shut>>

\* update_status: an order is cancelled, at any stage the table lets it.
CancelBill(b) ==
    /\ Hitch
    /\ bills[b].stage \in {"assigned", "received", "picked"}
    /\ \A q \in Asker : ~(AtStep(q, "locked") /\ asker[q].bill = b)
    /\ bills' = [bills EXCEPT ![b].stage = "cancelled"]
    /\ UNCHANGED <<errand, coupon, prizes, asker, asks, panelHistory>>

TakeBack ==
    /\ Hitch
    /\ coupon' = [coupon EXCEPT !.active = FALSE]
    /\ UNCHANGED <<errand, bills, prizes, asker, asks, panelHistory>>

PanelNext ==
    \/ \E q \in Asker :
          \/ \E deal \in BOOLEAN :
                \/ AtCounter(q, deal)
                \/ \E t \in Pickup : Mark(q, t, deal) \/ LockLinked(q, t, deal)
          \/ WriteBill(q) \/ CheckCoupon(q) \/ Redeem(q) \/ Judge(q) \/ Earn(q)
          \/ \E b \in Bill : Insert(q, b)
          \/ Fail(q) \/ Unmark(q) \/ LinkBill(q)
          \/ TakeAdvance(q) \/ CloseErrand(q) \/ Move(q) \/ AskerDies(q)
    \/ \E t \in Pickup : Button(t) \/ NoteReply(t)
    \/ \E b \in Bill : CancelBill(b)
    \/ TakeBack

PanelSpec == PanelInit /\ [][PanelNext]_panelVars

----------------------------------------------------------------------------

\* "dohra Save doosra order bana deta": a pickup gets one order, and one more at
\* the most for each reply that took its mark away; an order gets one advance;
\* and a pickup is free to be billed whenever no request is at it: unless an
\* order was made and reported failed, or a request died at its mark.
PickupBilledOnce ==
    /\ \A t \in Pickup \ (unclear \cup shut) :
          Cardinality({b \in Bill : bills[b].for = t}) <= 1 + rewritten[t]
    /\ \A b \in Bill : bills[b].advances <= 1
    /\ \A t \in Pickup \ shut :
          errand[t].mark => \E q \in Asker : asker[q].at # "free" /\ asker[q].for = t

\* A reward is earned once in a window and its coupon pays for one bill, and for
\* one more for each request that judged them beside another that already had;
\* a bill whose redemption was never written is not among them.
RewardSpentOnce ==
    /\ Cardinality({b \in Bill : bills[b].cut} \ spilt) <= 1 + foundBeside
    /\ prizes <= 1 + judgedBeside

\* The panel bills a pickup once, and pays for a bill with a coupon once.
PanelHeld == PickupBilledOnce /\ RewardSpentOnce
=============================================================================
