----------------------- MODULE OrderLifecycleProofs -----------------------
(***************************************************************************)
(* Proofs about OrderLifecycle, for any number of requests, clothes,       *)
(* prices, payments and adjustments.                                       *)
(*                                                                         *)
(* The type invariant carries the bound given + held <= Pieces of the row  *)
(* and of every copy; with it each of the other properties is inductive.   *)
(* What makes them so is that a request which acted on columns nobody had  *)
(* changed writes exactly the columns it decided on (Save).  That the      *)
(* adjustments add up needs one more: an id on any copy of the lines was   *)
(* given out, so a new adjustment is on none of them.                      *)
(***************************************************************************)
EXTENDS OrderLifecycle, SetSums

\* Each disjunct of Next, with its parameters fixed.
Step(s) ==
    \/ Load(s)
    \/ Refuse(s)
    \/ \E new \in Status : ChangeStatus(s, new)
    \/ \E n \in 1 .. Pieces : Deliver(s, n)
    \/ \E n \in 1 .. Pieces : Hold(s, n)
    \/ \E n \in 1 .. Pieces : Release(s, n)
    \/ \E price \in Price \cup {NoPrice}, rebuild \in BOOLEAN : EditBill(s, price, rebuild)
    \/ \E a \in Amount : RecordPayment(s, a)
    \/ \E x \in Extra : AddAdjustment(s, x)
    \/ \E x \in Extra : RemoveAdjustment(s, x)
    \/ \E total \in Price : BillAtPickup(s, total)

\* A step of the system is a step of one request.
LEMMA NextIsStep == Next <=> \E s \in Session : Step(s)
  BY DEF Next, Step

\* The derived payment status is one of its three values and follows the rule.
LEMMA PaymentStatusRule ==
  ASSUME NEW total \in Nat \cup {NoPrice}, NEW paid \in Nat
  PROVE  /\ PaymentStatus(total, paid) \in {"UNPAID", "PARTIAL", "PAID"}
         /\ PaymentStatus(total, paid) = "UNPAID" <=> paid = 0
         /\ PaymentStatus(total, paid) = "PAID" <=> paid > 0 /\ total # NoPrice /\ paid >= total
  BY DEF PaymentStatus, NoPrice

\* No row is the absent copy.
LEMMA RowIsNoGap == NoCopy \notin Row
  BY DEF NoCopy, Row, Items

\* Holding a copy that was committed with makes it a row of legal counts.
LEMMA CopyIsRow ==
  ASSUME TypeOK, NEW s \in Session, copy[s] # NoCopy
  PROVE  /\ copy[s] \in Row
         /\ copy[s].items \in Items
         /\ copy[s].items.given + copy[s].items.held <= Pieces
  BY DEF TypeOK, Row

\* Saving a typed row over a typed row gives a typed row, each column of
\* which is the old one or the new one.
LEMMA SaveTyped ==
  ASSUME TypeOK, NEW s \in Session, copy[s] # NoCopy,
         NEW new \in Row, new.items.given + new.items.held <= Pieces,
         Save(s, new)
  PROVE  /\ row' \in Row
         /\ row'.items.given + row'.items.held <= Pieces
         /\ row'.status = IF new.status = copy[s].status THEN row.status ELSE new.status
         /\ row'.items = IF new.items = copy[s].items THEN row.items ELSE new.items
         /\ row'.total = IF new.total = copy[s].total THEN row.total ELSE new.total
         /\ row'.paid = IF new.paid = copy[s].paid THEN row.paid ELSE new.paid
         /\ row'.pays = IF new.pays = copy[s].pays THEN row.pays ELSE new.pays
  BY DEF TypeOK, Save, Row

----------------------------------------------------------------------------
(***************************************************************************)
(* Type correctness.                                                       *)
(***************************************************************************)

\* A commit that leaves a typed row and typed histories keeps the types.
LEMMA CommitKeepsTypes ==
  ASSUME TypeOK, NEW s \in Session, Commit(s),
         row' \in Row, row'.items.given + row'.items.held <= Pieces,
         received' \in Nat, used' \in SUBSET Extra, bill' \in Nat \cup {NoPrice},
         handed' \in Nat, redone' \in BOOLEAN, stale' \in SUBSET Columns
  PROVE  TypeOK'
  BY OrderAssumption, RowIsNoGap DEF TypeOK, Commit

LEMMA InitTypeOK == Init => TypeOK
  <1> SUFFICES ASSUME Init PROVE TypeOK
    OBVIOUS
  <1>1. PICK status \in {"RECEIVED", "PICKUP_ASSIGNED"}, total \in Price \cup {NoPrice} :
           row = [status |-> status, items |-> Fresh, total |-> total, paid |-> 0,
                  pays |-> "UNPAID"] /\ bill = total
    BY DEF Init
  <1>2. status \in Status /\ total \in Nat \cup {NoPrice}
    BY OrderAssumption DEF Status, Stage, Rank
  <1>3. row \in Row /\ row.items.given + row.items.held <= Pieces
    BY <1>1, <1>2, OrderAssumption DEF Row, Items, Fresh
  <1>4. copy \in [Session -> Row \cup {NoCopy}] /\ \A s \in Session : copy[s] = NoCopy
    BY DEF Init
  <1>5. received \in Nat /\ handed \in Nat /\ commits \in 0 .. MaxCommits
    BY OrderAssumption DEF Init
  <1>6. used \in SUBSET Extra /\ stale \in SUBSET Columns
    BY DEF Init
  <1>7. redone \in BOOLEAN
    BY DEF Init
  <1> QED
    BY <1>1, <1>2, <1>3, <1>4, <1>5, <1>6, <1>7 DEF TypeOK

LEMMA StepTypeOK == TypeOK /\ [Next]_vars => TypeOK'
  <1> SUFFICES ASSUME TypeOK, [Next]_vars PROVE TypeOK'
    OBVIOUS
  <1> USE OrderAssumption
  <1>1. CASE UNCHANGED vars
    BY <1>1 DEF TypeOK, vars
  <1>2. CASE Next
    <2> PICK s \in Session : Step(s)
      BY <1>2, NextIsStep
    <2> DEFINE c == copy[s]
    <2>1. CASE Load(s)
      BY <2>1 DEF Load, TypeOK
    <2>2. CASE Refuse(s)
      BY <2>2, RowIsNoGap DEF Refuse, TypeOK
    <2>3. ASSUME NEW new \in Status, ChangeStatus(s, new)
          PROVE  TypeOK'
      <3>1. c # NoCopy /\ Commit(s)
        BY <2>3 DEF ChangeStatus, Commit
      <3>2. c \in Row /\ c.items \in Items /\ c.items.given + c.items.held <= Pieces
        BY <3>1, CopyIsRow
      <3>3. CASE new = "DELIVERED"
        <4> DEFINE n == [c EXCEPT !.status = new, !.items = MarkAllDelivered(@)]
        <4>1. MarkAllDelivered(c.items) \in Items /\ MarkAllDelivered(c.items).given = Pieces
              /\ MarkAllDelivered(c.items).held = c.items.held
          BY <3>2 DEF Items, MarkAllDelivered
        <4>2. n \in Row /\ n.items.given + n.items.held <= Pieces
          <5>1. c.items.held = 0
            BY <2>3, <3>3 DEF ChangeStatus
          <5>2. n \in Row /\ n.items = MarkAllDelivered(c.items)
            BY <3>2, <4>1 DEF Row
          <5> QED
            BY <5>1, <5>2, <4>1
        <4>3. Save(s, n) /\ handed' = handed + Pieces - c.items.given
              /\ Decide(s, {"status", "items"})
          BY <2>3, <3>3 DEF ChangeStatus
        <4>4. row' \in Row /\ row'.items.given + row'.items.held <= Pieces
          BY <4>2, <4>3, <3>1, SaveTyped
        <4>5. handed' \in Nat
          BY <4>3, <3>2 DEF TypeOK, Items
        <4> QED
          BY <2>3, <3>1, <4>3, <4>4, <4>5, CommitKeepsTypes DEF ChangeStatus, Decide, TypeOK, Columns
      <3>4. CASE new # "DELIVERED"
        <4> DEFINE n == [c EXCEPT !.status = new]
        <4>1. n \in Row /\ n.items.given + n.items.held <= Pieces
          BY <3>2 DEF Row
        <4>2. Save(s, n) /\ handed' = handed /\ Decide(s, {"status"})
          BY <2>3, <3>4 DEF ChangeStatus
        <4>3. row' \in Row /\ row'.items.given + row'.items.held <= Pieces
          BY <4>1, <4>2, <3>1, SaveTyped
        <4> QED
          BY <2>3, <3>1, <4>2, <4>3, CommitKeepsTypes DEF ChangeStatus, Decide, TypeOK, Columns
      <3> QED
        BY <3>3, <3>4
    <2>4. ASSUME NEW n \in 1 .. Pieces, Deliver(s, n)
          PROVE  TypeOK'
      <3> DEFINE items == [c.items EXCEPT !.given = @ + n]
                 status == IF Pending(items) = 0 THEN "DELIVERED" ELSE "OUT_FOR_DELIVERY"
                 new == [c EXCEPT !.status = status, !.items = items]
      <3>1. c # NoCopy /\ Commit(s)
        BY <2>4 DEF Deliver, Commit
      <3>2. c \in Row /\ c.items \in Items /\ c.items.given + c.items.held <= Pieces
        BY <3>1, CopyIsRow
      <3>3. n <= Pieces - c.items.given - c.items.held
        BY <2>4 DEF Deliver, Deliverables, Pending
      <3>4. items \in Items /\ items.given + items.held <= Pieces
        BY <3>2, <3>3 DEF Items
      <3>5. status \in Status
        BY DEF Status, Stage, Rank
      <3>6. new \in Row /\ new.items = items
        BY <3>2, <3>4, <3>5 DEF Row
      <3>7. Save(s, new) /\ handed' = handed + n /\ Decide(s, {"status", "items"})
        BY <2>4 DEF Deliver
      <3>8. row' \in Row /\ row'.items.given + row'.items.held <= Pieces
        BY <3>1, <3>4, <3>6, <3>7, SaveTyped
      <3> QED
        BY <2>4, <3>1, <3>7, <3>8, CommitKeepsTypes DEF Deliver, Decide, TypeOK, Columns
    <2>5. ASSUME NEW n \in 1 .. Pieces, Hold(s, n)
          PROVE  TypeOK'
      <3> DEFINE items == [c.items EXCEPT !.held = @ + n]
                 new == [c EXCEPT !.items.held = @ + n]
      <3>1. c # NoCopy /\ Commit(s)
        BY <2>5 DEF Hold, Commit
      <3>2. c \in Row /\ c.items \in Items /\ c.items.given + c.items.held <= Pieces
        BY <3>1, CopyIsRow
      <3>3. n <= Pieces - c.items.given - c.items.held
        BY <2>5 DEF Hold, Deliverables, Pending
      <3>4. items \in Items /\ items.given + items.held <= Pieces
        BY <3>2, <3>3 DEF Items
      <3>5. new \in Row /\ new.items = items
        BY <3>2, <3>4 DEF Row
      <3>6. Save(s, new) /\ Decide(s, {"status", "items"})
        BY <2>5 DEF Hold
      <3>7. row' \in Row /\ row'.items.given + row'.items.held <= Pieces
        BY <3>1, <3>4, <3>5, <3>6, SaveTyped
      <3> QED
        BY <2>5, <3>1, <3>6, <3>7, CommitKeepsTypes DEF Hold, Decide, TypeOK, Columns
    <2>6. ASSUME NEW n \in 1 .. Pieces, Release(s, n)
          PROVE  TypeOK'
      <3> DEFINE items == [c.items EXCEPT !.held = @ - n]
                 new == [c EXCEPT !.items.held = @ - n]
      <3>1. c # NoCopy /\ Commit(s)
        BY <2>6 DEF Release, Commit
      <3>2. c \in Row /\ c.items \in Items /\ c.items.given + c.items.held <= Pieces
        BY <3>1, CopyIsRow
      <3>3. n <= c.items.held
        BY <2>6 DEF Release
      <3>4. items \in Items /\ items.given + items.held <= Pieces
        BY <3>2, <3>3 DEF Items
      <3>5. new \in Row /\ new.items = items
        BY <3>2, <3>4 DEF Row
      <3>6. Save(s, new) /\ Decide(s, {"status", "items"})
        BY <2>6 DEF Release
      <3>7. row' \in Row /\ row'.items.given + row'.items.held <= Pieces
        BY <3>1, <3>4, <3>5, <3>6, SaveTyped
      <3> QED
        BY <2>6, <3>1, <3>6, <3>7, CommitKeepsTypes DEF Release, Decide, TypeOK, Columns
    <2>7. ASSUME NEW price \in Price \cup {NoPrice}, NEW rebuild \in BOOLEAN,
                 EditBill(s, price, rebuild)
          PROVE  TypeOK'
      <3> DEFINE total == IF price = NoPrice THEN c.total ELSE price
                 items == IF rebuild THEN Fresh ELSE c.items
                 new == [c EXCEPT !.total = total, !.items = IF rebuild THEN Fresh ELSE @,
                                  !.pays = PaymentStatus(total, c.paid)]
      <3>1. c # NoCopy /\ Commit(s)
        BY <2>7 DEF EditBill, Commit
      <3>2. c \in Row /\ c.items \in Items /\ c.items.given + c.items.held <= Pieces
        BY <3>1, CopyIsRow
      <3>3. total \in Nat \cup {NoPrice} /\ c.paid \in Nat
        BY <3>2 DEF Row
      <3>4. PaymentStatus(total, c.paid) \in {"UNPAID", "PARTIAL", "PAID"}
        BY <3>3, PaymentStatusRule
      <3>5. items \in Items /\ items.given + items.held <= Pieces
        BY <3>2 DEF Items, Fresh
      <3>6. new \in Row /\ new.items.given + new.items.held <= Pieces
        BY <3>2, <3>3, <3>4, <3>5 DEF Row
      <3>7. Save(s, new) /\ Decide(s, {"total", "paid", "pays"})
        BY <2>7 DEF EditBill
      <3> HIDE DEF new
      <3>8. row' \in Row /\ row'.items.given + row'.items.held <= Pieces
        BY <3>1, <3>6, <3>7, SaveTyped
      <3> QED
        BY <2>7, <3>1, <3>7, <3>8, CommitKeepsTypes DEF EditBill, Decide, TypeOK, Columns
    <2>8. ASSUME NEW a \in Amount, RecordPayment(s, a)
          PROVE  TypeOK'
      <3>1. row.total \in Nat \cup {NoPrice} /\ row.paid + a \in Nat /\ received + a \in Nat
        BY DEF TypeOK, Row
      <3>2. PaymentStatus(row.total, row.paid + a) \in {"UNPAID", "PARTIAL", "PAID"}
        BY <3>1, PaymentStatusRule
      <3>3. row' \in Row /\ row'.items = row.items
        BY <2>8, <3>1, <3>2 DEF RecordPayment, TypeOK, Row
      <3> QED
        BY <2>8, <3>1, <3>3, CommitKeepsTypes DEF RecordPayment, TypeOK
    <2>9. ASSUME NEW x \in Extra, AddAdjustment(s, x)
          PROVE  TypeOK'
      <3> DEFINE total == Value(row.total) + Charge[x]
      <3>1. row.total \in Nat \cup {NoPrice} /\ row.paid \in Nat /\ row.items \in Items
        BY DEF TypeOK, Row
      <3>2. total \in Nat
        BY <3>1 DEF Value, NoPrice
      <3>3. PaymentStatus(total, row.paid) \in {"UNPAID", "PARTIAL", "PAID"}
        BY <3>1, <3>2, PaymentStatusRule
      <3>4. row' = [row EXCEPT !.items = [row.items EXCEPT !.extras = @ \cup {x}],
                               !.total = total, !.pays = PaymentStatus(total, row.paid)]
        BY <2>9 DEF AddAdjustment
      <3>5. [row.items EXCEPT !.extras = @ \cup {x}] \in Items
        BY <3>1 DEF Items
      <3>6. row' \in Row /\ row'.items.given = row.items.given /\ row'.items.held = row.items.held
        BY <3>1, <3>2, <3>3, <3>4, <3>5 DEF TypeOK, Row, Items
      <3> QED
        BY <2>9, <3>6, CommitKeepsTypes DEF AddAdjustment, TypeOK
    <2>10. ASSUME NEW x \in Extra, RemoveAdjustment(s, x)
           PROVE  TypeOK'
      <3> DEFINE left == Value(row.total) - Charge[x]
                 total == IF left < 0 THEN 0 ELSE left
      <3>1. row.total \in Nat \cup {NoPrice} /\ row.paid \in Nat /\ row.items \in Items
        BY DEF TypeOK, Row
      <3>2. total \in Nat
        BY <3>1 DEF Value, NoPrice
      <3>3. PaymentStatus(total, row.paid) \in {"UNPAID", "PARTIAL", "PAID"}
        BY <3>1, <3>2, PaymentStatusRule
      <3>4. row' = [row EXCEPT !.items = [row.items EXCEPT !.extras = @ \ {x}],
                               !.total = total, !.pays = PaymentStatus(total, row.paid)]
        BY <2>10 DEF RemoveAdjustment
      <3>5. [row.items EXCEPT !.extras = @ \ {x}] \in Items
        BY <3>1 DEF Items
      <3>6. row' \in Row /\ row'.items.given = row.items.given /\ row'.items.held = row.items.held
        BY <3>1, <3>2, <3>3, <3>4, <3>5 DEF TypeOK, Row, Items
      <3> QED
        BY <2>10, <3>6, CommitKeepsTypes DEF RemoveAdjustment, TypeOK
    <2>11. ASSUME NEW total \in Price, BillAtPickup(s, total)
           PROVE  TypeOK'
      <3>1. total \in Nat /\ row.paid \in Nat
        BY DEF TypeOK, Row
      <3>2. PaymentStatus(total, row.paid) \in {"UNPAID", "PARTIAL", "PAID"}
        BY <3>1, PaymentStatusRule
      <3>3. Fresh \in Items /\ Fresh.given + Fresh.held <= Pieces
        BY DEF Items, Fresh
      <3>4. row' \in Row /\ row'.items = Fresh
        BY <2>11, <3>1, <3>2, <3>3 DEF BillAtPickup, TypeOK, Row
      <3> QED
        BY <2>11, <3>1, <3>3, <3>4, CommitKeepsTypes DEF BillAtPickup, TypeOK
    <2> QED
      BY <2>1, <2>2, <2>3, <2>4, <2>5, <2>6, <2>7, <2>8, <2>9, <2>10, <2>11 DEF Step
  <1> QED
    BY <1>1, <1>2

\* The counts of given and held clothes never exceed the clothes there are,
\* in the row and in whatever a request still holds of it.
THEOREM TypeCorrect == Spec => []TypeOK
  BY InitTypeOK, StepTypeOK, PTL DEF Spec

----------------------------------------------------------------------------
(***************************************************************************)
(* Money.                                                                  *)
(***************************************************************************)

\* The requests of the shop floor.
Work(s) ==
    \/ \E new \in Status : ChangeStatus(s, new)
    \/ \E n \in 1 .. Pieces : Deliver(s, n) \/ Hold(s, n) \/ Release(s, n)

\* Saving a row that agrees with the copy on the money columns leaves them.
LEMMA SaveKeepsMoney ==
  ASSUME NEW s \in Session, NEW new, Save(s, new),
         new.total = copy[s].total, new.paid = copy[s].paid, new.pays = copy[s].pays
  PROVE  row'.total = row.total /\ row'.paid = row.paid /\ row'.pays = row.pays
  BY DEF Save

\* The shop floor leaves the money alone, whatever it was overtaken by.
LEMMA WorkKeepsMoney ==
  ASSUME TypeOK, NEW s \in Session, Work(s)
  PROVE  /\ row'.total = row.total /\ row'.paid = row.paid /\ row'.pays = row.pays
         /\ received' = received
         /\ stale \subseteq stale'
  <1> DEFINE c == copy[s]
             Same(new) == new.total = c.total /\ new.paid = c.paid /\ new.pays = c.pays
             Goal == /\ row'.total = row.total /\ row'.paid = row.paid /\ row'.pays = row.pays
                     /\ received' = received
                     /\ stale \subseteq stale'
  <1>1. c \in Row
    BY CopyIsRow DEF Work, ChangeStatus, Deliver, Hold, Release, Commit
  <1>2. ASSUME NEW new \in Status, ChangeStatus(s, new) PROVE Goal
    <2>1. Same([c EXCEPT !.status = new])
          /\ Same([c EXCEPT !.status = new, !.items = MarkAllDelivered(@)])
      BY <1>1 DEF Row
    <2> QED
      BY <1>2, <2>1, SaveKeepsMoney DEF ChangeStatus, Decide
  <1>3. ASSUME NEW n \in 1 .. Pieces, Deliver(s, n) PROVE Goal
    <2> DEFINE items == [c.items EXCEPT !.given = @ + n]
               status == IF Pending(items) = 0 THEN "DELIVERED" ELSE "OUT_FOR_DELIVERY"
               new == [c EXCEPT !.status = status, !.items = items]
    <2>1. Same(new)
      BY <1>1 DEF Row
    <2>2. Save(s, new) /\ received' = received /\ Decide(s, {"status", "items"})
      BY <1>3 DEF Deliver
    <2> HIDE DEF new
    <2> QED
      BY <2>1, <2>2, SaveKeepsMoney DEF Decide
  <1>4. ASSUME NEW n \in 1 .. Pieces, Hold(s, n) \/ Release(s, n) PROVE Goal
    <2>1. Same([c EXCEPT !.items.held = @ + n]) /\ Same([c EXCEPT !.items.held = @ - n])
      BY <1>1 DEF Row
    <2> QED
      BY <1>4, <2>1, SaveKeepsMoney DEF Hold, Release, Decide
  <1> QED
    BY <1>2, <1>3, <1>4 DEF Work

\* amount_paid is the sum of the payments, under every interleaving.
THEOREM PaidFollowsLedger == Spec => []PaidIsReceived
  <1>1. Init => PaidIsReceived
    BY DEF Init, PaidIsReceived
  <1>2. TypeOK /\ PaidIsReceived /\ [Next]_vars => PaidIsReceived'
    <2> SUFFICES ASSUME TypeOK, PaidIsReceived, [Next]_vars PROVE PaidIsReceived'
      OBVIOUS
    <2>1. CASE UNCHANGED vars
      BY <2>1 DEF PaidIsReceived, vars
    <2>2. CASE Next
      <3> PICK s \in Session : Step(s)
        BY <2>2, NextIsStep
      <3>1. CASE Load(s) \/ Refuse(s)
        BY <3>1 DEF Load, Refuse, PaidIsReceived
      <3>2. CASE Work(s)
        BY <3>2, WorkKeepsMoney DEF PaidIsReceived
      <3>3. ASSUME NEW price \in Price \cup {NoPrice}, NEW rebuild \in BOOLEAN,
                   EditBill(s, price, rebuild)
            PROVE  PaidIsReceived'
        <4> DEFINE total == IF price = NoPrice THEN copy[s].total ELSE price
                   new == [copy[s] EXCEPT !.total = total,
                                          !.items = IF rebuild THEN Fresh ELSE @,
                                          !.pays = PaymentStatus(total, copy[s].paid)]
        <4>1. copy[s] \in Row /\ received' = received /\ Save(s, new)
          BY <3>3, CopyIsRow DEF EditBill, Commit
        <4>2. new.paid = copy[s].paid
          BY <4>1 DEF Row
        <4> HIDE DEF new
        <4> QED
          BY <4>1, <4>2 DEF Save, PaidIsReceived
      <3>4. ASSUME NEW a \in Amount, RecordPayment(s, a) PROVE PaidIsReceived'
        BY <3>4 DEF RecordPayment, PaidIsReceived, TypeOK, Row
      <3>5. ASSUME NEW x \in Extra, AddAdjustment(s, x) \/ RemoveAdjustment(s, x)
            PROVE  PaidIsReceived'
        BY <3>5 DEF AddAdjustment, RemoveAdjustment, PaidIsReceived, TypeOK, Row
      <3>6. ASSUME NEW total \in Price, BillAtPickup(s, total) PROVE PaidIsReceived'
        BY <3>6 DEF BillAtPickup, PaidIsReceived, TypeOK, Row
      <3> QED
        BY <3>1, <3>2, <3>3, <3>4, <3>5, <3>6 DEF Step, Work
    <2> QED
      BY <2>1, <2>2
  <1> QED
    BY <1>1, <1>2, TypeCorrect, PTL DEF Spec

\* A row whose payment status is computed from its own columns obeys the rule.
LEMMA ComputedRule ==
  ASSUME row'.total \in Nat \cup {NoPrice}, row'.paid \in Nat,
         row'.pays = PaymentStatus(row'.total, row'.paid)
  PROVE  PaymentRule'
  <1> DEFINE total == row'.total
             paid == row'.paid
  <1>1. /\ PaymentStatus(total, paid) = "UNPAID" <=> paid = 0
        /\ PaymentStatus(total, paid) = "PAID" <=> paid > 0 /\ total # NoPrice /\ paid >= total
    BY PaymentStatusRule
  <1> QED
    BY <1>1 DEF PaymentRule

\* The payment rule is lost only to an edit overtaken by money.
THEOREM PaidRule == Spec => []PaidRuleHolds
  <1>1. Init => PaidRuleHolds
    BY DEF Init, PaidRuleHolds, PaymentRule
  <1>2. TypeOK /\ TypeOK' /\ PaidRuleHolds /\ [Next]_vars => PaidRuleHolds'
    <2> SUFFICES ASSUME TypeOK, TypeOK', PaidRuleHolds, [Next]_vars,
                        stale' \cap {"total", "paid", "pays"} = {}
                 PROVE  PaymentRule'
      BY DEF PaidRuleHolds
    <2>1. CASE UNCHANGED vars
      BY <2>1 DEF PaidRuleHolds, PaymentRule, vars
    <2>2. CASE Next
      <3> PICK s \in Session : Step(s)
        BY <2>2, NextIsStep
      <3>0. row'.total \in Nat \cup {NoPrice} /\ row'.paid \in Nat
        BY DEF TypeOK, Row
      <3>1. CASE Load(s) \/ Refuse(s)
        BY <3>1 DEF Load, Refuse, PaidRuleHolds, PaymentRule
      <3>2. CASE Work(s)
        <4>1. stale \cap {"total", "paid", "pays"} = {}
          BY <3>2, WorkKeepsMoney
        <4> QED
          BY <3>2, <4>1, WorkKeepsMoney DEF PaidRuleHolds, PaymentRule
      <3>3. ASSUME NEW price \in Price \cup {NoPrice}, NEW rebuild \in BOOLEAN,
                   EditBill(s, price, rebuild)
            PROVE  PaymentRule'
        <4> DEFINE c == copy[s]
                   total == IF price = NoPrice THEN c.total ELSE price
                   new == [c EXCEPT !.total = total,
                                    !.items = IF rebuild THEN Fresh ELSE @,
                                    !.pays = PaymentStatus(total, c.paid)]
        <4>1. c \in Row /\ Save(s, new) /\ Decide(s, {"total", "paid", "pays"})
          BY <3>3, CopyIsRow DEF EditBill, Commit
        <4>2. new.total = total /\ new.paid = c.paid /\ new.pays = PaymentStatus(total, c.paid)
          BY <4>1 DEF Row
        <4>3. c.total = row.total /\ c.paid = row.paid /\ c.pays = row.pays
          BY <4>1 DEF Decide
        <4> HIDE DEF new
        <4>4. row'.total = new.total /\ row'.paid = new.paid /\ row'.pays = new.pays
          BY <4>1, <4>3 DEF Save
        <4> QED
          BY <3>0, <4>2, <4>4, ComputedRule
      <3>4. ASSUME NEW a \in Amount, RecordPayment(s, a) PROVE PaymentRule'
        <4>1. row'.pays = PaymentStatus(row'.total, row'.paid)
          BY <3>4 DEF RecordPayment, TypeOK, Row
        <4> QED
          BY <3>0, <4>1, ComputedRule
      <3>5. ASSUME NEW x \in Extra, AddAdjustment(s, x) \/ RemoveAdjustment(s, x)
            PROVE  PaymentRule'
        <4>1. row'.pays = PaymentStatus(row'.total, row'.paid)
          BY <3>5 DEF AddAdjustment, RemoveAdjustment, TypeOK, Row
        <4> QED
          BY <3>0, <4>1, ComputedRule
      <3>6. ASSUME NEW total \in Price, BillAtPickup(s, total) PROVE PaymentRule'
        <4>1. row'.pays = PaymentStatus(row'.total, row'.paid)
          BY <3>6 DEF BillAtPickup, TypeOK, Row
        <4> QED
          BY <3>0, <4>1, ComputedRule
      <3> QED
        BY <3>1, <3>2, <3>3, <3>4, <3>5, <3>6 DEF Step, Work
    <2> QED
      BY <2>1, <2>2
  <1> QED
    BY <1>1, <1>2, TypeCorrect, PTL DEF Spec

----------------------------------------------------------------------------
(***************************************************************************)
(* Status and clothes.                                                     *)
(***************************************************************************)

\* The bill and money requests leave the status alone.
LEMMA BillKeepsStatus ==
  ASSUME TypeOK, NEW s \in Session, Step(s), ~Work(s)
  PROVE  row'.status = row.status
  <1>1. CASE Load(s) \/ Refuse(s)
    BY <1>1 DEF Load, Refuse
  <1>2. ASSUME NEW price \in Price \cup {NoPrice}, NEW rebuild \in BOOLEAN,
               EditBill(s, price, rebuild)
        PROVE  row'.status = row.status
    <2> DEFINE c == copy[s]
               total == IF price = NoPrice THEN c.total ELSE price
               new == [c EXCEPT !.total = total,
                                !.items = IF rebuild THEN Fresh ELSE @,
                                !.pays = PaymentStatus(total, c.paid)]
    <2>1. c \in Row /\ Save(s, new)
      BY <1>2, CopyIsRow DEF EditBill, Commit
    <2>2. new.status = c.status
      BY <2>1 DEF Row
    <2> HIDE DEF new
    <2> QED
      BY <2>1, <2>2 DEF Save
  <1>3. ASSUME NEW a \in Amount, RecordPayment(s, a) PROVE row'.status = row.status
    BY <1>3 DEF RecordPayment, TypeOK, Row
  <1>4. ASSUME NEW x \in Extra, AddAdjustment(s, x) \/ RemoveAdjustment(s, x)
        PROVE  row'.status = row.status
    BY <1>4 DEF AddAdjustment, RemoveAdjustment, TypeOK, Row
  <1>5. ASSUME NEW total \in Price, BillAtPickup(s, total) PROVE row'.status = row.status
    BY <1>5 DEF BillAtPickup, TypeOK, Row
  <1> QED
    BY <1>1, <1>2, <1>3, <1>4, <1>5 DEF Step, Work

\* A request of the shop floor that saw the current status moves the order
\* as the transition rule allows: deliver too, from either of its statuses.
LEMMA FreshWork ==
  ASSUME TypeOK, NEW s \in Session, Work(s), "status" \notin stale'
  PROVE  row'.status # row.status => CanTransition(row.status, row'.status)
  <1> DEFINE c == copy[s]
  <1>1. c \in Row
    BY CopyIsRow DEF Work, ChangeStatus, Deliver, Hold, Release, Commit
  <1>2. ASSUME NEW new \in Status, ChangeStatus(s, new)
        PROVE  row'.status # row.status => CanTransition(row.status, row'.status)
    <2>1. /\ [c EXCEPT !.status = new].status = new
          /\ [c EXCEPT !.status = new, !.items = MarkAllDelivered(@)].status = new
      BY <1>1 DEF Row
    <2>2. row'.status = IF new = c.status THEN row.status ELSE new
      BY <1>2, <2>1 DEF ChangeStatus, Save
    <2>3. c.status = row.status /\ CanTransition(c.status, new)
      BY <1>2 DEF ChangeStatus, Decide
    <2> QED
      BY <2>2, <2>3
  <1>3. ASSUME NEW n \in 1 .. Pieces, Deliver(s, n)
        PROVE  row'.status # row.status => CanTransition(row.status, row'.status)
    <2> DEFINE items == [c.items EXCEPT !.given = @ + n]
               status == IF Pending(items) = 0 THEN "DELIVERED" ELSE "OUT_FOR_DELIVERY"
               new == [c EXCEPT !.status = status, !.items = items]
    <2>1. new.status = status
      BY <1>1 DEF Row
    <2>2. Save(s, new) /\ Decide(s, {"status", "items"}) /\ c.status \in Deliverable
      BY <1>3 DEF Deliver
    <2> HIDE DEF new
    <2>3. row'.status = (IF status = c.status THEN row.status ELSE status) /\ c.status = row.status
      BY <2>1, <2>2 DEF Save, Decide
    <2>4. status \in {"DELIVERED", "OUT_FOR_DELIVERY"}
      OBVIOUS
    <2> HIDE DEF status
    <2> QED
      BY <2>2, <2>3, <2>4 DEF Deliverable, CanTransition, Terminal, Stage, Rank
  <1>4. ASSUME NEW n \in 1 .. Pieces, Hold(s, n) \/ Release(s, n)
        PROVE  row'.status = row.status
    <2>1. /\ [c EXCEPT !.items.held = @ + n].status = c.status
          /\ [c EXCEPT !.items.held = @ - n].status = c.status
      BY <1>1 DEF Row
    <2> QED
      BY <1>4, <2>1 DEF Hold, Release, Save
  <1> QED
    BY <1>2, <1>3, <1>4 DEF Work

\* Every move of an order is one the state machine allows, unless a request
\* acted on a stale status.
THEOREM MovesLegal == Spec => MovesAreLegal
  <1> DEFINE A == row'.status # row.status /\ "status" \notin stale'
                   => /\ row.status \notin Terminal
                      /\ row.status \in Stage /\ row'.status \in Stage
                            => Rank[row.status] < Rank[row'.status]
  <1>1. TypeOK /\ [Next]_vars => [A]_vars
    <2> SUFFICES ASSUME TypeOK, Next, row'.status # row.status, "status" \notin stale'
                 PROVE  A
      BY DEF vars
    <2>1. PICK s \in Session : Step(s)
      BY NextIsStep
    <2>2. Work(s)
      BY <2>1, BillKeepsStatus
    <2>3. CanTransition(row.status, row'.status)
      BY <2>2, FreshWork
    <2> QED
      BY <2>3 DEF CanTransition, Stage, Rank
  <1> QED
    BY <1>1, TypeCorrect, PTL DEF Spec, MovesAreLegal

\* What was stale once is remembered.
LEMMA StaleGrows ==
  ASSUME NEW s \in Session, Step(s)
  PROVE  stale \subseteq stale'
  <1>1. ASSUME NEW new \in Status, ChangeStatus(s, new) PROVE stale \subseteq stale'
    BY <1>1 DEF ChangeStatus, Decide
  <1>2. ASSUME NEW n \in 1 .. Pieces, Deliver(s, n) \/ Hold(s, n) \/ Release(s, n)
        PROVE  stale \subseteq stale'
    BY <1>2 DEF Deliver, Hold, Release, Decide
  <1>3. ASSUME NEW price \in Price \cup {NoPrice}, NEW rebuild \in BOOLEAN,
               EditBill(s, price, rebuild)
        PROVE  stale \subseteq stale'
    BY <1>3 DEF EditBill, Decide
  <1> QED
    BY <1>1, <1>2, <1>3 DEF Step, Load, Refuse, RecordPayment, AddAdjustment, RemoveAdjustment,
                            BillAtPickup

\* The part of LinesTellDelivery that is claimed of the row.
LinesTell ==
    /\ row.items.given = handed
    /\ row.status = "DELIVERED" => row.items.given = Pieces /\ row.items.held = 0

\* A request of the shop floor that saw the current row keeps the lines in
\* step with what was handed over.
LEMMA FreshWorkTells ==
  ASSUME TypeOK, LinesTell, NEW s \in Session, Work(s),
         "status" \notin stale', "items" \notin stale'
  PROVE  LinesTell'
  <1> DEFINE c == copy[s]
  <1>1. c \in Row /\ c.items \in Items /\ row \in Row /\ row.items \in Items /\ handed \in Nat
    BY CopyIsRow DEF Work, ChangeStatus, Deliver, Hold, Release, Commit, TypeOK, Row
  <1>2. ASSUME NEW new \in Status, ChangeStatus(s, new), new = "DELIVERED"
        PROVE  LinesTell'
    <2> DEFINE row1 == [c EXCEPT !.status = new, !.items = MarkAllDelivered(@)]
    <2>1. /\ row1.status = new
          /\ row1.items.given = Pieces /\ row1.items.held = c.items.held
      BY <1>1 DEF Row, Items, MarkAllDelivered
    <2>2. /\ Save(s, row1) /\ Decide(s, {"status", "items"})
          /\ c.items.held = 0
          /\ handed' = handed + Pieces - c.items.given
      BY <1>2 DEF ChangeStatus
    <2> HIDE DEF row1
    <2>3. row'.items = row1.items /\ c.items = row.items
      BY <2>2 DEF Save, Decide
    <2> QED
      BY <1>1, <2>1, <2>2, <2>3, OrderAssumption DEF LinesTell, Items
  <1>3. ASSUME NEW new \in Status, ChangeStatus(s, new), new # "DELIVERED"
        PROVE  LinesTell'
    <2> DEFINE row1 == [c EXCEPT !.status = new]
    <2>1. row1.status = new /\ row1.items = c.items
      BY <1>1 DEF Row
    <2>2. Save(s, row1) /\ Decide(s, {"status"}) /\ handed' = handed
      BY <1>3 DEF ChangeStatus
    <2> HIDE DEF row1
    <2>3. row'.items = row.items /\ row'.status = new
      BY <2>1, <2>2 DEF Save, Decide
    <2> QED
      BY <1>3, <2>2, <2>3 DEF LinesTell
  <1>4. ASSUME NEW n \in 1 .. Pieces, Deliver(s, n)
        PROVE  LinesTell'
    <2> DEFINE items == [c.items EXCEPT !.given = @ + n]
               status == IF Pending(items) = 0 THEN "DELIVERED" ELSE "OUT_FOR_DELIVERY"
               row1 == [c EXCEPT !.status = status, !.items = items]
    <2>1. row1.status = status /\ row1.items = items
      BY <1>1 DEF Row
    <2>2. Save(s, row1) /\ Decide(s, {"status", "items"}) /\ handed' = handed + n
          /\ n <= Pieces - c.items.given - c.items.held
      BY <1>4 DEF Deliver, Deliverables, Pending
    <2> HIDE DEF row1
    <2>3. row'.items = row1.items /\ row'.status = row1.status /\ c.items = row.items
      BY <2>2 DEF Save, Decide
    <2>4. items.given = c.items.given + n /\ items.held = c.items.held
      BY <1>1 DEF Items
    <2>5. status = "DELIVERED" => items.given = Pieces
      BY <1>1, <2>4, OrderAssumption DEF Pending, Items
    <2> HIDE DEF items, status
    <2>6. row'.items.given = handed'
      BY <2>1, <2>2, <2>3, <2>4 DEF LinesTell
    <2>7. row'.status = "DELIVERED" => row'.items.given = Pieces /\ row'.items.held = 0
      BY <1>1, <2>1, <2>2, <2>3, <2>4, <2>5, OrderAssumption DEF Items
    <2> QED
      BY <2>6, <2>7 DEF LinesTell
  <1>5. ASSUME NEW n \in 1 .. Pieces, Hold(s, n) \/ Release(s, n)
        PROVE  LinesTell'
    <2> DEFINE up == [c EXCEPT !.items.held = @ + n]
               down == [c EXCEPT !.items.held = @ - n]
    <2>1. /\ up.status = c.status /\ up.items.given = c.items.given
          /\ down.status = c.status /\ down.items.given = c.items.given
      BY <1>1 DEF Row, Items
    <2>2. PICK new \in {up, down} : Save(s, new)
      BY <1>5 DEF Hold, Release
    <2>3. Decide(s, {"status", "items"}) /\ handed' = handed /\ c.status # "DELIVERED"
      BY <1>5 DEF Hold, Release, Holdable, Deliverable, Terminal
    <2> HIDE DEF up, down
    <2>4. row'.items = new.items /\ row'.status = c.status /\ c.items = row.items
          /\ c.status = row.status
      BY <2>1, <2>2, <2>3 DEF Save, Decide
    <2> QED
      BY <2>1, <2>3, <2>4 DEF LinesTell
  <1> QED
    BY <1>2, <1>3, <1>4, <1>5 DEF Work

\* While nobody acted on overtaken clothes or status and the bill was made
\* once, the lines tell what was handed over.
THEOREM LinesTruthful == Spec => []LinesTellDelivery
  <1>1. Init => LinesTellDelivery
    BY DEF Init, LinesTellDelivery, Fresh
  <1>2. TypeOK /\ LinesTellDelivery /\ [Next]_vars => LinesTellDelivery'
    <2> SUFFICES ASSUME TypeOK, LinesTellDelivery, [Next]_vars,
                        ~redone', stale' \cap {"status", "items"} = {}
                 PROVE  LinesTell'
      BY DEF LinesTellDelivery, LinesTell
    <2>1. CASE UNCHANGED vars
      BY <2>1 DEF LinesTellDelivery, LinesTell, vars
    <2>2. CASE Next
      <3>1. PICK s \in Session : Step(s)
        BY <2>2, NextIsStep
      <3>2. ~redone
        <4>1. redone => redone'
          BY <3>1, Zenon DEF Step, Load, Refuse, ChangeStatus, Deliver, Hold, Release, EditBill,
                             RecordPayment, AddAdjustment, RemoveAdjustment, BillAtPickup
        <4> QED
          BY <4>1
      <3>3. LinesTell
        <4>1. stale \subseteq stale'
          BY <3>1, StaleGrows
        <4> QED
          BY <3>2, <4>1 DEF LinesTellDelivery, LinesTell
      <3>4. CASE Load(s) \/ Refuse(s)
        BY <3>3, <3>4 DEF Load, Refuse, LinesTell
      <3>5. CASE Work(s)
        BY <3>3, <3>5, FreshWorkTells
      <3>6. ASSUME NEW price \in Price \cup {NoPrice}, NEW rebuild \in BOOLEAN,
                   EditBill(s, price, rebuild)
            PROVE  FALSE
        BY <3>6 DEF EditBill
      <3>7. ASSUME NEW a \in Amount, RecordPayment(s, a) PROVE LinesTell'
        BY <3>3, <3>7 DEF RecordPayment, LinesTell, TypeOK, Row
      <3>8. ASSUME NEW x \in Extra, AddAdjustment(s, x) \/ RemoveAdjustment(s, x)
            PROVE  LinesTell'
        <4>1. row'.status = row.status /\ handed' = handed
              /\ row'.items.given = row.items.given /\ row'.items.held = row.items.held
          <5>1. row \in Row /\ row.items \in Items
            BY DEF TypeOK, Row
          <5>2. PICK more \in {row.items.extras \cup {x}, row.items.extras \ {x}} :
                   /\ row'.items = [row.items EXCEPT !.extras = more]
                   /\ row'.status = row.status
                   /\ handed' = handed
            BY <3>8, <5>1 DEF AddAdjustment, RemoveAdjustment, Row
          <5> QED
            BY <5>1, <5>2 DEF Items
        <4> QED
          BY <3>3, <4>1 DEF LinesTell
      <3>9. ASSUME NEW total \in Price, BillAtPickup(s, total) PROVE LinesTell'
        <4>1. row'.status = row.status /\ handed' = handed /\ row'.items = Fresh /\ row.items = Fresh
          BY <3>9 DEF BillAtPickup, TypeOK, Row
        <4> QED
          BY <3>3, <4>1 DEF LinesTell
      <3> QED
        BY <3>1, <3>4, <3>5, <3>6, <3>7, <3>8, <3>9 DEF Step, Work
    <2> QED
      BY <2>1, <2>2
  <1> QED
    BY <1>1, <1>2, TypeCorrect, PTL DEF Spec

----------------------------------------------------------------------------
(***************************************************************************)
(* The adjustments on the bill.                                            *)
(***************************************************************************)

\* Every adjustment on the row, or on a request's copy of it, was given out.
ExtrasGiven ==
    /\ row.items.extras \subseteq used
    /\ \A s \in Session : copy[s] # NoCopy => copy[s].items.extras \subseteq used

BillInv == ExtrasGiven /\ BillAddsUp

\* The amount the adjustments S come to.
Charges(S) == SumOver(Charge, S)

LEMMA ChargesAreInt ==
  ASSUME NEW S \in SUBSET Extra
  PROVE  IsFiniteSet(S) /\ Charges(S) \in Nat
  <1>1. IsFiniteSet(S)
    BY OrderAssumption, FS_Subset
  <1>2. \A x \in S : Charge[x] \in Nat
    BY OrderAssumption
  <1> QED
    BY <1>1, <1>2, SumIsNat DEF Charges

\* One adjustment more, and one less, for an adjustment that was not there.
LEMMA ChargesAdd ==
  ASSUME NEW S \in SUBSET Extra, NEW x \in Extra, x \notin S
  PROVE  Charges(S \cup {x}) = Charges(S) + Charge[x]
  <1>1. IsFiniteSet(S \cup {x})
    BY ChargesAreInt
  <1>2. \A y \in S \cup {x} : Charge[y] \in Int
    BY OrderAssumption
  <1>3. x \in S \cup {x} /\ (S \cup {x}) \ {x} = S
    OBVIOUS
  <1>4. SumOver(Charge, S \cup {x}) = Charge[x] + SumOver(Charge, (S \cup {x}) \ {x})
    BY <1>1, <1>2, <1>3, SumTakesOut
  <1>5. Charges(S \cup {x}) = Charge[x] + Charges(S)
    BY <1>3, <1>4, Zenon DEF Charges
  <1>6. Charges(S) \in Nat /\ Charge[x] \in Nat
    BY ChargesAreInt, OrderAssumption
  <1> QED
    BY <1>5, <1>6

\* The property, said with Charges.
LEMMA BillIs ==
  BillAddsUp <=> (~redone /\ "items" \notin stale
                     => Value(row.total) = Value(bill) + Charges(row.items.extras))
  BY DEF BillAddsUp, Charges, SumOver

\* The shop floor writes the lines of its copy or none, the current ones
\* when nobody overtook it.
LEMMA WorkKeepsExtras ==
  ASSUME TypeOK, NEW s \in Session, Work(s)
  PROVE  /\ row'.items.extras \in {row.items.extras, copy[s].items.extras}
         /\ "items" \notin stale' => row'.items.extras = row.items.extras
         /\ copy[s] # NoCopy /\ copy' = [copy EXCEPT ![s] = NoCopy]
         /\ used' = used /\ bill' = bill
  <1> DEFINE c == copy[s]
             Kept == /\ row'.items.extras \in {row.items.extras, c.items.extras}
                     /\ "items" \notin stale' => row'.items.extras = row.items.extras
  <1>1. c \in Row /\ c.items \in Items
    BY CopyIsRow DEF Work, ChangeStatus, Deliver, Hold, Release, Commit
  <1>2. ASSUME NEW new, Save(s, new), new.items.extras = c.items.extras,
               new.items = c.items \/ Decide(s, {"status", "items"})
        PROVE  Kept
    <2>1. row'.items = IF new.items = c.items THEN row.items ELSE new.items
      BY <1>2 DEF Save
    <2>2. new.items # c.items /\ "items" \notin stale' => c.items = row.items
      BY <1>2 DEF Decide
    <2> QED
      BY <1>2, <2>1, <2>2
  <1>3. ASSUME NEW new \in Status, ChangeStatus(s, new) PROVE Kept
    <2> DEFINE done == [c EXCEPT !.status = new, !.items = MarkAllDelivered(@)]
               moved == [c EXCEPT !.status = new]
    <2>1. done.items.extras = c.items.extras /\ moved.items = c.items
      BY <1>1 DEF Row, Items, MarkAllDelivered
    <2>2. \/ Save(s, done) /\ Decide(s, {"status", "items"})
          \/ Save(s, moved)
      BY <1>3 DEF ChangeStatus
    <2> HIDE DEF done, moved, Kept
    <2> QED
      BY <1>2, <2>1, <2>2
  <1>4. ASSUME NEW n \in 1 .. Pieces, Deliver(s, n) PROVE Kept
    <2> DEFINE items == [c.items EXCEPT !.given = @ + n]
               status == IF Pending(items) = 0 THEN "DELIVERED" ELSE "OUT_FOR_DELIVERY"
               new == [c EXCEPT !.status = status, !.items = items]
    <2>1. new.items.extras = c.items.extras
      BY <1>1 DEF Row, Items
    <2>2. Save(s, new) /\ Decide(s, {"status", "items"})
      BY <1>4 DEF Deliver
    <2> HIDE DEF new, Kept
    <2> QED
      BY <1>2, <2>1, <2>2
  <1>5. ASSUME NEW n \in 1 .. Pieces, Hold(s, n) \/ Release(s, n) PROVE Kept
    <2> DEFINE up == [c EXCEPT !.items.held = @ + n]
               down == [c EXCEPT !.items.held = @ - n]
    <2>1. up.items.extras = c.items.extras /\ down.items.extras = c.items.extras
      BY <1>1 DEF Row, Items
    <2>2. (Save(s, up) \/ Save(s, down)) /\ Decide(s, {"status", "items"})
      BY <1>5 DEF Hold, Release
    <2> HIDE DEF up, down, Kept
    <2> QED
      BY <1>2, <2>1, <2>2
  <1>6. Kept
    BY <1>3, <1>4, <1>5 DEF Work
  <1>7. /\ copy[s] # NoCopy /\ copy' = [copy EXCEPT ![s] = NoCopy]
        /\ used' = used /\ bill' = bill
    BY DEF Work, ChangeStatus, Deliver, Hold, Release, Commit
  <1> QED
    BY <1>6, <1>7

\* An edit writes the lines it read, the new ones, or none.
LEMMA EditExtras ==
  ASSUME TypeOK, NEW s \in Session, NEW price \in Price \cup {NoPrice}, NEW rebuild \in BOOLEAN,
         EditBill(s, price, rebuild)
  PROVE  row'.items.extras \in {row.items.extras, {}}
  <1> DEFINE c == copy[s]
             total == IF price = NoPrice THEN c.total ELSE price
             new == [c EXCEPT !.total = total, !.items = IF rebuild THEN Fresh ELSE @,
                              !.pays = PaymentStatus(total, c.paid)]
  <1>1. c \in Row /\ Save(s, new)
    BY CopyIsRow DEF EditBill, Commit
  <1>2. new.items = IF rebuild THEN Fresh ELSE c.items
    BY <1>1 DEF Row
  <1> HIDE DEF new
  <1>3. row'.items = IF new.items = c.items THEN row.items ELSE new.items
    BY <1>1 DEF Save
  <1> QED
    BY <1>2, <1>3 DEF Fresh

LEMMA InitBillInv == Init => BillInv
  <1> SUFFICES ASSUME Init PROVE BillInv
    OBVIOUS
  <1>1. row.items.extras = {} /\ row.total = bill /\ bill \in Nat \cup {NoPrice}
    BY OrderAssumption DEF Init, Fresh
  <1>2. Charges({}) = 0
    BY SumOfNone DEF Charges
  <1>3. BillAddsUp
    BY <1>1, <1>2, BillIs DEF Value, NoPrice
  <1>4. ExtrasGiven
    BY <1>1 DEF ExtrasGiven, Init
  <1> QED
    BY <1>3, <1>4 DEF BillInv

\* A step that ends a request, and takes the row's adjustments from the
\* row, the copy or those given out, keeps every adjustment given.
LEMMA StepExtrasGiven ==
  ASSUME TypeOK, ExtrasGiven, NEW s \in Session, Step(s)
  PROVE  ExtrasGiven'
  <1>0. row \in Row /\ row.items \in Items
    BY DEF TypeOK, Row
  <1>1. ASSUME row'.items.extras \subseteq used', used \subseteq used',
               copy' = [copy EXCEPT ![s] = NoCopy] \/ copy' = [copy EXCEPT ![s] = row]
        PROVE  ExtrasGiven'
    BY <1>1 DEF TypeOK, ExtrasGiven
  <1>2. CASE Load(s) \/ Refuse(s)
    BY <1>1, <1>2 DEF Load, Refuse, ExtrasGiven
  <1>3. CASE Work(s)
    BY <1>1, <1>3, WorkKeepsExtras DEF ExtrasGiven
  <1>4. ASSUME NEW price \in Price \cup {NoPrice}, NEW rebuild \in BOOLEAN,
               EditBill(s, price, rebuild)
        PROVE  ExtrasGiven'
    BY <1>1, <1>4, EditExtras DEF ExtrasGiven, EditBill, Commit
  <1>5. ASSUME NEW a \in Amount, RecordPayment(s, a) PROVE ExtrasGiven'
    <2>1. row'.items = row.items
      BY <1>0, <1>5 DEF RecordPayment, Row
    <2> QED
      BY <1>1, <1>5, <2>1 DEF ExtrasGiven, RecordPayment, Commit
  <1>6. ASSUME NEW x \in Extra, AddAdjustment(s, x) PROVE ExtrasGiven'
    <2>1. row'.items.extras = row.items.extras \cup {x} /\ used' = used \cup {x}
      BY <1>0, <1>6 DEF AddAdjustment, Row, Items
    <2> QED
      BY <1>1, <1>6, <2>1 DEF ExtrasGiven, AddAdjustment, Commit
  <1>7. ASSUME NEW x \in Extra, RemoveAdjustment(s, x) PROVE ExtrasGiven'
    <2>1. row'.items.extras = row.items.extras \ {x}
      BY <1>0, <1>7 DEF RemoveAdjustment, Row, Items
    <2> QED
      BY <1>1, <1>7, <2>1 DEF ExtrasGiven, RemoveAdjustment, Commit
  <1>8. ASSUME NEW total \in Price, BillAtPickup(s, total) PROVE ExtrasGiven'
    <2>1. row'.items = Fresh
      BY <1>0, <1>8 DEF BillAtPickup, Row
    <2> QED
      BY <1>1, <1>8, <2>1 DEF ExtrasGiven, BillAtPickup, Commit, Fresh
  <1> QED
    BY <1>2, <1>3, <1>4, <1>5, <1>6, <1>7, <1>8 DEF Step, Work

\* Money put on the bill, and money taken off it, is the line's charge: what
\* is left never falls below zero, so nothing is cut off.
LEMMA StepBillAddsUp ==
  ASSUME TypeOK, BillInv, NEW s \in Session, Step(s)
  PROVE  BillAddsUp'
  <1> SUFFICES ASSUME ~redone', "items" \notin stale'
               PROVE  (Value(row.total) = Value(bill) + Charges(row.items.extras))'
    BY DEF BillAddsUp, Charges, SumOver
  <1>0. /\ row \in Row /\ row.items \in Items /\ row.items.extras \in SUBSET Extra
        /\ row.total \in Nat \cup {NoPrice} /\ Value(row.total) \in Nat
        /\ bill \in Nat \cup {NoPrice} /\ Value(bill) \in Nat
    BY DEF TypeOK, Row, Items, Value
  <1>1. ~redone
    <2>1. redone => redone'
      BY Zenon DEF Step, Load, Refuse, ChangeStatus, Deliver, Hold, Release, EditBill,
                   RecordPayment, AddAdjustment, RemoveAdjustment, BillAtPickup
    <2> QED
      BY <2>1
  <1>2. "items" \notin stale
    BY StaleGrows
  <1>3. Value(row.total) = Value(bill) + Charges(row.items.extras)
    BY <1>1, <1>2, BillIs DEF BillInv
  <1>4. CASE Load(s) \/ Refuse(s)
    BY <1>3, <1>4 DEF Load, Refuse
  <1>5. CASE Work(s)
    BY <1>3, <1>5, WorkKeepsExtras, WorkKeepsMoney
  <1>6. ASSUME NEW price \in Price \cup {NoPrice}, NEW rebuild \in BOOLEAN,
               EditBill(s, price, rebuild)
        PROVE  FALSE
    BY <1>6 DEF EditBill
  <1>7. ASSUME NEW a \in Amount, RecordPayment(s, a)
        PROVE  (Value(row.total) = Value(bill) + Charges(row.items.extras))'
    <2>1. row'.items = row.items /\ row'.total = row.total /\ bill' = bill
      BY <1>0, <1>7 DEF RecordPayment, Row
    <2> QED
      BY <1>3, <2>1
  <1>8. ASSUME NEW x \in Extra, AddAdjustment(s, x)
        PROVE  (Value(row.total) = Value(bill) + Charges(row.items.extras))'
    <2> DEFINE extras == row.items.extras
    <2>1. x \notin extras
      BY <1>8 DEF AddAdjustment, BillInv, ExtrasGiven
    <2>2. Charges(extras \cup {x}) = Charges(extras) + Charge[x]
      BY <1>0, <2>1, ChargesAdd
    <2>3. row'.items.extras = extras \cup {x} /\ bill' = bill
      BY <1>0, <1>8 DEF AddAdjustment, Row, Items
    <2>4. row'.total = Value(row.total) + Charge[x]
      BY <1>0, <1>8 DEF AddAdjustment, Row
    <2>5. Charge[x] \in Nat /\ Charges(extras) \in Nat
      BY <1>0, ChargesAreInt, OrderAssumption
    <2>6. Value(row'.total) = row'.total
      BY <1>0, <2>4, <2>5 DEF Value, NoPrice
    <2>7. Value(row'.total) = Value(bill) + Charges(extras \cup {x})
      BY <1>0, <1>3, <2>2, <2>4, <2>5, <2>6
    <2> QED
      BY <2>3, <2>7
  <1>9. ASSUME NEW x \in Extra, RemoveAdjustment(s, x)
        PROVE  (Value(row.total) = Value(bill) + Charges(row.items.extras))'
    <2> DEFINE extras == row.items.extras
               left == Value(row.total) - Charge[x]
    <2>1. x \in extras
      BY <1>9 DEF RemoveAdjustment
    <2>2. extras \ {x} \in SUBSET Extra /\ (extras \ {x}) \cup {x} = extras
      BY <1>0, <2>1
    <2>3. Charges((extras \ {x}) \cup {x}) = Charges(extras \ {x}) + Charge[x]
      BY <2>2, ChargesAdd
    <2>4. Charge[x] \in Nat /\ Charges(extras \ {x}) \in Nat
      BY <2>2, ChargesAreInt, OrderAssumption
    <2>5. left = Value(bill) + Charges(extras \ {x}) /\ left \in Nat
      <3>1. Charges(extras) = Charges(extras \ {x}) + Charge[x]
        BY <2>2, <2>3, Zenon
      <3> HIDE DEF extras
      <3>2. Value(row.total) = Value(bill) + Charges(extras)
        BY <1>3 DEF extras
      <3> QED
        BY <1>0, <2>4, <3>1, <3>2
    <2>6. row'.items.extras = extras \ {x} /\ bill' = bill
      BY <1>0, <1>9 DEF RemoveAdjustment, Row, Items
    <2>7. row'.total = IF left < 0 THEN 0 ELSE left
      BY <1>0, <1>9 DEF RemoveAdjustment, Row
    <2> HIDE DEF left
    <2>8. Value(row'.total) = left
      BY <2>5, <2>7 DEF Value, NoPrice
    <2> QED
      BY <2>5, <2>6, <2>8
  <1>10. ASSUME NEW total \in Price, BillAtPickup(s, total)
         PROVE  (Value(row.total) = Value(bill) + Charges(row.items.extras))'
    <2>1. row'.items = Fresh /\ row'.total = total /\ bill' = total
      BY <1>0, <1>10 DEF BillAtPickup, Row
    <2>2. Fresh.extras = {} /\ Charges({}) = 0
      BY SumOfNone DEF Fresh, Charges
    <2>3. Value(total) \in Nat
      BY OrderAssumption DEF Value
    <2> QED
      BY <2>1, <2>2, <2>3
  <1> QED
    BY <1>4, <1>5, <1>6, <1>7, <1>8, <1>9, <1>10 DEF Step, Work

\* Bill plus adjustments is the total, whatever deliveries, holds, payments
\* and adjustments run side by side, for any adjustments and charges.
THEOREM BillAccounted == Spec => []BillAddsUp
  <1>1. TypeOK /\ BillInv /\ [Next]_vars => BillInv'
    <2> SUFFICES ASSUME TypeOK, BillInv, [Next]_vars PROVE BillInv'
      OBVIOUS
    <2>1. CASE UNCHANGED vars
      <3>1. ExtrasGiven'
        BY <2>1 DEF BillInv, ExtrasGiven, vars
      <3>2. (~redone /\ "items" \notin stale
               => Value(row.total) = Value(bill) + Charges(row.items.extras))'
        BY <2>1, BillIs DEF BillInv, vars
      <3>3. BillAddsUp'
        BY <3>2 DEF BillAddsUp, Charges, SumOver
      <3> QED
        BY <3>1, <3>3 DEF BillInv
    <2>2. CASE Next
      <3>1. PICK s \in Session : Step(s)
        BY <2>2, NextIsStep
      <3>2. ExtrasGiven'
        BY <3>1, StepExtrasGiven DEF BillInv
      <3>3. BillAddsUp'
        BY <3>1, StepBillAddsUp
      <3> QED
        BY <3>2, <3>3 DEF BillInv
    <2> QED
      BY <2>1, <2>2
  <1>2. BillInv => BillAddsUp
    BY DEF BillInv
  <1> QED
    BY <1>1, <1>2, InitBillInv, TypeCorrect, PTL DEF Spec

=============================================================================
