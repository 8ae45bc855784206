--------------------------- MODULE OrderLifecycle ---------------------------
(***************************************************************************)
(* One laundry order: its status, its clothes and its bill                 *)
(* (app/services/order_service.py, app/services/delivery.py and the edit   *)
(* and pickup-bill endpoints).                                             *)
(*                                                                         *)
(* A request loads the row into its session and decides on that copy.      *)
(* Money handlers lock the row and read it again before they write;        *)
(* status, delivery, hold and edit handlers do neither: at commit the ORM  *)
(* writes the columns that differ from the copy, over whatever the row has *)
(* become.  Each commit is one step.                                       *)
(***************************************************************************)
EXTENDS Integers, FiniteSetsExt

CONSTANTS
    Session,     \* concurrent requests
    Pieces,      \* clothes on the order
    Price,       \* totals a bill may be given
    Amount,      \* payments a customer may make
    Extra,       \* ids of billing adjustments
    Charge,      \* the amount of each adjustment
    MaxCommits   \* bound on committed changes

ASSUME OrderAssumption ==
    /\ Pieces \in Nat \ {0}
    /\ Price \subseteq Nat
    /\ Amount \subseteq Nat \ {0}
    /\ IsFiniteSet(Extra)
    /\ Charge \in [Extra -> Nat \ {0}]
    /\ MaxCommits \in Nat

VARIABLES
    row,       \* the orders row
    copy,      \* the row as each request's session last read it
    received,  \* the sum of the order's payments rows
    used,      \* adjustment ids that have been given out
    bill,      \* history: the price the order was billed at, NoPrice before
    handed,    \* history: clothes handed over the counter
    redone,    \* history: was the bill made anew after its first one?
    stale,     \* history: columns some request acted on after they had changed
    commits    \* committed changes so far

vars == <<row, copy, received, used, bill, handed, redone, stale, commits>>

(***************************************************************************)
(* Statuses, and the one and only transition rule.                         *)
(***************************************************************************)
Rank == [RECEIVED |-> 1, PICKUP_ASSIGNED |-> 2, PICKED_UP |-> 3, IN_WASH |-> 4, IN_DRY |-> 5,
         IN_IRON |-> 6, READY |-> 7, OUT_FOR_DELIVERY |-> 8, DELIVERED |-> 9]
Stage       == DOMAIN Rank
Terminal    == {"DELIVERED", "CANCELLED"}
Status      == Stage \cup {"CANCELLED", "ON_HOLD"}
Deliverable == {"READY", "OUT_FOR_DELIVERY"}
Holdable    == {"RECEIVED", "PICKED_UP", "IN_WASH", "IN_DRY", "IN_IRON"} \cup Deliverable

\* Mutant of CanTransition: a cancelled order can be taken up again.
CanRevive(old, new) ==
    /\ new # old
    /\ old # "DELIVERED"
    /\ \/ new \in {"CANCELLED", "ON_HOLD"}
       \/ old \in {"ON_HOLD", "CANCELLED"} /\ new \in Stage
       \/ old \in Stage /\ new \in Stage /\ Rank[new] > Rank[old]

CanTransition(old, new) ==
    /\ new # old
    /\ old \notin Terminal
    /\ \/ new \in {"CANCELLED", "ON_HOLD"}
       \/ old = "ON_HOLD" /\ new \in Stage
       \/ old \in Stage /\ new \in Stage /\ Rank[new] > Rank[old]

(***************************************************************************)
(* Money.  A total may not be set yet.                                     *)
(***************************************************************************)
NoPrice == -1
Value(total) == IF total = NoPrice THEN 0 ELSE total

\* Mutant of PaymentStatus: an unknown total counts as paid.
LoosePaymentStatus(total, paid) ==
    IF paid <= 0 THEN "UNPAID" ELSE IF paid < total THEN "PARTIAL" ELSE "PAID"

PaymentStatus(total, paid) ==
    IF paid <= 0 THEN "UNPAID"
    ELSE IF total = NoPrice \/ paid < total THEN "PARTIAL" ELSE "PAID"

(***************************************************************************)
(* The row.  "items" is one JSON column: how many clothes were given and   *)
(* are held, and the adjustment lines.                                     *)
(***************************************************************************)
Items == [given : 0 .. Pieces, held : 0 .. Pieces, extras : SUBSET Extra]
Row == [status : Status, items : Items, total : Nat \cup {NoPrice}, paid : Nat,
        pays : {"UNPAID", "PARTIAL", "PAID"}]
Columns == {"status", "items", "total", "paid", "pays"}
Fresh == [given |-> 0, held |-> 0, extras |-> {}]
NoCopy == << >>

TypeOK ==
    /\ row \in Row
    /\ row.items.given + row.items.held <= Pieces
    /\ copy \in [Session -> Row \cup {NoCopy}]
    /\ \A s \in Session :
          copy[s] # NoCopy => copy[s].items.given + copy[s].items.held <= Pieces
    /\ received \in Nat
    /\ used \in SUBSET Extra
    /\ bill \in Nat \cup {NoPrice}
    /\ handed \in Nat
    /\ redone \in BOOLEAN
    /\ stale \in SUBSET Columns
    /\ commits \in 0 .. MaxCommits

\* create_order: with or without a pickup, with or without a price.
Init ==
    /\ \E status \in {"RECEIVED", "PICKUP_ASSIGNED"}, total \in Price \cup {NoPrice} :
          /\ row = [status |-> status, items |-> Fresh, total |-> total, paid |-> 0,
                    pays |-> "UNPAID"]
          /\ bill = total
    /\ copy = [s \in Session |-> NoCopy]
    /\ received = 0
    /\ used = {}
    /\ handed = 0
    /\ redone = FALSE
    /\ stale = {}
    /\ commits = 0

Load(s) ==
    /\ copy[s] = NoCopy
    /\ copy' = [copy EXCEPT ![s] = row]
    /\ UNCHANGED <<row, received, used, bill, handed, redone, stale, commits>>

\* The request is refused, fails, or only wanted to read.
Refuse(s) ==
    /\ copy[s] # NoCopy
    /\ copy' = [copy EXCEPT ![s] = NoCopy]
    /\ UNCHANGED <<row, received, used, bill, handed, redone, stale, commits>>

\* The request of session s ends with a commit.
Commit(s) ==
    /\ copy[s] # NoCopy
    /\ commits < MaxCommits
    /\ commits' = commits + 1
    /\ copy' = [copy EXCEPT ![s] = NoCopy]

\* The unit of work: only the columns that were changed are written.
Save(s, new) ==
    LET Written(f) == IF new[f] = copy[s][f] THEN row[f] ELSE new[f] IN
    row' = [status |-> Written("status"), items |-> Written("items"),
            total |-> Written("total"), paid |-> Written("paid"), pays |-> Written("pays")]

\* Session s decided on these columns of its copy.
Decide(s, read) == stale' = stale \cup {f \in read : copy[s][f] # row[f]}

----------------------------------------------------------------------------
(***************************************************************************)
(* Status, delivery and hold: decided on the copy.                         *)
(***************************************************************************)

\* Mutant of MarkAllDelivered: the clothes are left as they are.
MarkNothing(items) == items

\* Straight to DELIVERED: every cloth counts as given.
MarkAllDelivered(items) == [items EXCEPT !.given = Pieces]

\* update_status: an order with clothes on hold cannot be delivered.
ChangeStatus(s, new) ==
    LET c == copy[s] IN
    /\ Commit(s)
    /\ CanTransition(c.status, new)
    /\ IF new = "DELIVERED"
       THEN /\ c.items.held = 0
            /\ Save(s, [c EXCEPT !.status = new, !.items = MarkAllDelivered(@)])
            /\ Decide(s, {"status", "items"})
            /\ handed' = handed + Pieces - c.items.given
       ELSE /\ Save(s, [c EXCEPT !.status = new])
            /\ Decide(s, {"status"})
            /\ UNCHANGED handed
    /\ UNCHANGED <<received, used, bill, redone>>

Pending(items) == Pieces - items.given

\* Mutant of Deliverables: clothes on hold are handed over too.
DeliverablesAll(items) == Pending(items)

\* The clothes that can be given, or put on hold, now.
Deliverables(items) == Pending(items) - items.held

\* deliver: n of the clothes that are not held; the last one closes the
\* order, and a first part of them takes a READY order out for delivery.
Deliver(s, n) ==
    LET c == copy[s]
        items == [c.items EXCEPT !.given = @ + n]
        status == IF Pending(items) = 0 THEN "DELIVERED" ELSE "OUT_FOR_DELIVERY" IN
    /\ Commit(s)
    /\ c.status \in Deliverable
    /\ n <= Deliverables(c.items)
    /\ Save(s, [c EXCEPT !.status = status, !.items = items])
    /\ Decide(s, {"status", "items"})
    /\ handed' = handed + n
    /\ UNCHANGED <<received, used, bill, redone>>

\* hold: n clothes are not ready; the order goes on without them.
Hold(s, n) ==
    LET c == copy[s] IN
    /\ Commit(s)
    /\ c.status \in Holdable
    /\ n <= Deliverables(c.items)
    /\ Save(s, [c EXCEPT !.items.held = @ + n])
    /\ Decide(s, {"status", "items"})
    /\ UNCHANGED <<received, used, bill, handed, redone>>

\* release: n of the held clothes are ready after all.
Release(s, n) ==
    LET c == copy[s] IN
    /\ Commit(s)
    /\ c.status \notin Terminal
    /\ n <= c.items.held
    /\ Save(s, [c EXCEPT !.items.held = @ - n])
    /\ Decide(s, {"status", "items"})
    /\ UNCHANGED <<received, used, bill, handed, redone>>

\* edit_order: maybe a new total, and maybe the lines as the edit screen
\* rebuilds them, without the counts of given and held clothes and without
\* the ids that make a line an adjustment.
EditBill(s, price, rebuild) ==
    LET c == copy[s]
        total == IF price = NoPrice THEN c.total ELSE price IN
    /\ Commit(s)
    /\ Save(s, [c EXCEPT !.total = total,
                         !.items = IF rebuild THEN Fresh ELSE @,
                         !.pays = PaymentStatus(total, c.paid)])
    /\ Decide(s, {"total", "paid", "pays"})
    /\ redone' = TRUE
    /\ UNCHANGED <<received, used, bill, handed>>

----------------------------------------------------------------------------
(***************************************************************************)
(* Money: SELECT ... FOR UPDATE, and the copy is read again.               *)
(***************************************************************************)

\* Mutant of RecordPayment: the lock is taken but the copy is not read again.
PaymentOnCopy(s, a) ==
    LET c == copy[s]
        paid == c.paid + a IN
    /\ Commit(s)
    /\ row' = [row EXCEPT !.paid = paid, !.pays = PaymentStatus(c.total, paid)]
    /\ received' = received + a
    /\ UNCHANGED <<used, bill, handed, redone, stale>>

\* record_payment: a ledger row and the derived columns, in one commit.
RecordPayment(s, a) ==
    LET paid == row.paid + a IN
    /\ Commit(s)
    /\ row' = [row EXCEPT !.paid = paid, !.pays = PaymentStatus(row.total, paid)]
    /\ received' = received + a
    /\ UNCHANGED <<used, bill, handed, redone, stale>>

\* add_billing_adjustment, under a new uuid.
AddAdjustment(s, x) ==
    LET total == Value(row.total) + Charge[x] IN
    /\ Commit(s)
    /\ x \notin used
    /\ used' = used \cup {x}
    /\ row' = [row EXCEPT !.items.extras = @ \cup {x}, !.total = total,
                          !.pays = PaymentStatus(total, row.paid)]
    /\ UNCHANGED <<received, bill, handed, redone, stale>>

\* Mutant of RemoveAdjustment: the line is looked for in the copy.
RemoveFromCopy(s, x) ==
    LET left == Value(row.total) - Charge[x]
        total == IF left < 0 THEN 0 ELSE left IN
    /\ Commit(s)
    /\ x \in copy[s].items.extras
    /\ row' = [row EXCEPT !.items.extras = @ \ {x}, !.total = total,
                          !.pays = PaymentStatus(total, row.paid)]
    /\ UNCHANGED <<received, used, bill, handed, redone, stale>>

\* remove_billing_adjustment: only a line that is there.
RemoveAdjustment(s, x) ==
    LET left == Value(row.total) - Charge[x]
        total == IF left < 0 THEN 0 ELSE left IN
    /\ Commit(s)
    /\ x \in row.items.extras
    /\ row' = [row EXCEPT !.items.extras = @ \ {x}, !.total = total,
                          !.pays = PaymentStatus(total, row.paid)]
    /\ UNCHANGED <<received, used, bill, handed, redone, stale>>

\* The bill made at the door (staff_panel.create_bill): once, on an order
\* still waiting for its pickup and still without a price.
BillAtPickup(s, total) ==
    /\ Commit(s)
    /\ row.status = "PICKUP_ASSIGNED" /\ row.total = NoPrice
    /\ row' = [row EXCEPT !.items = Fresh, !.total = total,
                          !.pays = PaymentStatus(total, row.paid)]
    /\ bill' = total
    /\ redone' = (redone \/ row.items # Fresh)
    /\ UNCHANGED <<received, used, handed, stale>>

----------------------------------------------------------------------------
Next ==
    \E s \in Session :
        \/ Load(s)
        \/ Refuse(s)
        \/ \E new \in Status : ChangeStatus(s, new)
        \/ \E n \in 1 .. Pieces : Deliver(s, n) \/ Hold(s, n) \/ Release(s, n)
        \/ \E price \in Price \cup {NoPrice}, rebuild \in BOOLEAN : EditBill(s, price, rebuild)
        \/ \E a \in Amount : RecordPayment(s, a)
        \/ \E x \in Extra : AddAdjustment(s, x) \/ RemoveAdjustment(s, x)
        \/ \E total \in Price : BillAtPickup(s, total)

Spec == Init /\ [][Next]_vars

----------------------------------------------------------------------------
(***************************************************************************)
(* Properties.                                                             *)
(***************************************************************************)

\* amount_paid is a cache of the payments ledger, and no interleaving of
\* payments with stale status, delivery, hold or edit requests parts them.
PaidIsReceived == row.paid = received

\* The rule of models/order.py: no money is UNPAID; all of a known total is
\* PAID; an advance on an unknown total is not.
PaymentRule ==
    /\ row.pays = "UNPAID" <=> row.paid = 0
    /\ row.pays = "PAID" <=> row.paid > 0 /\ row.total # NoPrice /\ row.paid >= row.total

\* The payment rule, whatever races on status and clothes: it is only ever
\* lost to an edit that computed it from a copy overtaken by money.
PaidRuleHolds == stale \cap {"total", "paid", "pays"} = {} => PaymentRule

\* "line-wise hisaab aur status ek hi baat kahein": while nobody acted on
\* overtaken clothes or status, and the bill was made once, the lines tell
\* what was handed over, and a delivered order has nothing left or held.
LinesTellDelivery ==
    ~redone /\ stale \cap {"status", "items"} = {}
        => /\ row.items.given = handed
           /\ row.status = "DELIVERED" => row.items.given = Pieces /\ row.items.held = 0

\* The adjustments on the bill account for its total: none is lost from the
\* lines by a concurrent delivery or hold, and none counts twice.
BillAddsUp ==
    ~redone /\ "items" \notin stale
        => Value(row.total) = Value(bill) + MapThenSumSet(LAMBDA x : Charge[x], row.items.extras)

\* The state machine, unless a request acted on a stale status: a delivered
\* or cancelled order stays so, whatever is delivered, edited or billed, and
\* the stages go backwards only by way of ON_HOLD.
MovesAreLegal ==
    [][row'.status # row.status /\ "status" \notin stale'
           => /\ row.status \notin Terminal
              /\ row.status \in Stage /\ row'.status \in Stage
                    => Rank[row.status] < Rank[row'.status]]_vars

(***************************************************************************)
(* What the documentation says without those conditions.                   *)
(***************************************************************************)

\* "DELIVERED: terminal." and CANCELLED too.
TerminalIsFinal == [][row.status \in Terminal => row'.status = row.status]_vars

\* The line-wise account and the status of a delivered order agree.
DeliveredLinesAgree ==
    row.status = "DELIVERED" => row.items.given = Pieces /\ row.items.held = 0

=============================================================================
