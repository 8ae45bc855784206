----------------------------- MODULE Collections -----------------------------
(***************************************************************************)
(* One customer's money on its way into the payments ledger: staff who     *)
(* collect at the door, the customer who pays a Razorpay link, and the     *)
(* owner who meanwhile edits, cancels or deletes a bill                    *)
(* (collect_payment in app/routers/staff_panel.py,                         *)
(* app/services/order_payment_gateway.py, delete_order in                  *)
(* app/routers/orders.py).                                                 *)
(*                                                                         *)
(* A collection is a retried request: the sheet fixes its id and its body, *)
(* the outbox and a second tap send it again.  It reads the dues without a *)
(* lock, splits the money on what it read, and pays each bill with a       *)
(* commit of its own under that bill's lock.                               *)
(***************************************************************************)
EXTENDS Integers, FiniteSets, FiniteSetsExt

CONSTANTS
    Order,       \* orders, numbered from the oldest
    FirstTotal,  \* the total each is billed at
    Prices,      \* totals the owner may edit one to
    Desk,        \* collect requests in flight
    Sheet,       \* ids the staff app makes, one per collect sheet
    Body,        \* what each sheet asks for
    Link,        \* payment links at Razorpay
    Tender,      \* amounts somebody records by hand on a bill
    Nothing,     \* no reference, no link
    MaxRows,     \* bound on ledger rows
    MaxTrouble   \* bound on edited, cancelled and deleted bills, payments by hand and failures

ASSUME CollectionsAssumption ==
    /\ Order \subseteq Nat
    /\ IsFiniteSet(Order)
    /\ FirstTotal \in [Order -> Nat]
    /\ Prices \subseteq Nat /\ Tender \subseteq Nat \ {0}
    /\ Body \in [Sheet -> [order : Order, amount : Nat \ {0}, settle : BOOLEAN]]
    /\ Nothing \notin Sheet \cup Link
    /\ Sheet \cap Link = {}
    /\ MaxRows \in Nat /\ MaxTrouble \in Nat

VARIABLES
    orders,    \* the orders rows
    book,      \* the payments rows
    desk,      \* what each collect request holds
    links,     \* what each payment link was made for
    customer,  \* what the sheet's and the link's senders were answered
    review,    \* links escalated for manual reconciliation
    deleting,  \* rows a deletion of the order has removed, not yet committed
    posted,    \* history: rupees in the ledger for each sheet
    cut,       \* history: sheets and links whose handling failed half way
    forgot,    \* history: sheets whose reference was deleted with a bill
    raced,     \* history: requests whose dues someone changed since they were read
    excused,   \* history: orders paid on dues so changed or above the due by hand, or repriced
               \*          below what was paid
    trouble    \* edits, payments by hand and failures so far

collectVars == <<orders, book, desk, links, customer, review, deleting, posted, cut, forgot, raced, excused,
          trouble>>

----------------------------------------------------------------------------

Row  == [order : Order, amount : Nat \ {0}, reference : Sheet \cup Link \cup {Nothing},
         serial : 1 .. MaxRows]
Idle == [at |-> "idle"]

\* opened: the order is in the session.  paying: the dues are read, the split begins.
Opened == [at : {"opened"}, sheet : Sheet, due : Int]
Paying(older) == [at : {"paying"}, sheet : Sheet, dues : [older -> Int], left : Nat,
                  first : BOOLEAN]

Unmade == [at |-> "unmade"]
Made   == [at : {"made", "given", "paid"}, order : Order, amount : Nat]

CollectTypeOK ==
    /\ orders \in [Order -> [live : BOOLEAN, cancelled : BOOLEAN, total : Nat, paid : Nat,
                             link : Link \cup {Nothing}]]
    /\ book \in SUBSET Row
    /\ DOMAIN desk = Desk
    /\ \A d \in Desk : \/ desk[d] \in {Idle} \cup Opened
                      \/ \E older \in SUBSET Order : desk[d] \in Paying(older)
    /\ links \in [Link -> {Unmade} \cup Made]
    /\ customer \in [Sheet \cup Link -> {"waits", "answered"}]
    /\ review \in SUBSET Link
    /\ deleting \in [Order -> {Nothing} \cup SUBSET Row]
    /\ posted \in [Sheet -> Nat]
    /\ cut \in SUBSET (Sheet \cup Link)
    /\ forgot \in SUBSET Sheet
    /\ raced \in SUBSET Desk
    /\ excused \in SUBSET Order
    /\ trouble \in 0 .. MaxTrouble

CollectInit ==
    /\ orders = [o \in Order |-> [live |-> TRUE, cancelled |-> FALSE, total |-> FirstTotal[o],
                                 paid |-> 0, link |-> Nothing]]
    /\ book = {}
    /\ desk = [d \in Desk |-> Idle]
    /\ links = [l \in Link |-> Unmade]
    /\ customer = [c \in Sheet \cup Link |-> "waits"]
    /\ review = {}
    /\ deleting = [o \in Order |-> Nothing]
    /\ posted = [r \in Sheet |-> 0]
    /\ cut = {}
    /\ forgot = {}
    /\ raced = {}
    /\ excused = {}
    /\ trouble = 0

\* One of the edits and failures there may be.
Trouble == trouble < MaxTrouble /\ trouble' = trouble + 1

Due(o)      == orders[o].total - orders[o].paid
RowsOf(o)   == {p \in book : p.order = o}
Booked(ref) == ref # Nothing /\ \E p \in book : p.reference = ref

\* Dues changed: whoever has read them and not yet paid is overtaken.
Overtake(others) == raced' = raced \cup {d \in others : desk[d].at # "idle"}

----------------------------------------------------------------------------
(***************************************************************************)
(* The ledger: record_payment locks the order, reads it again, adds the    *)
(* row and the cached sum, and commits.                                    *)
(***************************************************************************)
RecordPayment(o, amount, reference) ==
    /\ Cardinality(book) < MaxRows
    /\ book' = book \cup {[order |-> o, amount |-> amount, reference |-> reference,
                           serial |-> 1 + Max({0} \cup {p.serial : p \in RowsOf(o)})]}
    /\ orders' = [orders EXCEPT ![o].paid = @ + amount]

\* A payment typed on the dashboard, in WhatsApp or as a new bill's advance: no
\* reference and no ceiling, for a customer may round up or pay for the next order.
PayByHand(o, n) ==
    /\ Trouble
    /\ orders[o].live
    /\ RecordPayment(o, n, Nothing)
    /\ excused' = IF n > Due(o) THEN excused \cup {o} ELSE excused
    /\ Overtake(Desk)
    /\ UNCHANGED <<desk, links, customer, review, deleting, posted, cut, forgot>>

----------------------------------------------------------------------------
(***************************************************************************)
(* Staff collect.                                                          *)
(***************************************************************************)

\* The request arrives, for the first time or again: the order is loaded and
\* a cancelled one refused.
Open(d, r) ==
    /\ desk[d] = Idle
    /\ LET o == Body[r].order IN
       /\ orders[o].live /\ ~orders[o].cancelled
       /\ desk' = [desk EXCEPT ![d] = [at |-> "opened", sheet |-> r, due |-> Due(o)]]
    /\ raced' = raced \ {d}
    /\ UNCHANGED <<orders, book, links, customer, review, deleting, posted, cut, forgot, excused,
                   trouble>>

\* The bills of customer_outstanding and the "older" query: what this customer
\* owes on others.
Others(o) == {x \in Order \ {o} : orders[x].live /\ ~orders[x].cancelled}
Previous(o) == MapThenSumSet(Due, {x \in Others(o) : Due(x) > 0})

Leave(d) == desk' = [desk EXCEPT ![d] = Idle]

\* A request whose id is on a row already has nothing to do.
AlreadyDone(d) ==
    LET r == desk[d].sheet IN
    /\ desk[d].at = "opened" /\ Booked(r)
    /\ Leave(d)
    /\ customer' = [customer EXCEPT ![r] = IF orders[Body[r].order].live THEN "answered" ELSE @]
    /\ UNCHANGED <<orders, book, links, review, deleting, posted, cut, forgot, raced, excused,
                   trouble>>

\* Otherwise the other bills are read, and the amount held against the ceiling.
Split(d) ==
    LET r       == desk[d].sheet
        ask     == Body[r]
        due     == desk[d].due
        ceiling == due + IF ask.settle THEN Previous(ask.order) ELSE 0 IN
    /\ desk[d].at = "opened" /\ ~Booked(r)
    /\ desk' = [desk EXCEPT ![d] =
           IF ask.amount > ceiling THEN Idle
           ELSE [at |-> "paying", sheet |-> r, left |-> ask.amount, first |-> TRUE,
                 dues |-> [x \in IF ask.settle /\ ask.amount > due THEN Others(ask.order) ELSE {}
                             |-> Due(x)]]]
    /\ UNCHANGED <<orders, book, links, customer, review, deleting, posted, cut, forgot, raced,
                   excused, trouble>>

\* The bill the money goes to next: the oldest of the others that is still due
\* on what was read, then the sheet's own.
Unsettled(d) == {x \in DOMAIN desk[d].dues : desk[d].dues[x] > 0}
Target(d) == IF Unsettled(d) # {} THEN Min(Unsettled(d)) ELSE Body[desk[d].sheet].order
\* Mutants: all the money at once, or all of the bill whatever the money.
TakeAll(d)  == desk[d].left
TakeBill(d) == Due(Target(d))

Take(d) ==
    LET c == desk[d] IN
    IF Unsettled(d) = {} \/ c.left < c.dues[Target(d)] THEN c.left ELSE c.dues[Target(d)]

\* Mutants: the reference only on the sheet's own bill, or on every row.
OwnBillRef(d)  == IF Target(d) = Body[desk[d].sheet].order THEN desk[d].sheet ELSE Nothing
EveryRowRef(d) == desk[d].sheet

\* client_ref goes on the first row of a collection only: the column is unique.
RefOf(d) == IF desk[d].first THEN desk[d].sheet ELSE Nothing

\* Mutant: the sum is written from the dues the request read, without the lock.
PayUnlocked(d, reread) ==
    LET c == desk[d]
        o == Target(d)
        n == Take(d) IN
    /\ c.at = "paying" /\ c.left > 0 /\ o \in DOMAIN c.dues
    /\ orders[o].live /\ ~Booked(RefOf(d)) /\ Cardinality(book) < MaxRows
    /\ book' = book \cup {[order |-> o, amount |-> n, reference |-> RefOf(d),
                           serial |-> 1 + Max({0} \cup {p.serial : p \in RowsOf(o)})]}
    /\ orders' = [orders EXCEPT ![o].paid = orders[o].total - c.dues[o] + n]
    /\ Leave(d)
    /\ UNCHANGED <<links, customer, review, deleting, posted, cut, forgot, raced, excused, trouble>>

\* One bill is paid.  When a receipt cannot be sent the session's orders are
\* read again (resend), otherwise the split goes on with the dues it has.
Pay(d, reread) ==
    LET c == desk[d]
        o == Target(d)
        n == Take(d) IN
    /\ c.at = "paying" /\ c.left > 0
    /\ orders[o].live /\ ~Booked(RefOf(d))
    /\ RecordPayment(o, n, RefOf(d))
    /\ desk' = [desk EXCEPT ![d] =
           [c EXCEPT !.left = @ - n, !.first = FALSE,
                     !.dues = [x \in {y \in DOMAIN c.dues : Unsettled(d) # {} /\ y > o} |->
                                  IF reread /\ orders[x].live THEN Due(x) ELSE c.dues[x]]]]
    /\ posted' = [posted EXCEPT ![c.sheet] = @ + n]
    /\ excused' = IF d \in raced THEN excused \cup {o} ELSE excused
    /\ Overtake(Desk \ {d})
    /\ UNCHANGED <<links, customer, review, deleting, cut, forgot, trouble>>

\* The same sheet's other request was first with the reference: unique index.
LoseRace(d) ==
    LET r == desk[d].sheet IN
    /\ desk[d].at = "paying" /\ desk[d].left > 0 /\ orders[Target(d)].live
    /\ Booked(RefOf(d))
    /\ Leave(d)
    /\ customer' = [customer EXCEPT ![r] = IF orders[Body[r].order].live THEN "answered" ELSE @]
    /\ UNCHANGED <<orders, book, links, review, deleting, posted, cut, forgot, raced, excused,
                   trouble>>

\* All the money is in the ledger, and the staff app is told so.
Answer(d) ==
    /\ desk[d].at = "paying" /\ desk[d].left = 0
    /\ Leave(d)
    /\ customer' = [customer EXCEPT ![desk[d].sheet] = "answered"]
    /\ UNCHANGED <<orders, book, links, review, deleting, posted, cut, forgot, raced, excused,
                   trouble>>

\* The request ends without an answer, between two commits if there are two:
\* the bill it would pay is gone, or the process dies.
Die(d) ==
    /\ desk[d].at = "paying"
    /\ \/ desk[d].left > 0 /\ ~orders[Target(d)].live /\ UNCHANGED trouble
       \/ Trouble
    /\ cut' = IF desk[d].left > 0 /\ ~desk[d].first THEN cut \cup {desk[d].sheet} ELSE cut
    /\ Leave(d)
    /\ UNCHANGED <<orders, book, links, customer, review, deleting, posted, forgot, raced, excused>>

----------------------------------------------------------------------------
(***************************************************************************)
(* The payment link.                                                       *)
(***************************************************************************)

\* The bill page asks for a link: a stored one for the same due is handed out
\* again, otherwise Razorpay makes one.
AskLink(o, l) ==
    /\ orders[o].live /\ Due(o) > 0
    /\ orders[o].link # Nothing => links[orders[o].link].amount # Due(o)
    /\ links[l] = Unmade
    /\ links' = [links EXCEPT ![l] = [at |-> "made", order |-> o, amount |-> Due(o)]]
    /\ UNCHANGED <<orders, book, desk, customer, review, deleting, posted, cut, forgot, raced,
                   excused, trouble>>

\* It is stored on the order, over any other, and given to the customer.
SaveLink(l) ==
    /\ links[l].at = "made" /\ orders[links[l].order].live
    /\ links' = [links EXCEPT ![l].at = "given"]
    /\ orders' = [orders EXCEPT ![links[l].order].link = l]
    /\ UNCHANGED <<book, desk, customer, review, deleting, posted, cut, forgot, raced, excused,
                   trouble>>

\* The customer pays a link they were given, however old.
PayLink(l) ==
    /\ links[l].at = "given"
    /\ links' = [links EXCEPT ![l].at = "paid"]
    /\ UNCHANGED <<orders, book, desk, customer, review, deleting, posted, cut, forgot, raced,
                   excused, trouble>>

\* payment_link.paid, delivered once or again, by the state of its order,
\* which is locked: gone, posted before, due just this much, due anything else.
Acknowledge(l) == customer' = [customer EXCEPT ![l] = "answered"]

LinkIgnored(l) ==
    /\ links[l].at = "paid"
    /\ ~orders[links[l].order].live \/ Booked(l)
    /\ Acknowledge(l)
    /\ UNCHANGED <<orders, book, desk, links, review, deleting, posted, cut, forgot, raced, excused,
                   trouble>>

LinkPosted(l) ==
    LET o == links[l].order IN
    /\ links[l].at = "paid" /\ orders[o].live /\ ~Booked(l)
    /\ Due(o) = links[l].amount
    /\ RecordPayment(o, links[l].amount, l)
    /\ Acknowledge(l)
    /\ Overtake(Desk)
    /\ UNCHANGED <<desk, links, review, deleting, posted, cut, forgot, excused, trouble>>

\* Mutant: the mismatch is logged and nobody is asked.
LinkLogged(l) ==
    /\ links[l].at = "paid" /\ orders[links[l].order].live /\ ~Booked(l)
    /\ Due(links[l].order) # links[l].amount
    /\ Acknowledge(l)
    /\ UNCHANGED <<orders, book, desk, links, review, deleting, posted, cut, forgot, raced,
                   excused, trouble>>

\* raise_escalation never raises: when its row cannot be stored the event is
\* answered all the same.
LinkReviewed(l) ==
    LET o == links[l].order IN
    /\ links[l].at = "paid" /\ orders[o].live /\ ~Booked(l)
    /\ Due(o) # links[l].amount
    /\ \/ review' = review \cup {l} /\ UNCHANGED <<cut, trouble>>
       \/ Trouble /\ cut' = cut \cup {l}
          /\ UNCHANGED review
    /\ Acknowledge(l)
    /\ UNCHANGED <<orders, book, desk, links, deleting, posted, forgot, raced, excused>>

----------------------------------------------------------------------------
(***************************************************************************)
(* The owner.                                                              *)
(***************************************************************************)

\* A bill gets another total; it may be less than what was paid on it.
Reprice(o, total) ==
    /\ Trouble
    /\ orders[o].live
    /\ orders' = [orders EXCEPT ![o].total = total]
    /\ excused' = IF total < orders[o].paid THEN excused \cup {o} ELSE excused
    /\ Overtake(Desk)
    /\ UNCHANGED <<book, desk, links, customer, review, deleting, posted, cut, forgot>>

Cancel(o) ==
    /\ Trouble
    /\ orders[o].live /\ ~orders[o].cancelled
    /\ orders' = [orders EXCEPT ![o].cancelled = TRUE]
    /\ Overtake(Desk)
    /\ UNCHANGED <<book, desk, links, customer, review, deleting, posted, cut, forgot, excused>>

\* delete_order: the rows it finds go first, the order at commit.  A row that
\* was added in between holds the order, and the whole deletion is rolled back.
StartDelete(o) ==
    /\ Trouble
    /\ orders[o].live /\ deleting[o] = Nothing
    /\ deleting' = [deleting EXCEPT ![o] = RowsOf(o)]
    /\ UNCHANGED <<orders, book, desk, links, customer, review, posted, cut, forgot, raced, excused>>

\* Mutant: the order goes whatever was added to it.
DeleteAnyway(o) ==
    /\ deleting[o] # Nothing
    /\ book' = book \ deleting[o]
    /\ orders' = [orders EXCEPT ![o].live = FALSE]
    /\ deleting' = [deleting EXCEPT ![o] = Nothing]
    /\ UNCHANGED <<desk, links, customer, review, posted, cut, forgot, raced, excused, trouble>>

FinishDelete(o) ==
    /\ deleting[o] # Nothing
    /\ \/ /\ RowsOf(o) \subseteq deleting[o]
          /\ book' = book \ deleting[o]
          /\ orders' = [orders EXCEPT ![o].live = FALSE]
          /\ review' = {l \in review : links[l].order # o}
          /\ forgot' = forgot \cup {r \in Sheet : \E p \in deleting[o] : p.reference = r}
          /\ Overtake(Desk)
       \/ /\ ~(RowsOf(o) \subseteq deleting[o])
          /\ UNCHANGED <<book, orders, review, forgot, raced>>
    /\ deleting' = [deleting EXCEPT ![o] = Nothing]
    /\ UNCHANGED <<desk, links, customer, posted, cut, excused, trouble>>

----------------------------------------------------------------------------

CollectNext ==
    \/ \E d \in Desk :
          \/ \E r \in Sheet : Open(d, r)
          \/ AlreadyDone(d) \/ Split(d) \/ LoseRace(d) \/ Answer(d) \/ Die(d)
          \/ \E reread \in BOOLEAN : Pay(d, reread)
    \/ \E l \in Link :
          \/ \E o \in Order : AskLink(o, l)
          \/ SaveLink(l) \/ PayLink(l)
          \/ LinkIgnored(l) \/ LinkPosted(l) \/ LinkReviewed(l)
    \/ \E o \in Order :
          \/ \E total \in Prices : Reprice(o, total)
          \/ \E n \in Tender : PayByHand(o, n)
          \/ Cancel(o) \/ StartDelete(o) \/ FinishDelete(o)

CollectSpec == CollectInit /\ [][CollectNext]_collectVars

----------------------------------------------------------------------------
(***************************************************************************)
(* Properties.                                                             *)
(***************************************************************************)

\* "dobara aaye (dohra tap, signal lautne par outbox) to doosra paisa nahi
\* judta": however often a sheet is sent, the ledger never holds more for it
\* than the customer gave, as long as the bill that carries its reference is
\* not deleted...
NeverTwice == \A r \in Sheet \ forgot : posted[r] <= Body[r].amount

\* ...and once the staff app is told it is done, all of it is there, unless
\* a request was cut between two commits or one is still at work.
SheetPaidWhole ==
    /\ NeverTwice
    /\ \A r \in Sheet :
        /\ customer[r] = "answered"
        /\ r \notin cut \cup forgot
        /\ \A d \in Desk : desk[d].at = "paying" => desk[d].sheet # r \/ desk[d].first
        => posted[r] = Body[r].amount

\* A bill holds more than its total only where somebody typed a payment above
\* the due, a collection was overtaken after it read the dues, or the total was
\* cut later: a link, and a sheet nobody overtook, never pay more than is due.
OverpaidExplained ==
    \A o \in Order : orders[o].paid > orders[o].total => o \in excused

\* Razorpay is told "done" only when the money of the link is in the ledger
\* or a human was asked about it, or the bill is gone; the one way out is an
\* escalation that could not be stored.
PaidLinkAccounted ==
    \A l \in Link :
        customer[l] = "answered"
            => Booked(l) \/ l \in review \/ l \in cut \/ ~orders[links[l].order].live

\* The money of a sheet and of a link ends in the ledger, once and in whole.
CollectionsHeld == SheetPaidWhole /\ OverpaidExplained /\ PaidLinkAccounted

\* The ledger keeps its promise, whatever requests and deletions overlap; a
\* deletion that races with a payment leaves no money row without an order.
LiveOrders == {o \in Order : orders[o].live}
Ledger == INSTANCE PaymentLedger WITH
    paid <- [o \in LiveOrders |-> orders[o].paid], NoReference <- Nothing
LedgerKept == Ledger!LedgerSpec
=============================================================================
