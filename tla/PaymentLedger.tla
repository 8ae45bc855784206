---------------------------- MODULE PaymentLedger ----------------------------
(***************************************************************************)
(* What the payments table promises to every report that reads it          *)
(* (app/models/payment.py): rows are only added, a provider reference is   *)
(* in the book at most once, and orders.amount_paid is the running sum of  *)
(* the order's rows.  The one exception is the deletion of a bill entered  *)
(* by mistake, which takes the bill's rows with it.                        *)
(***************************************************************************)
EXTENDS Integers

CONSTANTS
    Order,       \* the customer's orders
    NoReference  \* of a row that has no provider reference

VARIABLES
    book,   \* the payments rows
    paid    \* orders.amount_paid of the orders there are

LedgerInit ==
    /\ book = {}
    /\ paid = [o \in Order |-> 0]

\* Money is received: one row more, and the cached sum moves with it.
Receive ==
    \E p \in book' \ book :
        /\ book' = book \cup {p}
        /\ p.order \in DOMAIN paid /\ p.amount > 0
        /\ p.reference # NoReference => \A q \in book : q.reference # p.reference
        /\ paid' = [paid EXCEPT ![p.order] = @ + p.amount]

\* A bill that should not exist goes, with every row on it.
Erase(o) ==
    /\ o \in DOMAIN paid
    /\ book' = {p \in book : p.order # o}
    /\ paid' = [x \in DOMAIN paid \ {o} |-> paid[x]]

LedgerNext == Receive \/ \E o \in Order : Erase(o)

LedgerSpec == LedgerInit /\ [][LedgerNext]_<<book, paid>>
=============================================================================
