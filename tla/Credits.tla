------------------------------- MODULE Credits -------------------------------
(***************************************************************************)
(* The prepaid credits of one tenant, of one kind (AI or WhatsApp):        *)
(* recharge_tenant and decide_recharge_request in app/routers/control.py,  *)
(* _spend_credit in app/services/quota.py, and the nightly                 *)
(* expire_due_credits in app/services/credits.py.  A spend is one atomic   *)
(* UPDATE; everybody else reads tenants.<kind>_credits, computes, and      *)
(* writes the number back.                                                 *)
(***************************************************************************)
EXTENDS Integers, Sequences, FiniteSetsExt

CONSTANTS
    Clerk,     \* requests of the vendor's control panel
    Units,     \* sizes of a recharge
    MaxLots,   \* bound on recharges
    MaxSpends, \* bound on credits spent
    Days    \* bound on days

ASSUME CreditsAssumption == Units \subseteq Nat /\ MaxLots \in Nat /\ MaxSpends \in Nat /\ Days \in Nat

VARIABLES
    balance, \* tenants.ai_credits or wa_credits
    lots,    \* the recharges of credit_ledger: size, last valid day, and what expiry took
    ledger,  \* the sum of all amounts in credit_ledger
    asked,   \* the client's recharge request
    clerk,   \* a request of the panel: idle, or the balance it has read
    sweep,   \* the nightly sweep: idle, or the balance and lots it has read
    day,
    consumed, \* history: credits spent
    inside   \* history: units drawn while somebody was between read and write

creditVars == <<balance, lots, ledger, asked, clerk, sweep, day, consumed, inside>>

----------------------------------------------------------------------------

\* valid: 0 for a recharge that never expires.  left: what was not yet used,
\* counting every use against the lot that expires first.  took: -1 while open.
Lot == [size : Nat, valid : 0 .. Days, left : Nat, took : {-1} \cup Nat]

CreditTypeOK ==
    /\ balance \in Nat
    /\ lots \in Seq(Lot) /\ Len(lots) <= MaxLots
    /\ ledger \in Int
    /\ asked \in {"pending", "approved"}
    /\ clerk \in [Clerk -> {[at |-> "idle"], [at |-> "done"]}
                           \cup [at : {"add", "remove", "approve"}, before : Nat]]
    /\ sweep = [at |-> "idle"] \/ sweep \in [at : {"cutting"}, before : Nat, due : SUBSET (1 .. MaxLots)]
    /\ day \in 0 .. Days
    /\ consumed \in 0 .. MaxSpends
    /\ inside \in Nat

CreditInit ==
    /\ balance = 0 /\ lots = <<>> /\ ledger = 0
    /\ asked = "pending"
    /\ clerk = [c \in Clerk |-> [at |-> "idle"]]
    /\ sweep = [at |-> "idle"]
    /\ day = 0 /\ consumed = 0 /\ inside = 0

\* The lots the sweep is closing.
Lapsing == IF sweep.at = "idle" THEN {} ELSE sweep.due

Unused == {i \in DOMAIN lots \ Lapsing : lots[i].took = -1 /\ lots[i].left > 0}

LastsTo(i) == IF lots[i].valid = 0 THEN Days + 1 ELSE lots[i].valid

\* i expires before j, or with it and is older.
Sooner(i, j) == LastsTo(i) < LastsTo(j) \/ (LastsTo(i) = LastsTo(j) /\ i < j)

\* The open lot that expires first; those that never do come last.
First == CHOOSE i \in Unused : \A j \in Unused \ {i} : Sooner(i, j)

\* One use, counted as the sweep's comment counts it.
Used == IF Unused = {} THEN lots ELSE [lots EXCEPT ![First].left = @ - 1]

Between == {c \in Clerk : clerk[c].at \in {"add", "remove", "approve"}}

Drawn(units, writers) == inside' = IF writers = {} /\ sweep.at = "idle" THEN inside ELSE inside + units

----------------------------------------------------------------------------

\* UPDATE ... SET credits = credits - 1 WHERE credits > 0.
Spend ==
    /\ consumed < MaxSpends /\ consumed' = consumed + 1
    /\ balance > 0 /\ balance' = balance - 1
    /\ lots' = Used
    /\ Drawn(1, Between)
    /\ UNCHANGED <<ledger, asked, clerk, sweep, day>>

\* The tenant row is loaded, and a pending request is seen pending.
ClerkReads(c, what) ==
    /\ clerk[c].at = "idle"
    /\ what = "approve" => asked = "pending"
    /\ clerk' = [clerk EXCEPT ![c] = [at |-> what, before |-> balance]]
    /\ UNCHANGED <<balance, lots, ledger, asked, sweep, day, consumed, inside>>

\* Balance and ledger row are committed together.
Credited(c, units, valid) ==
    /\ Len(lots) < MaxLots
    /\ balance' = clerk[c].before + units
    /\ lots' = Append(lots, [size |-> units, valid |-> valid, left |-> units, took |-> -1])
    /\ ledger' = ledger + units
    /\ clerk' = [clerk EXCEPT ![c] = [at |-> "done"]]
    /\ UNCHANGED <<sweep, day, consumed, inside>>

Recharge(c) ==
    /\ clerk[c].at = "add"
    /\ \E u \in Units, v \in {0} \cup (day + 1 .. Days) : Credited(c, u, v)
    /\ UNCHANGED asked

Approve(c) ==
    /\ clerk[c].at = "approve" /\ asked' = "approved"
    /\ \E u \in Units : Credited(c, u, 0)

\* Mutant: the ledger says what was asked for, not what could be taken.
RemovedAsAsked(c, u) ==
    LET after == Max({0, clerk[c].before - u}) IN
    /\ balance' = after
    /\ ledger' = ledger - u
    /\ Drawn(clerk[c].before - after, Between \ {c})

\* Credits taken back: never below zero, and the ledger says what was taken.
\* An attribute set to the value it had is not written.
Removed(c, u) ==
    LET after == Max({0, clerk[c].before - u}) IN
    /\ balance' = IF after = clerk[c].before THEN balance ELSE after
    /\ ledger' = ledger - (clerk[c].before - after)
    /\ Drawn(clerk[c].before - after, Between \ {c})

Remove(c) ==
    /\ clerk[c].at = "remove"
    /\ \E u \in Units : Removed(c, u)
    /\ clerk' = [clerk EXCEPT ![c] = [at |-> "done"]]
    /\ UNCHANGED <<lots, asked, sweep, day, consumed>>

\* The lots past their day and not yet closed, and the tenant row.
SweepReads ==
    /\ sweep.at = "idle"
    /\ LET due == {i \in DOMAIN lots : lots[i].valid \in 1 .. day /\ lots[i].took = -1} IN
       /\ due # {}
       /\ sweep' = [at |-> "cutting", before |-> balance, due |-> due]
    /\ UNCHANGED <<balance, lots, ledger, asked, clerk, day, consumed, inside>>

\* What the sweep takes for each lot, in order of expiry: the lot's size, or
\* what is left of the balance it has read.
SizeOf(set) == SumFunction([j \in set |-> lots[j].size])

Cut(i) == LET earlier == {j \in sweep.due : Sooner(j, i)} IN
    Min({lots[i].size, Max({0, sweep.before - SizeOf(earlier)})})

SweepWrites ==
    /\ sweep.at = "cutting"
    /\ LET taken == SumFunction([i \in sweep.due |-> Cut(i)]) IN
       /\ balance' = IF taken = 0 THEN balance ELSE sweep.before - taken
       /\ ledger' = ledger - taken
       /\ inside' = IF Between = {} THEN inside ELSE inside + taken
    /\ lots' = [i \in DOMAIN lots |-> IF i \in sweep.due THEN [lots[i] EXCEPT !.took = Cut(i)] ELSE lots[i]]
    /\ sweep' = [at |-> "idle"]
    /\ UNCHANGED <<asked, clerk, day, consumed>>

NextDay ==
    /\ day < Days /\ day' = day + 1
    /\ UNCHANGED <<balance, lots, ledger, asked, clerk, sweep, consumed, inside>>

CreditNext ==
    \/ Spend
    \/ \E c \in Clerk :
          \/ \E what \in {"add", "remove", "approve"} : ClerkReads(c, what)
          \/ Recharge(c) \/ Approve(c) \/ Remove(c)
    \/ SweepReads \/ SweepWrites
    \/ NextDay

CreditSpec == CreditInit /\ [][CreditNext]_creditVars

----------------------------------------------------------------------------

\* The ledger is the truth and the balance only fast: more can be had than the
\* ledger grants only by what was drawn while a recharge, a removal or the
\* sweep had read the balance and not yet written it.
CreditsNotConjured == balance + consumed <= ledger + inside

\* "Expiry takes only as much of a lot as has not been used", uses being
\* counted against the oldest lot.
ExpiryTakesUnused == \A i \in DOMAIN lots : lots[i].took <= lots[i].left
=============================================================================
