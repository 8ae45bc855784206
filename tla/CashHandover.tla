---------------------------- MODULE CashHandover ----------------------------
(***************************************************************************)
(* The evening's cash: what a member of staff has collected since their    *)
(* last handover, handed over, and counted by a manager                    *)
(* (hand_over_cash and confirm_handover in app/routers/staff_panel.py,     *)
(* app/models/cash_handover.py).                                           *)
(*                                                                         *)
(* A handover takes the payments recorded under the person's name with     *)
(* received_at after the end of the last handover and up to now().  Both   *)
(* received_at and now() are the start of their transaction, which may     *)
(* wait for a lock before it reads or commits.                             *)
(***************************************************************************)
EXTENDS Integers, FiniteSets, FiniteSetsExt

CONSTANTS
    Staff,       \* who collects
    Name,        \* names they may have
    FirstName,   \* each one's name
    Manager,     \* who counts
    Request,     \* requests in flight
    LookBack,    \* how far the first handover of a person looks back
    MaxTime,     \* bound on the database clock
    MaxPayments, \* bound on payments
    MaxRenames   \* bound on renamed staff

ASSUME CashAssumption ==
    /\ IsFiniteSet(Staff)
    /\ FirstName \in [Staff -> Name]
    /\ LookBack \in Nat
    /\ MaxTime \in Nat
    /\ MaxPayments \in Nat

VARIABLES
    now,        \* the database clock
    named,      \* Staff.name
    payments,   \* the cash and UPI payments rows
    handovers,  \* the cash_handovers rows
    request,    \* what each request holds
    counting,   \* the row each manager has loaded, {} for none
    borne,      \* history: names each has had
    late        \* history: payments committed behind a window's end

cashVars == <<now, named, payments, handovers, request, counting, borne, late>>

----------------------------------------------------------------------------

None == [at |-> "idle"]

Payment  == [id : 1 .. MaxPayments, by : Staff, name : Name, received : 0 .. MaxTime]
Handover == [staff : Staff, start : Int, end : 0 .. MaxTime,
             counted : SUBSET (1 .. MaxPayments), status : {"PENDING", "CONFIRMED"},
             by : Manager \cup Staff]

\* collecting: a payment's transaction has begun.  asked: a handover's has.
\* holding: it has the staff row's lock and has read.
Collecting == [at : {"collecting"}, staff : Staff, name : Name, time : 0 .. MaxTime]
Asked      == [at : {"asked"}, staff : Staff, time : 0 .. MaxTime]
Holding    == [at : {"holding"}, staff : Staff, time : 0 .. MaxTime, since : Int,
               counted : SUBSET (1 .. MaxPayments)]

CashTypeOK ==
    /\ now \in 0 .. MaxTime
    /\ named \in [Staff -> Name]
    /\ payments \in SUBSET Payment
    /\ handovers \in SUBSET Handover
    /\ request \in [Request -> {None} \cup Collecting \cup Asked \cup Holding]
    /\ counting \in [Manager -> SUBSET Handover]
    /\ borne \in [Staff -> SUBSET Name]
    /\ late \in SUBSET Payment

CashInit ==
    /\ now = 0
    /\ named = FirstName
    /\ payments = {}
    /\ handovers = {}
    /\ request = [q \in Request |-> None]
    /\ counting = [m \in Manager |-> {}]
    /\ borne = [s \in Staff |-> {FirstName[s]}]
    /\ late = {}

HandoversOf(s) == {h \in handovers : h.staff = s}

\* _cash_since: where the last one ended; the first looks back a month from the
\* moment it is read, for what is older reached the shop before this screen did.
CashSince(s) ==
    IF HandoversOf(s) = {} THEN now - LookBack ELSE Max({h.end : h \in HandoversOf(s)})

\* _cash_in_hand, under the person's name.
CashInHand(s, since, until) ==
    {p.id : p \in {x \in payments : /\ x.name = named[s]
                                    /\ since < x.received /\ x.received <= until}}

Set(q, phase) == request' = [request EXCEPT ![q] = phase]

----------------------------------------------------------------------------

Tick ==
    /\ now < MaxTime /\ now' = now + 1
    /\ UNCHANGED <<named, payments, handovers, request, counting, borne, late>>

\* A payment's transaction begins, and later commits with that time on its row.
BeginPayment(q, s) ==
    /\ request[q] = None
    /\ Cardinality(payments) < MaxPayments
    /\ Set(q, [at |-> "collecting", staff |-> s, name |-> named[s], time |-> now])
    /\ UNCHANGED <<now, named, payments, handovers, counting, borne, late>>

\* A window over this time that has been read, whether or not it is stored yet.
Closed(s, time) ==
    \/ \E h \in HandoversOf(s) : time <= h.end
    \/ \E q \in Request : request[q].at = "holding" /\ request[q].staff = s /\ time <= request[q].time

CommitPayment(q) ==
    LET r == request[q]
        p == [id |-> Cardinality(payments) + 1, by |-> r.staff, name |-> r.name,
              received |-> r.time] IN
    /\ r.at = "collecting" /\ p.id <= MaxPayments
    /\ payments' = payments \cup {p}
    /\ late' = IF Closed(r.staff, r.time) THEN late \cup {p} ELSE late
    /\ Set(q, None)
    /\ UNCHANGED <<now, named, handovers, counting, borne>>

\* A handover's transaction begins; the lock on the staff row makes a second
\* tap wait for the first one's commit, and only then are the windows read.
AskHandover(q, s) ==
    /\ request[q] = None
    /\ Set(q, [at |-> "asked", staff |-> s, time |-> now])
    /\ UNCHANGED <<now, named, payments, handovers, counting, borne, late>>

Locked(s) == \E q \in Request : request[q].at = "holding" /\ request[q].staff = s

\* Mutant: no lock on the staff row.
ReadUnlocked(q) ==
    LET r     == request[q]
        since == CashSince(r.staff)
        hand  == CashInHand(r.staff, since, r.time) IN
    /\ r.at = "asked"
    /\ Set(q, IF hand = {} THEN None
              ELSE [at |-> "holding", staff |-> r.staff, time |-> r.time, since |-> since,
                    counted |-> hand])
    /\ UNCHANGED <<now, named, payments, handovers, counting, borne, late>>

ReadHandover(q) ==
    LET r     == request[q]
        since == CashSince(r.staff)
        hand  == CashInHand(r.staff, since, r.time) IN
    /\ r.at = "asked" /\ ~Locked(r.staff)
    /\ Set(q, IF hand = {} THEN None
              ELSE [at |-> "holding", staff |-> r.staff, time |-> r.time, since |-> since,
                    counted |-> hand])
    /\ UNCHANGED <<now, named, payments, handovers, counting, borne, late>>

\* Mutant: the window ends when the handover is written, not where it was read.
CommitAtNow(q) ==
    LET r == request[q] IN
    /\ r.at = "holding"
    /\ handovers' = handovers \cup
           {[staff |-> r.staff, start |-> r.since, end |-> now, counted |-> r.counted,
             status |-> "PENDING", by |-> r.staff]}
    /\ Set(q, None)
    /\ UNCHANGED <<now, named, payments, counting, borne, late>>

CommitHandover(q) ==
    LET r == request[q] IN
    /\ r.at = "holding"
    /\ handovers' = handovers \cup
           {[staff |-> r.staff, start |-> r.since, end |-> r.time, counted |-> r.counted,
             status |-> "PENDING", by |-> r.staff]}
    /\ Set(q, None)
    /\ UNCHANGED <<now, named, payments, counting, borne, late>>

\* A manager loads a pending handover, counts, and writes what was received,
\* over any count another manager wrote since.
LoadHandover(m, h) ==
    /\ counting[m] = {} /\ h.status = "PENDING"
    /\ counting' = [counting EXCEPT ![m] = {h}]
    /\ UNCHANGED <<now, named, payments, handovers, request, borne, late>>

ConfirmHandover(m) ==
    /\ counting[m] # {}
    /\ LET same(h) == \E c \in counting[m] : h.staff = c.staff /\ h.end = c.end IN
       handovers' = {IF same(h) THEN [h EXCEPT !.status = "CONFIRMED", !.by = m] ELSE h :
                     h \in handovers}
    /\ counting' = [counting EXCEPT ![m] = {}]
    /\ UNCHANGED <<now, named, payments, request, borne, late>>

\* The owner gives someone another name, which someone else may have had.
Rename(s, n) ==
    /\ MapThenSumSet(LAMBDA x : Cardinality(borne[x]) - 1, Staff) < MaxRenames
    /\ n # named[s]
    /\ named' = [named EXCEPT ![s] = n]
    /\ borne' = [borne EXCEPT ![s] = @ \cup {n}]
    /\ UNCHANGED <<now, payments, handovers, request, counting, late>>

CashNext ==
    \/ Tick
    \/ \E q \in Request :
          \/ \E s \in Staff : BeginPayment(q, s) \/ AskHandover(q, s)
          \/ CommitPayment(q) \/ ReadHandover(q) \/ CommitHandover(q)
    \/ \E m \in Manager : (\E h \in handovers : LoadHandover(m, h)) \/ ConfirmHandover(m)
    \/ \E s \in Staff, n \in Name : Rename(s, n)

CashSpec == CashInit /\ [][CashNext]_cashVars

----------------------------------------------------------------------------
(***************************************************************************)
(* Properties.                                                             *)
(***************************************************************************)

Bearers(n) == {s \in Staff : n \in borne[s]}

\* "isliye ek rupaya do baar nahi ginta": no payment is in two handovers,
\* whatever double taps and locks do, as long as one person has had its name;
\* and money a window of its collector reaches is in one, unless it was
\* committed too late to be seen or the collector was renamed.  The windows
\* leave no gap: money outside all of them is newer than the last one, or was
\* older than the look-back when its collector handed over for the first time.
CashCountedOnce ==
    \A p \in payments :
     /\ Cardinality({h \in handovers : p.id \in h.counted}) > 1 => Cardinality(Bearers(p.name)) > 1
     /\ \/ p \in late \/ Cardinality(borne[p.by]) > 1
        \/ \A h \in HandoversOf(p.by) : p.received > h.end
        \/ \A h \in HandoversOf(p.by) : p.received <= h.start
        \/ \E h \in handovers : p.id \in h.counted
=============================================================================
