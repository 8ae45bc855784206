---------------------------- MODULE SendProofs -----------------------------
(***************************************************************************)
(* Proofs about what the shop sends, for any number of messages, drains,   *)
(* cases and jobs.  Of OutboundQueue: type correctness, one gateway call   *)
(* per claimed attempt, at most one delivery when failures are honest, and *)
(* no message lost to the suppression of a duplicate.  Of Escalations: type*)
(* correctness, and that the copies of a reminder are accounted for by what*)
(* went wrong.  Then the two together, as MCSends has them.                *)
(***************************************************************************)
EXTENDS MCSends, FiniteSetTheorems, TLAPS

----------------------------------------------------------------------------
(* OutboundQueue.                                                          *)

\* The tickets a drain still has in hand, and whether it holds a claim.
Busy(d)    == pc[d] \notin {"idle", "loop"}
Pending(d) == {t \in Ticket : t \in todo[d] \/ (Busy(d) /\ t = cur[d])}
Holds(d)   == pc[d] \in {"call", "settle"}

(***************************************************************************)
(* The inductive invariant.  Claims of a message form an initial segment   *)
(* of its attempts; a live row is at the segment's end; every snapshot is  *)
(* inside it; the holder of a claim is alone and holds the last one.       *)
(***************************************************************************)
UnqueuedUntouched ==
    \A m \in Msg :
        /\ caller[m] # "finished" => status[m] = "none"
        /\ status[m] = "none" =>
              /\ attempts[m] = 0
              /\ \A n \in Tries : <<m, n>> \notin claims
              /\ \A d \in Drainer : \A t \in Pending(d) : t[1] # m

ClaimsClosed ==
    \A m \in Msg : \A i, j \in Tries : i < j /\ <<m, j>> \in claims => <<m, i>> \in claims

RowBacked ==
    \A m \in Msg : \A n \in Tries :
        /\ n < attempts[m] => <<m, n>> \in claims
        /\ status[m] = "queued" /\ n > attempts[m] => <<m, n>> \notin claims

PendingBacked ==
    \A d \in Drainer : \A t \in Pending(d) :
        /\ \A n \in Tries : n < t[2] => <<t[1], n>> \in claims
        /\ status[t[1]] = "queued" => t[2] <= attempts[t[1]]

HolderClaims == \A d \in Drainer : Holds(d) => cur[d] \in claims

HolderLast ==
    \A d \in Drainer : Holds(d) =>
        \A n \in Tries : n > cur[d][2] => <<cur[d][1], n>> \notin claims

HolderRow ==
    \A d \in Drainer : Holds(d) =>
        (status[cur[d][1]] = "queued" => attempts[cur[d][1]] = cur[d][2])

HolderAhead ==
    \A d \in Drainer : Holds(d) =>
        \A e \in Drainer : \A t \in Pending(e) : t[1] = cur[d][1] => t[2] <= cur[d][2]

HolderAlone ==
    \A d, e \in Drainer : Holds(d) /\ Holds(e) /\ cur[e] = cur[d] => e = d

HolderInv == HolderClaims /\ HolderLast /\ HolderRow /\ HolderAhead /\ HolderAlone

CallsCounted ==
    /\ \A t \in Ticket : calls[t] <= (IF t \in claims THEN 1 ELSE 0)
    /\ \A d \in Drainer : pc[d] = "call" => calls[cur[d]] = 0

ClaimInv ==
    /\ TypeOK
    /\ UnqueuedUntouched /\ ClaimsClosed /\ RowBacked /\ PendingBacked /\ HolderInv
    /\ CallsCounted

\* A delivered message can only be dead-lettered: every way back to the
\* gateway runs into a claim that is already taken.
Spent(m) ==
    /\ caller[m] = "finished"
    /\ status[m] = "queued" => <<m, attempts[m]>> \in claims
    /\ \A d \in Drainer :
          /\ \A t \in Pending(d) : t[1] = m => t \in claims
          /\ pc[d] = "call" => cur[d][1] # m
          /\ pc[d] = "settle" /\ cur[d][1] = m => answer[d] = "ok"

DeliveryInv == \A m \in Msg : delivered[m] <= 1 /\ (delivered[m] = 1 => Spent(m))

----------------------------------------------------------------------------
\* A ticket is a message and a natural number below MaxAttempts.
LEMMA TicketParts ==
    \A t \in Ticket : t = <<t[1], t[2]>> /\ t[1] \in Msg /\ t[2] \in Tries /\ t[2] \in Nat
  BY OutboundAssumption DEF Ticket, Tries

\* A snapshot pairs queued rows with the attempts they had.
LEMMA SnapshotRows ==
    \A t \in Snapshot : \E m \in Msg : status[m] = "queued" /\ t = <<m, attempts[m]>>
<1>1. \A m \in Selected : m \in Msg /\ status[m] = "queued"
  BY DEF Selected, DueRows
<1>2. QED
  BY <1>1 DEF Snapshot

\* Every step keeps rows, claims and drains well formed.
LEMMA TypeStep ==
    ASSUME TypeOK, [Next]_vars
    PROVE  TypeOK'
<1> USE OutboundAssumption DEF TypeOK, Places, callerVars, rowVars, drainVars, histVars
<1>0. ASSUME NEW m, NEW cause \in Causes, DeadLetter(m, cause)
      PROVE  /\ status' \in [Msg -> Statuses]
             /\ error' \in [Msg -> Causes]
             /\ \A k \in Msg : status'[k] = "queued" => status[k] = "queued"
  BY <1>0 DEF DeadLetter, Statuses
<1>1. ASSUME NEW m \in Msg, Send(m) PROVE TypeOK'
  BY <1>1 DEF Send
<1>2. ASSUME NEW m \in Msg, NEW outcome \in Answers, SendReturns(m, outcome) PROVE TypeOK'
  BY <1>2 DEF SendReturns
<1>3. ASSUME NEW m \in Msg, Enqueue(m) PROVE TypeOK'
  <2>1. Cardinality({k \in Msg : status[k] # "none"}) \in Nat
    <3> DEFINE S == {k \in Msg : status[k] # "none"}
    <3>1. S \subseteq Msg
      OBVIOUS
    <3>2. IsFiniteSet(S)
      BY <3>1, FS_Subset DEF OutboundAssumption
    <3>3. QED
      BY <3>2, FS_CardinalityType
  <2>2. QED
    BY <1>3, <2>1 DEF Enqueue, Statuses, Tries
<1>4. ASSUME NEW m \in Msg, EnqueueFails(m) PROVE TypeOK'
  BY <1>4 DEF EnqueueFails
<1>5. ASSUME NEW m \in Msg, NEW reached \in BOOLEAN, CallerCrashes(m, reached) PROVE TypeOK'
  BY <1>5 DEF CallerCrashes
<1>6. ASSUME NEW m \in Msg, BackoffElapses(m) \/ RowAges(m) \/ SwitchAgent(m) PROVE TypeOK'
  BY <1>6 DEF BackoffElapses, RowAges, SwitchAgent
<1>7. ASSUME NEW d \in Drainer, SelectRows(d) PROVE TypeOK'
  <2>1. Snapshot \in SUBSET Ticket
    BY SnapshotRows DEF Ticket, Tries
  <2>2. TooOld \in SUBSET Msg
    BY DEF TooOld
  <2>3. todo' \in [Drainer -> SUBSET Ticket] /\ expired' \in [Drainer -> SUBSET Msg]
    BY <1>7, <2>1, <2>2 DEF SelectRows
  <2>4. pc' \in [Drainer -> Places] /\ \A e \in Drainer : pc'[e] \notin {"idle", "loop"} =>
      cur'[e] \in Ticket
    BY <1>7 DEF SelectRows
  <2>5. QED
    BY <1>7, <2>3, <2>4 DEF SelectRows
<1>8. ASSUME NEW d \in Drainer, TakeRow(d) PROVE TypeOK'
  BY <1>8 DEF TakeRow
<1>9. ASSUME NEW d \in Drainer, EndDrain(d) \/ DrainCrashes(d) PROVE TypeOK'
  <2>1. CASE EndDrain(d) BY <2>1 DEF EndDrain, Leave
  <2>2. CASE DrainCrashes(d) BY <2>2 DEF DrainCrashes, Leave
  <2>3. QED
    BY <1>9, <2>1, <2>2
<1>10. ASSUME NEW d \in Drainer, RejectUntenanted(d) \/ SuppressAi(d) PROVE TypeOK'
  <2>1. {"untenanted", "suppressed"} \subseteq Causes
    BY DEF Causes
  <2>2. QED
    BY <1>10, <1>0, <2>1 DEF RejectUntenanted, SuppressAi, Continue
<1>11. ASSUME NEW d \in Drainer, ExpireStale(d) PROVE TypeOK'
  BY <1>11 DEF ExpireStale, Continue, Ticket, Tries, Statuses, Causes, DeadLetter
<1>12. ASSUME NEW d \in Drainer, Gate(d) PROVE TypeOK'
  BY <1>12 DEF Gate
<1>13. ASSUME NEW d \in Drainer, Claim(d) PROVE TypeOK'
  BY <1>13 DEF Claim
<1>14. ASSUME NEW d \in Drainer, SuppressDuplicate(d) PROVE TypeOK'
  <2>1. /\ status' \in [Msg -> Statuses]
        /\ error' \in [Msg -> Causes]
        /\ \A k \in Msg : status'[k] = "queued" => status[k] = "queued"
    <3>1. "duplicate" \in Causes
      BY DEF Causes
    <3>2. QED
      BY <1>14, <1>0, <3>1 DEF SuppressDuplicate
  <2>2. QED
    BY <1>14, <2>1 DEF SuppressDuplicate, Continue
<1>15. ASSUME NEW d \in Drainer, NEW outcome \in Answers, CallGateway(d, outcome) PROVE TypeOK'
  BY <1>15 DEF CallGateway, Ticket
<1>16. ASSUME NEW d \in Drainer, Settle(d) PROVE TypeOK'
  BY <1>16 DEF Settle, SettledStatus, Tries, Statuses, Causes, Continue, Ticket
<1>17. ASSUME NEW d \in Drainer, DrainCrashesInCall(d) PROVE TypeOK'
  BY <1>17 DEF DrainCrashesInCall, Leave, Ticket
<1>18. CASE UNCHANGED vars
  BY <1>18 DEF vars
<1>19. QED
  BY <1>1, <1>2, <1>3, <1>4, <1>5, <1>6, <1>7, <1>8, <1>9, <1>10, <1>11, <1>12, <1>13,
     <1>14, <1>15, <1>16, <1>17, <1>18
  DEF Next, CallerStep, DrainStep

\* Type correctness: rows, claims and every drain's position stay well
\* formed, and a queued row always has an attempt left.
THEOREM TypeCorrect == Spec => []TypeOK
<1>1. Init => TypeOK
  BY OutboundAssumption DEF Init, TypeOK, Places, Statuses, Causes, Ticket, Tries, NoTicket, Answers
<1>2. TypeOK /\ [Next]_vars => TypeOK'
  BY TypeStep
<1>3. QED
  BY <1>1, <1>2, PTL DEF Spec

----------------------------------------------------------------------------
\* A step that leaves rows and claims alone, takes no new ticket and no new
\* claim keeps the invariant, whatever drains let go of.
LEMMA LettingGo ==
    ASSUME ClaimInv, TypeOK', CallsCounted',
           UNCHANGED <<status, attempts, claims>>,
           \A m \in Msg : caller'[m] # "finished" => caller[m] # "finished",
           \A e \in Drainer : Pending(e)' \subseteq Pending(e),
           \A e \in Drainer : Holds(e)' => Holds(e) /\ cur'[e] = cur[e]
    PROVE  ClaimInv'
<1>1. UnqueuedUntouched' /\ PendingBacked'
  BY DEF ClaimInv, UnqueuedUntouched, PendingBacked
<1>2. ClaimsClosed' /\ RowBacked'
  BY DEF ClaimInv, ClaimsClosed, RowBacked
<1>3. HolderInv'
  BY DEF ClaimInv, HolderInv, HolderClaims, HolderLast, HolderRow, HolderAhead, HolderAlone
<1>4. QED
  BY <1>1, <1>2, <1>3 DEF ClaimInv

\* Every drain but the moving one keeps its tickets and its place.
LEMMA OthersKeep ==
    ASSUME TypeOK, NEW d \in Drainer, NEW e \in Drainer, e # d,
           NEW p, NEW s, NEW c,
           pc' = [pc EXCEPT ![d] = p], todo' = [todo EXCEPT ![d] = s], cur' = [cur EXCEPT ![d] = c]
    PROVE  Pending(e)' = Pending(e) /\ Holds(e)' = Holds(e) /\ cur'[e] = cur[e]
  BY DEF TypeOK, Pending, Holds, Busy

\* A drain that does not hold a claim dead-letters its row and moves on.
LEMMA DeadLettering ==
    ASSUME ClaimInv, TypeOK', NEW d \in Drainer, Busy(d), ~Holds(d), Continue(d),
           UNCHANGED <<caller, claims, todo, calls>>,
           \A m \in Msg : m # cur[d][1] => status'[m] = status[m] /\ attempts'[m] = attempts[m],
           \/ UNCHANGED <<status, attempts>>
           \/ /\ status'[cur[d][1]] = "dead"
              /\ attempts'[cur[d][1]] \in {attempts[cur[d][1]], cur[d][2]}
    PROVE  ClaimInv'
<1> DEFINE m == cur[d][1]
<1>0. TypeOK
  BY DEF ClaimInv
<1>1. cur[d] \in Ticket /\ m \in Msg /\ cur[d][2] \in Tries /\ cur[d] \in Pending(d)
  BY <1>0 DEF TypeOK, Busy, Pending, Ticket
<1>2. \A e \in Drainer : Pending(e)' \subseteq Pending(e)
  BY <1>0 DEF TypeOK, Continue, Pending, Busy
<1>3. \A e \in Drainer : Holds(e)' => Holds(e) /\ cur'[e] = cur[e]
  BY <1>0 DEF TypeOK, Continue, Holds
<1>4. status[m] # "none"
  BY <1>1 DEF ClaimInv, UnqueuedUntouched
<1>5. UnqueuedUntouched'
  BY <1>1, <1>2, <1>4 DEF ClaimInv, UnqueuedUntouched
<1>6. ClaimsClosed'
  BY DEF ClaimInv, ClaimsClosed
<1>7. RowBacked'
  BY <1>1 DEF ClaimInv, RowBacked, PendingBacked
<1>8. PendingBacked'
  BY <1>2, <1>1 DEF ClaimInv, PendingBacked, Pending, Ticket
<1>9. HolderClaims' /\ HolderLast' /\ HolderAlone'
  BY <1>3 DEF ClaimInv, HolderInv, HolderClaims, HolderLast, HolderAlone
<1>10. HolderRow'
  <2> SUFFICES ASSUME NEW e \in Drainer, Holds(e)', status'[cur'[e][1]] = "queued"
               PROVE  attempts'[cur'[e][1]] = cur'[e][2]
    BY DEF HolderRow
  <2>1. Holds(e) /\ cur'[e] = cur[e] /\ cur[e][1] \in Msg
    BY <1>0, <1>3 DEF TypeOK, Holds, Ticket
  <2>2. status[cur[e][1]] = "queued" /\ attempts'[cur[e][1]] = attempts[cur[e][1]]
    BY <2>1
  <2>3. QED
    BY <2>1, <2>2 DEF ClaimInv, HolderInv, HolderRow
<1>11. HolderAhead'
  BY <1>2, <1>3 DEF ClaimInv, HolderInv, HolderAhead
<1>12. CallsCounted'
  BY <1>0, <1>3 DEF ClaimInv, CallsCounted, Continue, TypeOK
<1>13. QED
  BY <1>5, <1>6, <1>7, <1>8, <1>9, <1>10, <1>11, <1>12 DEF ClaimInv, HolderInv

\* A drain without a claim that drops its snapshot, or moves along it.
LEMMA QuietDrain ==
    ASSUME ClaimInv, TypeOK', NEW d \in Drainer,
           \/ TakeRow(d) \/ EndDrain(d) \/ Gate(d) \/ DrainCrashes(d)
    PROVE  ClaimInv'
<1>0. TypeOK
  BY DEF ClaimInv
<1> USE <1>0 DEF TypeOK, callerVars, rowVars, histVars
<1>1. /\ UNCHANGED <<caller, status, attempts, claims, calls>>
      /\ \A e \in Drainer : Pending(e)' \subseteq Pending(e)
      /\ \A e \in Drainer : Holds(e)' => Holds(e) /\ cur'[e] = cur[e] /\ pc'[e] = pc[e]
  <2>1. CASE TakeRow(d)
    BY <2>1 DEF TakeRow, Pending, Busy, Holds
  <2>2. CASE EndDrain(d) \/ DrainCrashes(d)
    BY <2>2 DEF EndDrain, DrainCrashes, Leave, Pending, Busy, Holds
  <2>3. CASE Gate(d)
    BY <2>3 DEF Gate, Pending, Busy, Holds
  <2>4. QED
    BY <2>1, <2>2, <2>3
<1>2. CallsCounted'
  BY <1>1 DEF ClaimInv, CallsCounted, Holds
<1>3. QED
  BY <1>1, <1>2, LettingGo

\* A gateway call answered, or cut short by a crash: one call is counted,
\* and no other drain is about to make the same one.
LEMMA Calling ==
    ASSUME ClaimInv, TypeOK', NEW d \in Drainer,
           \/ \E outcome \in Answers : CallGateway(d, outcome)
           \/ DrainCrashesInCall(d)
    PROVE  ClaimInv'
<1>0. TypeOK
  BY DEF ClaimInv
<1>1. /\ pc[d] = "call" /\ cur[d] \in Ticket
      /\ UNCHANGED <<caller, status, attempts, claims>>
      /\ calls' = [calls EXCEPT ![cur[d]] = @ + 1]
  BY <1>0 DEF TypeOK, CallGateway, DrainCrashesInCall, callerVars, rowVars
<1>2. /\ \A e \in Drainer : Pending(e)' \subseteq Pending(e)
      /\ \A e \in Drainer : Holds(e)' => Holds(e) /\ cur'[e] = cur[e]
      /\ pc'[d] # "call"
      /\ \A e \in Drainer : e # d => pc'[e] = pc[e]
  <2>1. CASE \E outcome \in Answers : CallGateway(d, outcome)
    BY <1>0, <2>1 DEF TypeOK, CallGateway, Pending, Busy, Holds
  <2>2. CASE DrainCrashesInCall(d)
    BY <1>0, <2>2 DEF TypeOK, DrainCrashesInCall, Leave, Pending, Busy, Holds
  <2>3. QED
    BY <2>1, <2>2
<1>3. CallsCounted'
  <2>1. cur[d] \in claims /\ calls[cur[d]] = 0
    BY <1>1 DEF ClaimInv, HolderInv, HolderClaims, CallsCounted, Holds
  <2>2. \A e \in Drainer : pc'[e] = "call" =>
      e # d /\ cur'[e] = cur[e] /\ cur[e] # cur[d] /\ pc[e] = "call"
    BY <1>1, <1>2 DEF ClaimInv, HolderInv, HolderAlone, Holds
  <2>3. \A t \in Ticket : calls'[t] = IF t = cur[d] THEN 1 ELSE calls[t]
    BY <1>0, <1>1, <2>1 DEF TypeOK
  <2>4. \A e \in Drainer : pc[e] = "call" => cur[e] \in Ticket
    BY <1>0 DEF TypeOK
  <2>5. QED
    BY <1>1, <2>1, <2>2, <2>3, <2>4 DEF ClaimInv, CallsCounted
<1>4. QED
  BY <1>1, <1>2, <1>3, LettingGo

\* The callers and the environment touch no drain; only Enqueue makes a row.
LEMMA Elsewhere ==
    ASSUME ClaimInv, TypeOK', NEW m \in Msg,
           \/ CallerStep(m)
           \/ \E reached \in BOOLEAN : CallerCrashes(m, reached)
           \/ BackoffElapses(m) \/ RowAges(m) \/ SwitchAgent(m)
    PROVE  ClaimInv'
<1>0. TypeOK
  BY DEF ClaimInv
<1>1. /\ UNCHANGED <<claims, pc, todo, cur, calls>>
      /\ \A e \in Drainer : Pending(e)' = Pending(e) /\ Holds(e)' = Holds(e)
  <2>1. UNCHANGED <<claims, pc, todo, cur, calls>>
    BY DEF CallerStep, Send, SendReturns, Enqueue, EnqueueFails, CallerCrashes, BackoffElapses,
           RowAges, SwitchAgent, drainVars, histVars
  <2>2. QED
    BY <2>1 DEF Pending, Holds, Busy
<1>2. CallsCounted'
  BY <1>1 DEF ClaimInv, CallsCounted
<1>3. CASE Enqueue(m)
  <2>1. /\ status[m] = "none" /\ attempts[m] = 0
        /\ \A n \in Tries : <<m, n>> \notin claims
        /\ \A e \in Drainer : \A t \in Pending(e) : t[1] # m
    BY <1>3 DEF Enqueue, ClaimInv, UnqueuedUntouched
  <2>2. /\ caller' = [caller EXCEPT ![m] = "finished"]
        /\ status' = [status EXCEPT ![m] = "queued"]
        /\ attempts' = [attempts EXCEPT ![m] = 0]
    BY <1>3 DEF Enqueue
  <2>3. UnqueuedUntouched'
    BY <1>0, <1>1, <2>1, <2>2 DEF TypeOK, ClaimInv, UnqueuedUntouched
  <2>4. ClaimsClosed'
    BY <1>1 DEF ClaimInv, ClaimsClosed
  <2>5. RowBacked'
    <3> SUFFICES ASSUME NEW k \in Msg, NEW n \in Tries
                 PROVE  /\ n < attempts'[k] => <<k, n>> \in claims
                        /\ status'[k] = "queued" /\ n > attempts'[k] => <<k, n>> \notin claims
      BY <1>1 DEF RowBacked
    <3>1. CASE k = m
      BY <1>0, <2>1, <2>2, <3>1, OutboundAssumption DEF TypeOK, Tries
    <3>2. CASE k # m
      BY <1>0, <2>2, <3>2 DEF TypeOK, ClaimInv, RowBacked
    <3>3. QED
      BY <3>1, <3>2
  <2>6. PendingBacked'
    <3> SUFFICES ASSUME NEW e \in Drainer, NEW t \in Pending(e)
                 PROVE  /\ \A n \in Tries : n < t[2] => <<t[1], n>> \in claims
                        /\ status'[t[1]] = "queued" => t[2] <= attempts'[t[1]]
      BY <1>1 DEF PendingBacked
    <3>1. t[1] \in Msg /\ t[1] # m
      BY <2>1 DEF Pending, Ticket
    <3>2. QED
      BY <1>0, <2>2, <3>1 DEF TypeOK, ClaimInv, PendingBacked
  <2>7. HolderRow'
    <3> SUFFICES ASSUME NEW e \in Drainer, Holds(e), status'[cur[e][1]] = "queued"
                 PROVE  attempts'[cur[e][1]] = cur[e][2]
      BY <1>1 DEF HolderRow
    <3>1. cur[e] \in Pending(e) /\ cur[e] \in Ticket
      BY <1>0 DEF TypeOK, Holds, Pending, Busy
    <3>2. cur[e][1] \in Msg /\ cur[e][1] # m
      BY <2>1, <3>1 DEF Ticket
    <3>3. QED
      BY <1>0, <2>2, <3>2 DEF TypeOK, ClaimInv, HolderInv, HolderRow
  <2>8. HolderClaims' /\ HolderLast' /\ HolderAhead' /\ HolderAlone'
    BY <1>1 DEF ClaimInv, HolderInv, HolderClaims, HolderLast, HolderAhead, HolderAlone
  <2>9. QED
    BY <1>2, <2>3, <2>4, <2>5, <2>6, <2>7, <2>8 DEF ClaimInv, HolderInv
<1>4. CASE ~Enqueue(m)
  <2>1. UNCHANGED <<status, attempts>>
    BY <1>4 DEF CallerStep, Send, SendReturns, EnqueueFails, CallerCrashes, BackoffElapses,
                RowAges, SwitchAgent, rowVars
  <2>2. \A k \in Msg : caller'[k] # "finished" => caller[k] # "finished"
    BY <1>0, <1>4 DEF TypeOK, CallerStep, Send, SendReturns, EnqueueFails, CallerCrashes,
                BackoffElapses, RowAges, SwitchAgent, callerVars
  <2>3. QED
    BY <1>1, <1>2, <2>1, <2>2, LettingGo
<1>5. QED
  BY <1>3, <1>4

\* The four ways a drain dead-letters without having called the gateway.
LEMMA Rejecting ==
    ASSUME ClaimInv, TypeOK', NEW d \in Drainer,
           \/ RejectUntenanted(d) \/ ExpireStale(d) \/ SuppressAi(d) \/ SuppressDuplicate(d)
    PROVE  ClaimInv'
<1>0. TypeOK
  BY DEF ClaimInv
<1>1. Busy(d) /\ ~Holds(d) /\ Continue(d) /\ UNCHANGED <<caller, claims, todo, calls>>
  BY DEF RejectUntenanted, ExpireStale, SuppressAi, SuppressDuplicate, Busy, Holds,
         callerVars, histVars
<1>2. cur[d][1] \in Msg
  BY <1>0, <1>1 DEF TypeOK, Busy, Ticket
<1>3. /\ \A m \in Msg : m # cur[d][1] => status'[m] = status[m] /\ attempts'[m] = attempts[m]
      /\ \/ UNCHANGED <<status, attempts>>
         \/ /\ status'[cur[d][1]] = "dead"
            /\ attempts'[cur[d][1]] \in {attempts[cur[d][1]], cur[d][2]}
  <2>1. CASE RejectUntenanted(d) \/ SuppressAi(d)
    BY <1>0, <1>2, <2>1 DEF TypeOK, RejectUntenanted, SuppressAi, DeadLetter
  <2>2. CASE ExpireStale(d)
    BY <1>0, <1>2, <2>2 DEF TypeOK, ExpireStale, DeadLetter
  <2>3. CASE SuppressDuplicate(d)
    BY <1>0, <1>2, <2>3 DEF TypeOK, SuppressDuplicate, DeadLetter
  <2>4. QED
    BY <2>1, <2>2, <2>3
<1>4. QED
  BY <1>1, <1>3, DeadLettering

\* A snapshot takes tickets of queued rows, at the attempts they are at.
LEMMA Selecting ==
    ASSUME ClaimInv, TypeOK', NEW d \in Drainer, SelectRows(d)
    PROVE  ClaimInv'
<1>0. TypeOK
  BY DEF ClaimInv
<1>1. /\ UNCHANGED <<caller, status, attempts, claims, calls, cur>>
      /\ pc[d] = "idle" /\ pc' = [pc EXCEPT ![d] = "loop"]
      /\ todo' = [todo EXCEPT ![d] = Snapshot]
  BY DEF SelectRows, callerVars, rowVars, histVars
<1>2. \A e \in Drainer : (Holds(e)' <=> Holds(e)) /\ (pc'[e] = "call" => pc[e] = "call")
  BY <1>0, <1>1 DEF TypeOK, Holds
<1>3. \A e \in Drainer : \A t \in Pending(e)' :
         t \in Pending(e) \/ (t[1] \in Msg /\ status[t[1]] = "queued" /\ t[2] = attempts[t[1]])
  BY <1>0, <1>1, SnapshotRows DEF TypeOK, Pending, Busy
<1>4. UnqueuedUntouched'
  BY <1>1, <1>3 DEF ClaimInv, UnqueuedUntouched
<1>5. ClaimsClosed' /\ RowBacked'
  BY <1>1 DEF ClaimInv, ClaimsClosed, RowBacked
<1>6. PendingBacked'
  <2>1. \A m \in Msg : attempts[m] <= attempts[m]
    BY <1>0 DEF TypeOK
  <2>2. QED
    BY <1>1, <1>3, <2>1 DEF ClaimInv, RowBacked, PendingBacked
<1>7. HolderClaims' /\ HolderLast' /\ HolderRow' /\ HolderAlone'
  BY <1>1, <1>2 DEF ClaimInv, HolderInv, HolderClaims, HolderLast, HolderRow, HolderAlone
<1>8. HolderAhead'
  <2>1. \A k \in Msg : attempts[k] <= attempts[k]
    BY <1>0 DEF TypeOK
  <2>2. QED
    BY <1>1, <1>2, <1>3, <2>1 DEF ClaimInv, HolderInv, HolderRow, HolderAhead
<1>9. CallsCounted'
  BY <1>1, <1>2 DEF ClaimInv, CallsCounted
<1>10. QED
  BY <1>4, <1>5, <1>6, <1>7, <1>8, <1>9 DEF ClaimInv, HolderInv

\* Winning a claim: the winner is alone at the end of the claimed segment.
LEMMA Claiming ==
    ASSUME ClaimInv, TypeOK', NEW d \in Drainer, Claim(d)
    PROVE  ClaimInv'
<1> DEFINE m == cur[d][1]
           n == cur[d][2]
<1>0. TypeOK
  BY DEF ClaimInv
<1>1. /\ pc[d] = "claim" /\ cur[d] \in Ticket /\ cur[d] = <<m, n>> /\ m \in Msg /\ n \in Tries
      /\ claims' = claims \cup {cur[d]}
      /\ pc' = [pc EXCEPT ![d] = IF cur[d] \in claims THEN "duplicate" ELSE "call"]
      /\ UNCHANGED <<caller, status, attempts, calls, todo, cur>>
  BY <1>0 DEF TypeOK, Claim, Ticket, callerVars, rowVars, histVars
<1>2. /\ \A e \in Drainer : Pending(e)' = Pending(e)
      /\ \A e \in Drainer : e # d => Holds(e)' = Holds(e) /\ pc'[e] = pc[e]
      /\ cur[d] \in Pending(d) /\ ~Holds(d)
  BY <1>0, <1>1 DEF TypeOK, Pending, Busy, Holds
<1>3. CASE cur[d] \in claims
  <2>1. claims' = claims /\ pc'[d] = "duplicate" /\ ~Holds(d)'
    BY <1>0, <1>1, <1>3 DEF TypeOK, Holds
  <2>2. CallsCounted'
    BY <1>1, <1>2, <2>1 DEF ClaimInv, CallsCounted
  <2>3. QED
    BY <1>1, <1>2, <2>1, <2>2, LettingGo
<1>4. CASE cur[d] \notin claims
  <2>1. pc'[d] = "call" /\ Holds(d)'
    BY <1>0, <1>1, <1>4 DEF TypeOK, Holds
  <2>2. /\ status[m] # "none"
        /\ \A i \in Tries : i < n => <<m, i>> \in claims
        /\ status[m] = "queued" => n <= attempts[m]
    BY <1>1, <1>2 DEF ClaimInv, UnqueuedUntouched, PendingBacked
  <2>3. UnqueuedUntouched'
    BY <1>1, <1>2, <2>2 DEF ClaimInv, UnqueuedUntouched
  <2>4. ClaimsClosed'
    BY <1>1, <2>2 DEF ClaimInv, ClaimsClosed
  <2>5. RowBacked'
    <3> SUFFICES ASSUME NEW k \in Msg, NEW i \in Tries
                 PROVE  /\ i < attempts[k] => <<k, i>> \in claims'
                        /\ status[k] = "queued" /\ i > attempts[k] => <<k, i>> \notin claims'
      BY <1>1 DEF RowBacked
    <3>1. /\ i < attempts[k] => <<k, i>> \in claims
          /\ status[k] = "queued" /\ i > attempts[k] => <<k, i>> \notin claims
      BY DEF ClaimInv, RowBacked
    <3>2. status[k] = "queued" /\ i > attempts[k] => <<k, i>> # cur[d]
      <4>1. attempts[k] \in Int /\ i \in Int
        BY <1>0, OutboundAssumption DEF TypeOK, Tries
      <4>2. QED
        BY <1>1, <2>2, <4>1
    <3>3. QED
      BY <1>1, <3>1, <3>2
  <2>6. PendingBacked'
    BY <1>1, <1>2 DEF ClaimInv, PendingBacked
  <2>7. HolderClaims'
    BY <1>1, <1>2 DEF ClaimInv, HolderInv, HolderClaims
  <2>8. \A e \in Drainer : Holds(e) /\ cur[e][1] = m => n <= cur[e][2]
    BY <1>2 DEF ClaimInv, HolderInv, HolderAhead
  <2>9. HolderLast'
    <3> SUFFICES ASSUME NEW e \in Drainer, Holds(e)', NEW i \in Tries, i > cur[e][2]
                 PROVE  <<cur[e][1], i>> \notin claims'
      BY <1>1 DEF HolderLast
    <3>1. CASE e = d
      <4>1. i # n
        BY <1>1, <3>1 DEF Tries
      <4>2. <<m, i>> \notin claims
        BY <1>1, <1>4, <3>1 DEF ClaimInv, ClaimsClosed
      <4>3. QED
        BY <1>1, <3>1, <4>1, <4>2
    <3>2. CASE e # d
      <4>1. Holds(e) /\ <<cur[e][1], i>> \notin claims
        BY <1>2, <3>2 DEF ClaimInv, HolderInv, HolderLast
      <4>2. cur[e][2] \in Int
        <5>1. cur[e] \in Ticket
          BY <1>0, <4>1 DEF TypeOK, Holds
        <5>2. QED
          BY <5>1, TicketParts
      <4>3. cur[e][1] = m => i # n
        BY <1>1, <2>8, <4>1, <4>2 DEF Tries
      <4>4. QED
        BY <1>1, <4>1, <4>3
    <3>3. QED
      BY <3>1, <3>2
  <2>10. HolderRow'
    <3>1. ~(n < attempts[m])
      BY <1>1, <1>4 DEF ClaimInv, RowBacked
    <3>2. attempts[m] \in Nat /\ n \in Nat
      BY <1>0, <1>1, TicketParts, OutboundAssumption DEF TypeOK
    <3>3. status[m] = "queued" => attempts[m] = n
      BY <2>2, <3>1, <3>2
    <3>4. QED
      BY <1>1, <1>2, <3>3 DEF ClaimInv, HolderInv, HolderRow
  <2>11. HolderAhead'
    <3>1. \A e \in Drainer : \A t \in Pending(e) : t[1] = m => t[2] <= n
      <4> SUFFICES ASSUME NEW e \in Drainer, NEW t \in Pending(e), t[1] = m, n < t[2] PROVE FALSE
        BY <1>1 DEF Pending, Ticket, Tries
      <4>1. <<m, n>> \in claims
        BY <1>1 DEF ClaimInv, PendingBacked
      <4>2. QED
        BY <1>1, <1>4, <4>1
    <3>2. QED
      BY <1>1, <1>2, <3>1 DEF ClaimInv, HolderInv, HolderAhead
  <2>12. HolderAlone'
    BY <1>1, <1>2, <1>4 DEF ClaimInv, HolderInv, HolderClaims, HolderAlone
  <2>13. CallsCounted'
    BY <1>0, <1>1, <1>2, <1>4 DEF TypeOK, ClaimInv, CallsCounted
  <2>14. QED
    BY <2>3, <2>4, <2>5, <2>6, <2>7, <2>9, <2>10, <2>11, <2>12, <2>13 DEF ClaimInv, HolderInv
<1>5. QED
  BY <1>3, <1>4

\* At most one drain at a time is between the claim and the settling of
\* any attempt of a message.
LEMMA HolderUnique ==
    ASSUME ClaimInv, NEW d \in Drainer, NEW e \in Drainer, Holds(d), Holds(e),
           cur[d][1] = cur[e][1]
    PROVE  d = e
<1>1. cur[d] \in Ticket /\ cur[e] \in Ticket /\ cur[d] \in Pending(d) /\ cur[e] \in Pending(e)
  BY DEF ClaimInv, TypeOK, Holds, Pending, Busy
<1>2. cur[d][2] <= cur[e][2] /\ cur[e][2] <= cur[d][2]
  BY <1>1 DEF ClaimInv, HolderInv, HolderAhead
<1>3. cur[d] = cur[e]
  BY <1>1, <1>2, TicketParts
<1>4. QED
  BY <1>3 DEF ClaimInv, HolderInv, HolderAlone

\* Settling writes the next attempt, which is exactly one past the claims.
LEMMA Settling ==
    ASSUME ClaimInv, TypeOK', NEW d \in Drainer, Settle(d)
    PROVE  ClaimInv'
<1> DEFINE m == cur[d][1]
           n == cur[d][2]
<1>0. TypeOK
  BY DEF ClaimInv
<1>1. /\ pc[d] = "settle" /\ cur[d] \in Ticket /\ cur[d] = <<m, n>> /\ m \in Msg /\ n \in Tries
      /\ Holds(d) /\ cur[d] \in Pending(d)
      /\ UNCHANGED <<caller, claims, calls, todo>>
      /\ Continue(d)
  BY <1>0 DEF TypeOK, Settle, Ticket, Holds, Pending, Busy, callerVars, histVars
<1>2. /\ \A k \in Msg : k # m => status'[k] = status[k] /\ attempts'[k] = attempts[k]
      /\ status'[m] # "none"
      /\ attempts'[m] \in {attempts[m], n + 1}
      /\ status'[m] = "queued" => attempts'[m] = n + 1
  BY <1>0, <1>1 DEF TypeOK, Settle, SettledStatus
<1>3. /\ \A e \in Drainer : Pending(e)' \subseteq Pending(e)
      /\ \A e \in Drainer : Holds(e)' => Holds(e) /\ cur'[e] = cur[e] /\ pc'[e] = pc[e]
      /\ ~Holds(d)'
  BY <1>0, <1>1 DEF TypeOK, Continue, Pending, Busy, Holds
<1>4. status[m] # "none"
  BY <1>1 DEF ClaimInv, UnqueuedUntouched
<1>5. UnqueuedUntouched'
  BY <1>1, <1>2, <1>3, <1>4 DEF ClaimInv, UnqueuedUntouched
<1>6. ClaimsClosed' /\ HolderClaims' /\ HolderLast' /\ HolderAlone'
  BY <1>1, <1>3 DEF ClaimInv, ClaimsClosed, HolderInv, HolderClaims, HolderLast, HolderAlone
<1>7. HolderAhead'
  BY <1>1, <1>3 DEF ClaimInv, HolderInv, HolderAhead
<1>8. RowBacked'
  <2>1. \A i \in Tries : i < n + 1 => <<m, i>> \in claims
    BY <1>1 DEF ClaimInv, PendingBacked, HolderInv, HolderClaims, Tries
  <2>2. \A i \in Tries : i > n + 1 => <<m, i>> \notin claims
    BY <1>1 DEF ClaimInv, HolderInv, HolderLast, Tries
  <2>3. SUFFICES ASSUME NEW k \in Msg, NEW i \in Tries
               PROVE  /\ i < attempts'[k] => <<k, i>> \in claims
                      /\ status'[k] = "queued" /\ i > attempts'[k] => <<k, i>> \notin claims
    BY <1>1 DEF RowBacked
  <2>4. CASE k = m /\ attempts'[m] = n + 1
    BY <2>1, <2>2, <2>4
  <2>5. CASE k # m \/ attempts'[m] # n + 1
    BY <1>2, <2>5 DEF ClaimInv, RowBacked
  <2>6. QED
    BY <2>4, <2>5
<1>9. PendingBacked'
  <2> SUFFICES ASSUME NEW e \in Drainer, NEW t \in Pending(e)'
               PROVE  /\ \A i \in Tries : i < t[2] => <<t[1], i>> \in claims
                      /\ status'[t[1]] = "queued" => t[2] <= attempts'[t[1]]
    BY <1>1 DEF PendingBacked
  <2>1. t \in Pending(e) /\ t[1] \in Msg /\ t[2] \in Tries
    BY <1>3 DEF Pending, Ticket
  <2>2. CASE t[1] = m
    <3>1. t[2] <= n
      BY <1>1, <2>1, <2>2 DEF ClaimInv, HolderInv, HolderAhead
    <3>2. QED
      BY <1>1, <1>2, <2>1, <2>2, <3>1 DEF ClaimInv, PendingBacked, Tries
  <2>3. CASE t[1] # m
    BY <1>2, <2>1, <2>3 DEF ClaimInv, PendingBacked
  <2>4. QED
    BY <2>2, <2>3
<1>10. HolderRow'
  <2> SUFFICES ASSUME NEW e \in Drainer, Holds(e)', status'[cur'[e][1]] = "queued"
               PROVE  attempts'[cur'[e][1]] = cur'[e][2]
    BY DEF HolderRow
  <2>1. /\ Holds(e) /\ cur'[e] = cur[e] /\ e # d
        /\ cur[e] \in Ticket /\ cur[e] \in Pending(e)
    BY <1>0, <1>3 DEF TypeOK, Holds, Pending, Busy
  <2>2. cur[e][1] # m
    BY <1>1, <2>1, HolderUnique
  <2>3. QED
    BY <1>2, <2>1, <2>2 DEF ClaimInv, HolderInv, HolderRow, Ticket
<1>11. CallsCounted'
  BY <1>1, <1>3 DEF ClaimInv, CallsCounted, Holds
<1>12. QED
  BY <1>5, <1>6, <1>7, <1>8, <1>9, <1>10, <1>11 DEF ClaimInv, HolderInv

\* ClaimInv is inductive.
LEMMA ClaimStep ==
    ASSUME ClaimInv, [Next]_vars
    PROVE  ClaimInv'
<1>0. TypeOK /\ TypeOK'
  BY TypeStep DEF ClaimInv
<1>1. CASE UNCHANGED vars
  <2>1. /\ UNCHANGED <<caller, status, attempts, claims, calls, pc, todo, cur>>
        /\ \A e \in Drainer : Pending(e)' = Pending(e) /\ Holds(e)' = Holds(e)
    BY <1>1 DEF vars, callerVars, rowVars, drainVars, histVars, Pending, Holds, Busy
  <2>2. CallsCounted'
    BY <2>1 DEF ClaimInv, CallsCounted
  <2>3. QED
    BY <1>0, <2>1, <2>2, LettingGo
<1>2. QED
  BY <1>0, <1>1, Elsewhere, QuietDrain, Calling, Rejecting, Selecting, Claiming, Settling
  DEF Next, DrainStep

\* ClaimInv holds at the start.
LEMMA ClaimInit ==
    ASSUME Init
    PROVE  ClaimInv
<1>1. TypeOK
  BY OutboundAssumption DEF Init, TypeOK, Places, Statuses, Causes, Ticket, Tries, NoTicket, Answers
<1>2. \A d \in Drainer : Pending(d) = {} /\ ~Holds(d)
  BY DEF Init, Pending, Busy, Holds
<1>3. UnqueuedUntouched /\ ClaimsClosed /\ PendingBacked /\ HolderInv
  BY <1>2 DEF Init, UnqueuedUntouched, ClaimsClosed, PendingBacked, HolderInv, HolderClaims,
              HolderLast, HolderRow, HolderAhead, HolderAlone
<1>4. RowBacked
  BY OutboundAssumption DEF Init, RowBacked, Tries
<1>5. CallsCounted
  BY DEF Init, CallsCounted
<1>6. QED
  BY <1>1, <1>3, <1>4, <1>5 DEF ClaimInv

\* No row is taken to the gateway twice for the same attempt, whatever the
\* number of messages, drains, attempts and crashes, and even when the
\* gateway lies about its failures.
THEOREM AttemptsOnce == Spec => []AttemptCalledOnce
<1>1. Init => ClaimInv
  BY ClaimInit
<1>2. ClaimInv /\ [Next]_vars => ClaimInv'
  BY ClaimStep
<1>3. ClaimInv => AttemptCalledOnce
  BY DEF ClaimInv, CallsCounted, TypeOK, AttemptCalledOnce
<1>4. QED
  BY <1>1, <1>2, <1>3, PTL DEF Spec

(***************************************************************************)
(* At most one delivery.                                                   *)
(***************************************************************************)

\* What a step must not do to a delivered message.
LEMMA SpentStays ==
    ASSUME NEW m \in Msg, Spent(m), caller'[m] = "finished", claims \subseteq claims',
           status'[m] = "queued" => status[m] = "queued" /\ attempts'[m] = attempts[m],
           \A e \in Drainer : \A t \in Pending(e)' : t[1] = m => t \in Pending(e) \/ t \in claims,
           \A e \in Drainer : pc'[e] = "call" /\ cur'[e][1] = m =>
               pc[e] = "call" /\ cur'[e] = cur[e],
           \A e \in Drainer : pc'[e] = "settle" /\ cur'[e][1] = m =>
                                 pc[e] = "settle" /\ cur'[e] = cur[e] /\ answer'[e] = answer[e]
    PROVE  Spent(m)'
<1>1. status'[m] = "queued" => <<m, attempts'[m]>> \in claims'
  BY DEF Spent
<1>2. \A e \in Drainer : \A t \in Pending(e)' : t[1] = m => t \in claims'
  BY DEF Spent
<1>3. \A e \in Drainer : pc'[e] = "call" => cur'[e][1] # m
  BY DEF Spent
<1>4. \A e \in Drainer : pc'[e] = "settle" /\ cur'[e][1] = m => answer'[e] = "ok"
  BY DEF Spent
<1>5. QED
  BY <1>1, <1>2, <1>3, <1>4 DEF Spent

\* No step of the code gives a delivered message another chance.
LEMMA SpentStep ==
    ASSUME ClaimInv, [Next]_vars, NEW m \in Msg, Spent(m)
    PROVE  Spent(m)'
<1>0. TypeOK /\ caller[m] = "finished"
  BY DEF ClaimInv, Spent
<1>1. CASE UNCHANGED vars
  BY <1>1 DEF vars, callerVars, rowVars, drainVars, Spent, Pending, Busy
<1>2. ASSUME NEW k \in Msg,
             \/ CallerStep(k)
             \/ \E reached \in BOOLEAN : CallerCrashes(k, reached)
             \/ BackoffElapses(k) \/ RowAges(k) \/ SwitchAgent(k)
      PROVE  Spent(m)'
  <2>1. UNCHANGED <<claims, pc, todo, cur, answer>>
    BY <1>2 DEF CallerStep, Send, SendReturns, Enqueue, EnqueueFails, CallerCrashes, BackoffElapses,
           RowAges, SwitchAgent, drainVars
  <2>2. caller'[m] = "finished" /\ status'[m] = status[m] /\ attempts'[m] = attempts[m]
    BY <1>0, <1>2 DEF TypeOK, CallerStep, Send, SendReturns, Enqueue, EnqueueFails, CallerCrashes,
                      BackoffElapses, RowAges, SwitchAgent, callerVars, rowVars
  <2>3. QED
    BY <2>1, <2>2 DEF Spent, Pending, Busy
<1>3. ASSUME NEW d \in Drainer, DrainStep(d) \/ DrainCrashes(d) \/ DrainCrashesInCall(d)
      PROVE  Spent(m)'
  <2> USE <1>0 DEF TypeOK
  <2>0. caller' = caller
    BY <1>3
      DEF DrainStep, SelectRows, TakeRow, EndDrain, RejectUntenanted, ExpireStale, Gate,
          SuppressAi,
                Claim, SuppressDuplicate, CallGateway, Settle, DrainCrashes, DrainCrashesInCall, callerVars
  <2>1. CASE SelectRows(d)
    <3>1. /\ UNCHANGED <<status, attempts, claims, cur, answer>>
          /\ pc' = [pc EXCEPT ![d] = "loop"]
          /\ todo' = [todo EXCEPT ![d] = Snapshot]
      BY <2>1 DEF SelectRows, rowVars
    <3>2. \A e \in Drainer : \A t \in Pending(e)' : t[1] = m => t \in Pending(e) \/ t \in claims
      BY <3>1, SnapshotRows DEF Pending, Busy, Spent
    <3>3. QED
      BY <2>0, <3>1, <3>2, SpentStays
  <2>2. CASE TakeRow(d)
    BY <2>0, <2>2, SpentStays DEF TakeRow, rowVars, Pending, Busy
  <2>3. CASE EndDrain(d) \/ DrainCrashes(d)
    BY <2>0, <2>3, SpentStays DEF EndDrain, DrainCrashes, Leave, rowVars, Pending, Busy
  <2>4. CASE RejectUntenanted(d) \/ ExpireStale(d) \/ SuppressAi(d) \/ SuppressDuplicate(d)
    <3>1. /\ Continue(d) /\ UNCHANGED <<claims, todo>>
      BY <2>4 DEF RejectUntenanted, ExpireStale, SuppressAi, SuppressDuplicate
    <3>2. cur[d][1] \in Msg
      BY <2>4, TicketParts DEF RejectUntenanted, ExpireStale, SuppressAi, SuppressDuplicate
    <3>3. status'[m] = "queued" => status[m] = "queued" /\ attempts'[m] = attempts[m]
      BY <2>4, <3>2 DEF RejectUntenanted, ExpireStale, SuppressAi, SuppressDuplicate, DeadLetter
    <3>4. \A e \in Drainer : Pending(e)' \subseteq Pending(e)
      BY <3>1 DEF Continue, Pending, Busy
    <3>5. \A e \in Drainer : pc'[e] \in {"call", "settle"} =>
                                pc'[e] = pc[e] /\ cur'[e] = cur[e] /\ answer'[e] = answer[e]
      BY <3>1 DEF Continue
    <3>6. QED
      BY <2>0, <3>1, <3>3, <3>4, <3>5, SpentStays
  <2>5. CASE Gate(d)
    BY <2>0, <2>5, SpentStays DEF Gate, rowVars, Pending, Busy
  <2>6. CASE Claim(d)
    <3>1. /\ UNCHANGED <<status, attempts, todo, cur, answer>> /\ pc[d] = "claim"
          /\ claims' = claims \cup {cur[d]}
          /\ pc' = [pc EXCEPT ![d] = IF cur[d] \in claims THEN "duplicate" ELSE "call"]
      BY <2>6 DEF Claim, rowVars
    <3>2. \A e \in Drainer : Pending(e)' = Pending(e)
      BY <3>1 DEF Pending, Busy
    <3>3. cur[d][1] = m => cur[d] \in claims
      BY <3>1 DEF Pending, Busy, Spent
    <3>4. QED
      BY <2>0, <3>1, <3>2, <3>3, SpentStays
  <2>7. CASE (\E outcome \in Answers : CallGateway(d, outcome)) \/ DrainCrashesInCall(d)
    <3>1. pc[d] = "call" /\ cur[d][1] # m
      BY <2>7 DEF CallGateway, DrainCrashesInCall, Spent
    <3>2. UNCHANGED <<status, attempts, claims>>
      BY <2>7 DEF CallGateway, DrainCrashesInCall, rowVars
    <3>3. /\ \A e \in Drainer : Pending(e)' \subseteq Pending(e)
          /\ \A e \in Drainer : e # d =>
                 pc'[e] = pc[e] /\ cur'[e] = cur[e] /\ answer'[e] = answer[e]
          /\ pc'[d] = "idle" \/ (pc'[d] = "settle" /\ cur'[d] = cur[d])
      BY <2>7 DEF CallGateway, DrainCrashesInCall, Leave, Pending, Busy
    <3>4. QED
      BY <2>0, <3>1, <3>2, <3>3, SpentStays
  <2>8. CASE Settle(d)
    <3>1. pc[d] = "settle" /\ Continue(d) /\ UNCHANGED <<claims, todo>> /\ cur[d][1] \in Msg
      BY <2>8, TicketParts DEF Settle
    <3>2. status'[m] = "queued" => status[m] = "queued" /\ attempts'[m] = attempts[m]
      BY <2>8, <3>1 DEF Settle, SettledStatus, Spent
    <3>3. \A e \in Drainer : Pending(e)' \subseteq Pending(e)
      BY <3>1 DEF Continue, Pending, Busy
    <3>4. \A e \in Drainer : pc'[e] \in {"call", "settle"} =>
                                pc'[e] = pc[e] /\ cur'[e] = cur[e] /\ answer'[e] = answer[e]
      BY <3>1 DEF Continue
    <3>5. QED
      BY <2>0, <3>1, <3>2, <3>3, <3>4, SpentStays
  <2>9. QED
    BY <1>3, <2>1, <2>2, <2>3, <2>4, <2>5, <2>6, <2>7, <2>8 DEF DrainStep
<1>4. QED
  BY <1>1, <1>2, <1>3 DEF Next

\* With honest answers, a step that delivers m finds it undelivered and
\* leaves it spent.
LEMMA Delivering ==
    ASSUME Ambiguous = FALSE, ClaimInv, [Next]_vars, NEW m \in Msg,
           delivered'[m] # delivered[m]
    PROVE  delivered'[m] = delivered[m] + 1 /\ ~Spent(m) /\ Spent(m)'
<1>0. TypeOK
  BY DEF ClaimInv
<1>1. CASE \E k \in Msg : \/ \E outcome \in Answers : SendReturns(k, outcome)
                          \/ \E reached \in BOOLEAN : CallerCrashes(k, reached)
  <2>1. /\ UNCHANGED <<status, attempts, claims, pc, todo, cur, answer>>
        /\ caller[m] # "finished" /\ caller'[m] = "finished"
        /\ delivered'[m] = delivered[m] + 1
    BY <1>0, <1>1 DEF TypeOK, SendReturns, CallerCrashes, Answers, Reached, rowVars, drainVars
  <2>2. status[m] = "none" /\ \A e \in Drainer : \A t \in Pending(e) : t[1] # m
    BY <2>1 DEF ClaimInv, UnqueuedUntouched
  <2>3. \A e \in Drainer : Holds(e) => cur[e] \in Pending(e)
    BY <1>0 DEF TypeOK, Holds, Pending, Busy
  <2>4. QED
    BY <2>1, <2>2, <2>3 DEF Spent, Pending, Busy, Holds
<1>2. CASE \E d \in Drainer : \/ \E outcome \in Answers : CallGateway(d, outcome)
                              \/ DrainCrashesInCall(d)
  <2>1. PICK d \in Drainer : \/ \E outcome \in Answers : CallGateway(d, outcome)
                             \/ DrainCrashesInCall(d)
    BY <1>2
  <2>2. /\ UNCHANGED <<caller, status, attempts, claims>>
        /\ pc[d] = "call" /\ cur[d] \in Ticket /\ cur[d][1] = m
        /\ delivered'[m] = delivered[m] + 1
    BY <1>0, <2>1, TicketParts
      DEF TypeOK, CallGateway, DrainCrashesInCall, Reached, callerVars, rowVars
  <2>3. /\ \A e \in Drainer : Pending(e)' \subseteq Pending(e)
        /\ \A e \in Drainer : e # d => pc'[e] = pc[e] /\ cur'[e] = cur[e]
        /\ pc'[d] = "idle" \/ (pc'[d] = "settle" /\ answer'[d] = "ok")
    <3>1. CASE \E outcome \in Answers : CallGateway(d, outcome)
      BY <1>0, <2>2, <3>1 DEF TypeOK, CallGateway, Reached, Answers, Pending, Busy
    <3>2. CASE DrainCrashesInCall(d)
      BY <1>0, <3>2 DEF TypeOK, DrainCrashesInCall, Leave, Pending, Busy
    <3>3. QED
      BY <2>1, <3>1, <3>2
  <2>4. Holds(d) /\ cur[d] \in Pending(d)
    BY <2>2 DEF Holds, Pending, Busy
  <2>5. caller[m] = "finished"
    BY <2>2, <2>4 DEF ClaimInv, UnqueuedUntouched
  <2>6. \A e \in Drainer : Holds(e) /\ cur[e][1] = m => e = d
    BY <2>2, <2>4, HolderUnique
  <2>7. status[m] = "queued" => <<m, attempts[m]>> \in claims
    BY <2>2, <2>4, TicketParts DEF ClaimInv, HolderInv, HolderClaims, HolderRow
  <2>8. \A e \in Drainer : \A t \in Pending(e) : t[1] = m => t \in claims
    <3> SUFFICES ASSUME NEW e \in Drainer, NEW t \in Pending(e), t[1] = m PROVE t \in claims
      OBVIOUS
    <3>1. t \in Ticket /\ t[2] <= cur[d][2] /\ cur[d] \in claims
      BY <2>2, <2>4 DEF ClaimInv, HolderInv, HolderAhead, HolderClaims, Pending
    <3>2. t = <<m, t[2]>> /\ cur[d] = <<m, cur[d][2]>> /\ {t[2], cur[d][2]} \subseteq Tries \cap Nat
      BY <2>2, <3>1, TicketParts
    <3>3. CASE t[2] = cur[d][2]
      BY <3>1, <3>2, <3>3
    <3>4. CASE t[2] < cur[d][2]
      BY <3>1, <3>2, <3>4 DEF ClaimInv, ClaimsClosed
    <3>5. QED
      BY <3>1, <3>2, <3>3, <3>4
  <2>9. \A e \in Drainer : pc'[e] \in {"call", "settle"} /\ cur'[e][1] = m =>
                              pc'[e] = "settle" /\ answer'[e] = "ok"
    BY <2>3, <2>6 DEF Holds
  <2>10. QED
    BY <2>2, <2>3, <2>5, <2>7, <2>8, <2>9 DEF Spent
<1>3. CASE UNCHANGED vars
  BY <1>3 DEF vars, histVars
<1>4. ASSUME NEW k \in Msg,
             Send(k) \/ Enqueue(k) \/ EnqueueFails(k) \/ BackoffElapses(k) \/ RowAges(k) \/ SwitchAgent(k)
      PROVE  FALSE
  BY <1>4 DEF Send, Enqueue, EnqueueFails, BackoffElapses, RowAges, SwitchAgent, histVars
<1>5. ASSUME NEW d \in Drainer,
             \/ SelectRows(d) \/ TakeRow(d) \/ EndDrain(d) \/ RejectUntenanted(d) \/ ExpireStale(d)
             \/ Gate(d) \/ SuppressAi(d) \/ Claim(d) \/ SuppressDuplicate(d) \/ Settle(d)
             \/ DrainCrashes(d)
      PROVE  FALSE
  BY <1>5 DEF SelectRows, TakeRow, EndDrain, RejectUntenanted, ExpireStale, Gate, SuppressAi, Claim,
              SuppressDuplicate, Settle, DrainCrashes, histVars
<1>6. QED
  BY <1>1, <1>2, <1>3, <1>4, <1>5 DEF Next, CallerStep, DrainStep

\* No message reaches its recipient twice, for any number of messages,
\* drains, attempts and crashes, provided a gateway call that is seen to
\* fail did fail.
THEOREM AtMostOnce ==
    ASSUME Ambiguous = FALSE
    PROVE  Spec => []DeliveredAtMostOnce
<1>1. Init => ClaimInv /\ DeliveryInv
  BY ClaimInit DEF Init, DeliveryInv
<1>2. ClaimInv /\ DeliveryInv /\ [Next]_vars => ClaimInv' /\ DeliveryInv'
  <2> SUFFICES ASSUME ClaimInv, DeliveryInv, [Next]_vars PROVE ClaimInv' /\ DeliveryInv'
    OBVIOUS
  <2>1. ClaimInv'
    BY ClaimStep
  <2>2. ASSUME NEW m \in Msg PROVE delivered'[m] <= 1 /\ (delivered'[m] = 1 => Spent(m)')
    <3>1. delivered[m] \in Nat /\ delivered[m] <= 1 /\ (delivered[m] = 1 => Spent(m))
      BY DEF ClaimInv, TypeOK, DeliveryInv
    <3>2. CASE delivered'[m] = delivered[m]
      BY <3>1, <3>2, SpentStep
    <3>3. CASE delivered'[m] # delivered[m]
      <4>1. delivered'[m] = delivered[m] + 1 /\ ~Spent(m) /\ Spent(m)'
        BY <3>3, Delivering, Zenon
      <4>2. delivered[m] # 1
        BY <3>1, <4>1
      <4>3. QED
        BY <3>1, <4>1, <4>2
    <3>4. QED
      BY <3>2, <3>3
  <2>3. QED
    BY <2>1, <2>2 DEF DeliveryInv
<1>3. DeliveryInv => DeliveredAtMostOnce
  BY DEF DeliveryInv, DeliveredAtMostOnce
<1>4. QED
  BY <1>1, <1>2, <1>3, PTL DEF Spec

(***************************************************************************)
(* Suppressing duplicates.  While nobody has crashed, the winner of a      *)
(* claim is still at work on the row its loser dead-letters, and settles   *)
(* it afterwards.                                                          *)
(***************************************************************************)
TakenHeld ==
    \A m \in Msg : status[m] = "queued" /\ <<m, attempts[m]>> \in claims =>
        \E d \in Drainer : Holds(d) /\ cur[d] = <<m, attempts[m]>>

LoserSettled ==
    \A m \in Msg : status[m] = "dead" /\ error[m] = "duplicate" =>
        \E d \in Drainer : Holds(d) /\ cur[d][1] = m

SparedInv == crashes = 0 => TakenHeld /\ LoserSettled

\* What a step without a claim or a settlement must not do.
LEMMA SparedStays ==
    ASSUME TakenHeld, LoserSettled,
           claims' = claims,
           \A e \in Drainer : Holds(e) => Holds(e)' /\ cur'[e] = cur[e],
           \A m \in Msg : status'[m] = "queued" =>
              \/ status[m] = "queued" /\ attempts'[m] = attempts[m]
              \/ <<m, attempts'[m]>> \notin claims,
           \A m \in Msg : status'[m] = "dead" /\ error'[m] = "duplicate" =>
              \/ status[m] = "dead" /\ error[m] = "duplicate"
              \/ \E e \in Drainer : Holds(e) /\ cur[e][1] = m
    PROVE  TakenHeld' /\ LoserSettled'
<1>1. ASSUME NEW m \in Msg, status'[m] = "queued", <<m, attempts'[m]>> \in claims
      PROVE  \E d \in Drainer : Holds(d)' /\ cur'[d] = <<m, attempts'[m]>>
  BY <1>1 DEF TakenHeld
<1>2. ASSUME NEW m \in Msg, status'[m] = "dead", error'[m] = "duplicate"
      PROVE  \E d \in Drainer : Holds(d)' /\ cur'[d][1] = m
  BY <1>2 DEF LoserSettled
<1>3. QED
  BY <1>1, <1>2 DEF TakenHeld, LoserSettled

\* A drain that dead-letters a row for a reason of its own.
LEMMA SparedDeadLetter ==
    ASSUME TypeOK, TakenHeld, LoserSettled, NEW d \in Drainer,
           RejectUntenanted(d) \/ ExpireStale(d) \/ SuppressAi(d)
    PROVE  TakenHeld' /\ LoserSettled'
<1>1. /\ ~Holds(d) /\ Continue(d) /\ claims' = claims /\ cur[d][1] \in Msg
  BY TicketParts DEF TypeOK, RejectUntenanted, ExpireStale, SuppressAi, Holds
<1>2. \A e \in Drainer : Holds(e) => Holds(e)' /\ cur'[e] = cur[e]
  BY <1>1 DEF TypeOK, Continue, Holds
<1>3. /\ status' = [status EXCEPT ![cur[d][1]] = "dead"]
      /\ \E cause \in {"untenanted", "stale", "suppressed"} :
            error' = [error EXCEPT ![cur[d][1]] = cause]
      /\ \A m \in Msg : m # cur[d][1] => attempts'[m] = attempts[m]
  BY <1>1 DEF TypeOK, RejectUntenanted, ExpireStale, SuppressAi, DeadLetter
<1>4. /\ \A m \in Msg : status'[m] = "queued" => status[m] = "queued" /\ attempts'[m] = attempts[m]
      /\ \A m \in Msg : status'[m] = "dead" /\ error'[m] = "duplicate" =>
            status[m] = "dead" /\ error[m] = "duplicate"
  BY <1>1, <1>3 DEF TypeOK
<1>5. QED
  BY <1>1, <1>2, <1>4, SparedStays

\* The winner of a claim holds it.
LEMMA SparedClaim ==
    ASSUME TypeOK, TakenHeld, LoserSettled, NEW d \in Drainer, Claim(d)
    PROVE  TakenHeld' /\ LoserSettled'
<1>1. /\ pc[d] = "claim" /\ cur[d] \in Ticket /\ cur' = cur
      /\ claims' = claims \cup {cur[d]}
      /\ pc' = [pc EXCEPT ![d] = IF cur[d] \in claims THEN "duplicate" ELSE "call"]
      /\ UNCHANGED <<status, attempts, error>>
  BY DEF TypeOK, Claim, rowVars
<1>2. /\ \A e \in Drainer : Holds(e) => Holds(e)'
      /\ cur[d] \notin claims => Holds(d)'
  BY <1>1 DEF TypeOK, Holds
<1>3. ASSUME NEW m \in Msg, status'[m] = "queued", <<m, attempts'[m]>> \in claims'
      PROVE  \E e \in Drainer : Holds(e)' /\ cur'[e] = <<m, attempts'[m]>>
  <2>1. CASE <<m, attempts[m]>> \in claims
    BY <1>1, <1>2, <1>3, <2>1 DEF TakenHeld
  <2>2. CASE <<m, attempts[m]>> \notin claims
    <3>1. cur[d] = <<m, attempts[m]>>
      BY <1>1, <1>3, <2>2
    <3>2. QED
      BY <1>1, <1>2, <2>2, <3>1
  <2>3. QED
    BY <2>1, <2>2
<1>4. LoserSettled'
  BY <1>1, <1>2 DEF LoserSettled
<1>5. QED
  BY <1>3, <1>4 DEF TakenHeld

\* The loser finds the row at the attempt somebody holds.
LEMMA SparedSuppress ==
    ASSUME TypeOK, TakenHeld, LoserSettled, NEW d \in Drainer, SuppressDuplicate(d),
           cur[d] \in claims
    PROVE  TakenHeld' /\ LoserSettled'
<1> DEFINE m == cur[d][1]
<1>1. /\ ~Holds(d) /\ Continue(d) /\ claims' = claims /\ attempts' = attempts
      /\ m \in Msg /\ cur[d] = <<m, cur[d][2]>>
  BY TicketParts DEF TypeOK, SuppressDuplicate, Holds
<1>2. \A e \in Drainer : Holds(e) => Holds(e)' /\ cur'[e] = cur[e]
  BY <1>1 DEF TypeOK, Continue, Holds
<1>3. \A k \in Msg : status'[k] = "queued" => status[k] = "queued"
  BY <1>1 DEF TypeOK, SuppressDuplicate, DeadLetter
<1>4. ASSUME NEW k \in Msg, status'[k] = "dead", error'[k] = "duplicate",
             ~(status[k] = "dead" /\ error[k] = "duplicate")
      PROVE  \E e \in Drainer : Holds(e) /\ cur[e][1] = k
  <2>1. k = m /\ status[m] = "queued" /\ attempts[m] = cur[d][2]
    BY <1>1, <1>4 DEF TypeOK, SuppressDuplicate, DeadLetter
  <2>2. <<m, attempts[m]>> \in claims
    BY <1>1, <2>1
  <2>3. PICK e \in Drainer : Holds(e) /\ cur[e] = <<m, attempts[m]>>
    BY <1>1, <2>1, <2>2 DEF TakenHeld
  <2>4. QED
    BY <2>1, <2>3
<1>5. QED
  BY <1>1, <1>2, <1>3, <1>4, SparedStays

\* The winner writes over what its loser left, and nobody holds what it leaves.
LEMMA SparedSettle ==
    ASSUME ClaimInv, TakenHeld, LoserSettled, NEW d \in Drainer, Settle(d)
    PROVE  TakenHeld' /\ LoserSettled'
<1> DEFINE m == cur[d][1]
           n == cur[d][2]
<1>0. TypeOK
  BY DEF ClaimInv
<1>1. /\ pc[d] = "settle" /\ Holds(d) /\ Continue(d) /\ claims' = claims
      /\ cur[d] = <<m, n>> /\ m \in Msg /\ n \in Tries /\ n \in Nat
  BY <1>0, TicketParts DEF TypeOK, Settle, Holds
<1>2. /\ \A k \in Msg : k # m => /\ status'[k] = status[k] /\ attempts'[k] = attempts[k]
                                 /\ error'[k] = error[k]
      /\ status'[m] \in {"sent", "queued", "dead"}
      /\ status'[m] # "sent" => attempts'[m] = n + 1 /\ error'[m] = "failed"
      /\ status'[m] = "queued" => n + 1 < MaxAttempts
  BY <1>0, <1>1, OutboundAssumption DEF TypeOK, Settle, SettledStatus
<1>3. \A e \in Drainer : Holds(e) /\ e # d => Holds(e)' /\ cur'[e] = cur[e] /\ cur[e][1] # m
  <2>1. \A e \in Drainer : Holds(e) /\ e # d => Holds(e)' /\ cur'[e] = cur[e]
    BY <1>0, <1>1 DEF TypeOK, Continue, Holds
  <2>2. \A e \in Drainer : Holds(e) /\ e # d => cur[e][1] # m
    BY <1>1, HolderUnique
  <2>3. QED
    BY <2>1, <2>2
<1>4. ASSUME NEW k \in Msg, status'[k] = "queued", <<k, attempts'[k]>> \in claims
      PROVE  \E e \in Drainer : Holds(e)' /\ cur'[e] = <<k, attempts'[k]>>
  <2>1. CASE k = m
    <3>1. n + 1 \in Tries /\ n + 1 > n
      BY <1>1, <1>2, <1>4, <2>1, OutboundAssumption DEF Tries
    <3>2. <<m, n + 1>> \notin claims
      BY <1>1, <3>1 DEF ClaimInv, HolderInv, HolderLast
    <3>3. QED
      BY <1>2, <1>4, <2>1, <3>2
  <2>2. CASE k # m
    <3>1. PICK e \in Drainer : Holds(e) /\ cur[e] = <<k, attempts[k]>>
      BY <1>2, <1>4, <2>2 DEF TakenHeld
    <3>2. e # d
      BY <1>1, <2>2, <3>1
    <3>3. QED
      BY <1>2, <1>3, <2>2, <3>1, <3>2
  <2>3. QED
    BY <2>1, <2>2
<1>5. ASSUME NEW k \in Msg, status'[k] = "dead", error'[k] = "duplicate"
      PROVE  \E e \in Drainer : Holds(e)' /\ cur'[e][1] = k
  <2>1. k # m
    BY <1>2, <1>5
  <2>2. PICK e \in Drainer : Holds(e) /\ cur[e][1] = k
    BY <1>2, <1>5, <2>1 DEF LoserSettled
  <2>3. QED
    BY <1>3, <2>1, <2>2
<1>6. QED
  BY <1>1, <1>4, <1>5 DEF TakenHeld, LoserSettled

\* A drain at "duplicate" found its claim taken, and claims are never let go.
LoserSeen == \A d \in Drainer : pc[d] = "duplicate" => cur[d] \in claims

LEMMA LoserSeenStep ==
    ASSUME TypeOK, LoserSeen, [Next]_vars
    PROVE  LoserSeen'
<1> USE DEF LoserSeen, TypeOK
<1>1. CASE UNCHANGED vars
  BY <1>1 DEF vars, drainVars
<1>2. ASSUME NEW k \in Msg,
             \/ CallerStep(k)
             \/ \E reached \in BOOLEAN : CallerCrashes(k, reached)
             \/ BackoffElapses(k) \/ RowAges(k) \/ SwitchAgent(k)
      PROVE  LoserSeen'
  BY <1>2 DEF CallerStep, Send, SendReturns, Enqueue, EnqueueFails, CallerCrashes, BackoffElapses,
              RowAges, SwitchAgent, drainVars
<1>3. ASSUME NEW d \in Drainer, DrainStep(d) \/ DrainCrashes(d) \/ DrainCrashesInCall(d)
      PROVE  LoserSeen'
  <2>1. CASE SelectRows(d) \/ TakeRow(d) \/ EndDrain(d) \/ Gate(d)
    BY <2>1 DEF SelectRows, TakeRow, EndDrain, Gate, Leave
  <2>2. CASE RejectUntenanted(d) \/ ExpireStale(d) \/ SuppressAi(d) \/ SuppressDuplicate(d) \/ Settle(d)
    BY <2>2 DEF RejectUntenanted, ExpireStale, SuppressAi, SuppressDuplicate, Settle, Continue
  <2>3. CASE Claim(d)
    BY <2>3 DEF Claim
  <2>4. CASE (\E outcome \in Answers :
      CallGateway(d, outcome)) \/ DrainCrashes(d) \/ DrainCrashesInCall(d)
    BY <2>4 DEF CallGateway, DrainCrashes, DrainCrashesInCall, Leave
  <2>5. QED
    BY <1>3, <2>1, <2>2, <2>3, <2>4 DEF DrainStep
<1>4. QED
  BY <1>1, <1>2, <1>3 DEF Next

LEMMA SparedStep ==
    ASSUME ClaimInv, LoserSeen, SparedInv, [Next]_vars
    PROVE  SparedInv'
<1>0. TypeOK /\ TypeOK'
  BY TypeStep DEF ClaimInv
<1> SUFFICES ASSUME crashes' = 0 PROVE TakenHeld' /\ LoserSettled'
  BY DEF SparedInv
<1>1. crashes = 0 \/ \E k \in Nat : crashes = k /\ crashes' = k + 1
  <2>1. crashes' \in {crashes, crashes + 1}
    BY DEF Next, vars, CallerStep, Send, SendReturns, Enqueue, EnqueueFails, CallerCrashes,
           BackoffElapses, RowAges, SwitchAgent, DrainStep, SelectRows, TakeRow, EndDrain,
           RejectUntenanted, ExpireStale, Gate, SuppressAi, Claim, SuppressDuplicate, CallGateway,
           Settle, DrainCrashes, DrainCrashesInCall
  <2>2. QED
    BY <1>0, <2>1 DEF TypeOK
<1>2. crashes = 0 /\ TakenHeld /\ LoserSettled
  BY <1>1 DEF SparedInv
<1>3. CASE UNCHANGED vars
  BY <1>2, <1>3 DEF vars, drainVars, rowVars, TakenHeld, LoserSettled, Holds
<1>4. ASSUME NEW k \in Msg,
             \/ Send(k) \/ EnqueueFails(k)
             \/ \E outcome \in Answers : SendReturns(k, outcome)
             \/ BackoffElapses(k) \/ RowAges(k) \/ SwitchAgent(k)
      PROVE  TakenHeld' /\ LoserSettled'
  <2>1. UNCHANGED <<pc, cur, claims, status, attempts, error>>
    BY <1>4
      DEF Send, SendReturns, EnqueueFails, BackoffElapses, RowAges, SwitchAgent, rowVars,
          drainVars
  <2>2. QED
    BY <1>2, <2>1 DEF TakenHeld, LoserSettled, Holds
<1>5. ASSUME NEW k \in Msg, Enqueue(k) PROVE TakenHeld' /\ LoserSettled'
  <2>1. /\ UNCHANGED <<pc, cur, claims, error>> /\ caller[k] # "finished"
        /\ status' = [status EXCEPT ![k] = "queued"] /\ attempts' = [attempts EXCEPT ![k] = 0]
    BY <1>5 DEF Enqueue, drainVars
  <2>2. 0 \in Tries /\ status[k] = "none"
    BY <2>1, OutboundAssumption DEF ClaimInv, UnqueuedUntouched, Tries
  <2>3. <<k, 0>> \notin claims
    BY <2>2 DEF ClaimInv, UnqueuedUntouched
  <2>4. \A e \in Drainer : Holds(e) => Holds(e)' /\ cur'[e] = cur[e]
    BY <2>1 DEF Holds
  <2>5. /\ \A m \in Msg : status'[m] = "queued" =>
              (status[m] = "queued" /\ attempts'[m] = attempts[m]) \/ <<m, attempts'[m]>> \notin claims
        /\ \A m \in Msg : status'[m] = "dead" /\ error'[m] = "duplicate" =>
              status[m] = "dead" /\ error[m] = "duplicate"
    BY <1>0, <2>1, <2>3 DEF TypeOK
  <2>6. QED
    BY <1>2, <2>1, <2>4, <2>5, SparedStays
<1>6. ASSUME NEW d \in Drainer,
             \/ SelectRows(d) \/ TakeRow(d) \/ EndDrain(d) \/ Gate(d)
             \/ \E outcome \in Answers : CallGateway(d, outcome)
      PROVE  TakenHeld' /\ LoserSettled'
  <2>1. UNCHANGED <<claims, status, attempts, error>>
    BY <1>6 DEF SelectRows, TakeRow, EndDrain, Gate, CallGateway, rowVars
  <2>2. \A e \in Drainer : Holds(e) => Holds(e)' /\ cur'[e] = cur[e]
    BY <1>0, <1>6 DEF TypeOK, SelectRows, TakeRow, EndDrain, Leave, Gate, CallGateway, Holds
  <2>3. QED
    BY <1>2, <2>1, <2>2, SparedStays
<1>7. ASSUME NEW d \in Drainer, SuppressDuplicate(d) PROVE TakenHeld' /\ LoserSettled'
  <2>1. cur[d] \in claims
    BY <1>7 DEF SuppressDuplicate, LoserSeen
  <2>2. QED
    BY <1>0, <1>2, <1>7, <2>1, SparedSuppress
<1>8. ASSUME NEW k \in Msg, NEW reached \in BOOLEAN, CallerCrashes(k, reached) PROVE FALSE
  BY <1>2, <1>8 DEF CallerCrashes
<1>9. ASSUME NEW d \in Drainer, DrainCrashes(d) \/ DrainCrashesInCall(d) PROVE FALSE
  BY <1>2, <1>9 DEF DrainCrashes, DrainCrashesInCall
<1>10. QED
  BY <1>0, <1>2, <1>3, <1>4, <1>5, <1>6, <1>7, <1>8, <1>9, SparedDeadLetter, SparedClaim,
       SparedSettle
  DEF Next, CallerStep, DrainStep

\* While no process has crashed, no message ends as the duplicate of itself:
\* the drain that won its claim settles the row after the one that lost it, for
\* any number of messages, drains and attempts.
THEOREM DuplicatesSpared == Spec => []DuplicateSuppressionSpares
<1>1. Init => ClaimInv /\ LoserSeen /\ SparedInv
  BY ClaimInit DEF Init, LoserSeen, SparedInv, TakenHeld, LoserSettled
<1>2. ClaimInv /\ LoserSeen /\ SparedInv /\ [Next]_vars => (ClaimInv /\ LoserSeen /\ SparedInv)'
  <2> SUFFICES ASSUME ClaimInv, LoserSeen, SparedInv, [Next]_vars
               PROVE  ClaimInv' /\ LoserSeen' /\ SparedInv'
    OBVIOUS
  <2>1. ClaimInv'
    BY ClaimStep
  <2>2. LoserSeen'
    BY LoserSeenStep DEF ClaimInv
  <2>3. SparedInv'
    BY SparedStep
  <2>4. QED
    BY <2>1, <2>2, <2>3
<1>3. SparedInv => DuplicateSuppressionSpares
  BY DEF SparedInv, LoserSettled, DuplicateSuppressionSpares, Holds
<1>4. QED
  BY <1>1, <1>2, <1>3, PTL DEF Spec

----------------------------------------------------------------------------
(* Escalations.                                                            *)

EscalationSpec == EscalationInit /\ [][EscalationNext]_escalationVars

Round == [at: {"idle", "rows"}, todo: SUBSET Case, locked: SUBSET Case, cur: Case \cup {NoCase},
          left: SUBSET Chief, ok: BOOLEAN, marks: SUBSET Case, expired: BOOLEAN]

\* The cases a job still has to write off.
Works(j, c) == c \in rounds[j].todo \/ c \in rounds[j].marks \/ c = rounds[j].cur

(***************************************************************************)
(* The inductive invariant.  A job between rounds has nothing; it locks    *)
(* all it works on, or nothing; it works on overdue cases; and it does not *)
(* have its current case twice.                                            *)
(***************************************************************************)
IdleIsOff   == \A j \in Rounder : rounds[j].at = "idle" => rounds[j] = OffDuty
LocksAll    == \A j \in Rounder, c \in Case :
                  rounds[j].locked # {} /\ Works(j, c) => c \in rounds[j].locked
WorksOnDue  == \A j \in Rounder, c \in Case : Works(j, c) => c \in overdue
CurrentOnce == \A j \in Rounder : rounds[j].cur \notin rounds[j].todo

RoundsInv == EscalationTypeOK /\ IdleIsOff /\ LocksAll /\ WorksOnDue /\ CurrentOnce

----------------------------------------------------------------------------
(* Types.                                                                  *)

\* A step of one job that leaves the cases alone.
JobStep(j) ==
    \/ RoundNext(j) \/ RoundDies(j)
    \/ \E r \in Chief : \/ RemindFails(j, r) \/ RemindLost(j, r)
                        \/ RemindUnrecorded(j, r) \/ RemindBroken(j, r)

\* A step of the requests that raise cases, or of time.
CaseStep(c) ==
    \/ RaiseCase(c) \/ RaiserDies(c) \/ GoesOverdue(c)
    \/ \E r \in Chief : AlertChief(c, r) \/ AlertQueued(c, r) \/ AlertLost(c, r)

LEMMA OffDutyTyped == OffDuty \in Round
  BY DEF OffDuty, Round

LEMMA ExcuseTyped ==
    ASSUME excused \in [Case -> Nat], NEW cs
    PROVE  /\ Excuse(cs) \in [Case -> Nat]
           /\ \A c \in Case : Excuse(cs)[c] = excused[c] + IF c \in cs THEN 1 ELSE 0
  BY DEF Excuse

LEMMA EscalationInitInv == EscalationInit => RoundsInv
<1> SUFFICES ASSUME EscalationInit PROVE RoundsInv
  OBVIOUS
<1> USE EscalationAssumption DEF EscalationInit, Parked
<1>1. rounds \in [Rounder -> Round] BY OffDutyTyped
<1>2. EscalationTypeOK BY <1>1 DEF EscalationTypeOK, Round, OffDuty
<1>3. IdleIsOff /\ LocksAll /\ WorksOnDue /\ CurrentOnce
  BY DEF IdleIsOff, LocksAll, WorksOnDue, CurrentOnce, Works, OffDuty
<1> QED BY <1>2, <1>3 DEF RoundsInv

LEMMA CaseStepKeeps ==
    ASSUME RoundsInv, NEW c \in Case, CaseStep(c)
    PROVE  RoundsInv'
<1> USE EscalationAssumption DEF RoundsInv, EscalationTypeOK, IdleIsOff, LocksAll, WorksOnDue,
          CurrentOnce, Works, OffDuty, reminding
<1>1. CASE RaiseCase(c)   BY <1>1 DEF RaiseCase
<1>2. CASE RaiserDies(c)  BY <1>2 DEF RaiserDies
<1>3. CASE GoesOverdue(c) BY <1>3 DEF GoesOverdue
<1>4. ASSUME NEW r \in Chief, AlertChief(c, r) PROVE RoundsInv'
  BY <1>4 DEF AlertChief, Attempted
<1>5. ASSUME NEW r \in Chief, AlertLost(c, r) PROVE RoundsInv'
  BY <1>5 DEF AlertLost, Attempted, Failure
<1>6. ASSUME NEW r \in Chief, AlertQueued(c, r) PROVE RoundsInv'
  <2>1. parked' \subseteq Parked BY <1>6 DEF AlertQueued, Parked
  <2> QED BY <1>6, <2>1 DEF AlertQueued, Attempted, Failure
<1> QED BY <1>1, <1>2, <1>3, <1>4, <1>5, <1>6 DEF CaseStep

LEMMA RowEndsKeeps ==
    ASSUME RoundsInv, RowEnds
    PROVE  RoundsInv'
<1> USE DEF RoundsInv, EscalationTypeOK, IdleIsOff, LocksAll, WorksOnDue, CurrentOnce, Works
<1>1. PICK m \in parked : QueueDelivers(m) \/ QueueGivesUp(m) BY DEF RowEnds
<1>2. m[1] \in Case BY <1>1 DEF Parked
<1>3. CASE QueueDelivers(m) BY <1>2, <1>3 DEF QueueDelivers, reminding
<1>4. CASE QueueGivesUp(m)  BY <1>2, <1>4 DEF QueueGivesUp
<1> QED BY <1>1, <1>3, <1>4

\* What a step of job j may do to the rounds, for the parts of the invariant
\* that speak of several jobs: its lock stays, goes, or takes free rows.
LEMMA JobStepKeeps ==
    ASSUME RoundsInv, NEW j \in Rounder, JobStep(j)
    PROVE  RoundsInv'
<1> USE EscalationAssumption
<1>0. /\ rounds \in [Rounder -> Round] /\ OffDuty \in Round
      /\ copies \in [Case \X Chief -> Nat] /\ excused \in [Case -> Nat]
      /\ {stored, told, overdue, reminded, swallowed} \subseteq SUBSET Case
      /\ toAlert \in [Case -> SUBSET Chief] /\ parked \subseteq Parked
      /\ failures \in 0..MaxFailures /\ MaxFailures \in Nat
  BY OffDutyTyped DEF RoundsInv, EscalationTypeOK, Round
<1> DEFINE Others == \A i \in Rounder : i # j => rounds'[i] = rounds[i]
           Lock(s) == \/ s.locked \in {rounds[j].locked, {}}
                      \/ s.locked \cap rounds[j].locked = {} /\ s.locked \subseteq Free(j)
           Sound(s) ==
              /\ s \in Round /\ Lock(s)
              /\ s.at = "idle" => s = OffDuty
              /\ s.cur \notin s.todo
              /\ \A c \in Case : c \in s.todo \/ c \in s.marks \/ c = s.cur =>
                    c \in overdue /\ (s.locked # {} => c \in s.locked)
           Rest == /\ copies' \in [Case \X Chief -> Nat] /\ excused' \in [Case -> Nat]
                   /\ reminded' \subseteq overdue /\ swallowed' \subseteq Case
                   /\ failures' \in 0..MaxFailures
                   /\ told' \subseteq Case /\ parked' \subseteq Parked
                   /\ UNCHANGED <<stored, toAlert, overdue>>
<1>1. \E s : rounds' = [rounds EXCEPT ![j] = s] /\ Sound(s) /\ Rest
  <2> USE DEF raising, RoundsInv, EscalationTypeOK, IdleIsOff, LocksAll, WorksOnDue, CurrentOnce, Works
  <2> DEFINE old == rounds[j]
  <2>0. old \in Round /\ Sound(old) BY <1>0
  <2>1. CASE SelectOverdue(j)
    <3> DEFINE found == Due \cap Free(j)
               s == [OffDuty EXCEPT !.at = "rows", !.todo = found, !.locked = found]
    <3>8. found \subseteq overdue /\ found \subseteq Free(j) BY DEF Due
    <3>9. found \subseteq Case BY DEF Free
    <3> HIDE DEF found
    <3>7. OffDuty.cur = NoCase /\ OffDuty.marks = {} BY DEF OffDuty
    <3>1. /\ s \in Round /\ s.at = "rows" /\ s.todo = found /\ s.locked = found
          /\ s.cur = NoCase /\ s.marks = {}
      BY <1>0, <3>7, <3>9 DEF Round
    <3>2. old.locked = {} BY <2>1 DEF SelectOverdue, OffDuty
    <3> HIDE DEF s
    <3>3. Sound(s) BY <3>1, <3>2, <3>8, <3>9 DEF Round
    <3>4. excused' \in [Case -> Nat] BY <2>1, <1>0, ExcuseTyped DEF SelectOverdue
    <3>5. Rest BY <2>1, <1>0, <3>4 DEF SelectOverdue
    <3>6. rounds' = [rounds EXCEPT ![j] = s] BY <2>1 DEF SelectOverdue, s, found
    <3> HIDE DEF Sound, Rest
    <3> QED BY <3>3, <3>5, <3>6
  <2>2. ASSUME NEW c \in Case, TurnToCase(j, c)
        PROVE  \E s : rounds' = [rounds EXCEPT ![j] = s] /\ Sound(s) /\ Rest
    <3> DEFINE s == [old EXCEPT !.cur = c, !.todo = @ \ {c}, !.left = Chief, !.ok = FALSE]
    <3>1. rounds' = [rounds EXCEPT ![j] = s] BY <2>2, <1>0 DEF TurnToCase, Round
    <3>4. s \in Round BY <2>0, <2>2 DEF Round
    <3>2. Sound(s) BY <2>0, <2>2, <3>4 DEF TurnToCase, Round
    <3>3. Rest BY <2>2, <1>0 DEF TurnToCase
    <3> HIDE DEF s, Sound, Rest
    <3> QED BY <3>1, <3>2, <3>3
  <2>3. ASSUME NEW r \in Chief, Remind(j, r)
        PROVE  \E s : rounds' = [rounds EXCEPT ![j] = s] /\ Sound(s) /\ Rest
    <3>1. old.cur \in Case /\ old.cur \in overdue /\ old.at = "rows"
      BY <2>0, <2>3 DEF Remind, NextChief, Round, OffDuty
    <3>2. copies' \in [Case \X Chief -> Nat]
      BY <1>0, <2>3, <3>1 DEF Remind, Copied
    <3>5. told' \subseteq Case BY ONLY <1>0, <2>3, <3>1 DEF Remind
    <3>3. CASE r \in OnStaff
      <4> DEFINE s == [old EXCEPT !.left = @ \ {r}, !.ok = TRUE, !.marks = {}, !.locked = {}]
      <4>1. rounds' = [rounds EXCEPT ![j] = s] BY <2>3, <3>3 DEF Remind
      <4>2. Sound(s) BY <2>0, <3>1 DEF Round
      <4>3. Rest BY <1>0, <2>0, <2>3, <3>2, <3>3, <3>5 DEF Remind, Round
      <4> HIDE DEF s, Sound, Rest
      <4> QED BY <4>1, <4>2, <4>3
    <3>4. CASE r \notin OnStaff
      <4> DEFINE s == [old EXCEPT !.left = @ \ {r}, !.ok = TRUE]
      <4>1. rounds' = [rounds EXCEPT ![j] = s] BY <2>3, <3>4 DEF Remind
      <4>2. Sound(s) BY <2>0, <3>1 DEF Round
      <4>3. Rest BY <1>0, <2>0, <2>3, <3>2, <3>4, <3>5 DEF Remind
      <4> HIDE DEF s, Sound, Rest
      <4> QED BY <4>1, <4>2, <4>3
    <3> QED BY <3>3, <3>4
  <2>4. ASSUME NEW r \in Chief, RemindFails(j, r) \/ RemindLost(j, r)
        PROVE  \E s : rounds' = [rounds EXCEPT ![j] = s] /\ Sound(s) /\ Rest
    <3> DEFINE s == RolledBack(old, r)
    <3>1. rounds' = [rounds EXCEPT ![j] = s] BY <2>4 DEF RemindFails, RemindLost
    <3>2. old.cur \in Case /\ old.cur \in overdue /\ old.at = "rows"
      BY <2>0, <2>4 DEF RemindFails, RemindLost, NextChief, Round, OffDuty
    <3>3. Sound(s) BY <2>0, <3>2 DEF RolledBack, Round
    <3>4. copies' \in [Case \X Chief -> Nat] /\ excused' \in [Case -> Nat]
      <4>1. ASSUME NEW n \in 1..3, Copied(j, r, n),
                   excused' = [Excuse(old.marks) EXCEPT ![old.cur] = @ + n - 1]
            PROVE  copies' \in [Case \X Chief -> Nat] /\ excused' \in [Case -> Nat]
        <5>1. <<old.cur, r>> \in Case \X Chief BY <3>2
        <5>2. copies[<<old.cur, r>>] + n \in Nat BY <1>0, <5>1
        <5>3. copies' \in [Case \X Chief -> Nat] BY <1>0, <4>1, <5>1, <5>2 DEF Copied
        <5>4. Excuse(old.marks) \in [Case -> Nat] BY <1>0, ExcuseTyped
        <5>5. Excuse(old.marks)[old.cur] + n - 1 \in Nat BY <3>2, <5>4
        <5> QED BY <4>1, <3>2, <5>3, <5>4, <5>5
      <4>2. CASE RemindLost(j, r) BY <1>0, <4>2, ExcuseTyped DEF RemindLost
      <4> QED BY <2>4, <4>1, <4>2 DEF RemindFails
    <3>6. told' \subseteq Case /\ parked' \subseteq Parked
      BY <1>0, <2>4, <3>2 DEF RemindFails, RemindLost, Parked
    <3>5. Rest BY <1>0, <2>4, <3>2, <3>4, <3>6 DEF RemindFails, RemindLost, Failure
    <3> HIDE DEF s, Sound, Rest
    <3> QED BY <3>1, <3>3, <3>5
  <2>9. ASSUME NEW r \in Chief, RemindUnrecorded(j, r)
        PROVE  \E s : rounds' = [rounds EXCEPT ![j] = s] /\ Sound(s) /\ Rest
    <3> DEFINE s == [RolledBack(old, r) EXCEPT !.ok = old.ok]
    <3>1. rounds' = [rounds EXCEPT ![j] = s] BY <2>9 DEF RemindUnrecorded
    <3>2. old.cur \in Case /\ old.cur \in overdue /\ old.at = "rows"
      BY <2>0, <2>9 DEF RemindUnrecorded, NextChief, Round, OffDuty
    <3>3. Sound(s) BY <2>0, <3>2 DEF RolledBack, Round
    <3>4. copies' \in [Case \X Chief -> Nat] /\ excused' \in [Case -> Nat]
      BY <1>0, <2>9, <3>2, ExcuseTyped DEF RemindUnrecorded, Copied
    <3>5. told' \subseteq Case BY ONLY <1>0, <2>9, <3>2 DEF RemindUnrecorded
    <3>7. /\ UNCHANGED <<stored, toAlert, overdue, parked, reminded, swallowed>>
          /\ failures < MaxFailures /\ failures' = failures + 1
      BY ONLY <2>9 DEF RemindUnrecorded, Failure, raising
    <3>6. Rest BY <1>0, <3>4, <3>5, <3>7
    <3> HIDE DEF s, Sound, Rest
    <3> QED BY <3>1, <3>3, <3>6
  <2>5. ASSUME NEW r \in Chief, RemindBroken(j, r)
        PROVE  \E s : rounds' = [rounds EXCEPT ![j] = s] /\ Sound(s) /\ Rest
    <3> DEFINE s == [old EXCEPT !.left = @ \ {r}]
    <3>1. rounds' = [rounds EXCEPT ![j] = s] BY <2>5, <1>0 DEF RemindBroken
    <3>2. Sound(s) BY <2>0, <2>5 DEF RemindBroken, NextChief, Round, OffDuty
    <3>3. Rest BY <1>0, <2>5 DEF RemindBroken, Failure
    <3> HIDE DEF s, Sound, Rest
    <3> QED BY <3>1, <3>2, <3>3
  <2>6. CASE MarkCase(j)
    <3> DEFINE s == [old EXCEPT !.cur = NoCase,
                                !.marks = IF Handled(old) THEN @ \cup {old.cur} ELSE @]
    <3>1. rounds' = [rounds EXCEPT ![j] = s] BY <2>6, <1>0 DEF MarkCase
    <3>2. Sound(s)
      <4>0. old.cur # NoCase /\ old.at = "rows" BY <2>0, <2>6 DEF MarkCase, OffDuty, Round
      <4>1. CASE Handled(old)
        <5>1. s = [old EXCEPT !.cur = NoCase, !.marks = @ \cup {old.cur}] BY <4>1
        <5>2. old \in Round /\ old.cur \in Case BY <2>0, <4>0 DEF Round
        <5> HIDE DEF s
        <5>3. s \in Round BY <5>1, <5>2 DEF Round
        <5> QED BY <2>0, <4>0, <5>1, <5>2, <5>3
      <4>2. CASE ~Handled(old)
        <5>1. s = [old EXCEPT !.cur = NoCase, !.marks = @] BY <4>2
        <5> HIDE DEF s
        <5>2. s \in Round BY <2>0, <5>1 DEF Round
        <5> QED BY <2>0, <4>0, <5>1, <5>2
      <4> QED BY <4>1, <4>2
    <3>3. Rest BY <1>0, <2>6 DEF MarkCase
    <3> HIDE DEF s, Sound, Rest
    <3> QED BY <3>1, <3>2, <3>3
  <2>7. CASE EndRound(j)
    <3>1. Sound(OffDuty) BY <1>0 DEF OffDuty
    <3>2. Rest BY <1>0, <2>0, <2>7 DEF EndRound, Round
    <3> QED BY <2>7, <3>1, <3>2 DEF EndRound
  <2>8. CASE RoundBreaks(j) \/ RoundDies(j)
    <3>1. Sound(OffDuty) BY <1>0 DEF OffDuty
    <3>2. Rest BY <1>0, <2>0, <2>8, ExcuseTyped DEF RoundBreaks, RoundDies, Discarded, Failure
    <3> QED BY <2>8, <3>1, <3>2 DEF RoundBreaks, RoundDies, Discarded
  <2> QED BY <2>1, <2>2, <2>3, <2>4, <2>5, <2>6, <2>7, <2>8, <2>9 DEF JobStep, RoundNext
<1>2. PICK s : rounds' = [rounds EXCEPT ![j] = s] /\ Sound(s) /\ Rest BY <1>1
<1>3. rounds' \in [Rounder -> Round] /\ rounds'[j] = s /\ Others BY <1>0, <1>2
<1>4. ASSUME NEW i \in Rounder, NEW k \in Rounder, i # k
      PROVE  rounds'[i].locked \cap rounds'[k].locked = {}
  BY <1>2, <1>3, <1>4 DEF RoundsInv, EscalationTypeOK, Free
<1>5. EscalationTypeOK'
  BY <1>0, <1>2, <1>3, <1>4 DEF RoundsInv, EscalationTypeOK, Round
<1>6. IdleIsOff' /\ LocksAll' /\ WorksOnDue' /\ CurrentOnce'
  <2>1. ASSUME NEW i \in Rounder
        PROVE  /\ rounds'[i].at = "idle" => rounds'[i] = OffDuty
               /\ rounds'[i].cur \notin rounds'[i].todo
               /\ \A c \in Case : Works(i, c)' =>
                     c \in overdue' /\ (rounds'[i].locked # {} => c \in rounds'[i].locked)
    <3>1. CASE i = j BY <1>2, <1>3, <3>1 DEF Works
    <3>2. CASE i # j
      BY <1>2, <1>3, <3>2 DEF Works, RoundsInv, IdleIsOff, LocksAll, WorksOnDue, CurrentOnce
    <3> QED BY <3>1, <3>2
  <2> HIDE DEF Others, Sound, Rest
  <2> QED BY <2>1 DEF OffDuty, IdleIsOff, LocksAll, WorksOnDue, CurrentOnce
<1> QED BY <1>5, <1>6 DEF RoundsInv

----------------------------------------------------------------------------
(* Copies.                                                                 *)

(***************************************************************************)
(* A job owes an admin a reminder of a case until it has tried that admin  *)
(* or, having reached no admin, drops the case.  Copies that went out and  *)
(* reminders owed answer to failures, but for one: that of the mark, or    *)
(* of the jobs that will set it.                                           *)
(***************************************************************************)
Owes(j, c, r) == \/ c \in rounds[j].todo
                 \/ c = rounds[j].cur /\ (r \in rounds[j].left \/ ~rounds[j].ok)
Owing(c, r) == {j \in Rounder : Owes(j, c, r)}
Dealt(c)    == c \in reminded \/ \E j \in Rounder : Works(j, c)

Accounted ==
    \A c \in Case, r \in Chief :
        copies[<<c, r>>] + Cardinality(Owing(c, r)) <= excused[c] + IF Dealt(c) THEN 1 ELSE 0

CopiesInv == RoundsInv /\ Accounted

\* The jobs that owe a reminder, but for one of them, do not depend on it.
LEMMA OwingSplit ==
    ASSUME NEW j \in Rounder, NEW c, NEW r,
           \A i \in Rounder : i # j => rounds'[i] = rounds[i]
    PROVE  \E n \in Nat :
              /\ Cardinality(Owing(c, r)) = n + IF Owes(j, c, r) THEN 1 ELSE 0
              /\ Cardinality(Owing(c, r)') = n + IF Owes(j, c, r)' THEN 1 ELSE 0
<1> DEFINE O == Owing(c, r) \ {j}
<1>1. IsFiniteSet(O) /\ Cardinality(O) \in Nat
  BY EscalationAssumption, FS_Subset, FS_CardinalityType DEF Owing
<1>2. Cardinality(O \cup {j}) = Cardinality(O) + 1
  BY <1>1, FS_AddElement
<1>3. Owing(c, r) = IF Owes(j, c, r) THEN O \cup {j} ELSE O
  BY DEF Owing
<1>4. Owing(c, r)' = IF Owes(j, c, r)' THEN O \cup {j} ELSE O
  BY DEF Owing, Owes
<1> HIDE DEF O
<1> QED BY <1>1, <1>2, <1>3, <1>4

(***************************************************************************)
(* The books of one case and admin after a step of job j: the step spends  *)
(* no more than it owed and excuses, and one less when it drops the case.  *)
(***************************************************************************)
OneIf(b) == IF b THEN 1 ELSE 0

LEMMA BooksKept ==
    ASSUME NEW j \in Rounder, NEW c \in Case, NEW r \in Chief, Accounted,
           \A i \in Rounder : i # j => rounds'[i] = rounds[i],
           copies[<<c, r>>] \in Nat, excused[c] \in Nat,
           copies'[<<c, r>>] \in Nat, excused'[c] \in Nat,
           reminded \subseteq reminded',
           copies'[<<c, r>>] + excused[c] + OneIf(Owes(j, c, r)')
              + OneIf(Works(j, c) /\ ~Works(j, c)' /\ c \notin reminded')
           <= copies[<<c, r>>] + excused'[c] + OneIf(Owes(j, c, r)),
           Works(j, c)' => Dealt(c)
    PROVE  copies'[<<c, r>>] + Cardinality(Owing(c, r)') <= excused'[c] + IF Dealt(c)' THEN 1 ELSE 0
<1>1. PICK n \in Nat :
         /\ Cardinality(Owing(c, r)) = n + IF Owes(j, c, r) THEN 1 ELSE 0
         /\ Cardinality(Owing(c, r)') = n + IF Owes(j, c, r)' THEN 1 ELSE 0
  BY OwingSplit
<1>2. copies[<<c, r>>] + Cardinality(Owing(c, r)) <= excused[c] + IF Dealt(c) THEN 1 ELSE 0
  BY DEF Accounted
<1>3. Dealt(c) => Dealt(c)' \/ (Works(j, c) /\ ~Works(j, c)' /\ c \notin reminded')
  BY DEF Dealt, Works
<1> QED BY <1>1, <1>2, <1>3 DEF OneIf

\* A round that ends without its commit excuses what it had marked or was at.
LEMMA DiscardBooks ==
    ASSUME RoundsInv, NEW j \in Rounder, NEW c \in Case, NEW r \in Chief, Discarded(j)
    PROVE  /\ ~Works(j, c)' /\ ~Owes(j, c, r)' /\ excused'[c] \in Nat
           /\ \A i \in Rounder : i # j => rounds'[i] = rounds[i]
           /\ excused[c] + OneIf(Works(j, c)) <= excused'[c] + OneIf(Owes(j, c, r))
<1>1. rounds'[j] = OffDuty /\ \A i \in Rounder : i # j => rounds'[i] = rounds[i]
  BY DEF Discarded, RoundsInv, EscalationTypeOK
<1>2. ~Works(j, c)' /\ ~Owes(j, c, r)'
  BY <1>1, EscalationAssumption DEF Works, Owes, OffDuty
<1>3. excused \in [Case -> Nat] BY DEF RoundsInv, EscalationTypeOK
<1>4. excused'[c] = excused[c]
        + OneIf(c \in rounds[j].marks \cup ({rounds[j].cur} \ {NoCase}))
  BY <1>3, ExcuseTyped DEF Discarded, OneIf
<1>5. Works(j, c) /\ ~Owes(j, c, r) => c \in rounds[j].marks \cup ({rounds[j].cur} \ {NoCase})
  BY EscalationAssumption DEF Works, Owes
<1> QED BY <1>1, <1>2, <1>3, <1>4, <1>5 DEF OneIf

LEMMA JobBooks ==
    ASSUME CopiesInv, NEW j \in Rounder, JobStep(j)
    PROVE  Accounted'
<1> SUFFICES ASSUME NEW c \in Case, NEW r \in Chief
             PROVE  copies'[<<c, r>>] + Cardinality(Owing(c, r)')
                    <= excused'[c] + IF Dealt(c)' THEN 1 ELSE 0
  BY DEF Accounted
<1> DEFINE Goal == copies'[<<c, r>>] + Cardinality(Owing(c, r)')
                   <= excused'[c] + IF Dealt(c)' THEN 1 ELSE 0
           Others == \A i \in Rounder : i # j => rounds'[i] = rounds[i]
           old == rounds[j]
<1>1. RoundsInv /\ Accounted /\ RoundsInv' BY JobStepKeeps DEF CopiesInv
<1>2. /\ copies \in [Case \X Chief -> Nat] /\ excused \in [Case -> Nat]
      /\ copies' \in [Case \X Chief -> Nat] /\ excused' \in [Case -> Nat]
      /\ old \in Round /\ rounds \in [Rounder -> Round]
  BY <1>1 DEF RoundsInv, EscalationTypeOK, Round
<1>3. /\ copies[<<c, r>>] \in Nat /\ excused[c] \in Nat
      /\ copies'[<<c, r>>] \in Nat /\ excused'[c] \in Nat
  BY <1>2
<1> DEFINE Books == copies'[<<c, r>>] + excused[c] + OneIf(Owes(j, c, r)')
                       + OneIf(Works(j, c) /\ ~Works(j, c)' /\ c \notin reminded')
                    <= copies[<<c, r>>] + excused'[c] + OneIf(Owes(j, c, r))
<1>4. ASSUME Others, reminded \subseteq reminded', Works(j, c)' => Works(j, c), Books
      PROVE  Goal
  <2>1. Works(j, c)' => Dealt(c) BY <1>4 DEF Dealt
  <2> QED BY <1>1, <1>3, <1>4, <2>1, BooksKept
<1>5. ASSUME SelectOverdue(j) PROVE Goal
  <2> DEFINE found == Due \cap Free(j)
  <2>1. old = OffDuty BY <1>1, <1>5 DEF SelectOverdue, RoundsInv, IdleIsOff
  <2>2. ~Works(j, c) /\ ~Owes(j, c, r) BY <2>1, EscalationAssumption DEF OffDuty, Works, Owes
  <2>3. /\ rounds' = [rounds EXCEPT ![j] = [OffDuty EXCEPT !.at = "rows", !.todo = found,
                                                            !.locked = found]]
        /\ excused' = Excuse(found \cap HeldLoosely) /\ UNCHANGED <<copies, reminded>>
    BY <1>5 DEF SelectOverdue
  <2>4. /\ Others /\ rounds'[j].todo = found
        /\ rounds'[j].cur = NoCase /\ rounds'[j].marks = {}
    BY <1>2, <2>3, OffDutyTyped DEF OffDuty
  <2>5. excused'[c] = excused[c] + OneIf(c \in found \cap HeldLoosely)
    BY <1>2, <2>3, ExcuseTyped DEF OneIf
  <2>6. CASE c \in found
    <3>1. Works(j, c)' /\ Owes(j, c, r)' BY <2>4, <2>6 DEF Works, Owes
    <3>2. CASE \E i \in Rounder : Works(i, c)
      <4>1. PICK i \in Rounder : Works(i, c) BY <3>2
      <4>2. i # j BY <2>2, <4>1
      <4>3. c \notin rounds[i].locked BY <2>6, <4>2 DEF Free
      <4>4. rounds[i].locked = {} BY <1>1, <4>1, <4>3 DEF RoundsInv, LocksAll
      <4>5. c \in HeldLoosely
        <5>1. c \in rounds[i].todo \cup rounds[i].marks \cup ({rounds[i].cur} \ {NoCase})
          BY <4>1, EscalationAssumption DEF Works
        <5> QED BY <4>4, <5>1 DEF HeldLoosely
      <4>6. Books BY <1>3, <2>2, <2>3, <2>5, <2>6, <3>1, <4>5 DEF OneIf
      <4>7. Works(j, c)' => Dealt(c) BY <4>1 DEF Dealt
      <4> QED BY <1>1, <1>3, <2>3, <2>4, <4>6, <4>7, BooksKept
    <3>3. CASE ~\E i \in Rounder : Works(i, c)
      <4>1. ~Dealt(c) BY <2>6, <3>3 DEF Dealt, Due
      <4>2. Dealt(c)' BY <3>1 DEF Dealt
      <4>3. excused'[c] >= excused[c] BY <1>3, <2>5 DEF OneIf
      <4>4. copies[<<c, r>>] + Cardinality(Owing(c, r)) <= excused[c] + 0
        BY <1>1, <4>1 DEF Accounted
      <4>5. PICK n \in Nat :
               /\ Cardinality(Owing(c, r)) = n + IF Owes(j, c, r) THEN 1 ELSE 0
               /\ Cardinality(Owing(c, r)') = n + IF Owes(j, c, r)' THEN 1 ELSE 0
        BY <2>4, OwingSplit
      <4> QED BY <1>3, <2>2, <2>3, <3>1, <4>2, <4>3, <4>4, <4>5
    <3> QED BY <3>2, <3>3
  <2>7. CASE c \notin found
    <3>1. ~Works(j, c)' /\ ~Owes(j, c, r)'
      BY <2>4, <2>7, EscalationAssumption DEF Works, Owes
    <3>2. Books BY <1>3, <2>2, <2>3, <2>5, <3>1 DEF OneIf
    <3> QED BY <1>4, <2>3, <2>4, <3>1, <3>2
  <2> QED BY <2>6, <2>7
<1>6. ASSUME NEW d \in Case, TurnToCase(j, d) PROVE Goal
  <2>1. rounds' = [rounds EXCEPT ![j] = [old EXCEPT !.cur = d, !.todo = @ \ {d}, !.left = Chief,
                                                    !.ok = FALSE]]
    BY <1>2, <1>6 DEF TurnToCase, Round
  <2>2. Others /\ rounds'[j] = [old EXCEPT !.cur = d, !.todo = @ \ {d}, !.left = Chief, !.ok = FALSE]
    BY <1>2, <2>1
  <2>3. (Works(j, c)' <=> Works(j, c)) /\ (Owes(j, c, r)' <=> Owes(j, c, r))
    BY <1>2, <1>6, <2>2, EscalationAssumption DEF TurnToCase, Works, Owes, Round
  <2>4. Books BY <1>3, <1>6, <2>3 DEF TurnToCase, OneIf
  <2> QED BY <1>4, <1>6, <2>2, <2>3, <2>4 DEF TurnToCase
<1>7. ASSUME NEW q \in Chief, Remind(j, q) PROVE Goal
  <2>1. old.cur \in Case /\ q \in old.left /\ old.cur \notin old.todo
    BY <1>1, <1>2, <1>7 DEF Remind, NextChief, RoundsInv, CurrentOnce, Round
  <2>2. /\ copies' = [copies EXCEPT ![<<old.cur, q>>] = @ + 1]
        /\ UNCHANGED excused
    BY <1>7 DEF Remind, Copied
  <2>3. copies'[<<c, r>>] = copies[<<c, r>>] + OneIf(c = old.cur /\ r = q)
    BY <1>2, <1>3, <2>1, <2>2 DEF OneIf
  <2>4. /\ Others /\ reminded \subseteq reminded'
        /\ rounds'[j].todo = old.todo /\ rounds'[j].cur = old.cur
        /\ rounds'[j].left = old.left \ {q} /\ rounds'[j].ok = TRUE
        /\ \/ rounds'[j].marks = old.marks
           \/ rounds'[j].marks = {} /\ old.marks \subseteq reminded'
    <3>1. CASE q \in OnStaff
      <4>1. /\ rounds' = [rounds EXCEPT ![j] = [old EXCEPT !.left = @ \ {q}, !.ok = TRUE,
                                                           !.marks = {}, !.locked = {}]]
            /\ reminded' = reminded \cup old.marks
        BY <1>7, <3>1 DEF Remind
      <4> QED BY <1>2, <4>1 DEF Round
    <3>2. CASE q \notin OnStaff
      <4>1. /\ rounds' = [rounds EXCEPT ![j] = [old EXCEPT !.left = @ \ {q}, !.ok = TRUE]]
            /\ UNCHANGED reminded
        BY <1>7, <3>2 DEF Remind
      <4> QED BY <1>2, <4>1 DEF Round
    <3> QED BY <3>1, <3>2
  <2>5. /\ Works(j, c)' => Works(j, c)
        /\ Works(j, c) => Works(j, c)' \/ c \in reminded'
    BY <2>4 DEF Works
  <2>6. /\ Owes(j, c, r)' => Owes(j, c, r)
        /\ c = old.cur /\ r = q => Owes(j, c, r) /\ ~Owes(j, c, r)'
    BY <2>1, <2>4 DEF Owes
  <2>7. Books BY <1>3, <2>2, <2>3, <2>5, <2>6 DEF OneIf
  <2> QED BY <1>4, <2>4, <2>5, <2>7
<1>8. ASSUME NEW q \in Chief, RemindFails(j, q) \/ RemindLost(j, q) PROVE Goal
  <2>1. /\ old.cur \in Case /\ q \in old.left /\ old.cur \notin old.todo
        /\ UNCHANGED reminded /\ rounds' = [rounds EXCEPT ![j] = RolledBack(old, q)]
    BY <1>1, <1>2, <1>8
    DEF RemindFails, RemindLost, NextChief, RoundsInv, CurrentOnce, Round
  <2>2. /\ Others
        /\ rounds'[j].todo = old.todo /\ rounds'[j].cur = old.cur
        /\ rounds'[j].left = old.left \ {q} /\ rounds'[j].ok = TRUE
        /\ rounds'[j].marks = {}
    BY <1>2, <2>1 DEF RolledBack, Round
  <2>3. /\ Works(j, c)' => Works(j, c)
        /\ Works(j, c) => Works(j, c)' \/ c \in old.marks
    BY <2>2 DEF Works
  <2>4. /\ Owes(j, c, r)' => Owes(j, c, r)
        /\ c = old.cur /\ r = q => Owes(j, c, r) /\ ~Owes(j, c, r)'
    BY <2>1, <2>2 DEF Owes
  <2>5. /\ Excuse(old.marks) \in [Case -> Nat]
        /\ Excuse(old.marks)[c] = excused[c] + OneIf(c \in old.marks)
    BY <1>2, ExcuseTyped DEF OneIf
  <2>6. /\ copies'[<<c, r>>] + excused[c] + OneIf(c \in old.marks)
           <= copies[<<c, r>>] + excused'[c] + OneIf(c = old.cur /\ r = q)
    <3>1. CASE RemindLost(j, q)
      BY <1>3, <2>5, <3>1 DEF RemindLost, OneIf
    <3>2. ASSUME NEW n \in 1..3, Copied(j, q, n),
                 excused' = [Excuse(old.marks) EXCEPT ![old.cur] = @ + n - 1]
          PROVE  copies'[<<c, r>>] + excused[c] + OneIf(c \in old.marks)
                 <= copies[<<c, r>>] + excused'[c] + OneIf(c = old.cur /\ r = q)
      <4>1. copies' = [copies EXCEPT ![<<old.cur, q>>] = @ + n] BY <3>2 DEF Copied
      <4>2. copies'[<<c, r>>] = IF c = old.cur /\ r = q THEN copies[<<c, r>>] + n
                                                        ELSE copies[<<c, r>>]
        BY <1>2, <2>1, <4>1
      <4>3. excused'[c] = IF c = old.cur THEN Excuse(old.marks)[c] + n - 1
                                         ELSE Excuse(old.marks)[c]
        BY <2>5, <3>2
      <4> QED BY <1>3, <2>5, <4>2, <4>3 DEF OneIf
    <3> QED BY <1>8, <3>1, <3>2 DEF RemindFails
  <2>7. Books BY <1>3, <2>3, <2>4, <2>6 DEF OneIf
  <2> QED BY <1>4, <2>1, <2>2, <2>3, <2>7
<1>14. ASSUME NEW q \in Chief, RemindUnrecorded(j, q) PROVE Goal
  <2>1. /\ old.cur \in Case /\ q \in old.left /\ old.cur \notin old.todo
        /\ UNCHANGED reminded
        /\ rounds' = [rounds EXCEPT ![j] = [RolledBack(old, q) EXCEPT !.ok = old.ok]]
    BY <1>1, <1>2, <1>14
    DEF RemindUnrecorded, NextChief, RoundsInv, CurrentOnce, Round
  <2>2. /\ Others
        /\ rounds'[j].todo = old.todo /\ rounds'[j].cur = old.cur
        /\ rounds'[j].left = old.left \ {q} /\ rounds'[j].ok = old.ok
        /\ rounds'[j].marks = {}
    BY <1>2, <2>1 DEF RolledBack, Round
  <2>3. /\ Works(j, c)' => Works(j, c)
        /\ Works(j, c) => Works(j, c)' \/ c \in old.marks
    BY <2>2 DEF Works
  <2>4. Owes(j, c, r)' => Owes(j, c, r) BY <2>1, <2>2 DEF Owes
  <2>5. excused'[c] = excused[c] + OneIf(c \in old.marks \cup {old.cur})
    BY <1>2, <1>14, ExcuseTyped DEF RemindUnrecorded, OneIf
  <2>6. copies' = [copies EXCEPT ![<<old.cur, q>>] = @ + 1]
    BY <1>14 DEF RemindUnrecorded, Copied
  <2>7. copies'[<<c, r>>] = copies[<<c, r>>] + OneIf(c = old.cur /\ r = q)
    BY <1>2, <1>3, <2>1, <2>6 DEF OneIf
  <2>8. c \in old.marks \cup {old.cur} /\ ~(Works(j, c) /\ ~Works(j, c)') => Books
    BY <1>3, <2>4, <2>5, <2>7 DEF OneIf
  <2>9. Works(j, c) /\ ~Works(j, c)' => c # old.cur BY <2>1, <2>2 DEF Works
  <2>10. Books BY <1>3, <2>3, <2>4, <2>5, <2>7, <2>8, <2>9 DEF OneIf
  <2> QED BY <1>4, <2>1, <2>2, <2>3, <2>10
<1>9. ASSUME NEW q \in Chief, RemindBroken(j, q) PROVE Goal
  <2>1. /\ Others /\ UNCHANGED <<copies, excused, reminded>>
        /\ rounds'[j] = [old EXCEPT !.left = @ \ {q}]
    BY <1>2, <1>9 DEF RemindBroken
  <2>2. (Works(j, c)' <=> Works(j, c)) /\ (Owes(j, c, r)' => Owes(j, c, r))
    BY <1>2, <2>1 DEF Works, Owes, Round
  <2>3. Books BY <1>3, <2>1, <2>2 DEF OneIf
  <2> QED BY <1>4, <2>1, <2>2, <2>3
<1>10. ASSUME MarkCase(j) PROVE Goal
  <2>1. /\ old.cur \in Case /\ old.cur \notin old.todo /\ old.left = {}
        /\ UNCHANGED <<copies, excused, reminded>>
    BY <1>1, <1>2, <1>10 DEF MarkCase, RoundsInv, CurrentOnce, Round
  <2>2. /\ Others /\ rounds'[j].todo = old.todo /\ rounds'[j].cur = NoCase
        /\ rounds'[j].marks = IF old.ok THEN old.marks \cup {old.cur} ELSE old.marks
    BY <1>2, <1>10 DEF MarkCase, Handled, Round
  <2>3. /\ Works(j, c)' => Works(j, c)
        /\ Works(j, c) /\ ~Works(j, c)' => c = old.cur /\ ~old.ok
    BY <2>1, <2>2, EscalationAssumption DEF Works
  <2>4. /\ Owes(j, c, r)' => Owes(j, c, r)
        /\ c = old.cur /\ ~old.ok => Owes(j, c, r) /\ ~Owes(j, c, r)'
    BY <2>1, <2>2, EscalationAssumption DEF Owes
  <2>5. Books BY <1>3, <2>1, <2>3, <2>4 DEF OneIf
  <2> QED BY <1>4, <2>1, <2>2, <2>3, <2>5
<1>11. ASSUME EndRound(j) PROVE Goal
  <2>1. Others /\ rounds'[j] = OffDuty BY <1>2, <1>11 DEF EndRound
  <2>2. ~Works(j, c)' /\ ~Owes(j, c, r)' BY <2>1, EscalationAssumption DEF Works, Owes, OffDuty
  <2>3. Works(j, c) => c \in reminded'
    BY <1>11, EscalationAssumption DEF EndRound, Works
  <2>4. Books BY <1>3, <1>11, <2>2, <2>3 DEF EndRound, OneIf
  <2> QED BY <1>4, <1>11, <2>1, <2>2, <2>4 DEF EndRound
<1>12. ASSUME RoundBreaks(j) \/ RoundDies(j) PROVE Goal
  <2>1. Discarded(j) /\ UNCHANGED <<copies, reminded>> BY <1>12 DEF RoundBreaks, RoundDies
  <2>2. /\ ~Works(j, c)' /\ ~Owes(j, c, r)' /\ Others
        /\ excused[c] + OneIf(Works(j, c)) <= excused'[c] + OneIf(Owes(j, c, r))
    BY <1>1, <2>1, DiscardBooks
  <2>3. Books BY <1>3, <2>1, <2>2 DEF OneIf
  <2> QED BY <1>4, <2>1, <2>2, <2>3
<1> HIDE DEF Goal
<1>13. Goal
  BY <1>5, <1>6, <1>7, <1>8, <1>9, <1>10, <1>11, <1>12, <1>14 DEF JobStep, RoundNext
<1> QED BY <1>13 DEF Goal

----------------------------------------------------------------------------

LEMMA RoundsInvInductive == RoundsInv /\ [EscalationNext]_escalationVars => RoundsInv'
<1> SUFFICES ASSUME RoundsInv, [EscalationNext]_escalationVars
             PROVE  RoundsInv'
  OBVIOUS
<1>1. ASSUME NEW c \in Case, CaseStep(c) PROVE RoundsInv' BY <1>1, CaseStepKeeps
<1>2. ASSUME NEW j \in Rounder, JobStep(j) PROVE RoundsInv' BY <1>2, JobStepKeeps
<1>3. CASE UNCHANGED escalationVars
  BY <1>3 DEF escalationVars, RoundsInv, EscalationTypeOK, IdleIsOff, LocksAll, WorksOnDue,
     CurrentOnce, Works
<1>4. ASSUME RowEnds PROVE RoundsInv' BY <1>4, RowEndsKeeps
<1> QED BY <1>1, <1>2, <1>3, <1>4 DEF EscalationNext, CaseStep, JobStep

LEMMA CopiesInvInductive == CopiesInv /\ [EscalationNext]_escalationVars => CopiesInv'
<1> SUFFICES ASSUME CopiesInv, [EscalationNext]_escalationVars
             PROVE  CopiesInv'
  OBVIOUS
<1>1. RoundsInv' BY RoundsInvInductive DEF CopiesInv
<1>2. ASSUME UNCHANGED <<rounds, copies, excused, reminded>> PROVE Accounted'
  <2>1. ASSUME NEW c \in Case, NEW r \in Chief
        PROVE  Owing(c, r)' = Owing(c, r) /\ Dealt(c)' = Dealt(c)
    BY <1>2 DEF Owing, Owes, Dealt, Works
  <2> QED BY <1>2, <2>1 DEF CopiesInv, Accounted
<1>3. ASSUME NEW c \in Case, CaseStep(c) PROVE Accounted'
  BY <1>2, <1>3
  DEF CaseStep, RaiseCase, RaiserDies, GoesOverdue, AlertChief, AlertQueued, AlertLost, reminding
<1>7. ASSUME RowEnds PROVE Accounted'
  BY <1>2, <1>7 DEF RowEnds, QueueDelivers, QueueGivesUp, reminding
<1>4. ASSUME NEW j \in Rounder, JobStep(j) PROVE Accounted' BY <1>4, JobBooks
<1>5. ASSUME UNCHANGED escalationVars PROVE Accounted' BY <1>2, <1>5 DEF escalationVars
<1>6. Accounted' BY <1>3, <1>4, <1>5, <1>7 DEF EscalationNext, CaseStep, JobStep
<1> QED BY <1>1, <1>6 DEF CopiesInv

\* Every variable has its type, only stored cases fall due, and no row is
\* locked by the jobs of two schedulers.
THEOREM EscalationsTyped == EscalationSpec => []EscalationTypeOK
<1>1. RoundsInv => EscalationTypeOK BY DEF RoundsInv
<1> QED BY <1>1, EscalationInitInv, RoundsInvInductive, PTL DEF EscalationSpec

\* Whatever fails, dies, rolls back or commits half way, on however many
\* schedulers, an admin's reminders of a case beyond the first are matched by
\* marks that were discarded, rows let go too early and doubled messages.
THEOREM RemindersAccounted == EscalationSpec => []RemindedOfOnce
<1>1. EscalationInit => CopiesInv
  <2> SUFFICES ASSUME EscalationInit PROVE CopiesInv
    OBVIOUS
  <2>1. \A c \in Case, r \in Chief : Owing(c, r) = {}
    BY EscalationAssumption DEF EscalationInit, OffDuty, Owing, Owes
  <2>2. Cardinality({}) = 0 BY FS_EmptySet
  <2>3. \A c \in Case, r \in Chief : copies[<<c, r>>] = 0 /\ excused[c] = 0
    BY DEF EscalationInit
  <2>4. Accounted
    <3> SUFFICES ASSUME NEW c \in Case, NEW r \in Chief
                 PROVE  copies[<<c, r>>] + Cardinality(Owing(c, r))
                        <= excused[c] + IF Dealt(c) THEN 1 ELSE 0
      BY DEF Accounted
    <3>1. Cardinality(Owing(c, r)) = 0 BY <2>1, <2>2
    <3> HIDE DEF Owing
    <3> QED BY <2>3, <3>1
  <2> QED BY <2>4, EscalationInitInv DEF CopiesInv
<1>2. CopiesInv => RemindedOfOnce
  <2> SUFFICES ASSUME CopiesInv, NEW c \in Case, NEW r \in Chief
               PROVE  copies[<<c, r>>] <= 1 + excused[c]
    BY DEF RemindedOfOnce
  <2>1. copies[<<c, r>>] \in Nat /\ excused[c] \in Nat
    BY DEF CopiesInv, RoundsInv, EscalationTypeOK
  <2>2. Cardinality(Owing(c, r)) \in Nat
    BY EscalationAssumption, FS_Subset, FS_CardinalityType DEF Owing
  <2>3. copies[<<c, r>>] + Cardinality(Owing(c, r)) <= excused[c] + IF Dealt(c) THEN 1 ELSE 0
    BY DEF CopiesInv, Accounted
  <2> QED BY <2>1, <2>2, <2>3
<1> QED BY <1>1, <1>2, CopiesInvInductive, PTL DEF EscalationSpec

----------------------------------------------------------------------------
(* What is sent.                                                           *)

\* Seen from the queue and from the cases, sending does what each does.
LEMMA SendParts == SendSpec => Spec /\ EscalationSpec
<1>1. SendInit => Init /\ EscalationInit
  BY Zenon DEF SendInit
<1>2. [SendNext]_sendVars => [Next]_vars /\ [EscalationNext]_escalationVars
  BY Zenon DEF SendNext, InQueue, InEscalations, sendVars
<1> QED
  BY <1>1, <1>2, PTL DEF SendSpec, Spec, EscalationSpec

\* What is sent, as a whole: no attempt of a queued message is made twice, none
\* is lost as its own duplicate, and the copies of a reminder are accounted for,
\* in every state, whichever of the two moves.
THEOREM SendsHold ==
    SendSpec => [](/\ TypeOK /\ AttemptCalledOnce /\ DuplicateSuppressionSpares
                   /\ EscalationTypeOK /\ RemindedOfOnce)
  BY SendParts, TypeCorrect, AttemptsOnce, DuplicatesSpared, EscalationsTyped,
     RemindersAccounted, PTL

\* And when a gateway call that is seen to fail did fail, no message of the
\* queue reaches its recipient twice beside them.
THEOREM SendsDeliverOnce ==
    ASSUME Ambiguous = FALSE
    PROVE  SendSpec => []DeliveredAtMostOnce
<1>1. Spec => []DeliveredAtMostOnce BY AtMostOnce
<1> QED BY <1>1, SendParts, PTL

============================================================================
