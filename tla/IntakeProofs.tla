--------------------------- MODULE IntakeProofs ----------------------------
(***************************************************************************)
(* Proofs about what a customer's message starts, for any number of events,*)
(* messages, requests, retry jobs and ticks.  Of WebhookJournal: type      *)
(* correctness, at most one answer to a message, "processed" means stored, *)
(* and a bound on replays.  Of Nudges: type correctness, and that an       *)
(* enquiry is followed up once a rung, in order, within its limit.  Then   *)
(* the two together, as MCIntake has them.                                 *)
(***************************************************************************)
EXTENDS MCIntake, SetSums

----------------------------------------------------------------------------
(* WebhookJournal.                                                         *)

(***************************************************************************)
(* The inductive invariant behind AnsweredOnce and ProcessedMeansStored.   *)
(***************************************************************************)
StoredFirst ==
    \A w \in Worker : pc[w] \in {"reply", "mark"} => body[on[w]].message \in stored

AnsweredStored ==
    \A m \in Message : answers[m] <= 1 /\ (answers[m] = 1 => m \in stored)

ReplyUnanswered ==
    \A w \in Worker : pc[w] = "reply" => answers[body[on[w]].message] = 0

ReplyAlone ==
    \A v, w \in Worker :
        pc[v] = "reply" /\ pc[w] = "reply" /\ body[on[v]].message = body[on[w]].message => v = w

ReplyInv == TypeOK /\ StoredFirst /\ AnsweredStored /\ ReplyUnanswered /\ ReplyAlone

(***************************************************************************)
(* The inductive invariant behind ReplaysBounded.  Every replay of an      *)
(* event is paid for by a counted attempt, a fault, or a retry job that is *)
(* still at it; and the replays that snapshots already promise are within  *)
(* the bound.                                                              *)
(***************************************************************************)
Retrying(e)  == {r \in Retrier : Busy(r) /\ on[r] = e}
Promising(e) == {r \in Retrier : \E t \in todo[r] : t[1] = e /\ t[2] < MaxAttempts}

BatchSound ==
    \A r \in Retrier :
        /\ \A t, u \in todo[r] : t[1] = u[1] => t = u
        /\ \A t \in todo[r] : Busy(r) => t[1] # on[r]
        /\ pc[r] = "idle" => todo[r] = {}

ReplaysPaid ==
    \A e \in Event : replays[e] <= attempts[e] + faults + Cardinality(Retrying(e))

ReplaysPromised ==
    \A e \in Event :
        replays[e] + Cardinality(Promising(e)) <= MaxAttempts + faults + Cardinality(Retrier) - 1

ReplayInv == TypeOK /\ BatchSound /\ ReplaysPaid /\ ReplaysPromised

----------------------------------------------------------------------------
(***************************************************************************)
(* The steps, grouped by what they do to the journal.                      *)
(***************************************************************************)
Verdicts == {"processed", "failed", "dead"}

\* A worker is through with its event.
Concludes(w) ==
    /\ pc[w] \in {"process", "reply", "mark"}
    /\ \E verdict \in Verdicts :
          /\ Conclude(w, verdict)
          /\ verdict = "processed" =>
                \/ body[on[w]].route = "unknown"
                \/ body[on[w]].source = "waha"
                \/ body[on[w]].sender = "unreadable"
                \/ body[on[w]].message \in stored
                \/ pc[w] = "mark"
    /\ UNCHANGED <<eventVars, old, stored, histVars>>

\* A retry job is through with a row without processing its message.
Dismisses(r) ==
    /\ \E t \in todo[r], verdict \in Verdicts :
          /\ Take(r, t)
          /\ MarkEvent(t[1], verdict)
          /\ verdict = "processed" => body[t[1]].source = "waha"
          /\ \/ UNCHANGED replays
             \/ t[2] < MaxAttempts /\ replays' = [replays EXCEPT ![t[1]] = @ + 1]
    /\ Return(r)
    /\ UNCHANGED <<eventVars, old, stored, answers>>

\* Every step is one of these.
LEMMA Steps ==
    ASSUME [Next]_vars
    PROVE  \/ UNCHANGED vars
           \/ \E h \in Handler, e \in Event : \E b \in Offered[e] : Deliver(h, e, b)
           \/ \E w \in Worker : Store(w) \/ Reply(w) \/ Concludes(w) \/ Crash(w)
           \/ \E r \in Retrier : SelectStuck(r) \/ Dismisses(r) \/ Replay(r)
           \/ \E e \in Event : Ages(e)
<1> USE DEF Worker, Verdicts
<1>1. ASSUME NEW w \in Worker, Process(w)
      PROVE  Store(w) \/ Reply(w) \/ Concludes(w)
  <2>1. CASE StoreDuplicate(w)
    BY <2>1 DEF StoreDuplicate, Inbound, Concludes
  <2>2. CASE Finish(w)
    BY <2>2 DEF Finish, Concludes
  <2>3. CASE ProcessingFails(w)
    BY <2>3 DEF ProcessingFails, Concludes
  <2>4. CASE SenderUnread(w)
    BY <2>4 DEF SenderUnread, Concludes
  <2>5. QED
    BY <1>1, <2>1, <2>2, <2>3, <2>4 DEF Process
<1>2. ASSUME NEW h \in Handler, SkipUnknown(h) \/ LidUnresolved(h)
      PROVE  Concludes(h)
  BY <1>2 DEF SkipUnknown, LidUnresolved, Concludes
<1>3. ASSUME NEW r \in Retrier, GiveUp(r) PROVE Dismisses(r)
  BY <1>3 DEF GiveUp, Dismisses, histVars
<1>4. ASSUME NEW r \in Retrier, RefuseUntenanted(r) \/ WalkWahaPayload(r) PROVE Dismisses(r)
  <2>1. CASE RefuseUntenanted(r)
    BY <2>1 DEF RefuseUntenanted, CountReplay, Dismisses
  <2>2. CASE WalkWahaPayload(r)
    BY <2>2 DEF WalkWahaPayload, CountReplay, Dismisses
  <2>3. QED
    BY <1>4, <2>1, <2>2
<1>5. QED
  BY <1>1, <1>2, <1>3, <1>4 DEF Next, HandlerStep, RetryStep

\* What the constants and the body of a journaled event are.
LEMMA BodyFields ==
    /\ \A b \in Body : b.message \in Message /\ b.source # "none"
    /\ \A e \in Event : Offered[e] \subseteq Body
    /\ Cardinality(Journaled) \in Nat
<1>1. IsFiniteSet(Journaled) /\ Journaled \subseteq Event
  BY JournalAssumption, FS_Subset DEF Journaled
<1>2. QED
  BY <1>1, FS_CardinalityType, JournalAssumption DEF Body

\* Marking an event leaves it in the journal.
LEMMA Marking ==
    ASSUME TypeOK, NEW e \in Journaled, NEW verdict \in Verdicts, MarkEvent(e, verdict)
    PROVE  /\ status' \in [Event -> {"none", "received", "processed", "failed", "dead"}]
           /\ attempts' \in [Event -> Nat]
           /\ faults' \in 0 .. MaxFaults
           /\ Journaled' = Journaled
           /\ \A f \in Event : attempts'[f] >= attempts[f]
           /\ faults' >= faults
           /\ attempts'[e] = attempts[e] + 1 \/ faults' = faults + 1
           /\ \A f \in Event : f # e => status'[f] = status[f]
           /\ status'[e] \in {status[e], verdict}
  BY JournalAssumption DEF MarkEvent, TypeOK, Journaled, Verdicts

\* Every step keeps rows and workers well formed.
LEMMA TypeStep ==
    ASSUME TypeOK, [Next]_vars
    PROVE  TypeOK'
<1> USE JournalAssumption DEF TypeOK, Busy, eventVars, histVars
<1>1. ASSUME NEW h \in Handler, NEW e \in Event, NEW b \in Offered[e], Deliver(h, e, b)
      PROVE  TypeOK'
  <2>1. Journaled' = Journaled \cup {e} /\ h \in Worker
    BY <1>1 DEF Deliver, Journaled, Worker
  <2>2. b \in Body /\ Cardinality(Journaled) \in Nat
    BY BodyFields
  <2>3. /\ body' \in [Event -> Body \cup {NoBody}]
        /\ arrival' \in [Event -> Nat]
        /\ \A f \in Journaled' : body'[f] \in Body
    BY <1>1, <2>1, <2>2 DEF Deliver
  <2>4. \A w \in Worker : pc'[w] \in {"process", "reply", "mark"} => on'[w] \in Journaled'
    BY <1>1, <2>1 DEF Deliver
  <2>5. QED
    BY <1>1, <2>1, <2>3, <2>4 DEF Deliver
<1>2. ASSUME NEW w \in Worker, Store(w) \/ Reply(w) PROVE TypeOK'
  <2>1. Journaled' = Journaled
    BY <1>2 DEF Store, Inbound, Reply, Journaled
  <2>2. body[on[w]].message \in Message
    BY <1>2, BodyFields DEF Store, Inbound, Reply, Journaled
  <2>3. stored' \in SUBSET Message /\ answers' \in [Message -> Nat]
    BY <1>2, <2>2 DEF Store, Inbound, Reply
  <2>4. /\ pc' \in [Worker -> {"idle", "batch", "process", "reply", "mark"}]
        /\ \A v \in Worker : pc'[v] \in {"process", "reply", "mark"} => on'[v] \in Journaled'
    BY <1>2, <2>1 DEF Store, Inbound, Reply
  <2>5. QED
    BY <1>2, <2>1, <2>3, <2>4 DEF Store, Inbound, Reply
<1>3. ASSUME NEW w \in Worker, Concludes(w) PROVE TypeOK'
  <2>1. on[w] \in Journaled
    BY <1>3 DEF Concludes
  <2>2. PICK verdict \in Verdicts : Conclude(w, verdict)
    BY <1>3 DEF Concludes
  <2>3. MarkEvent(on[w], verdict) /\ UNCHANGED todo /\ Return(w)
    BY <2>2 DEF Conclude
  <2>4. Journaled' = Journaled
    BY <2>1, <2>3, Marking
  <2>5. \A v \in Worker : pc'[v] \in {"process", "reply", "mark"} => on'[v] \in Journaled'
    BY <2>3, <2>4 DEF Return
  <2>6. /\ pc' \in [Worker -> {"idle", "batch", "process", "reply", "mark"}]
        /\ on' \in [Worker -> Event \cup {Nothing}]
        /\ \A v \in Worker : pc'[v] = "batch" => todo'[v] # {}
    BY <2>3 DEF Return
  <2>7. QED
    BY <1>3, <2>1, <2>3, <2>4, <2>5, <2>6, Marking DEF Concludes
<1>4. ASSUME NEW w \in Worker, Crash(w) PROVE TypeOK'
  BY <1>4 DEF Crash, Journaled
<1>5. ASSUME NEW r \in Retrier, SelectStuck(r) PROVE TypeOK'
  <2>1. r \in Worker /\ Journaled' = Journaled
    BY <1>5 DEF SelectStuck, Worker, Journaled
  <2>2. Selected \subseteq Journaled /\ Journaled \subseteq Event
    BY DEF Selected, Stuck, Unsettled, Journaled
  <2> DEFINE rows == {<<e, attempts[e]>> : e \in Selected}
  <2>3. rows \in SUBSET (Event \X Nat) /\ rows # {}
    <3>1. PICK e \in Selected : TRUE
      BY <1>5 DEF SelectStuck
    <3>2. <<e, attempts[e]>> \in rows
      BY <3>1
    <3>3. \A u \in rows : u \in Event \X Nat
      BY <2>2
    <3>4. QED
      BY <3>2, <3>3
  <2> todo' = [todo EXCEPT ![r] = rows] /\ pc' = [pc EXCEPT ![r] = "batch"]
    BY <1>5 DEF SelectStuck
  <2> HIDE DEF rows
  <2>4. \A v \in Worker : \A t \in todo'[v] : t[1] \in Journaled'
    <3>1. \A t \in rows : t[1] \in Selected
      BY DEF rows
    <3>2. QED
      BY <2>1, <2>2, <3>1
  <2>5. /\ todo' \in [Worker -> SUBSET (Event \X Nat)]
        /\ \A v \in Worker : pc'[v] = "batch" => todo'[v] # {}
    BY <2>1, <2>3
  <2>6. QED
    BY <1>5, <2>1, <2>4, <2>5 DEF SelectStuck
<1>6. ASSUME NEW r \in Retrier, Dismisses(r) PROVE TypeOK'
  <2>1. PICK t \in todo[r], verdict \in Verdicts :
            /\ Take(r, t)
            /\ MarkEvent(t[1], verdict)
            /\ \/ UNCHANGED replays
               \/ replays' = [replays EXCEPT ![t[1]] = @ + 1]
    BY <1>6 DEF Dismisses
  <2>2. r \in Worker /\ t[1] \in Journaled
    BY DEF Worker
  <2>3. Journaled' = Journaled
    BY <2>1, <2>2, Marking
  <2>4. /\ todo' \in [Worker -> SUBSET (Event \X Nat)]
        /\ \A v \in Worker : todo'[v] \subseteq todo[v]
        /\ \A v \in Worker : v # r => todo'[v] = todo[v]
    BY <2>1, <2>2 DEF Take
  <2>5. replays' \in [Event -> Nat]
    BY <2>1, <2>2 DEF Journaled
  <2>6. /\ pc' \in [Worker -> {"idle", "batch", "process", "reply", "mark"}]
        /\ on' \in [Worker -> Event \cup {Nothing}]
        /\ \A v \in Worker : pc'[v] = "batch" => todo'[v] # {}
        /\ \A v \in Worker : pc'[v] \in {"process", "reply", "mark"} => on'[v] \in Journaled'
    BY <1>6, <2>2, <2>3, <2>4 DEF Dismisses, Return
  <2>7. /\ status' \in [Event -> {"none", "received", "processed", "failed", "dead"}]
        /\ attempts' \in [Event -> Nat]
        /\ faults' \in 0 .. MaxFaults
    BY <2>1, <2>2, Marking
  <2>8. UNCHANGED <<body, arrival, old, stored, answers>>
    BY <1>6 DEF Dismisses
  <2>9. /\ \A e \in Journaled' : body'[e] \in Body
        /\ \A v \in Worker : \A u \in todo'[v] : u[1] \in Journaled'
    BY <2>3, <2>4, <2>8
  <2>10. QED
    BY <2>4, <2>5, <2>6, <2>7, <2>8, <2>9
<1>7. ASSUME NEW r \in Retrier, Replay(r) PROVE TypeOK'
  <2>1. PICK t \in todo[r] :
            /\ Take(r, t)
            /\ CountReplay(t[1])
            /\ pc' = [pc EXCEPT ![r] = "process"]
            /\ on' = [on EXCEPT ![r] = t[1]]
    BY <1>7 DEF Replay
  <2>2. r \in Worker /\ t[1] \in Journaled /\ t[1] \in Event /\ Journaled' = Journaled
    BY <1>7 DEF Worker, Replay, Journaled
  <2>3. /\ todo' \in [Worker -> SUBSET (Event \X Nat)]
        /\ \A v \in Worker : todo'[v] \subseteq todo[v]
        /\ \A v \in Worker : v # r => todo'[v] = todo[v]
    BY <2>1, <2>2 DEF Take
  <2>4. /\ \A v \in Worker : pc'[v] \in {"process", "reply", "mark"} => on'[v] \in Journaled'
        /\ \A v \in Worker : pc'[v] = "batch" => todo'[v] # {}
    BY <2>1, <2>2, <2>3
  <2>5. replays' \in [Event -> Nat] /\ UNCHANGED answers
    BY <2>1, <2>2 DEF CountReplay
  <2>6. UNCHANGED <<body, arrival, status, attempts, old, stored, faults>>
    BY <1>7 DEF Replay
  <2>7. /\ \A e \in Journaled' : body'[e] \in Body
        /\ \A v \in Worker : \A u \in todo'[v] : u[1] \in Journaled'
    BY <2>2, <2>3, <2>6
  <2>8. /\ pc' \in [Worker -> {"idle", "batch", "process", "reply", "mark"}]
        /\ on' \in [Worker -> Event \cup {Nothing}]
    BY <2>1, <2>2
  <2>9. QED
    BY <2>3, <2>4, <2>5, <2>6, <2>7, <2>8
<1>8. ASSUME NEW e \in Event, Ages(e) PROVE TypeOK'
  BY <1>8 DEF Ages, Journaled
<1>9. CASE UNCHANGED vars
  BY <1>9 DEF vars, Journaled
<1>10. QED
  BY <1>1, <1>2, <1>3, <1>4, <1>5, <1>6, <1>7, <1>8, <1>9, Steps

\* Init is well typed.
LEMMA InitType == Init => TypeOK
  BY JournalAssumption DEF Init, TypeOK, Busy, Journaled

\* The journal's rows, every worker and every snapshot stay well formed: a
\* worker is always on a row that is in the journal.
THEOREM TypeCorrect == Spec => []TypeOK
  BY InitType, TypeStep, PTL DEF Spec

----------------------------------------------------------------------------
(***************************************************************************)
(* At most one answer, and "processed" means stored.                       *)
(***************************************************************************)

\* Steps that neither store nor answer, and bring nobody to the reply.
LEMMA QuietStep ==
    ASSUME ReplyInv, TypeOK',
           UNCHANGED <<body, stored, answers>>,
           \A w \in Worker : \/ pc'[w] = pc[w] /\ on'[w] = on[w]
                             \/ pc'[w] \in {"idle", "batch", "process"}
    PROVE  ReplyInv'
  BY DEF ReplyInv, StoredFirst, AnsweredStored, ReplyUnanswered, ReplyAlone

\* Storing a message: nobody else was replying to it.
LEMMA StoreStep ==
    ASSUME ReplyInv, TypeOK', NEW w \in Worker, Store(w)
    PROVE  ReplyInv'
<1> DEFINE m == body[on[w]].message
<1>1. m \in Message /\ m \notin stored /\ answers[m] = 0
  <2>1. m \in Message /\ m \notin stored
    BY BodyFields DEF Store, Inbound, ReplyInv, TypeOK, Busy, Journaled
  <2>2. answers[m] \in Nat /\ answers[m] <= 1 /\ answers[m] # 1
    BY <2>1 DEF ReplyInv, TypeOK, AnsweredStored
  <2>3. QED
    BY <2>1, <2>2
<1>2. /\ UNCHANGED <<body, on, answers>> /\ stored' = stored \cup {m}
      /\ pc' = [pc EXCEPT ![w] = "reply"]
  BY DEF Store, Inbound, eventVars, histVars
<1>3. \A v \in Worker : v # w => pc'[v] = pc[v]
  BY <1>2 DEF ReplyInv, TypeOK
<1>4. \A v \in Worker : v # w /\ pc[v] = "reply" => body[on[v]].message # m
  BY <1>1 DEF ReplyInv, StoredFirst
<1>5. StoredFirst' /\ AnsweredStored' /\ ReplyUnanswered'
  BY <1>1, <1>2, <1>3 DEF ReplyInv, StoredFirst, AnsweredStored, ReplyUnanswered
<1>6. ReplyAlone'
  BY <1>2, <1>3, <1>4 DEF ReplyInv, ReplyAlone
<1>7. QED
  BY <1>5, <1>6 DEF ReplyInv

\* Answering it: its only replier has done so.
LEMMA AnswerStep ==
    ASSUME ReplyInv, TypeOK', NEW w \in Worker, Reply(w)
    PROVE  ReplyInv'
<1> DEFINE m == body[on[w]].message
<1>1. m \in Message /\ m \in stored /\ answers[m] = 0
  BY BodyFields DEF Reply, ReplyInv, TypeOK, Busy, Journaled, StoredFirst, ReplyUnanswered
<1>2. /\ UNCHANGED <<body, on, stored>> /\ answers' = [answers EXCEPT ![m] = @ + 1]
      /\ pc' = [pc EXCEPT ![w] = "mark"]
  BY DEF Reply, eventVars
<1>3. /\ pc'[w] = "mark" /\ pc[w] = "reply"
      /\ \A v \in Worker : v # w => pc'[v] = pc[v]
      /\ answers'[m] = 1
      /\ \A k \in Message : k # m => answers'[k] = answers[k]
  BY <1>1, <1>2 DEF Reply, ReplyInv, TypeOK
<1>4. StoredFirst' /\ AnsweredStored'
  BY <1>1, <1>2, <1>3 DEF ReplyInv, StoredFirst, AnsweredStored
<1>5. ReplyUnanswered'
  <2>1. SUFFICES ASSUME NEW v \in Worker, pc'[v] = "reply"
                 PROVE  answers'[body[on[v]].message] = 0
    BY <1>2 DEF ReplyUnanswered
  <2>2. v # w /\ pc[v] = "reply"
    BY <1>3, <2>1
  <2>3. body[on[v]].message \in Message /\ body[on[v]].message # m
    BY <1>3, <2>2, BodyFields DEF ReplyInv, TypeOK, Busy, Journaled, ReplyAlone
  <2>4. QED
    BY <1>3, <2>2, <2>3 DEF ReplyInv, ReplyUnanswered
<1>6. ReplyAlone'
  BY <1>2, <1>3 DEF ReplyInv, ReplyAlone
<1>7. QED
  BY <1>4, <1>5, <1>6 DEF ReplyInv

LEMMA ReplyStep ==
    ASSUME ReplyInv, [Next]_vars
    PROVE  ReplyInv'
<1>0. TypeOK /\ TypeOK'
  BY TypeStep DEF ReplyInv
<1>1. ASSUME NEW h \in Handler, NEW e \in Event, NEW b \in Offered[e], Deliver(h, e, b)
      PROVE  ReplyInv'
  <2>1. \A w \in Worker : pc[w] \in {"reply", "mark"} => on[w] # e
    BY <1>0, <1>1 DEF Deliver, TypeOK, Busy, Journaled
  <2>2. \A w \in Worker : pc'[w] \in {"reply", "mark"} =>
            pc[w] = pc'[w] /\ on'[w] = on[w] /\ body'[on'[w]] = body[on[w]]
    BY <1>0, <1>1, <2>1 DEF Deliver, TypeOK, Worker, Busy, Journaled
  <2>3. UNCHANGED <<stored, answers>>
    BY <1>1 DEF Deliver, histVars
  <2>4. QED
    BY <1>0, <2>2, <2>3 DEF ReplyInv, StoredFirst, AnsweredStored, ReplyUnanswered, ReplyAlone
<1>2. ASSUME NEW w \in Worker, Concludes(w) PROVE ReplyInv'
  <2>1. Return(w) /\ UNCHANGED <<body, stored, answers>>
    BY <1>2 DEF Concludes, Conclude, eventVars, histVars
  <2>2. \A v \in Worker : \/ pc'[v] = pc[v] /\ on'[v] = on[v]
                          \/ pc'[v] \in {"idle", "batch", "process"}
    BY <1>0, <2>1 DEF Return, TypeOK
  <2>3. QED
    BY <1>0, <2>1, <2>2, QuietStep
<1>3. ASSUME NEW w \in Worker, Crash(w) PROVE ReplyInv'
  BY <1>0, <1>3, QuietStep DEF Crash, eventVars, histVars, TypeOK
<1>4. ASSUME NEW r \in Retrier, SelectStuck(r) PROVE ReplyInv'
  BY <1>0, <1>4, QuietStep DEF SelectStuck, eventVars, histVars, TypeOK
<1>5. ASSUME NEW r \in Retrier, Dismisses(r) PROVE ReplyInv'
  <2>1. Return(r) /\ UNCHANGED <<body, stored, answers>>
    BY <1>5 DEF Dismisses, eventVars
  <2>2. \A v \in Worker : \/ pc'[v] = pc[v] /\ on'[v] = on[v]
                          \/ pc'[v] \in {"idle", "batch", "process"}
    BY <1>0, <2>1 DEF Return, TypeOK
  <2>3. QED
    BY <1>0, <2>1, <2>2, QuietStep
<1>6. ASSUME NEW r \in Retrier, Replay(r) PROVE ReplyInv'
  <2>1. UNCHANGED <<body, stored, answers>>
    BY <1>6 DEF Replay, CountReplay, eventVars
  <2>2. \A v \in Worker : \/ pc'[v] = pc[v] /\ on'[v] = on[v]
                          \/ pc'[v] \in {"idle", "batch", "process"}
    BY <1>0, <1>6 DEF Replay, TypeOK
  <2>3. QED
    BY <1>0, <2>1, <2>2, QuietStep
<1>7. ASSUME NEW e \in Event, Ages(e) PROVE ReplyInv'
  BY <1>0, <1>7, QuietStep DEF Ages, eventVars, histVars
<1>8. CASE UNCHANGED vars
  BY <1>0, <1>8, QuietStep DEF vars, eventVars, histVars
<1>9. QED
  BY <1>0, <1>1, <1>2, <1>3, <1>4, <1>5, <1>6, <1>7, <1>8, Steps, StoreStep, AnswerStep

LEMMA ReplyInit == Init => ReplyInv
  BY InitType DEF Init, ReplyInv, StoredFirst, AnsweredStored, ReplyUnanswered, ReplyAlone

\* _handle_inbound_message answers a customer's message at most once,
\* whatever providers repeat, retry jobs replay and processes crash.
THEOREM AnswerAtMostOnce == Spec => []AnsweredOnce
<1>1. ReplyInv => AnsweredOnce
  BY DEF ReplyInv, AnsweredStored, AnsweredOnce
<1>2. QED
  BY <1>1, ReplyInit, ReplyStep, PTL DEF Spec

\* Only a worker that stored the message, or found it stored, marks it.
LEMMA ProcessedStep ==
    ASSUME ReplyInv, ProcessedMeansStored, [Next]_vars
    PROVE  ProcessedMeansStored'
<1>0. TypeOK
  BY DEF ReplyInv
<1>1. ASSUME NEW h \in Handler, NEW e \in Event, NEW b \in Offered[e], Deliver(h, e, b)
      PROVE  ProcessedMeansStored'
  BY <1>0, <1>1 DEF Deliver, TypeOK, ProcessedMeansStored
<1>2. ASSUME NEW w \in Worker, Store(w) \/ Reply(w) \/ Crash(w) PROVE ProcessedMeansStored'
  BY <1>2 DEF Store, Inbound, Reply, Crash, eventVars, histVars, ProcessedMeansStored
<1>3. ASSUME NEW w \in Worker, Concludes(w) PROVE ProcessedMeansStored'
  <2>1. on[w] \in Journaled /\ UNCHANGED <<body, stored>>
    BY <1>0, <1>3 DEF Concludes, TypeOK, Busy, eventVars
  <2>2. PICK verdict \in Verdicts :
            /\ MarkEvent(on[w], verdict)
            /\ verdict = "processed" =>
                  \/ body[on[w]].route = "unknown"
                  \/ body[on[w]].source = "waha"
                  \/ body[on[w]].sender = "unreadable"
                  \/ body[on[w]].message \in stored
    BY <1>3 DEF Concludes, Conclude, ReplyInv, StoredFirst
  <2>3. QED
    BY <1>0, <2>1, <2>2, Marking DEF ProcessedMeansStored
<1>4. ASSUME NEW r \in Retrier, Dismisses(r) PROVE ProcessedMeansStored'
  <2>1. PICK t \in todo[r], verdict \in Verdicts :
            MarkEvent(t[1], verdict) /\ (verdict = "processed" => body[t[1]].source = "waha")
    BY <1>4 DEF Dismisses
  <2>2. t[1] \in Journaled /\ UNCHANGED <<body, stored>>
    BY <1>0, <1>4 DEF Dismisses, TypeOK, Worker, eventVars
  <2>3. QED
    BY <1>0, <2>1, <2>2, Marking DEF ProcessedMeansStored
<1>5. ASSUME NEW r \in Retrier, SelectStuck(r) \/ Replay(r) PROVE ProcessedMeansStored'
  BY <1>5 DEF SelectStuck, Replay, eventVars, ProcessedMeansStored
<1>6. ASSUME NEW e \in Event, Ages(e) PROVE ProcessedMeansStored'
  BY <1>6 DEF Ages, eventVars, ProcessedMeansStored
<1>7. CASE UNCHANGED vars
  BY <1>7 DEF vars, eventVars, ProcessedMeansStored
<1>8. QED
  BY <1>1, <1>2, <1>3, <1>4, <1>5, <1>6, <1>7, Steps

\* The journal never closes a Meta or DotPe event of a connected shop as
\* processed while its message is missing from the inbox.
THEOREM ProcessedIsStored == Spec => []ProcessedMeansStored
<1>1. Init => ProcessedMeansStored
  BY DEF Init, ProcessedMeansStored
<1>2. QED
  BY <1>1, ReplyInit, ReplyStep, ProcessedStep, PTL DEF Spec

----------------------------------------------------------------------------
(***************************************************************************)
(* A bound on the replays of an event.                                     *)
(***************************************************************************)
Working == {"process", "reply", "mark"}

\* Both sets of jobs are finite, whatever they hold.
LEMMA JobSets ==
    ASSUME NEW S \in SUBSET Retrier
    PROVE  /\ IsFiniteSet(S)
           /\ Cardinality(S) \in Nat /\ Cardinality(Retrier) \in Nat
           /\ Cardinality(S) <= Cardinality(Retrier)
  BY JournalAssumption, FS_Subset, FS_CardinalityType

\* One job more or less.
LEMMA OneJobLess ==
    ASSUME NEW S \in SUBSET Retrier, NEW T \in SUBSET Retrier, NEW r
    PROVE  /\ S \subseteq T => Cardinality(S) <= Cardinality(T)
           /\ S \subseteq T \ {r} /\ r \in T => Cardinality(S) + 1 <= Cardinality(T)
           /\ T \ {r} \subseteq S => Cardinality(T) <= Cardinality(S) + 1
<1>1. /\ IsFiniteSet(S) /\ IsFiniteSet(T)
      /\ Cardinality(S) \in Nat /\ Cardinality(T) \in Nat
  BY JobSets
<1>2. /\ IsFiniteSet(T \ {r})
      /\ Cardinality(T \ {r}) = IF r \in T THEN Cardinality(T) - 1 ELSE Cardinality(T)
  BY <1>1, FS_RemoveElement
<1>3. S \subseteq T => Cardinality(S) <= Cardinality(T)
  BY <1>1, FS_Subset
<1>4. S \subseteq T \ {r} => Cardinality(S) <= Cardinality(T \ {r})
  BY <1>2, FS_Subset
<1>5. T \ {r} \subseteq S => Cardinality(T \ {r}) <= Cardinality(S)
  BY <1>1, FS_Subset
<1>6. QED
  BY <1>1, <1>2, <1>3, <1>4, <1>5

\* What the counters are, for the arithmetic.
LEMMA Counters ==
    ASSUME TypeOK, NEW e \in Event
    PROVE  /\ replays[e] \in Nat /\ attempts[e] \in Nat /\ faults \in Nat
           /\ MaxAttempts \in Nat \ {0}
           /\ Retrying(e) \in SUBSET Retrier /\ Promising(e) \in SUBSET Retrier
           /\ Cardinality(Retrying(e)) \in Nat /\ Cardinality(Promising(e)) \in Nat
           /\ Cardinality(Retrier) \in Nat
<1>1. Retrying(e) \in SUBSET Retrier /\ Promising(e) \in SUBSET Retrier
  BY DEF Retrying, Promising
<1>2. QED
  BY <1>1, JobSets, JournalAssumption DEF TypeOK

\* Steps that touch neither counters nor snapshots, and leave every retry
\* job on its event.
LEMMA ReplayQuiet ==
    ASSUME ReplayInv, TypeOK',
           UNCHANGED <<attempts, replays, faults, todo>>,
           \A r \in Retrier : /\ pc'[r] \in Working <=> pc[r] \in Working
                              /\ pc'[r] = "idle" <=> pc[r] = "idle"
                              /\ on'[r] = on[r]
    PROVE  ReplayInv'
<1>1. \A e \in Event : Retrying(e)' = Retrying(e) /\ Promising(e)' = Promising(e)
  BY DEF Retrying, Promising, Busy, Working
<1>2. BatchSound'
  BY DEF ReplayInv, BatchSound, Busy, Working
<1>3. QED
  BY <1>1, <1>2 DEF ReplayInv, ReplaysPaid, ReplaysPromised

\* A worker concludes: its replay turns into an attempt or a fault.
LEMMA ReplayConcludes ==
    ASSUME ReplayInv, TypeOK', NEW w \in Worker, Concludes(w)
    PROVE  ReplayInv'
<1> DEFINE k == on[w]
<1>1. /\ k \in Journaled /\ k \in Event /\ pc[w] \in Working
      /\ UNCHANGED <<todo, replays>> /\ Return(w)
  BY DEF Concludes, Conclude, ReplayInv, TypeOK, Busy, Journaled, histVars, Working
<1>2. /\ attempts'[k] = attempts[k] + 1 \/ faults' = faults + 1
      /\ \A e \in Event : attempts'[e] >= attempts[e]
      /\ faults' >= faults
  BY <1>1, Marking DEF Concludes, Conclude, ReplayInv
<1>3. /\ \A r \in Retrier : r # w => pc'[r] = pc[r] /\ on'[r] = on[r]
      /\ w \in Retrier => pc'[w] = (IF todo[w] = {} THEN "idle" ELSE "batch")
  BY <1>1 DEF Return, ReplayInv, TypeOK, Worker
<1>4. BatchSound'
  BY <1>1, <1>3 DEF ReplayInv, BatchSound, Busy, Working
<1>5. ASSUME NEW e \in Event
      PROVE  /\ replays'[e] <= attempts'[e] + faults' + Cardinality(Retrying(e)')
             /\ replays'[e] + Cardinality(Promising(e)') <= MaxAttempts + faults' + Cardinality(Retrier) - 1
  <2>1. Promising(e)' = Promising(e)
    BY <1>1 DEF Promising
  <2>2. /\ Retrying(e) \ {w} \subseteq Retrying(e)'
        /\ e # k => Retrying(e) \subseteq Retrying(e)'
        /\ Retrying(e)' \in SUBSET Retrier /\ Retrying(e) \in SUBSET Retrier
    BY <1>3 DEF Retrying, Busy
  <2>3. /\ Cardinality(Retrying(e)) <= Cardinality(Retrying(e)') + 1
        /\ e # k => Cardinality(Retrying(e)) <= Cardinality(Retrying(e)')
    BY <2>2, OneJobLess
  <2>4. /\ replays[e] <= attempts[e] + faults + Cardinality(Retrying(e))
        /\ replays[e] + Cardinality(Promising(e)) <= MaxAttempts + faults + Cardinality(Retrier) - 1
    BY DEF ReplayInv, ReplaysPaid, ReplaysPromised
  <2>5. /\ attempts'[e] \in Nat /\ faults' \in Nat /\ replays'[e] = replays[e]
        /\ Cardinality(Retrying(e)') \in Nat
    BY <1>1, <2>2, JobSets, JournalAssumption DEF TypeOK
  <2>6. CASE e = k
    BY <1>2, <2>1, <2>3, <2>4, <2>5, <2>6, Counters DEF ReplayInv
  <2>7. CASE e # k
    BY <1>2, <2>1, <2>3, <2>4, <2>5, <2>7, Counters DEF ReplayInv
  <2>8. QED
    BY <2>6, <2>7
<1>6. QED
  BY <1>4, <1>5 DEF ReplayInv, ReplaysPaid, ReplaysPromised

\* A crash pays for the replay it cuts short.
LEMMA ReplayCrash ==
    ASSUME ReplayInv, TypeOK', NEW w \in Worker, Crash(w)
    PROVE  ReplayInv'
<1>1. /\ UNCHANGED <<attempts, replays>> /\ faults' = faults + 1
      /\ \A r \in Retrier : r # w => pc'[r] = pc[r] /\ on'[r] = on[r] /\ todo'[r] = todo[r]
      /\ w \in Retrier => pc'[w] = "idle" /\ todo'[w] = {}
  BY DEF Crash, ReplayInv, TypeOK, histVars, Worker
<1>2. BatchSound'
  BY <1>1 DEF ReplayInv, BatchSound, Busy
<1>3. ASSUME NEW e \in Event
      PROVE  /\ replays'[e] <= attempts'[e] + faults' + Cardinality(Retrying(e)')
             /\ replays'[e] + Cardinality(Promising(e)') <= MaxAttempts + faults' + Cardinality(Retrier) - 1
  <2>1. /\ Retrying(e) \ {w} \subseteq Retrying(e)'
        /\ Promising(e)' \subseteq Promising(e)
        /\ Retrying(e)' \in SUBSET Retrier /\ Retrying(e) \in SUBSET Retrier
        /\ Promising(e)' \in SUBSET Retrier /\ Promising(e) \in SUBSET Retrier
    BY <1>1 DEF Retrying, Promising, Busy
  <2>2. /\ Cardinality(Retrying(e)) <= Cardinality(Retrying(e)') + 1
        /\ Cardinality(Promising(e)') <= Cardinality(Promising(e))
        /\ Cardinality(Retrying(e)') \in Nat /\ Cardinality(Promising(e)') \in Nat
    BY <2>1, OneJobLess, JobSets
  <2>3. /\ replays[e] <= attempts[e] + faults + Cardinality(Retrying(e))
        /\ replays[e] + Cardinality(Promising(e)) <= MaxAttempts + faults + Cardinality(Retrier) - 1
    BY DEF ReplayInv, ReplaysPaid, ReplaysPromised
  <2>4. QED
    BY <1>1, <2>2, <2>3, Counters DEF ReplayInv
<1>4. QED
  BY <1>2, <1>3 DEF ReplayInv, ReplaysPaid, ReplaysPromised

\* A row is taken from a batch: what it promised is no longer promised.
LEMMA Taking ==
    ASSUME ReplayInv, NEW r \in Retrier, NEW t \in todo[r], Take(r, t)
    PROVE  /\ pc[r] = "batch" /\ r \in Worker
           /\ t[1] \in Journaled /\ t[1] \in Event /\ t[2] \in Nat
           /\ todo'[r] = todo[r] \ {t}
           /\ \A s \in Retrier : s # r => todo'[s] = todo[s]
           /\ \A u \in todo'[r] : u[1] # t[1]
           /\ \A e \in Event : Promising(e)' \subseteq Promising(e)
           /\ t[2] < MaxAttempts =>
                 r \in Promising(t[1]) /\ Promising(t[1])' \subseteq Promising(t[1]) \ {r}
<1>1. /\ pc[r] = "batch" /\ r \in Worker
      /\ t[1] \in Journaled /\ t[1] \in Event /\ t[2] \in Nat
      /\ todo'[r] = todo[r] \ {t}
      /\ \A s \in Retrier : s # r => todo'[s] = todo[s]
  BY DEF Take, ReplayInv, TypeOK, Worker, Journaled
<1>2. \A u \in todo'[r] : u[1] # t[1]
  BY <1>1 DEF ReplayInv, BatchSound
<1>3. \A e \in Event : Promising(e)' \subseteq Promising(e)
  BY <1>1 DEF Promising
<1>4. t[2] < MaxAttempts =>
          r \in Promising(t[1]) /\ Promising(t[1])' \subseteq Promising(t[1]) \ {r}
  BY <1>1, <1>2, <1>3 DEF Promising
<1>5. QED
  BY <1>1, <1>2, <1>3, <1>4

\* A retry job is through with a row at once: the promise becomes a replay
\* and the replay an attempt or a fault.
LEMMA ReplayDismisses ==
    ASSUME ReplayInv, TypeOK', NEW r \in Retrier, Dismisses(r)
    PROVE  ReplayInv'
<1>1. PICK t \in todo[r], verdict \in Verdicts :
          /\ Take(r, t)
          /\ MarkEvent(t[1], verdict)
          /\ \/ UNCHANGED replays
             \/ t[2] < MaxAttempts /\ replays' = [replays EXCEPT ![t[1]] = @ + 1]
  BY DEF Dismisses
<1> DEFINE k == t[1]
<1>2. /\ pc[r] = "batch" /\ k \in Event /\ k \in Journaled
      /\ todo'[r] = todo[r] \ {t}
      /\ \A s \in Retrier : s # r => todo'[s] = todo[s]
  BY <1>1, Taking
<1>3. /\ attempts'[k] = attempts[k] + 1 \/ faults' = faults + 1
      /\ \A e \in Event : attempts'[e] >= attempts[e]
      /\ faults' >= faults
  BY <1>1, <1>2, Marking DEF ReplayInv
<1>4. /\ \A s \in Retrier : s # r => pc'[s] = pc[s] /\ on'[s] = on[s]
      /\ pc'[r] = (IF todo'[r] = {} THEN "idle" ELSE "batch")
  BY DEF Dismisses, Return, ReplayInv, TypeOK, Worker
<1>5. BatchSound'
  BY <1>2, <1>4 DEF ReplayInv, BatchSound, Busy
<1>6. ASSUME NEW e \in Event
      PROVE  /\ replays'[e] <= attempts'[e] + faults' + Cardinality(Retrying(e)')
             /\ replays'[e] + Cardinality(Promising(e)') <= MaxAttempts + faults' + Cardinality(Retrier) - 1
  <2>1. Retrying(e)' = Retrying(e)
    BY <1>2, <1>4 DEF Retrying, Busy
  <2>2. Promising(e) \in SUBSET Retrier /\ Promising(e)' \in SUBSET Retrier
    BY DEF Promising
  <2>3. /\ Cardinality(Promising(e)') <= Cardinality(Promising(e))
        /\ e = k /\ t[2] < MaxAttempts =>
               Cardinality(Promising(e)') + 1 <= Cardinality(Promising(e))
    BY <1>1, <2>2, Taking, OneJobLess
  <2>4. /\ replays'[e] = replays[e] \/ (e = k /\ t[2] < MaxAttempts /\ replays'[e] = replays[e] + 1)
    BY <1>1, <1>2 DEF ReplayInv, TypeOK
  <2>5. /\ replays[e] <= attempts[e] + faults + Cardinality(Retrying(e))
        /\ replays[e] + Cardinality(Promising(e)) <= MaxAttempts + faults + Cardinality(Retrier) - 1
    BY DEF ReplayInv, ReplaysPaid, ReplaysPromised
  <2>6. /\ attempts'[e] \in Nat /\ faults' \in Nat
        /\ Cardinality(Promising(e)') \in Nat
    BY <2>2, JobSets, JournalAssumption DEF TypeOK
  <2>7. CASE replays'[e] = replays[e]
    BY <1>3, <2>1, <2>3, <2>5, <2>6, <2>7, Counters DEF ReplayInv
  <2>8. CASE e = k /\ t[2] < MaxAttempts /\ replays'[e] = replays[e] + 1
    BY <1>3, <2>1, <2>3, <2>5, <2>6, <2>8, Counters DEF ReplayInv
  <2>9. QED
    BY <2>4, <2>7, <2>8
<1>7. QED
  BY <1>5, <1>6 DEF ReplayInv, ReplaysPaid, ReplaysPromised

\* A replay begins: the promise becomes a replay at work.
LEMMA ReplayBegins ==
    ASSUME ReplayInv, TypeOK', NEW r \in Retrier, Replay(r)
    PROVE  ReplayInv'
<1>1. PICK t \in todo[r] :
          /\ Take(r, t)
          /\ t[2] < MaxAttempts
          /\ replays' = [replays EXCEPT ![t[1]] = @ + 1]
          /\ pc' = [pc EXCEPT ![r] = "process"]
          /\ on' = [on EXCEPT ![r] = t[1]]
          /\ UNCHANGED <<attempts, faults>>
  BY DEF Replay, CountReplay
<1> DEFINE k == t[1]
<1>2. /\ pc[r] = "batch" /\ k \in Event
      /\ todo'[r] = todo[r] \ {t}
      /\ \A s \in Retrier : s # r => todo'[s] = todo[s]
      /\ \A u \in todo'[r] : u[1] # k
  BY <1>1, Taking
<1>3. /\ \A s \in Retrier : s # r => pc'[s] = pc[s] /\ on'[s] = on[s]
      /\ pc'[r] = "process" /\ on'[r] = k
  BY <1>1 DEF ReplayInv, TypeOK, Worker
<1>4. BatchSound'
  BY <1>2, <1>3 DEF ReplayInv, BatchSound, Busy
<1>5. ASSUME NEW e \in Event
      PROVE  /\ replays'[e] <= attempts'[e] + faults' + Cardinality(Retrying(e)')
             /\ replays'[e] + Cardinality(Promising(e)') <= MaxAttempts + faults' + Cardinality(Retrier) - 1
  <2>1. /\ Retrying(e) \subseteq Retrying(e)'
        /\ e = k => Retrying(e) \subseteq Retrying(e)' \ {r} /\ r \in Retrying(e)'
        /\ Retrying(e)' \in SUBSET Retrier /\ Retrying(e) \in SUBSET Retrier
    BY <1>2, <1>3 DEF Retrying, Busy
  <2>2. Promising(e) \in SUBSET Retrier /\ Promising(e)' \in SUBSET Retrier
    BY DEF Promising
  <2>3. /\ Cardinality(Promising(e)') <= Cardinality(Promising(e))
        /\ e = k => Cardinality(Promising(e)') + 1 <= Cardinality(Promising(e))
    BY <1>1, <2>2, Taking, OneJobLess
  <2>4. /\ Cardinality(Retrying(e)) <= Cardinality(Retrying(e)')
        /\ e = k => Cardinality(Retrying(e)) + 1 <= Cardinality(Retrying(e)')
    BY <2>1, OneJobLess
  <2>5. /\ e = k => replays'[e] = replays[e] + 1
        /\ e # k => replays'[e] = replays[e]
    BY <1>1, <1>2 DEF ReplayInv, TypeOK
  <2>6. /\ replays[e] <= attempts[e] + faults + Cardinality(Retrying(e))
        /\ replays[e] + Cardinality(Promising(e)) <= MaxAttempts + faults + Cardinality(Retrier) - 1
    BY DEF ReplayInv, ReplaysPaid, ReplaysPromised
  <2>7. Cardinality(Promising(e)') \in Nat /\ Cardinality(Retrying(e)') \in Nat
    BY <2>1, <2>2, JobSets
  <2>8. CASE e = k
    BY <1>1, <2>3, <2>4, <2>5, <2>6, <2>7, <2>8, Counters DEF ReplayInv
  <2>9. CASE e # k
    BY <1>1, <2>3, <2>4, <2>5, <2>6, <2>7, <2>9, Counters DEF ReplayInv
  <2>10. QED
    BY <2>8, <2>9
<1>6. QED
  BY <1>4, <1>5 DEF ReplayInv, ReplaysPaid, ReplaysPromised

\* A batch is selected: a row below the limit is promised a replay, and the
\* jobs already at that event leave room for it.
LEMMA ReplaySelects ==
    ASSUME ReplayInv, TypeOK', NEW r \in Retrier, SelectStuck(r)
    PROVE  ReplayInv'
<1> DEFINE rows == {<<e, attempts[e]>> : e \in Selected}
<1>1. /\ pc[r] = "idle" /\ todo[r] = {}
      /\ UNCHANGED <<attempts, replays, faults, on>>
      /\ pc' = [pc EXCEPT ![r] = "batch"]
      /\ todo' = [todo EXCEPT ![r] = rows]
  BY DEF SelectStuck, ReplayInv, BatchSound, histVars
<1>2. \A u \in rows : u[1] \in Event /\ u[2] = attempts[u[1]] /\ u = <<u[1], u[2]>>
  <2>1. Selected \subseteq Event
    BY DEF Selected, Stuck
  <2>2. \A e \in Selected : <<e, attempts[e]>>[1] = e /\ <<e, attempts[e]>>[2] = attempts[e]
    OBVIOUS
  <2>3. \A u \in rows : \E e \in Selected : u = <<e, attempts[e]>>
    OBVIOUS
  <2>4. QED
    BY <2>1, <2>2, <2>3
<1> HIDE DEF rows
<1>3. /\ \A s \in Retrier : s # r => pc'[s] = pc[s] /\ on'[s] = on[s] /\ todo'[s] = todo[s]
      /\ pc'[r] = "batch" /\ todo'[r] = rows
  BY <1>1 DEF ReplayInv, TypeOK, Worker
<1>4. BatchSound'
  BY <1>2, <1>3 DEF ReplayInv, BatchSound, Busy
<1>5. ASSUME NEW e \in Event
      PROVE  /\ replays'[e] <= attempts'[e] + faults' + Cardinality(Retrying(e)')
             /\ replays'[e] + Cardinality(Promising(e)') <= MaxAttempts + faults' + Cardinality(Retrier) - 1
  <2> DEFINE P == Promising(e)
             Q == Retrying(e)
  <2>1. Retrying(e)' = Q
    BY <1>1, <1>3 DEF Retrying, Busy
  <2>2. /\ P \in SUBSET Retrier /\ Q \in SUBSET Retrier /\ Promising(e)' \in SUBSET Retrier
        /\ P \cap Q = {} /\ r \notin P /\ r \notin Q
    BY <1>1 DEF Promising, Retrying, Busy, ReplayInv, BatchSound
  <2>3. Promising(e)' \subseteq P \/ (attempts[e] < MaxAttempts /\ Promising(e)' \subseteq P \cup {r})
    BY <1>2, <1>3 DEF Promising
  <2>4. /\ replays[e] <= attempts[e] + faults + Cardinality(Q)
        /\ replays[e] + Cardinality(P) <= MaxAttempts + faults + Cardinality(Retrier) - 1
    BY DEF ReplayInv, ReplaysPaid, ReplaysPromised
  <2>5. Cardinality(Promising(e)') \in Nat
    BY <2>2, JobSets
  <2>6. CASE Promising(e)' \subseteq P
    <3>1. Cardinality(Promising(e)') <= Cardinality(P)
      BY <2>2, <2>6, OneJobLess
    <3>2. QED
      BY <1>1, <2>1, <2>4, <2>5, <3>1, Counters DEF ReplayInv
  <2>7. CASE attempts[e] < MaxAttempts /\ Promising(e)' \subseteq P \cup {r}
    <3>1. Cardinality(Promising(e)') <= Cardinality(P) + 1
      BY <2>2, <2>7, OneJobLess
    <3>2. Cardinality(P) + Cardinality(Q) + 1 <= Cardinality(Retrier)
      <4>1. IsFiniteSet(P) /\ IsFiniteSet(Q) /\ Cardinality(P) \in Nat /\ Cardinality(Q) \in Nat
        BY <2>2, JobSets
      <4>2. Cardinality(P \cup Q) = Cardinality(P) + Cardinality(Q)
        <5>1. Cardinality(P \cup Q) = Cardinality(P) + Cardinality(Q) - Cardinality(P \cap Q)
          BY <4>1, FS_Union
        <5>2. Cardinality(P \cap Q) = 0
          BY <2>2, FS_EmptySet
        <5>3. QED
          BY <4>1, <5>1, <5>2
      <4>3. P \cup Q \in SUBSET Retrier /\ P \cup Q \subseteq Retrier \ {r} /\ Retrier \in SUBSET Retrier
        BY <2>2
      <4>4. Cardinality(P \cup Q) + 1 <= Cardinality(Retrier)
        BY <4>3, OneJobLess
      <4>5. QED
        BY <4>2, <4>4
    <3>3. QED
      BY <1>1, <2>1, <2>4, <2>5, <2>7, <3>1, <3>2, Counters DEF ReplayInv
  <2>8. QED
    BY <2>3, <2>6, <2>7
<1>6. QED
  BY <1>4, <1>5 DEF ReplayInv, ReplaysPaid, ReplaysPromised

LEMMA ReplayStep ==
    ASSUME ReplayInv, [Next]_vars
    PROVE  ReplayInv'
<1>0. TypeOK /\ TypeOK'
  BY TypeStep DEF ReplayInv
<1>1. ASSUME NEW h \in Handler, NEW e \in Event, NEW b \in Offered[e], Deliver(h, e, b)
      PROVE  ReplayInv'
  <2>1. \A r \in Retrier : r # h /\ r \in Worker
    BY JournalAssumption DEF Worker
  <2>2. \A r \in Retrier : pc'[r] = pc[r] /\ on'[r] = on[r]
    BY <1>0, <1>1, <2>1 DEF Deliver, TypeOK
  <2>3. QED
    BY <1>0, <1>1, <2>2, ReplayQuiet DEF Deliver, histVars
<1>2. ASSUME NEW w \in Worker, Store(w) \/ Reply(w) PROVE ReplayInv'
  <2>1. /\ UNCHANGED <<attempts, replays, faults, todo, on>>
        /\ pc[w] \in Working /\ pc'[w] \in Working
        /\ \A v \in Worker : v # w => pc'[v] = pc[v]
    BY <1>0, <1>2 DEF Store, Inbound, Reply, histVars, Working, TypeOK
  <2>2. \A r \in Retrier : /\ pc'[r] \in Working <=> pc[r] \in Working
                           /\ pc'[r] = "idle" <=> pc[r] = "idle"
                           /\ on'[r] = on[r]
    BY <2>1 DEF Worker, Working
  <2>3. QED
    BY <1>0, <2>1, <2>2, ReplayQuiet
<1>3. ASSUME NEW e \in Event, Ages(e) PROVE ReplayInv'
  BY <1>0, <1>3, ReplayQuiet DEF Ages, histVars
<1>4. CASE UNCHANGED vars
  BY <1>0, <1>4, ReplayQuiet DEF vars, histVars
<1>5. QED
  BY <1>0, <1>1, <1>2, <1>3, <1>4, Steps,
     ReplayConcludes, ReplayCrash, ReplayDismisses, ReplayBegins, ReplaySelects

LEMMA ReplayInit == Init => ReplayInv
<1>1. SUFFICES ASSUME Init PROVE ReplayInv
  OBVIOUS
<1>2. TypeOK /\ BatchSound
  BY <1>1, InitType DEF Init, BatchSound, Worker
<1>3. ASSUME NEW e \in Event
      PROVE  /\ replays[e] = 0 /\ attempts[e] = 0 /\ faults = 0
             /\ Promising(e) = {}
  BY <1>1 DEF Init, Promising, Worker
<1>4. QED
  BY <1>2, <1>3, Counters, FS_EmptySet DEF ReplayInv, ReplaysPaid, ReplaysPromised

\* retry_stuck_webhook_events replays a poison event a bounded number of
\* times, however many retry jobs overlap on stale counts.
THEOREM PoisonBounded == Spec => []ReplaysBounded
<1>1. ReplayInv => ReplaysBounded
  BY Counters DEF ReplayInv, ReplaysPromised, ReplaysBounded
<1>2. QED
  BY <1>1, ReplayInit, ReplayStep, PTL DEF Spec

----------------------------------------------------------------------------
(* Nudges.                                                                 *)

NudgeSpec == NudgeInit /\ [][NudgeNext]_nudgeVars

TickState == [at: {"idle", "gate", "look", "compose", "claim", "offer", "count", "release",
                   "postpone"},
              count: 0..Rungs, seen: 0..MaxTalk, key: Keys]

(***************************************************************************)
(* The inductive invariant.  A claim that is held has its key to itself,   *)
(* and nothing was sent with it yet; whatever count a tick or the lead's   *)
(* row carries, the rung before it was sent; and a follow-up that is being *)
(* composed has room left: none was sent since it was found due, or those  *)
(* that were came from ticks that are no longer about to send another.     *)
(***************************************************************************)
Holds(w)   == ticker[w].at \in {"offer", "release"}
Engaged(w) == ticker[w].at = "compose" \/ ticker[w].key[1] > 0
Company(w) == {v \in Ticker \ {w} : Engaged(v)}

KeysHeld ==
    /\ \A w \in Ticker : Holds(w) => ticker[w].key \in nudgeKeys /\ got[ticker[w].key] = 0
    /\ \A w, v \in Ticker : w # v /\ Holds(w) /\ Holds(v) => ticker[w].key # ticker[v].key
    /\ \A k \in Keys : got[k] <= 1 /\ (got[k] > 0 => k \in nudgeKeys)

Climbed(n) == n > 0 => got[Rung(n - 1)] > 0

LadderKept ==
    /\ Climbed(lead.count)
    /\ \A w \in Ticker :
          /\ Climbed(ticker[w].count)
          /\ OnLadder(w) => Climbed(ticker[w].key[2])
          /\ ticker[w].at = "count" => OnLadder(w) /\ got[ticker[w].key] > 0
    /\ NoRungSkipped

Placed(w) ==
    /\ ticker[w].at \in {"idle", "gate", "look", "compose"} => OnLadder(w)
    /\ ticker[w].at = "look" => talk > 0
    /\ ticker[w].at = "compose" => ticker[w].seen > 0
    /\ ~OnLadder(w) => ticker[w].key[2] < MaxNudges + Cardinality(Ticker)

Room(w) ==
    IF quietOut THEN Since(ticker[w].seen) < MaxNudges
    ELSE Since(ticker[w].seen) + Cardinality(Company(w)) < MaxNudges + Cardinality(Ticker) - 1

LimitKept ==
    /\ \A w \in Ticker : Placed(w)
    /\ \A w \in Ticker : ticker[w].at = "compose" => Room(w)
    /\ NudgesCapped

NudgeInv == NudgeTypeOK /\ KeysHeld /\ LadderKept /\ LimitKept

LEMMA Tickers ==
    /\ IsFiniteSet(Ticker) /\ Cardinality(Ticker) \in Nat
    /\ MaxTalk \in Nat /\ MaxShifts \in Nat /\ Rungs \in Nat \ {0} /\ MaxNudges \in Nat \ {0}
BY NudgeAssumption, FS_CardinalityType

LEMMA KeyShapes ==
    /\ \A k \in Keys : \/ k[1] = 0 /\ k[2] \in 0..Rungs - 1 /\ k = Rung(k[2])
                       \/ k[1] \in 1..MaxTalk /\ k[2] \in 1..MaxNudges + Cardinality(Ticker)
    /\ \A n \in 0..Rungs - 1 : Rung(n) \in Keys /\ Rung(n)[1] = 0 /\ Rung(n)[2] = n
    /\ \A n \in 1..MaxTalk, a \in 1..MaxNudges + Cardinality(Ticker) : <<n, a>> \in Keys
BY Tickers DEF Keys, Rung

LEMMA TickTypes == NudgeTypeOK => ticker \in [Ticker -> TickState]
BY DEF NudgeTypeOK, TickState

LEMMA AsleepTyped == Asleep \in TickState /\ Asleep.key = Rung(0)
BY KeyShapes, Tickers DEF Asleep, TickState

\* When one tick moves, the others stay as they are.
LEMMA TickMoves ==
    ASSUME NudgeTypeOK, NEW w \in Ticker, NEW new \in TickState,
           ticker' = [ticker EXCEPT ![w] = new]
    PROVE  /\ ticker' \in [Ticker -> TickState] /\ ticker'[w] = new
           /\ \A v \in Ticker : v # w => ticker'[v] = ticker[v]
BY TickTypes

\* The rows since a message are a sum, and one more row adds one at most.
LEMMA SinceIsSum ==
    ASSUME NEW n
    PROVE  /\ Since(n) = SumOver(nudgeRows, n..MaxTalk)
           /\ Since(n)' = SumOver(nudgeRows', n..MaxTalk)
<1>1. Since(n) = SumOver(nudgeRows, n..MaxTalk) BY DEF Since, SumOver
<1>2. Since(n)' = SumOver(nudgeRows', n..MaxTalk)
  BY DEF Since, SumOver, MapThenSumSet, MapThenFoldSet
<1> QED BY <1>1, <1>2

LEMMA SinceStays == ASSUME NEW n, UNCHANGED nudgeRows PROVE Since(n)' = Since(n)
BY SinceIsSum

LEMMA SinceTyped ==
    ASSUME NudgeTypeOK, NEW n \in 1..MaxTalk
    PROVE  Since(n) \in Nat
<1>1. IsFiniteSet(n..MaxTalk) BY Tickers, FS_Interval
<1>2. \A m \in n..MaxTalk : nudgeRows[m] \in Nat BY Tickers DEF NudgeTypeOK
<1> QED BY <1>1, <1>2, SumIsNat, SinceIsSum

LEMMA SinceGrows ==
    ASSUME NudgeTypeOK, NEW n \in 1..MaxTalk, NEW t \in Nat,
           nudgeRows' = [nudgeRows EXCEPT ![t] = @ + 1]
    PROVE  Since(n)' <= Since(n) + 1
<1>1. IsFiniteSet(n..MaxTalk) BY Tickers, FS_Interval
<1>2. PICK now, then : now = nudgeRows /\ then = nudgeRows' OBVIOUS
<1>3. /\ \A m \in n..MaxTalk : now[m] \in Nat /\ now[m] \in Int /\ then[m] \in Int
      /\ \A m \in n..MaxTalk : m # t => then[m] = now[m]
      /\ t \in n..MaxTalk => then[t] = now[t] + 1
  <2>1. \A m \in n..MaxTalk : m \in 1..MaxTalk BY Tickers
  <2>2. now \in [1..MaxTalk -> Nat] /\ then = [now EXCEPT ![t] = now[t] + 1]
    BY <1>2 DEF NudgeTypeOK
  <2>3. \A m \in 1..MaxTalk : then[m] = IF m = t THEN now[m] + 1 ELSE now[m] BY <2>2
  <2>4. \A m \in 1..MaxTalk : now[m] \in Nat BY <2>2
  <2>5. \A m \in 1..MaxTalk : then[m] \in Int
    <3> TAKE m \in 1..MaxTalk
    <3>1. PICK x : x = now[m] /\ x \in Nat BY <2>4
    <3>2. then[m] \in {x, x + 1} BY <2>3, <3>1
    <3> QED BY <3>1, <3>2
  <2> QED BY <2>1, <2>3, <2>4, <2>5
<1>4. Since(n) = SumOver(now, n..MaxTalk) /\ Since(n)' = SumOver(then, n..MaxTalk)
  BY <1>2, SinceIsSum
<1>5. SumOver(now, n..MaxTalk) \in Nat BY <1>1, <1>3, SumIsNat
<1>6. CASE t \in n..MaxTalk
  <2>1. PICK S, m : S = n..MaxTalk /\ m = t OBVIOUS
  <2>2. IsFiniteSet(S) /\ m \in S BY <1>1, <1>6, <2>1
  <2>3. \A x \in S : now[x] \in Int /\ then[x] \in Int BY <1>3, <2>1
  <2>4. \A x \in S \ {m} : now[x] = then[x] BY <1>3, <2>1
  <2>5. SumOver(then, S) = SumOver(now, S) - now[m] + then[m]
    BY ONLY <2>2, <2>3, <2>4, SumChanges
  <2> QED BY <1>3, <1>4, <1>5, <1>6, <2>1, <2>5
<1>7. CASE t \notin n..MaxTalk
  <2>1. \A m \in n..MaxTalk : now[m] = then[m] BY <1>3, <1>7
  <2>2. SumOver(now, n..MaxTalk) = SumOver(then, n..MaxTalk) BY <1>1, <2>1, SumOfEqual
  <2> QED BY <1>4, <1>5, <2>2
<1> QED BY <1>6, <1>7

LEMMA CompanyCount ==
    ASSUME NEW w \in Ticker
    PROVE  /\ IsFiniteSet(Company(w)) /\ Cardinality(Company(w)) \in Nat
           /\ Cardinality(Company(w)) <= Cardinality(Ticker) - 1
<1>1. IsFiniteSet(Ticker \ {w}) /\ Cardinality(Ticker \ {w}) = Cardinality(Ticker) - 1
  BY Tickers, FS_RemoveElement
<1>2. Company(w) \in SUBSET (Ticker \ {w}) BY DEF Company
<1> QED BY <1>1, <1>2, FS_Subset, FS_CardinalityType

LEMMA RowsTyped ==
    ASSUME NudgeTypeOK, NEW w \in Ticker, NudgeAccepted(w)
    PROVE  nudgeRows' \in [1..MaxTalk -> Nat]
<1>1. nudgeRows \in [1..MaxTalk -> Nat] BY DEF NudgeTypeOK
<1>2. nudgeRows' = nudgeRows \/ nudgeRows' = [nudgeRows EXCEPT ![talk] = nudgeRows[talk] + 1]
  BY DEF NudgeAccepted
<1>3. CASE nudgeRows' = nudgeRows BY <1>1, <1>3
<1>4. CASE nudgeRows' = [nudgeRows EXCEPT ![talk] = nudgeRows[talk] + 1]
  <2>1. \A m \in 1..MaxTalk : nudgeRows'[m] = IF m = talk THEN nudgeRows[m] + 1 ELSE nudgeRows[m]
    BY <1>1, <1>4
  <2>2. \A m \in 1..MaxTalk : nudgeRows'[m] \in Nat
    <3> TAKE m \in 1..MaxTalk
    <3>1. PICK x : x = nudgeRows[m] /\ x \in Nat BY <1>1
    <3>2. nudgeRows'[m] \in {x, x + 1} BY <2>1, <3>1
    <3> QED BY <3>1, <3>2
  <2>3. /\ DOMAIN nudgeRows' = 1..MaxTalk
        /\ nudgeRows' = [m \in DOMAIN nudgeRows' |-> nudgeRows'[m]]
    BY <1>1, <1>4
  <2> QED BY <2>2, <2>3
<1> QED BY <1>2, <1>3, <1>4

\* No more are about to send than were.
LEMMA CompanyShrinks ==
    ASSUME NEW w \in Ticker, \A v \in Ticker : Engaged(v)' => Engaged(v)
    PROVE  /\ IsFiniteSet(Company(w)') /\ Cardinality(Company(w)') \in Nat
           /\ Cardinality(Company(w)') <= Cardinality(Company(w))
<1>1. Company(w)' \in SUBSET Company(w) BY DEF Company
<1>2. IsFiniteSet(Company(w)) BY CompanyCount
<1> QED BY <1>1, <1>2, FS_Subset, FS_CardinalityType

\* A step without a send: the room of the ticks that compose stays.
LEMMA LimitStays ==
    ASSUME NudgeTypeOK, LimitKept, NEW w \in Ticker, NEW new \in TickState,
           ticker' = [ticker EXCEPT ![w] = new],
           UNCHANGED <<talk, quietOut, nudgeRows, got>>, Placed(w)',
           new.at = "compose" => Room(w)',
           new.at = "compose" \/ new.key[1] > 0 => Engaged(w) \/ quietOut
    PROVE  LimitKept'
<1>1. /\ ticker' \in [Ticker -> TickState] /\ ticker'[w] = new
      /\ \A v \in Ticker : v # w => ticker'[v] = ticker[v]
  BY TickMoves
<1>2. ASSUME NEW v \in Ticker PROVE Placed(v)'
  <2>1. CASE v = w BY <2>1
  <2>2. CASE v # w
    <3>1. Placed(v) /\ ticker'[v] = ticker[v] BY <1>1, <2>2 DEF LimitKept
    <3> QED BY <3>1 DEF Placed, OnLadder
  <2> QED BY <2>1, <2>2
<1>3. ASSUME NEW v \in Ticker, ticker'[v].at = "compose" PROVE Room(v)'
  <2>1. CASE v = w BY <1>1, <1>3, <2>1
  <2>2. CASE v # w
    <3>1. Room(v) /\ ticker'[v] = ticker[v] /\ ticker[v].seen > 0
      BY <1>1, <1>3, <2>2 DEF LimitKept, Placed
    <3>3. PICK n : n = ticker[v].seen OBVIOUS
    <3>4. n \in 1..MaxTalk BY <3>1, <3>3, TickTypes, Tickers DEF TickState
    <3>5. Since(n)' = Since(n) /\ Since(n) \in Nat
      <4>1. Since(n)' = Since(n) BY SinceStays
      <4> QED BY <4>1, <3>4, SinceTyped
    <3>6. CASE quietOut
      <4>1. Since(n) < MaxNudges BY <3>1, <3>3, <3>6 DEF Room
      <4> QED BY <3>1, <3>3, <3>5, <3>6, <4>1 DEF Room
    <3>7. CASE ~quietOut
      <4>1. \A u \in Ticker : Engaged(u)' => Engaged(u) BY <1>1, <3>7 DEF Engaged
      <4>2. /\ Cardinality(Company(v)') <= Cardinality(Company(v))
            /\ Cardinality(Company(v)') \in Nat /\ Cardinality(Company(v)) \in Nat
        BY <4>1, CompanyShrinks, CompanyCount
      <4>3. Since(n) + Cardinality(Company(v)) < MaxNudges + Cardinality(Ticker) - 1
        BY <3>1, <3>3, <3>7 DEF Room
      <4>4. Since(n) + Cardinality(Company(v)') < MaxNudges + Cardinality(Ticker) - 1
        BY <3>5, <4>2, <4>3, Tickers
      <4>5. PICK c : c = Company(v)' OBVIOUS
      <4>6. Room(v)' <=> Since(n)' + Cardinality(c) < MaxNudges + Cardinality(Ticker) - 1
        BY <3>1, <3>3, <3>7, <4>5 DEF Room
      <4> QED BY <3>5, <4>4, <4>5, <4>6
    <3> QED BY <3>6, <3>7
  <2> QED BY <2>1, <2>2
<1>4. NudgesCapped' BY DEF LimitKept, NudgesCapped
<1> QED BY <1>2, <1>3, <1>4 DEF LimitKept

\* A tick moves on without a claim and without a send.
LEMMA KeysStay ==
    ASSUME NudgeTypeOK, KeysHeld, NEW w \in Ticker, NEW new \in TickState,
           ticker' = [ticker EXCEPT ![w] = new], UNCHANGED <<nudgeKeys, got>>,
           new.at \in {"offer", "release"} => Holds(w) /\ new.key = ticker[w].key
    PROVE  KeysHeld'
<1>1. /\ ticker' \in [Ticker -> TickState] /\ ticker'[w] = new
      /\ \A v \in Ticker : v # w => ticker'[v] = ticker[v]
  BY TickMoves
<1>2. \A v \in Ticker : Holds(v)' => Holds(v) /\ ticker'[v].key = ticker[v].key
  BY <1>1 DEF Holds
<1> QED BY <1>2 DEF KeysHeld

LEMMA LadderStays ==
    ASSUME NudgeTypeOK, LadderKept, NEW w \in Ticker, NEW new \in TickState,
           ticker' = [ticker EXCEPT ![w] = new], UNCHANGED got, Climbed(lead'.count),
           Climbed(new.count), new.key[1] = 0 => Climbed(new.key[2]), new.at # "count"
    PROVE  LadderKept'
<1>1. /\ ticker' \in [Ticker -> TickState] /\ ticker'[w] = new
      /\ \A v \in Ticker : v # w => ticker'[v] = ticker[v]
  BY TickMoves
<1>2. \A n : Climbed(n)' = Climbed(n) BY DEF Climbed
<1> QED BY <1>1, <1>2 DEF LadderKept, OnLadder, NoRungSkipped, Climbed

----------------------------------------------------------------------------
(* The steps of a tick.                                                    *)

LEMMA TickKept ==
    ASSUME NudgeInv, NEW w \in Ticker
    PROVE  /\ ticker[w] \in TickState /\ Climbed(ticker[w].count) /\ Placed(w)
           /\ lead \in [stage: Stages, count: 0..Rungs, due: BOOLEAN] /\ Climbed(lead.count)
           /\ Climbed(0)
BY TickTypes DEF NudgeInv, NudgeTypeOK, LadderKept, LimitKept, Climbed

\* Whatever ends a tick, the claims, the counts and the limit stay.
LEMMA EndKeeps ==
    ASSUME NudgeInv, NEW w \in Ticker, ticker' = [ticker EXCEPT ![w] = Asleep],
           UNCHANGED <<enquirer, nudgeKeys, enquiry, sends>>, shifts' \in 0..MaxShifts,
           lead' \in [stage: Stages, count: 0..Rungs, due: BOOLEAN], Climbed(lead'.count)
    PROVE  NudgeInv'
<1>1. ticker' \in [Ticker -> TickState] /\ ticker'[w] = Asleep
  BY TickMoves, AsleepTyped DEF NudgeInv
<1>2. NudgeTypeOK' BY <1>1 DEF NudgeInv, NudgeTypeOK, TickState, enquirer, sends
<1>3. /\ Asleep.at = "idle" /\ Asleep.count = 0 /\ Asleep.key[1] = 0 /\ Asleep.key[2] = 0
      /\ ~(Asleep.at = "compose" \/ Asleep.key[1] > 0)
  BY DEF Asleep, Rung
<1>4. Climbed(0) BY DEF Climbed
<1>5. KeysHeld' BY <1>3, AsleepTyped, KeysStay DEF NudgeInv, sends
<1>6. LadderKept' BY <1>3, <1>4, AsleepTyped, LadderStays DEF NudgeInv, sends
<1>7. Placed(w)' BY <1>1, <1>3 DEF Placed, OnLadder
<1>8. LimitKept' BY <1>3, <1>7, AsleepTyped, LimitStays DEF NudgeInv, sends, enquirer
<1> QED BY <1>2, <1>5, <1>6, <1>8 DEF NudgeInv

LEMMA LeadTickKeeps == ASSUME NudgeInv, NEW w \in Ticker, LeadTick(w) PROVE NudgeInv'
<1> DEFINE new == [ticker[w] EXCEPT !.at = "gate", !.count = lead.count]
<1>1. /\ ticker[w] \in TickState /\ lead.count \in 0..Rungs /\ Climbed(lead.count)
      /\ Placed(w) /\ NudgeTypeOK /\ KeysHeld /\ LadderKept /\ LimitKept
  BY TickKept DEF NudgeInv
<1>2. /\ new \in TickState /\ new.at = "gate" /\ new.count = lead.count
      /\ new.key = ticker[w].key
  BY <1>1 DEF TickState
<1>3. /\ ticker' = [ticker EXCEPT ![w] = new] /\ ticker[w].at = "idle"
      /\ UNCHANGED <<lead, enquirer, nudgeKeys, enquiry, sends, shifts>>
  BY DEF LeadTick
<1>4. /\ OnLadder(w) /\ Climbed(ticker[w].key[2]) /\ ~(new.key[1] > 0)
  BY <1>1, <1>2, <1>3 DEF Placed, LadderKept, OnLadder
<1> HIDE DEF new
<1>5. ticker' \in [Ticker -> TickState] /\ ticker'[w] = new BY <1>1, <1>2, <1>3, TickMoves
<1>6. NudgeTypeOK' BY <1>1, <1>3, <1>5 DEF NudgeTypeOK, TickState, enquirer, sends
<1>7. KeysHeld' BY <1>1, <1>2, <1>3, KeysStay DEF sends
<1>8. LadderKept' BY <1>1, <1>2, <1>3, <1>4, LadderStays DEF sends
<1>9. Placed(w)' BY <1>2, <1>4, <1>5 DEF Placed, OnLadder
<1>10. LimitKept' BY <1>1, <1>2, <1>3, <1>4, <1>9, LimitStays DEF sends, enquirer, OnLadder
<1> QED BY <1>6, <1>7, <1>8, <1>10 DEF NudgeInv

LEMMA LeadGateKeeps == ASSUME NudgeInv, NEW w \in Ticker, LeadGate(w) PROVE NudgeInv'
<1>1. /\ ticker[w] \in TickState /\ Climbed(ticker[w].count) /\ Placed(w)
      /\ lead \in [stage: Stages, count: 0..Rungs, due: BOOLEAN] /\ Climbed(lead.count)
      /\ NudgeTypeOK /\ KeysHeld /\ LadderKept /\ LimitKept /\ shifts \in 0..MaxShifts
  BY TickKept DEF NudgeInv, NudgeTypeOK
<1>2. /\ ticker[w].at = "gate" /\ UNCHANGED <<enquirer, nudgeKeys, enquiry, sends, shifts>>
  BY DEF LeadGate
<1>3. CASE Climbs(w) /\ standing = "open"
  <2> DEFINE new == [Asleep EXCEPT !.at = "claim", !.key = Rung(ticker[w].count)]
  <2>1. ticker' = [ticker EXCEPT ![w] = new] /\ UNCHANGED lead BY <1>3 DEF LeadGate
  <2>2. ticker[w].count \in 0..Rungs - 1 BY <1>1, <1>3, Tickers DEF Climbs, TickState
  <2>3. /\ new \in TickState /\ new.at = "claim" /\ new.count = 0
        /\ new.key = Rung(ticker[w].count)
        /\ new.key[1] = 0 /\ new.key[2] = ticker[w].count /\ ~(new.key[1] > 0)
    <3>1. PICK k : k = Rung(ticker[w].count) OBVIOUS
    <3>2. k \in Keys /\ k[1] = 0 /\ k[2] = ticker[w].count BY <2>2, <3>1, KeyShapes
    <3>3. new = [Asleep EXCEPT !.at = "claim", !.key = k] BY <3>1
    <3>4. Asleep \in TickState /\ Asleep.count = 0 BY AsleepTyped DEF Asleep
    <3>5. new \in TickState BY <3>2, <3>3, <3>4 DEF TickState
    <3>6. new.at = "claim" /\ new.count = 0 /\ new.key = k BY <3>3 DEF Asleep
    <3> QED BY <3>1, <3>2, <3>5, <3>6
  <2> HIDE DEF new
  <2>4. ticker' \in [Ticker -> TickState] /\ ticker'[w] = new BY <1>1, <2>1, <2>3, TickMoves
  <2>5. NudgeTypeOK' BY <1>1, <1>2, <2>1, <2>4 DEF NudgeTypeOK, TickState, enquirer, sends
  <2>6. KeysHeld' BY <1>1, <1>2, <2>1, <2>3, KeysStay DEF sends
  <2>7. Climbed(0) BY DEF Climbed
  <2>8. LadderKept' BY <1>1, <1>2, <2>1, <2>3, <2>7, LadderStays DEF sends
  <2>9. Placed(w)' BY <2>3, <2>4 DEF Placed, OnLadder
  <2>10. LimitKept' BY <1>1, <1>2, <2>1, <2>3, <2>9, LimitStays DEF sends, enquirer
  <2> QED BY <2>5, <2>6, <2>8, <2>10 DEF NudgeInv
<1>4. CASE ~(Climbs(w) /\ standing = "open")
  <2>1. /\ ticker' = [ticker EXCEPT ![w] = Asleep]
        /\ \/ \E t \in {"LOST", "CONVERTED"} : lead' = [lead EXCEPT !.stage = t, !.due = FALSE]
           \/ lead' = [lead EXCEPT !.due = FALSE]
    BY <1>4 DEF LeadGate
  <2>2. /\ lead' \in [stage: Stages, count: 0..Rungs, due: BOOLEAN]
        /\ lead'.count = lead.count
    BY <1>1, <2>1 DEF Stages
  <2> QED BY <1>1, <1>2, <2>1, <2>2, EndKeeps
<1> QED BY <1>3, <1>4

LEMMA CountRungKeeps == ASSUME NudgeInv, NEW w \in Ticker, CountRung(w) PROVE NudgeInv'
<1> DEFINE n == ticker[w].key[2] + 1
<1>1. /\ ticker[w] \in TickState /\ NudgeTypeOK /\ LadderKept /\ shifts \in 0..MaxShifts
      /\ lead \in [stage: Stages, count: 0..Rungs, due: BOOLEAN]
  BY TickKept DEF NudgeInv, NudgeTypeOK
<1>2. /\ ticker[w].at = "count" /\ ticker' = [ticker EXCEPT ![w] = Asleep]
      /\ lead' = [lead EXCEPT !.count = n, !.due = FALSE,
                              !.stage = IF n = Rungs THEN "LOST" ELSE @]
      /\ UNCHANGED <<enquirer, nudgeKeys, enquiry, sends, shifts>>
  BY DEF CountRung
<1>3. OnLadder(w) /\ got[ticker[w].key] > 0 BY <1>1, <1>2 DEF LadderKept
<1>4. /\ ticker[w].key[2] \in 0..Rungs - 1 /\ ticker[w].key = Rung(ticker[w].key[2])
  BY <1>1, <1>3, KeyShapes DEF OnLadder, TickState
<1>5. n \in 0..Rungs /\ Climbed(n) BY <1>3, <1>4, Tickers DEF Climbed
<1> HIDE DEF n
<1>6. lead' \in [stage: Stages, count: 0..Rungs, due: BOOLEAN] /\ lead'.count = n
  BY <1>1, <1>2, <1>5 DEF Stages
<1> QED BY <1>1, <1>2, <1>5, <1>6, EndKeeps

LEMMA EngageTickKeeps == ASSUME NudgeInv, NEW w \in Ticker, EngageTick(w) PROVE NudgeInv'
<1> DEFINE new == [ticker[w] EXCEPT !.at = "look"]
<1>1. /\ ticker[w] \in TickState /\ Climbed(ticker[w].count) /\ Climbed(lead.count)
      /\ Placed(w) /\ NudgeTypeOK /\ KeysHeld /\ LadderKept /\ LimitKept
  BY TickKept DEF NudgeInv
<1>2. /\ new \in TickState /\ new.at = "look" /\ new.count = ticker[w].count
      /\ new.key = ticker[w].key
  BY <1>1 DEF TickState
<1>3. /\ ticker' = [ticker EXCEPT ![w] = new] /\ ticker[w].at = "idle" /\ talk > 0
      /\ UNCHANGED <<lead, enquirer, nudgeKeys, enquiry, sends, shifts>>
  BY DEF EngageTick
<1>4. /\ OnLadder(w) /\ Climbed(ticker[w].key[2]) /\ ~(new.key[1] > 0)
  BY <1>1, <1>2, <1>3 DEF Placed, LadderKept, OnLadder
<1> HIDE DEF new
<1>5. ticker' \in [Ticker -> TickState] /\ ticker'[w] = new BY <1>1, <1>2, <1>3, TickMoves
<1>6. NudgeTypeOK' BY <1>1, <1>3, <1>5 DEF NudgeTypeOK, TickState, enquirer, sends
<1>7. KeysHeld' BY <1>1, <1>2, <1>3, KeysStay DEF sends
<1>8. LadderKept' BY <1>1, <1>2, <1>3, <1>4, LadderStays DEF sends
<1>9. Placed(w)' BY <1>2, <1>3, <1>4, <1>5 DEF Placed, OnLadder, enquirer
<1>10. LimitKept' BY <1>1, <1>2, <1>3, <1>4, <1>9, LimitStays DEF sends, enquirer, OnLadder
<1> QED BY <1>6, <1>7, <1>8, <1>10 DEF NudgeInv

\* A follow-up is found due only while nothing was sent since: it has its room.
LEMMA SkipKeeps == ASSUME NudgeInv, NEW w \in Ticker, Skip(w) PROVE NudgeInv'
<1>1. /\ ticker[w] \in TickState /\ Climbed(ticker[w].count) /\ Climbed(lead.count)
      /\ Placed(w) /\ NudgeTypeOK /\ KeysHeld /\ LadderKept /\ LimitKept
      /\ shifts \in 0..MaxShifts /\ lead \in [stage: Stages, count: 0..Rungs, due: BOOLEAN]
  BY TickKept DEF NudgeInv, NudgeTypeOK
<1>2. ticker[w].at = "look" /\ UNCHANGED <<lead, enquirer, nudgeKeys, enquiry, sends, shifts>>
  BY DEF Skip
<1>3. CASE ticker' = [ticker EXCEPT ![w] = Asleep] BY <1>1, <1>2, <1>3, EndKeeps
<1>4. CASE ticker' # [ticker EXCEPT ![w] = Asleep]
  <2> DEFINE new == [ticker[w] EXCEPT !.at = "compose", !.seen = talk]
  <2>1. ticker' = [ticker EXCEPT ![w] = new] /\ ~Nudged /\ quietOut
    BY <1>4 DEF Skip
  <2>2. OnLadder(w) /\ Climbed(ticker[w].key[2]) /\ talk > 0 /\ talk \in 0..MaxTalk
    BY <1>1, <1>2 DEF Placed, LadderKept, NudgeTypeOK
  <2>3. /\ new \in TickState /\ new.at = "compose" /\ new.count = ticker[w].count
        /\ new.key = ticker[w].key /\ new.seen = talk
    BY <1>1, <2>2 DEF TickState
  <2> HIDE DEF new
  <2>4. ticker' \in [Ticker -> TickState] /\ ticker'[w] = new BY <1>1, <2>1, <2>3, TickMoves
  <2>5. NudgeTypeOK' BY <1>1, <1>2, <2>4 DEF NudgeTypeOK, TickState, enquirer, sends
  <2>6. KeysHeld' BY <1>1, <1>2, <2>1, <2>3, KeysStay DEF sends
  <2>7. LadderKept' BY <1>1, <1>2, <2>1, <2>2, <2>3, LadderStays DEF sends
  <2>8. Placed(w)' BY <2>2, <2>3, <2>4 DEF Placed, OnLadder
  <2>9. Room(w)'
    <3>1. talk \in 1..MaxTalk BY <2>2, Tickers
    <3>2. Since(talk) \in Nat /\ Since(talk) < MaxNudges
      BY <1>1, <2>1, <3>1, SinceTyped, Tickers DEF Nudged
    <3>3. PICK n : n = talk OBVIOUS
    <3>4. Since(n)' = Since(n) BY <1>2, SinceStays DEF sends
    <3>5. quietOut' /\ ticker'[w].seen = n BY <1>2, <2>1, <2>3, <2>4, <3>3 DEF sends
    <3> QED BY <3>2, <3>3, <3>4, <3>5 DEF Room
  <2>10. LimitKept' BY <1>1, <1>2, <2>1, <2>3, <2>8, <2>9, LimitStays DEF sends, enquirer
  <2> QED BY <2>5, <2>6, <2>7, <2>10 DEF NudgeInv
<1> QED BY <1>3, <1>4

\* The attempt's number is within the room.
LEMMA ComposeKeeps == ASSUME NudgeInv, NEW w \in Ticker, Compose(w) PROVE NudgeInv'
<1>1. /\ ticker[w] \in TickState /\ Climbed(lead.count) /\ Climbed(0)
      /\ Placed(w) /\ NudgeTypeOK /\ KeysHeld /\ LadderKept /\ LimitKept
  BY TickKept DEF NudgeInv
<1>2. ticker[w].at = "compose" /\ UNCHANGED <<lead, enquirer, nudgeKeys, enquiry, sends, shifts>>
  BY DEF Compose
<1> DEFINE n   == ticker[w].seen
           k   == <<n, Since(n) + 1>>
           new == [Asleep EXCEPT !.at = "claim", !.key = k]
<1>3. ticker' = [ticker EXCEPT ![w] = new] BY DEF Compose
<1>4. n \in 1..MaxTalk /\ Since(n) \in Nat
  BY <1>1, <1>2, SinceTyped, Tickers DEF Placed, TickState
<1>5. Since(n) + 1 < MaxNudges + Cardinality(Ticker)
  <2>1. Room(w) BY <1>1, <1>2 DEF LimitKept
  <2>2. Cardinality(Ticker) >= 1 /\ Cardinality(Company(w)) \in Nat
    BY CompanyCount, Tickers
  <2> HIDE DEF n
  <2>3. \/ Since(n) < MaxNudges
        \/ Since(n) + Cardinality(Company(w)) < MaxNudges + Cardinality(Ticker) - 1
    BY <2>1 DEF Room, n
  <2>4. PICK since : since = Since(n) /\ since \in Nat BY <1>4
  <2> QED BY <2>2, <2>3, <2>4, Tickers
<1>6. k \in Keys /\ k[1] = n /\ k[2] = Since(n) + 1
  BY <1>4, <1>5, KeyShapes, Tickers
<1> HIDE DEF k
<1>7. new \in TickState /\ new.at = "claim" /\ new.count = 0 /\ new.key = k
  BY <1>6, AsleepTyped DEF Asleep, TickState
<1> HIDE DEF new, n
<1>8. ticker' \in [Ticker -> TickState] /\ ticker'[w] = new BY <1>1, <1>3, <1>7, TickMoves
<1>9. NudgeTypeOK' BY <1>1, <1>2, <1>8 DEF NudgeTypeOK, TickState, enquirer, sends
<1>10. KeysHeld' BY <1>1, <1>2, <1>3, <1>7, KeysStay DEF sends
<1>11. k[1] # 0 BY <1>4, <1>6, Tickers
<1>12. LadderKept' BY <1>1, <1>2, <1>3, <1>7, <1>11, LadderStays DEF sends
<1>13. Placed(w)' BY <1>5, <1>6, <1>7, <1>8, <1>11 DEF Placed, OnLadder
<1>14. Engaged(w) BY <1>2 DEF Engaged
<1>15. LimitKept' BY <1>1, <1>2, <1>3, <1>7, <1>13, <1>14, LimitStays DEF sends, enquirer
<1> QED BY <1>9, <1>10, <1>12, <1>15 DEF NudgeInv

LEMMA ClaimNudgeKeeps == ASSUME NudgeInv, NEW w \in Ticker, ClaimNudge(w) PROVE NudgeInv'
<1>1. /\ ticker[w] \in TickState /\ Climbed(ticker[w].count) /\ Climbed(lead.count)
      /\ Placed(w) /\ NudgeTypeOK /\ KeysHeld /\ LadderKept /\ LimitKept
      /\ shifts \in 0..MaxShifts /\ lead \in [stage: Stages, count: 0..Rungs, due: BOOLEAN]
      /\ ticker[w].key \in Keys
  BY TickKept DEF NudgeInv, NudgeTypeOK, TickState
<1>2. /\ ticker[w].at = "claim" /\ nudgeKeys' = nudgeKeys \cup {ticker[w].key}
      /\ UNCHANGED <<lead, enquirer, enquiry, sends, shifts>>
  BY DEF ClaimNudge
<1>3. CASE NudgeTaken(w)
  <2>1. ticker' = [ticker EXCEPT ![w] = Asleep] BY <1>3 DEF ClaimNudge
  <2>2. nudgeKeys' = nudgeKeys BY <1>2, <1>3 DEF NudgeTaken
  <2> QED BY <1>1, <1>2, <2>1, <2>2, EndKeeps
<1>4. CASE ~NudgeTaken(w)
  <2> DEFINE new == [ticker[w] EXCEPT !.at = "offer"]
  <2>1. ticker' = [ticker EXCEPT ![w] = new] BY <1>4 DEF ClaimNudge
  <2>2. /\ new \in TickState /\ new.at = "offer" /\ new.count = ticker[w].count
        /\ new.key = ticker[w].key
    BY <1>1 DEF TickState
  <2> HIDE DEF new
  <2>3. /\ ticker' \in [Ticker -> TickState] /\ ticker'[w] = new
        /\ \A v \in Ticker : v # w => ticker'[v] = ticker[v]
    BY <1>1, <2>1, <2>2, TickMoves
  <2>4. NudgeTypeOK' BY <1>1, <1>2, <2>3 DEF NudgeTypeOK, TickState, enquirer, sends
  <2>5. KeysHeld'
    <3>1. \A k \in Keys : got[k] \in Nat BY <1>1 DEF NudgeTypeOK
    <3>2. ticker[w].key \notin nudgeKeys /\ got[ticker[w].key] = 0
      BY <1>1, <1>4, <3>1 DEF NudgeTaken, KeysHeld
    <3>3. \A v \in Ticker : v # w /\ Holds(v)' => Holds(v) /\ ticker'[v].key = ticker[v].key
      BY <2>3 DEF Holds
    <3>4. ticker'[w].key = ticker[w].key BY <2>2, <2>3
    <3> QED BY <1>1, <1>2, <3>2, <3>3, <3>4 DEF KeysHeld, sends
  <2>6. new.key[1] = 0 => Climbed(new.key[2]) BY <1>1, <2>2 DEF LadderKept, OnLadder
  <2>7. LadderKept' BY <1>1, <1>2, <2>1, <2>2, <2>6, LadderStays DEF sends
  <2>8. Placed(w)' BY <1>1, <2>2, <2>3 DEF Placed, OnLadder
  <2>9. new.key[1] > 0 => Engaged(w) BY <2>2 DEF Engaged
  <2>10. LimitKept' BY <1>1, <1>2, <2>1, <2>2, <2>8, <2>9, LimitStays DEF sends, enquirer
  <2> QED BY <2>4, <2>5, <2>7, <2>10 DEF NudgeInv
<1> QED BY <1>3, <1>4

LEMMA NudgeRefusedKeeps == ASSUME NudgeInv, NEW w \in Ticker, NudgeRefused(w) PROVE NudgeInv'
<1> DEFINE new == [ticker[w] EXCEPT !.at = "release"]
<1>1. /\ ticker[w] \in TickState /\ Climbed(ticker[w].count) /\ Climbed(lead.count)
      /\ Placed(w) /\ NudgeTypeOK /\ KeysHeld /\ LadderKept /\ LimitKept
  BY TickKept DEF NudgeInv
<1>2. /\ new \in TickState /\ new.at = "release" /\ new.count = ticker[w].count
      /\ new.key = ticker[w].key
  BY <1>1 DEF TickState
<1>3. /\ ticker' = [ticker EXCEPT ![w] = new] /\ ticker[w].at = "offer"
      /\ UNCHANGED <<lead, enquirer, nudgeKeys, enquiry, sends, shifts>>
  BY DEF NudgeRefused
<1> HIDE DEF new
<1>4. ticker' \in [Ticker -> TickState] /\ ticker'[w] = new BY <1>1, <1>2, <1>3, TickMoves
<1>5. NudgeTypeOK' BY <1>1, <1>3, <1>4 DEF NudgeTypeOK, TickState, enquirer, sends
<1>6. Holds(w) /\ (new.key[1] > 0 => Engaged(w)) BY <1>2, <1>3 DEF Holds, Engaged
<1>7. KeysHeld' BY <1>1, <1>2, <1>3, <1>6, KeysStay DEF sends
<1>8. new.key[1] = 0 => Climbed(new.key[2]) BY <1>1, <1>2 DEF LadderKept, OnLadder
<1>9. LadderKept' BY <1>1, <1>2, <1>3, <1>8, LadderStays DEF sends
<1>10. Placed(w)' BY <1>1, <1>2, <1>4 DEF Placed, OnLadder
<1>11. LimitKept' BY <1>1, <1>2, <1>3, <1>6, <1>10, LimitStays DEF sends, enquirer
<1> QED BY <1>5, <1>7, <1>9, <1>11 DEF NudgeInv

\* The key is given back, and nothing was sent with it.
LEMMA ReleaseNudgeKeeps == ASSUME NudgeInv, NEW w \in Ticker, ReleaseNudge(w) PROVE NudgeInv'
<1> DEFINE new == IF OnLadder(w) THEN [ticker[w] EXCEPT !.at = "postpone"] ELSE Asleep
<1>1. /\ ticker[w] \in TickState /\ Climbed(ticker[w].count) /\ Climbed(lead.count)
      /\ Placed(w) /\ NudgeTypeOK /\ KeysHeld /\ LadderKept /\ LimitKept /\ Climbed(0)
  BY TickKept DEF NudgeInv
<1>2. /\ new \in TickState /\ new.at \in {"postpone", "idle"} /\ new.key[1] = 0
      /\ ~(new.key[1] > 0)
      /\ new.count \in {0, ticker[w].count}
      /\ new.key = ticker[w].key \/ new.key = Rung(0)
  BY <1>1, AsleepTyped DEF TickState, Asleep, OnLadder, Rung
<1>3. /\ ticker' = [ticker EXCEPT ![w] = new] /\ ticker[w].at = "release"
      /\ nudgeKeys' = nudgeKeys \ {ticker[w].key}
      /\ UNCHANGED <<lead, enquirer, enquiry, sends, shifts>>
  BY DEF ReleaseNudge
<1>4. Climbed(new.key[2])
  BY <1>1, <1>2 DEF LadderKept, OnLadder, Rung
<1> HIDE DEF new
<1>5. /\ ticker' \in [Ticker -> TickState] /\ ticker'[w] = new
      /\ \A v \in Ticker : v # w => ticker'[v] = ticker[v]
  BY <1>1, <1>2, <1>3, TickMoves
<1>6. NudgeTypeOK' BY <1>1, <1>3, <1>5 DEF NudgeTypeOK, TickState, enquirer, sends
<1>7. KeysHeld'
  <2>1. Holds(w) /\ got[ticker[w].key] = 0 BY <1>1, <1>3 DEF Holds, KeysHeld
  <2>2. \A v \in Ticker : Holds(v)' =>
            v # w /\ Holds(v) /\ ticker'[v].key = ticker[v].key /\ ticker[v].key # ticker[w].key
    BY <1>1, <1>2, <1>5, <2>1 DEF Holds, KeysHeld
  <2>3. \A k \in Keys : got[k] > 0 => k # ticker[w].key BY <2>1
  <2> QED BY <1>1, <1>3, <2>2, <2>3 DEF KeysHeld, sends
<1>8. LadderKept' BY <1>1, <1>2, <1>3, <1>4, LadderStays DEF sends
<1>9. Placed(w)' BY <1>2, <1>5 DEF Placed, OnLadder
<1>10. LimitKept' BY <1>1, <1>2, <1>3, <1>9, LimitStays DEF sends, enquirer
<1> QED BY <1>6, <1>7, <1>8, <1>10 DEF NudgeInv

----------------------------------------------------------------------------
(* A send.                                                                 *)

\* One of those about to send has sent.
LEMMA CompanyLoses ==
    ASSUME NEW w \in Ticker, NEW v \in Ticker \ {w}, Engaged(v), ~Engaged(v)',
           \A u \in Ticker : Engaged(u)' => Engaged(u)
    PROVE  /\ Cardinality(Company(w)') \in Nat
           /\ Cardinality(Company(w)') <= Cardinality(Company(w)) - 1
<1>1. PICK rest : rest = Company(w) \ {v} OBVIOUS
<1>2. v \in Company(w) /\ Company(w)' \in SUBSET rest BY <1>1 DEF Company
<1>3. IsFiniteSet(Company(w)) /\ Cardinality(Company(w)) \in Nat BY CompanyCount
<1>4. IsFiniteSet(rest) /\ Cardinality(rest) = Cardinality(Company(w)) - 1
  BY <1>1, <1>2, <1>3, FS_RemoveElement
<1> QED BY <1>2, <1>3, <1>4, FS_Subset, FS_CardinalityType

\* After the first send since a follow-up was found due, one fewer is on its way.
LEMMA RoomAfterSend ==
    ASSUME NudgeInv, NEW w \in Ticker, NudgeAccepted(w), NEW v \in Ticker,
           ticker'[v].at = "compose", NEW new \in TickState, new.at \in {"count", "idle"},
           ticker' = [ticker EXCEPT ![w] = new], OnLadder(w) \/ new = Asleep,
           OnLadder(w) => new.key = ticker[w].key
    PROVE  Room(v)'
<1>0. NudgeTypeOK /\ LimitKept BY DEF NudgeInv
<1>1. NudgeTypeOK /\ LimitKept /\ ticker \in [Ticker -> TickState] /\ talk \in Nat
  <2>1. ticker \in [Ticker -> TickState] BY <1>0, TickTypes, Tickers
  <2>2. talk \in Nat BY <1>0 DEF NudgeTypeOK
  <2> QED BY <1>0, <2>1, <2>2
<1>2. /\ ticker'[w] = new /\ v # w /\ ticker'[v] = ticker[v]
      /\ \A u \in Ticker : u # w => ticker'[u] = ticker[u]
  BY <1>1, TickMoves
<1>3. Room(v) /\ ticker[v].seen > 0 BY <1>1, <1>2 DEF LimitKept, Placed
<1>4. PICK n : n = ticker[v].seen OBVIOUS
<1>5. n \in 1..MaxTalk BY <1>1, <1>3, <1>4, Tickers DEF TickState
<1>6. Since(n) \in Nat /\ Since(n)' \in Nat
  <2>1. nudgeRows' \in [1..MaxTalk -> Nat]
    BY <1>1, RowsTyped
  <2>2. Since(n)' \in Nat
    <3>1. PICK t : t = nudgeRows' OBVIOUS
    <3>2. IsFiniteSet(n..MaxTalk) BY Tickers, <1>5, FS_Interval
    <3>3. \A m \in n..MaxTalk : t[m] \in Nat BY <1>5, <2>1, <3>1, Tickers
    <3>4. Since(n)' = SumOver(t, n..MaxTalk) BY <3>1, SinceIsSum
    <3> QED BY <3>2, <3>3, <3>4, SumIsNat
  <2> QED BY <1>1, <1>5, <2>2, SinceTyped
<1>7. Asleep.at = "idle" /\ Asleep.key[1] = 0 BY DEF Asleep, Rung
<1>8. \A u \in Ticker : Engaged(u)' => Engaged(u)
  BY <1>2, <1>7 DEF Engaged, OnLadder
<1>9. /\ Cardinality(Company(v)) \in Nat /\ Cardinality(Company(v)) <= Cardinality(Ticker) - 1
      /\ Cardinality(Company(v)') \in Nat
      /\ Cardinality(Company(v)') <= Cardinality(Company(v))
  BY <1>8, CompanyCount, CompanyShrinks
<1>10. Since(n)' + Cardinality(Company(v)') < MaxNudges + Cardinality(Ticker) - 1
  <2>1. /\ quietOut => Since(n) < MaxNudges
        /\ ~quietOut => Since(n) + Cardinality(Company(v)) < MaxNudges + Cardinality(Ticker) - 1
    BY <1>3, <1>4 DEF Room
  <2>2. CASE OnLadder(w)
    <3>1. nudgeRows' = nudgeRows BY <2>2 DEF NudgeAccepted
    <3>2. Since(n)' = Since(n) BY <3>1, SinceStays
    <3> QED BY <1>6, <1>9, <2>1, <3>2, Tickers
  <2>3. CASE ~OnLadder(w)
    <3>1. nudgeRows' = [nudgeRows EXCEPT ![talk] = @ + 1] BY <2>3 DEF NudgeAccepted
    <3>2. Since(n)' <= Since(n) + 1 BY <1>1, <1>5, <3>1, SinceGrows
    <3>3. Engaged(w) /\ ~Engaged(w)'
      <4>1. ticker[w].key \in Keys BY <1>1 DEF TickState
      <4>2. ticker[w].key[1] > 0 BY <2>3, <4>1, KeyShapes, Tickers DEF OnLadder
      <4> QED BY <1>2, <1>7, <2>3, <4>2 DEF Engaged
    <3>4. Cardinality(Company(v)') <= Cardinality(Company(v)) - 1
      BY <1>2, <1>8, <3>3, CompanyLoses
    <3> QED BY <1>6, <1>9, <2>1, <3>2, <3>4, Tickers
  <2> QED BY <2>2, <2>3
<1>11. ~quietOut' BY DEF NudgeAccepted
<1>12. PICK c : c = Company(v)' OBVIOUS
<1>13. Since(n)' + Cardinality(c) < MaxNudges + Cardinality(Ticker) - 1 BY <1>10, <1>12
<1> QED BY <1>2, <1>4, <1>11, <1>12, <1>13 DEF Room

LEMMA NudgeAcceptedKeeps == ASSUME NudgeInv, NEW w \in Ticker, NudgeAccepted(w) PROVE NudgeInv'
<1> DEFINE new == IF OnLadder(w) THEN [ticker[w] EXCEPT !.at = "count"] ELSE Asleep
           k   == ticker[w].key
<1>1. /\ ticker[w] \in TickState /\ Climbed(ticker[w].count) /\ Climbed(lead.count)
      /\ Placed(w) /\ NudgeTypeOK /\ KeysHeld /\ LadderKept /\ LimitKept /\ Climbed(0)
  BY TickKept DEF NudgeInv
<1>2. /\ new \in TickState /\ new.at \in {"count", "idle"} /\ new.key[1] = 0
      /\ new.count \in {0, ticker[w].count} /\ (new.at = "count" => OnLadder(w))
      /\ (OnLadder(w) => new.key = k) /\ (OnLadder(w) \/ new = Asleep)
      /\ (~OnLadder(w) => new.key = Rung(0))
  BY <1>1, AsleepTyped DEF TickState, Asleep, OnLadder, Rung
<1>3. /\ ticker' = [ticker EXCEPT ![w] = new] /\ ticker[w].at = "offer"
      /\ got' = [got EXCEPT ![k] = @ + 1] /\ quietOut' = FALSE
      /\ nudgeRows' = IF OnLadder(w) THEN nudgeRows ELSE [nudgeRows EXCEPT ![talk] = @ + 1]
      /\ UNCHANGED <<lead, enquirer, nudgeKeys, enquiry, shifts>>
  BY DEF NudgeAccepted
<1>4. k \in Keys BY <1>1 DEF TickState
<1> HIDE DEF new, k
<1>5. /\ ticker' \in [Ticker -> TickState] /\ ticker'[w] = new
      /\ \A v \in Ticker : v # w => ticker'[v] = ticker[v]
  BY <1>1, <1>2, <1>3, TickMoves
<1>6. Holds(w) /\ k \in nudgeKeys /\ got[k] = 0 BY <1>1, <1>3 DEF Holds, KeysHeld, k
<1>7. /\ got' \in [Keys -> Nat] /\ got'[k] = 1 /\ \A j \in Keys : j # k => got'[j] = got[j]
      /\ \A j \in Keys : got[j] \in Nat
  BY <1>1, <1>3, <1>4, <1>6 DEF NudgeTypeOK
<1>8. nudgeRows' \in [1..MaxTalk -> Nat] BY <1>1, RowsTyped
<1>9. NudgeTypeOK'
  BY <1>1, <1>3, <1>5, <1>7, <1>8 DEF NudgeTypeOK, TickState, enquirer
<1>10. KeysHeld'
  <2>1. \A v \in Ticker : Holds(v)' =>
            v # w /\ Holds(v) /\ ticker'[v].key = ticker[v].key /\ ticker[v].key # k
    BY <1>1, <1>2, <1>5, <1>6 DEF Holds, KeysHeld, k
  <2>2. \A v \in Ticker : ticker[v].key \in Keys BY <1>1, TickTypes DEF TickState
  <2>3. \A j \in Keys : got'[j] <= 1 /\ (got'[j] > 0 => j \in nudgeKeys)
    BY <1>1, <1>6, <1>7 DEF KeysHeld
  <2> QED BY <1>1, <1>3, <1>7, <2>1, <2>2, <2>3 DEF KeysHeld
<1>11. \A j \in Keys : got[j] > 0 => got'[j] > 0 BY <1>4, <1>6, <1>7
<1>12. LadderKept'
  <2> DEFINE Up(n) == n > 0 => got'[Rung(n - 1)] > 0
  <2>1. \A n \in 0..Rungs : Climbed(n) => Up(n)
    <3>1. \A n \in 0..Rungs : n > 0 => Rung(n - 1) \in Keys BY KeyShapes, Tickers
    <3> QED BY <1>11, <3>1 DEF Climbed
  <2>2. Up(lead'.count)
    <3>1. lead.count \in 0..Rungs /\ lead' = lead BY <1>1, <1>3 DEF NudgeTypeOK
    <3> QED BY <1>1, <2>1, <3>1
  <2>3. ASSUME NEW v \in Ticker
        PROVE  /\ Up(ticker'[v].count)
               /\ ticker'[v].key[1] = 0 => Up(ticker'[v].key[2])
               /\ ticker'[v].at = "count" => ticker'[v].key[1] = 0 /\ got'[ticker'[v].key] > 0
    <3>1. /\ ticker[v] \in TickState /\ Climbed(ticker[v].count)
          /\ ticker[v].count \in 0..Rungs /\ ticker[v].key \in Keys
          /\ OnLadder(v) => Climbed(ticker[v].key[2]) /\ ticker[v].key[2] \in 0..Rungs
          /\ ticker[v].at = "count" => OnLadder(v) /\ got[ticker[v].key] > 0
      <4>1. ticker[v] \in TickState /\ Climbed(ticker[v].count) BY TickKept
      <4>2. ticker[v].count \in 0..Rungs /\ ticker[v].key \in Keys BY <4>1 DEF TickState
      <4>3. OnLadder(v) => ticker[v].key[2] \in 0..Rungs
        BY <4>2, KeyShapes, Tickers DEF OnLadder
      <4> QED BY <1>1, <4>1, <4>2, <4>3 DEF LadderKept
    <3>2. Up(ticker[v].count) /\ (OnLadder(v) => Up(ticker[v].key[2]))
      BY <2>1, <3>1
    <3>3. Up(0) OBVIOUS
    <3> HIDE DEF Up
    <3>4. CASE v # w BY <1>5, <1>11, <3>1, <3>2, <3>4 DEF OnLadder
    <3>5. CASE v = w /\ OnLadder(w)
      BY <1>2, <1>5, <1>7, <3>1, <3>2, <3>3, <3>5 DEF OnLadder, k
    <3>6. CASE v = w /\ ~OnLadder(w)
      BY <1>2, <1>5, <3>2, <3>3, <3>6 DEF Rung
    <3> QED BY <3>4, <3>5, <3>6
  <2>4. NoRungSkipped'
    <3> SUFFICES ASSUME NEW n \in 1..Rungs - 1, got'[Rung(n)] > 0 PROVE got'[Rung(n - 1)] > 0
      BY DEF NoRungSkipped
    <3>1. Rung(n) \in Keys /\ Rung(n - 1) \in Keys /\ Rung(n)[1] = 0 /\ Rung(n)[2] = n
      BY KeyShapes, Tickers
    <3>2. got[Rung(n - 1)] > 0
      <4>1. CASE Rung(n) # k
        BY <1>1, <1>7, <3>1, <4>1 DEF LadderKept, NoRungSkipped
      <4>2. CASE Rung(n) = k
        <5>1. OnLadder(w) /\ ticker[w].key[2] = n BY <3>1, <4>2 DEF OnLadder, k
        <5> QED BY <1>1, <5>1 DEF LadderKept, Climbed
      <4> QED BY <4>1, <4>2
    <3> QED BY <1>11, <3>1, <3>2
  <2> QED BY <2>2, <2>3, <2>4 DEF LadderKept, Climbed, OnLadder
<1>13. LimitKept'
  <2>1. ASSUME NEW v \in Ticker PROVE Placed(v)'
    <3>1. CASE v = w BY <1>1, <1>2, <1>5, <3>1 DEF Placed, OnLadder
    <3>2. CASE v # w
      <4>1. Placed(v) /\ ticker'[v] = ticker[v] BY <1>1, <1>5, <3>2 DEF LimitKept
      <4> QED BY <1>3, <4>1 DEF Placed, OnLadder, enquirer
    <3> QED BY <3>1, <3>2
  <2>2. ASSUME NEW v \in Ticker, ticker'[v].at = "compose" PROVE Room(v)'
    BY <1>2, <1>3, <2>2, RoomAfterSend DEF k
  <2>3. NudgesCapped'
    <3> SUFFICES ASSUME NEW j \in Keys, j[1] > 0, got'[j] > 0
                 PROVE  j[2] < MaxNudges + Cardinality(Ticker)
      BY DEF NudgesCapped
    <3>1. CASE j # k BY <1>1, <1>7, <3>1 DEF LimitKept, NudgesCapped
    <3>2. CASE j = k
      <4>1. ~OnLadder(w) BY <3>2 DEF OnLadder, k
      <4> QED BY <1>1, <3>2, <4>1 DEF Placed, k
    <3> QED BY <3>1, <3>2
  <2> QED BY <2>1, <2>2, <2>3 DEF LimitKept
<1> QED BY <1>9, <1>10, <1>12, <1>13 DEF NudgeInv

----------------------------------------------------------------------------
(* The customer's steps, and the theorems.                                 *)

LEMMA EnquirerKeeps ==
    ASSUME NudgeInv, UNCHANGED <<nudgeKeys, ticker, nudgeRows, got>>,
           NudgeTypeOK', lead'.count = lead.count, talk' >= talk,
           \/ UNCHANGED quietOut
           \/ ~quietOut'
           \/ \A w \in Ticker : ticker[w].at # "compose"
    PROVE  NudgeInv'
<1>1. NudgeTypeOK /\ KeysHeld /\ LadderKept /\ LimitKept BY DEF NudgeInv
<1>2. KeysHeld' BY <1>1 DEF KeysHeld, Holds
<1>3. LadderKept' BY <1>1 DEF LadderKept, Climbed, OnLadder, NoRungSkipped
<1>4. \A w \in Ticker : Placed(w)'
  BY <1>1, Tickers DEF LimitKept, Placed, OnLadder, NudgeTypeOK
<1>5. ASSUME NEW w \in Ticker, ticker'[w].at = "compose" PROVE Room(w)'
  <2>1. /\ Room(w) /\ ticker[w].at = "compose" /\ ticker[w].seen > 0
        /\ Company(w)' = Company(w) /\ ticker'[w] = ticker[w]
    BY <1>1, <1>5 DEF LimitKept, Placed, Company, Engaged
  <2>2. PICK n : n = ticker[w].seen OBVIOUS
  <2>3. n \in 1..MaxTalk BY <1>1, <2>1, <2>2, TickTypes, Tickers DEF TickState
  <2>4. Since(n)' = Since(n) /\ Since(n) \in Nat
    <3>1. Since(n)' = Since(n) BY SinceStays
    <3> QED BY <1>1, <2>3, <3>1, SinceTyped
  <2>5. /\ Cardinality(Company(w)) \in Nat
        /\ Cardinality(Company(w)) <= Cardinality(Ticker) - 1
    BY CompanyCount
  <2>6. PICK c : c = Company(w) /\ c = Company(w)' BY <2>1
  <2>7. /\ Room(w) <=> IF quietOut THEN Since(n) < MaxNudges
                       ELSE Since(n) + Cardinality(c) < MaxNudges + Cardinality(Ticker) - 1
        /\ Room(w)' <=> IF quietOut' THEN Since(n)' < MaxNudges
                        ELSE Since(n)' + Cardinality(c) < MaxNudges + Cardinality(Ticker) - 1
    BY <2>1, <2>2, <2>6 DEF Room
  <2>8. PICK since : since = Since(n) /\ since = Since(n)' /\ since \in Nat BY <2>4
  <2>9. quietOut \in BOOLEAN /\ quietOut' \in BOOLEAN BY <1>1 DEF NudgeTypeOK
  <2>10. quietOut' => quietOut BY <2>1
  <2>11. CASE quietOut' BY <2>1, <2>7, <2>8, <2>10, <2>11
  <2>12. CASE ~quietOut' BY <2>1, <2>5, <2>6, <2>7, <2>8, <2>12, Tickers
  <2> QED BY <2>11, <2>12
<1>6. NudgesCapped' BY <1>1 DEF LimitKept, NudgesCapped
<1> QED BY <1>2, <1>3, <1>4, <1>5, <1>6 DEF NudgeInv, LimitKept

LEMMA NudgeInvInductive == NudgeInv /\ [NudgeNext]_nudgeVars => NudgeInv'
<1> SUFFICES ASSUME NudgeInv, [NudgeNext]_nudgeVars
             PROVE  NudgeInv'
  OBVIOUS
<1>1. /\ NudgeTypeOK /\ talk \in Nat /\ {MaxTalk, MaxShifts} \subseteq Nat
      /\ lead \in [stage: Stages, count: 0..Rungs, due: BOOLEAN]
      /\ shifts \in 0..MaxShifts
  BY Tickers DEF NudgeInv, NudgeTypeOK
<1>2. CASE Writes
  <2>0. talk' \in 0..MaxTalk
    <3>1. talk \in 0..MaxTalk /\ talk < MaxTalk /\ talk' = talk + 1
      BY <1>1, <1>2 DEF Writes, NudgeTypeOK
    <3> QED BY <3>1, Tickers
  <2>1. NudgeTypeOK' BY <1>1, <1>2, <2>0 DEF Writes, NudgeTypeOK, sends
  <2>2. /\ UNCHANGED <<nudgeKeys, ticker, nudgeRows, got>> /\ lead'.count = lead.count
        /\ talk' >= talk /\ (UNCHANGED quietOut \/ ~quietOut')
    BY <1>1, <1>2 DEF Writes, sends
  <2> QED BY <2>1, <2>2, EnquirerKeeps
<1>3. CASE NoteInquiry
  <2>1. /\ lead' \in [stage: Stages, count: 0..Rungs, due: BOOLEAN]
        /\ lead'.count = lead.count
    BY <1>1, <1>3 DEF NoteInquiry, Stages
  <2> QED BY <1>1, <1>3, <2>1, EnquirerKeeps DEF NoteInquiry, NudgeTypeOK, sends, enquirer
<1>4. CASE AnswerReply
  <2>1. NudgeTypeOK' BY <1>1, <1>4 DEF AnswerReply, NudgeTypeOK, enquirer
  <2>2. /\ UNCHANGED <<nudgeKeys, ticker, nudgeRows, got>> /\ lead'.count = lead.count
        /\ talk' >= talk /\ (UNCHANGED quietOut \/ ~quietOut')
    BY <1>1, <1>4 DEF AnswerReply, enquirer
  <2> QED BY <2>1, <2>2, EnquirerKeeps
<1>5. CASE Orders
  BY <1>1, <1>5, EnquirerKeeps DEF Orders, NudgeTypeOK, sends, Standings
<1>6. CASE MarkConverted
  <2>1. /\ lead' \in [stage: Stages, count: 0..Rungs, due: BOOLEAN]
        /\ lead'.count = lead.count
    BY <1>1, <1>6 DEF MarkConverted, Stages
  <2> QED BY <1>1, <1>6, <2>1, EnquirerKeeps DEF MarkConverted, NudgeTypeOK, sends, enquirer
<1>7. CASE ComesDue
  <2>1. NudgeTypeOK' BY <1>1, <1>7 DEF ComesDue, NudgeTypeOK, sends, enquirer
  <2>2. /\ UNCHANGED <<nudgeKeys, ticker, nudgeRows, got>> /\ lead'.count = lead.count
        /\ talk' >= talk /\ (UNCHANGED quietOut \/ ~quietOut')
    BY <1>1, <1>7 DEF ComesDue, sends, enquirer
  <2> QED BY <2>1, <2>2, EnquirerKeeps
<1>8. CASE HoursPass
  <2>1. \A w \in Ticker : ticker[w].at # "compose" BY <1>8 DEF HoursPass
  <2>2. NudgeTypeOK' BY <1>1, <1>8 DEF HoursPass, NudgeTypeOK
  <2>3. UNCHANGED <<nudgeKeys, ticker, nudgeRows, got, lead, talk>> BY <1>8 DEF HoursPass
  <2> QED BY <1>1, <2>1, <2>2, <2>3, EnquirerKeeps
<1>9. ASSUME NEW s \in Standings \ {"ordered"}, Turns(s) PROVE NudgeInv'
  BY <1>1, <1>9, EnquirerKeeps DEF Turns, Shift, NudgeTypeOK, sends
<1>10. ASSUME NEW w \in Ticker, Postpone(w) \/ TickDies(w) PROVE NudgeInv'
  <2>1. /\ ticker' = [ticker EXCEPT ![w] = Asleep] /\ shifts' \in 0..MaxShifts
        /\ UNCHANGED <<enquirer, nudgeKeys, enquiry, sends>>
        /\ lead' = lead \/ lead' = [lead EXCEPT !.due = FALSE]
    BY <1>1, <1>10 DEF Postpone, TickDies, Shift
  <2>2. /\ lead' \in [stage: Stages, count: 0..Rungs, due: BOOLEAN]
        /\ lead'.count = lead.count
    BY <1>1, <2>1
  <2> QED BY <2>1, <2>2, EndKeeps, TickKept
<1>11. CASE UNCHANGED nudgeVars
  BY <1>1, <1>11, EnquirerKeeps DEF nudgeVars, NudgeTypeOK
<1> QED BY <1>2, <1>3, <1>4, <1>5, <1>6, <1>7, <1>8, <1>9, <1>10, <1>11,
           LeadTickKeeps, LeadGateKeeps, CountRungKeeps, EngageTickKeeps, SkipKeeps,
           ComposeKeeps, ClaimNudgeKeeps, NudgeAcceptedKeeps, NudgeRefusedKeeps,
           ReleaseNudgeKeeps
        DEF NudgeNext

LEMMA NudgeInitInv == NudgeInit => NudgeInv
<1> SUFFICES ASSUME NudgeInit PROVE NudgeInv OBVIOUS
<1>1. /\ ticker = [w \in Ticker |-> Asleep] /\ got = [k \in Keys |-> 0] /\ lead.count = 0
      /\ Asleep.at = "idle" /\ Asleep.count = 0 /\ Asleep.key = Rung(0)
      /\ Rung(0)[1] = 0 /\ Rung(0)[2] = 0
  BY DEF NudgeInit, Asleep, Rung
<1>2. NudgeTypeOK
  BY <1>1, AsleepTyped, Tickers DEF NudgeInit, NudgeTypeOK, TickState, Stages, Standings
<1>3. KeysHeld BY <1>1 DEF KeysHeld, Holds
<1>4. NoRungSkipped
  <2>1. \A n \in 1..Rungs - 1 : Rung(n) \in Keys BY KeyShapes, Tickers
  <2> QED BY <1>1, <2>1 DEF NoRungSkipped
<1>5. LadderKept BY <1>1, <1>4 DEF LadderKept, Climbed
<1>6. LimitKept BY <1>1 DEF LimitKept, Placed, OnLadder, NudgesCapped
<1> QED BY <1>2, <1>3, <1>5, <1>6 DEF NudgeInv

\* The lead, the follow-ups and the ticks keep their types; above all every key
\* a follow-up is given is one of those it may have.
THEOREM NudgesTyped == NudgeSpec => []NudgeTypeOK
<1>1. NudgeInv => NudgeTypeOK BY DEF NudgeInv
<1> QED BY <1>1, NudgeInitInv, NudgeInvInductive, PTL DEF NudgeSpec

\* However many hourly ticks overlap, die or lose an answer while the enquirer
\* writes, orders or opts out: each rung and each follow-up is sent once, no rung
\* of the ladder is skipped, and the follow-ups to one message stay at the limit
\* plus one for each further tick (leads.py, engage.py).
THEOREM NudgesSentOnce == NudgeSpec => []NudgesHeld
<1>1. NudgeInv => NudgesHeld
  BY DEF NudgeInv, KeysHeld, LadderKept, LimitKept, NudgesHeld, EachOnce
<1> QED BY <1>1, NudgeInitInv, NudgeInvInductive, PTL DEF NudgeSpec

----------------------------------------------------------------------------
(* The intake.                                                             *)

\* Seen from the journal and from the nudges, the intake does what each does.
LEMMA IntakeParts == IntakeSpec => Spec /\ NudgeSpec
<1>1. IntakeInit => Init /\ NudgeInit
  BY Zenon DEF IntakeInit
<1>2. [IntakeNext]_intakeVars => [Next]_vars /\ [NudgeNext]_nudgeVars
  BY Zenon DEF IntakeNext, Journals, intakeVars
<1> QED
  BY <1>1, <1>2, PTL DEF IntakeSpec, Spec, NudgeSpec

\* The intake as a whole: a customer's message is answered at most once,
\* journaled until it is stored and replayed a bounded number of times, and an
\* enquiry is followed up within its rungs and limit, in every state, whichever
\* of the two moves.
THEOREM IntakeHolds ==
    IntakeSpec => [](/\ TypeOK /\ AnsweredOnce /\ ProcessedMeansStored /\ ReplaysBounded
                     /\ NudgeTypeOK /\ NudgesHeld)
  BY IntakeParts, TypeCorrect, AnswerAtMostOnce, ProcessedIsStored, PoisonBounded,
     NudgesTyped, NudgesSentOnce, PTL
============================================================================
