----------------------------- MODULE DeskProofs -----------------------------
(***************************************************************************)
(* Proofs about the parts MCDesk explores: the scheduler (type             *)
(* correctness, one scheduler at a time, one message per reminder), the    *)
(* pickups booked in the chat and what the staff dictate (type             *)
(* correctness, and that each books what was confirmed, once), the         *)
(* customer's thread (type correctness, and when a message may be answered *)
(* again), and at the end the four together as the run explores them.      *)
(***************************************************************************)
EXTENDS MCDesk, FiniteSetTheorems, SequenceTheorems, TLAPS

(***************************************************************************)
(* The inductive invariant.  A worker past its election has the lock or    *)
(* has lost the session that had it; jobs run only under a leader.  The    *)
(* one tick that holds a claim has counted no message yet beyond those     *)
(* excused, and neither has a reminder whose key is not there.             *)
(***************************************************************************)
Elected(w) == term[w] \in {"elected", "leading", "leaving"}
Claims(w, k) == tick[w][k] \in {"sending", "failed"}

ElectedHolds == \A w \in Worker : Elected(w) => holder = w \/ w \in severed
LeaderRuns   == \A w \in Worker : jobs[w] = "running" => term[w] = "leading"

ClaimKeyed == \A k \in Reminder, w \in Worker : Claims(w, k) => k \in keys
ClaimAlone == \A k \in Reminder : \A v, w \in Worker : Claims(v, k) /\ Claims(w, k) => v = w
ClaimFresh == \A k \in Reminder, w \in Worker : Claims(w, k) => messages[k] <= again[k]
FreeFresh  == \A k \in Reminder : k \notin keys => messages[k] <= again[k]

ElectionInv == SchedTypeOK /\ ElectedHolds /\ LeaderRuns
ReminderInv == SchedTypeOK /\ ClaimKeyed /\ ClaimAlone /\ ClaimFresh /\ FreeFresh /\ RemindedOnce

----------------------------------------------------------------------------

\* Every message that leaves with the jobs of a dying worker was being sent.
LEMMA JobsEndCounts ==
    ASSUME SchedTypeOK, NEW w \in Worker, JobsEnd(w)
    PROVE  /\ messages' \in [Reminder -> Nat]
           /\ tick' \in [Worker -> [Reminder -> {"none", "due", "sending", "failed"}]]
           /\ tick' = [tick EXCEPT ![w] = [k \in Reminder |-> "none"]]
           /\ \A k \in Reminder : \/ messages'[k] = messages[k]
                                  \/ messages'[k] = messages[k] + 1 /\ tick[w][k] = "sending"
<1>1. PICK gone \in SUBSET {k \in Reminder : tick[w][k] = "sending"} :
         messages' = [k \in Reminder |-> IF k \in gone THEN messages[k] + 1 ELSE messages[k]]
  BY DEF JobsEnd
<1>2. tick' = [tick EXCEPT ![w] = [k \in Reminder |-> "none"]]
  BY DEF JobsEnd
<1>3. \A k \in Reminder : messages[k] \in Nat
  BY DEF SchedTypeOK
<1>4. messages' \in [Reminder -> Nat]
  BY <1>1, <1>3
<1>5. tick' \in [Worker -> [Reminder -> {"none", "due", "sending", "failed"}]]
  BY <1>2 DEF SchedTypeOK
<1> QED
  BY <1>1, <1>2, <1>4, <1>5

LEMMA InitTyped == SchedInit => SchedTypeOK
  BY SchedulerAssumption DEF SchedInit, SchedTypeOK

\* What one worker does to one reminder.
ReminderStep(w, k) ==
    \/ Fire(w, k) \/ Try(w, k) \/ Sends(w, k) \/ Bounces(w, k) \/ GiveBack(w, k)
    \/ \E accepted \in BOOLEAN : Falters(w, k, accepted)

\* What one worker does with the lock and its scheduler.
ElectionStep(w) ==
    \/ Elect(w) \/ Begin(w) \/ BeginFails(w) \/ Sever(w) \/ Leave(w) \/ Unlock(w)
    \/ WorkerDies(w) \/ WorkerBack(w)

LEMMA ElectionTyped ==
    ASSUME SchedTypeOK, NEW w \in Worker, ElectionStep(w)
    PROVE  SchedTypeOK'
<1> USE SchedulerAssumption
<1>1. CASE Elect(w)      BY <1>1 DEF Elect, Stage, SchedTypeOK
<1>2. CASE Begin(w)      BY <1>2 DEF Begin, Stage, SchedTypeOK
<1>3. CASE BeginFails(w) BY <1>3 DEF BeginFails, MoreBad, Stage, SchedTypeOK
<1>4. CASE Sever(w)      BY <1>4 DEF Sever, Breaks, MoreBad, SchedTypeOK
<1>5. CASE Leave(w)
  <2>1. JobsEnd(w) BY <1>5 DEF Leave, Halts
  <2>2. bad' \in 0 .. MaxBad BY <1>5 DEF Leave, MoreBad, SchedTypeOK
  <2> QED BY <1>5, <2>1, <2>2, JobsEndCounts DEF Leave, Halts, Stage, SchedTypeOK
<1>6. CASE Unlock(w)     BY <1>6 DEF Unlock, Stage, SchedTypeOK
<1>7. CASE WorkerDies(w)
  <2>1. JobsEnd(w) BY <1>7 DEF WorkerDies
  <2>2. bad' \in 0 .. MaxBad BY <1>7 DEF WorkerDies, MoreBad, SchedTypeOK
  <2>3. holder' \in Worker \cup {NoOne, Ghost}
    BY <1>7 DEF WorkerDies, Breaks, SchedTypeOK
  <2> QED BY <1>7, <2>1, <2>2, <2>3, JobsEndCounts DEF WorkerDies, Stage, SchedTypeOK
<1>8. CASE WorkerBack(w) BY <1>8 DEF WorkerBack, Stage, SchedTypeOK
<1> QED BY <1>1, <1>2, <1>3, <1>4, <1>5, <1>6, <1>7, <1>8 DEF ElectionStep

LEMMA ReminderTyped ==
    ASSUME SchedTypeOK, NEW w \in Worker, NEW k \in Reminder, ReminderStep(w, k)
    PROVE  SchedTypeOK'
<1> USE SchedulerAssumption
<1>1. CASE Fire(w, k)     BY <1>1 DEF Fire, JobAt, SchedTypeOK
<1>2. CASE Try(w, k)      BY <1>2 DEF Try, FirstTo, JobAt, SchedTypeOK
<1>3. CASE Sends(w, k)    BY <1>3 DEF Sends, JobAt, SchedTypeOK
<1>4. CASE Bounces(w, k)  BY <1>4 DEF Bounces, MoreBad, JobAt, SchedTypeOK
<1>5. CASE GiveBack(w, k) BY <1>5 DEF GiveBack, JobAt, SchedTypeOK
<1>6. ASSUME NEW accepted \in BOOLEAN, Falters(w, k, accepted)
      PROVE  SchedTypeOK'
  BY <1>6 DEF Falters, MoreBad, JobAt, SchedTypeOK
<1> QED BY <1>1, <1>2, <1>3, <1>4, <1>5, <1>6 DEF ReminderStep

LEMMA NextTyped == SchedTypeOK /\ [SchedNext]_schedVars => SchedTypeOK'
<1> SUFFICES ASSUME SchedTypeOK, [SchedNext]_schedVars
             PROVE  SchedTypeOK'
  OBVIOUS
<1>1. CASE LetGo BY <1>1 DEF LetGo, SchedTypeOK
<1>2. ASSUME NEW w \in Worker, ElectionStep(w) PROVE SchedTypeOK'
  BY <1>2, ElectionTyped
<1>3. ASSUME NEW w \in Worker, NEW k \in Reminder, ReminderStep(w, k) PROVE SchedTypeOK'
  BY <1>3, ReminderTyped
<1>4. CASE UNCHANGED schedVars BY <1>4 DEF schedVars, SchedTypeOK
<1> QED BY <1>1, <1>2, <1>3, <1>4 DEF SchedNext, ElectionStep, ReminderStep

\* Every variable of the scheduler keeps its type.
THEOREM SchedulerTyped == SchedSpec => []SchedTypeOK
  BY InitTyped, NextTyped, PTL DEF SchedSpec

----------------------------------------------------------------------------
(* One scheduler.                                                          *)

LEMMA ElectionKept ==
    ASSUME ElectionInv, NEW w \in Worker, ElectionStep(w)
    PROVE  ElectedHolds' /\ LeaderRuns'
<1> USE SchedulerAssumption DEF ElectionInv, ElectedHolds, LeaderRuns, Elected, Stage, SchedTypeOK
<1>1. CASE Elect(w)      BY <1>1 DEF Elect
<1>2. CASE Begin(w)      BY <1>2 DEF Begin
<1>3. CASE BeginFails(w) BY <1>3 DEF BeginFails
<1>4. CASE Sever(w)      BY <1>4 DEF Sever, Breaks
<1>5. CASE Leave(w)      BY <1>5 DEF Leave, Halts
<1>6. CASE Unlock(w)     BY <1>6 DEF Unlock
<1>7. CASE WorkerDies(w) BY <1>7 DEF WorkerDies, Breaks
<1>8. CASE WorkerBack(w) BY <1>8 DEF WorkerBack
<1> QED BY <1>1, <1>2, <1>3, <1>4, <1>5, <1>6, <1>7, <1>8 DEF ElectionStep

\* A reminder's job touches neither the lock nor the schedulers.
LEMMA RemindersApart ==
    ASSUME NEW w \in Worker, NEW k \in Reminder, ReminderStep(w, k)
    PROVE  UNCHANGED <<holder, term, jobs, severed>>
  BY DEF ReminderStep, Fire, Try, Sends, Bounces, GiveBack, Falters

LEMMA ElectionInvInductive == ElectionInv /\ [SchedNext]_schedVars => ElectionInv'
<1> SUFFICES ASSUME ElectionInv, [SchedNext]_schedVars
             PROVE  ElectionInv'
  OBVIOUS
<1>1. SchedTypeOK' BY NextTyped DEF ElectionInv
<1>2. ElectedHolds' /\ LeaderRuns'
  <2>1. CASE LetGo
    BY <2>1, SchedulerAssumption DEF LetGo, ElectionInv, ElectedHolds, LeaderRuns, Elected
  <2>2. ASSUME NEW w \in Worker, ElectionStep(w) PROVE ElectedHolds' /\ LeaderRuns'
    BY <2>2, ElectionKept
  <2>3. ASSUME NEW w \in Worker, NEW k \in Reminder, ReminderStep(w, k)
        PROVE  ElectedHolds' /\ LeaderRuns'
    BY <2>3, RemindersApart DEF ElectionInv, ElectedHolds, LeaderRuns, Elected
  <2>4. CASE UNCHANGED schedVars
    BY <2>4 DEF schedVars, ElectionInv, ElectedHolds, LeaderRuns, Elected
  <2> QED BY <2>1, <2>2, <2>3, <2>4 DEF SchedNext, ElectionStep, ReminderStep
<1> QED BY <1>1, <1>2 DEF ElectionInv

\* However workers are elected, fail, lose their session or come back, jobs run
\* only in the worker that has the lock and in workers whose session broke and
\* that have not noticed it yet.
THEOREM SchedulerAlone == SchedSpec => []OneScheduler
<1>1. SchedInit => ElectionInv
  BY InitTyped DEF SchedInit, ElectionInv, ElectedHolds, LeaderRuns, Elected
<1>2. ElectionInv => OneScheduler
  BY DEF ElectionInv, ElectedHolds, LeaderRuns, Elected, OneScheduler
<1> QED BY <1>1, <1>2, ElectionInvInductive, PTL DEF SchedSpec

----------------------------------------------------------------------------
(* One message per reminder.                                               *)

LEMMA JobsEndKept ==
    ASSUME ReminderInv, NEW w \in Worker, JobsEnd(w), UNCHANGED <<keys, again>>
    PROVE  ClaimKeyed' /\ ClaimAlone' /\ ClaimFresh' /\ FreeFresh' /\ RemindedOnce'
<1>1. SchedTypeOK BY DEF ReminderInv
<1>2. /\ tick' = [tick EXCEPT ![w] = [k \in Reminder |-> "none"]]
      /\ \A k \in Reminder : \/ messages'[k] = messages[k]
                             \/ messages'[k] = messages[k] + 1 /\ tick[w][k] = "sending"
      /\ tick \in [Worker -> [Reminder -> {"none", "due", "sending", "failed"}]]
  BY <1>1, JobsEndCounts DEF SchedTypeOK
<1>3. \A v \in Worker, k \in Reminder : Claims(v, k)' => v # w /\ Claims(v, k)
  BY <1>2 DEF Claims
<1>4. \A k \in Reminder : messages[k] \in Nat /\ again[k] \in Nat
  BY <1>1 DEF SchedTypeOK
<1>5. ClaimKeyed' /\ ClaimAlone'
  BY <1>3 DEF ReminderInv, ClaimKeyed, ClaimAlone
<1>6. \A k \in Reminder : tick[w][k] = "sending" => Claims(w, k)
  BY DEF Claims
<1>7. ClaimFresh'
  BY <1>2, <1>3, <1>6 DEF ReminderInv, ClaimFresh, ClaimAlone
<1>8. FreeFresh'
  BY <1>2, <1>6 DEF ReminderInv, FreeFresh, ClaimKeyed
<1>9. RemindedOnce'
  BY <1>2, <1>4, <1>6 DEF ReminderInv, RemindedOnce, ClaimFresh
<1> QED BY <1>5, <1>7, <1>8, <1>9

LEMMA ReminderKept ==
    ASSUME ReminderInv, NEW w \in Worker, NEW k \in Reminder, ReminderStep(w, k)
    PROVE  ClaimKeyed' /\ ClaimAlone' /\ ClaimFresh' /\ FreeFresh' /\ RemindedOnce'
<1> USE SchedulerAssumption DEF ReminderInv, SchedTypeOK, JobAt, Claims,
          ClaimKeyed, ClaimAlone, ClaimFresh, FreeFresh, RemindedOnce
<1>1. CASE Fire(w, k)     BY <1>1 DEF Fire
<1>2. CASE Try(w, k)
  <2>1. CASE FirstTo(k) /\ JobAt(w, k, "sending")
    <3>1. \A v \in Worker : ~Claims(v, k) BY <2>1 DEF FirstTo
    <3>2. \A v \in Worker, r \in Reminder : Claims(v, r)' => Claims(v, r) \/ (v = w /\ r = k)
      BY <2>1
    <3>3. ClaimAlone' BY <3>1, <3>2
    <3>4. messages[k] <= again[k] BY <2>1 DEF FirstTo
    <3> QED BY <1>2, <2>1, <3>2, <3>3, <3>4 DEF Try, FirstTo
  <2>2. CASE k \in keys /\ JobAt(w, k, "none") /\ UNCHANGED keys
    BY <1>2, <2>2 DEF Try
  <2> QED BY <1>2, <2>1, <2>2 DEF Try
<1>3. CASE Sends(w, k)    BY <1>3 DEF Sends
<1>4. CASE Bounces(w, k)  BY <1>4 DEF Bounces
<1>5. CASE GiveBack(w, k) BY <1>5 DEF GiveBack
<1>6. ASSUME NEW accepted \in BOOLEAN, Falters(w, k, accepted)
      PROVE  ClaimKeyed' /\ ClaimAlone' /\ ClaimFresh' /\ FreeFresh' /\ RemindedOnce'
  BY <1>6 DEF Falters
<1> QED BY <1>1, <1>2, <1>3, <1>4, <1>5, <1>6 DEF ReminderStep

\* The election touches reminders only where it ends the jobs of a worker.
LEMMA ElectionApart ==
    ASSUME NEW w \in Worker, ElectionStep(w)
    PROVE  /\ UNCHANGED <<keys, again>>
           /\ JobsEnd(w) \/ UNCHANGED <<tick, messages>>
  BY DEF ElectionStep, Elect, Begin, BeginFails, Sever, Leave, Halts, Unlock, WorkerDies, WorkerBack

LEMMA ReminderInvInductive == ReminderInv /\ [SchedNext]_schedVars => ReminderInv'
<1> SUFFICES ASSUME ReminderInv, [SchedNext]_schedVars
             PROVE  ReminderInv'
  OBVIOUS
<1> DEFINE Still == ClaimKeyed' /\ ClaimAlone' /\ ClaimFresh' /\ FreeFresh' /\ RemindedOnce'
<1>1. SchedTypeOK' BY NextTyped DEF ReminderInv
<1>2. ASSUME UNCHANGED <<tick, messages, keys, again>> PROVE Still
  BY <1>2 DEF ReminderInv, Claims, ClaimKeyed, ClaimAlone, ClaimFresh, FreeFresh, RemindedOnce
<1>3. Still
  <2>1. CASE LetGo \/ UNCHANGED schedVars BY <1>2, <2>1 DEF LetGo, schedVars
  <2>2. ASSUME NEW w \in Worker, ElectionStep(w) PROVE Still
    BY <1>2, <2>2, ElectionApart, JobsEndKept
  <2>3. ASSUME NEW w \in Worker, NEW k \in Reminder, ReminderStep(w, k) PROVE Still
    BY <2>3, ReminderKept
  <2> QED BY <2>1, <2>2, <2>3 DEF SchedNext, ElectionStep, ReminderStep
<1> QED BY <1>1, <1>3 DEF ReminderInv

LEMMA ReminderInitInv == SchedInit => ReminderInv
  BY InitTyped DEF SchedInit, ReminderInv, Claims, ClaimKeyed, ClaimAlone, ClaimFresh, FreeFresh,
     RemindedOnce

\* A reminder goes out once, and a second time only after a failure that hid
\* an accepted message or gave back the claim of a queued one, however many
\* schedulers run at a time and wherever they are killed or cancelled.
THEOREM ReminderOnce == SchedSpec => []RemindedOnce
<1>1. ReminderInv => RemindedOnce BY DEF ReminderInv
<1> QED BY <1>1, ReminderInitInv, ReminderInvInductive, PTL DEF SchedSpec

----------------------------------------------------------------------------
(***************************************************************************)
(* Pickups booked in the chat.  A "haan" is read against the newest        *)
(* message of that moment, later than it was written: the summary it then  *)
(* confirms was in sight when it was written, for a summary that was       *)
(* neither newest nor on its way never becomes the newest again.  As long  *)
(* as no two bookings were checked side by side, one is being made at      *)
(* most, and only while every order is washed.                             *)
(***************************************************************************)
InSight(m) == replying[m].loaded \subseteq replying[m].sight

\* A summary that can no longer become the newest message.
Past(s) ==
    /\ s <= made /\ s # newest
    /\ \A n \in Message : replying[n].at = "sending" => s \notin replying[n].loaded

KeptIsMade  == pending \subseteq 1 .. made /\ newest <= made
SentIsMade  == \A m \in Message : replying[m].at = "sending" => replying[m].loaded \subseteq 1 .. made
TapInSight  ==
    \A m \in Message : replying[m].at = "read" /\ replying[m].said \in Tap =>
        replying[m].sight = {replying[m].said.for}
HaanInSight ==
    \A m \in Message : replying[m].at = "read" /\ replying[m].said \notin Tap =>
        \A s \in replying[m].loaded : s \in replying[m].sight \/ Past(s)
BookInSight == \A m \in Message : replying[m].at \in {"booking", "creating"} => InSight(m)

MadeAlone ==
    ~raced => /\ \A m, n \in At("creating") : m = n
              /\ At("creating") # {} => orders = washed
              /\ \A o, p \in orders \ washed : o = p

PickupInv ==
    /\ PickupTypeOK
    /\ KeptIsMade /\ SentIsMade /\ TapInSight /\ HaanInSight /\ BookInSight
    /\ BookedAsConfirmed /\ MadeAlone

LEMMA AtWorkHandles ==
    ASSUME PickupTypeOK, NEW m \in Message, replying[m].at \notin {"new", "done"}
    PROVE  replying[m] \in Handling
BY DEF PickupTypeOK, Nobody

LEMMA PickupInitTyped == PickupInit => PickupTypeOK
<1> SUFFICES ASSUME PickupInit PROVE PickupTypeOK OBVIOUS
<1>1. newest \in 0 .. MaxSummaries /\ made \in 0 .. MaxSummaries /\ mishaps \in 0 .. MaxMishaps
  BY PickupAssumption DEF PickupInit
<1>2. replying \in [Message -> {Nobody, [at |-> "done"]} \cup Handling] BY DEF PickupInit
<1> QED BY <1>1, <1>2 DEF PickupInit, PickupTypeOK, Kept

\* What the handler of one message does.
MessageStep(m) ==
    \/ \E said \in Text \cup Tap : Receive(m, said)
    \/ Confirm(m) \/ Cancel(m) \/ Chat(m) \/ Summarise(m) \/ SendSummary(m)
    \/ CheckDuplicate(m) \/ Create(m) \/ CreateFails(m)

LEMMA MessageTyped ==
    ASSUME PickupTypeOK, SentIsMade, NEW m \in Message, MessageStep(m)
    PROVE  PickupTypeOK'
<1> USE PickupAssumption
<1> DEFINE Ended == replying' = [replying EXCEPT ![m] = [at |-> "done"]]
           RepliesTyped == replying' \in [Message -> {Nobody, [at |-> "done"]} \cup Handling]
<1>1. Ended => RepliesTyped BY DEF PickupTypeOK
<1>2. ASSUME NEW phase \in {"booking", "creating", "sending"}, NEW ds \in Kept,
             replying[m].at \notin {"new", "done"},
             replying' = [replying EXCEPT ![m].at = phase, ![m].loaded = ds]
      PROVE  RepliesTyped
  <2>1. replying[m] \in Handling BY <1>2, AtWorkHandles
  <2>2. [replying[m] EXCEPT !.at = phase, !.loaded = ds] \in Handling BY <2>1 DEF Handling
  <2>3. replying' = [replying EXCEPT ![m] = [replying[m] EXCEPT !.at = phase, !.loaded = ds]]
    BY <1>2
  <2> QED BY <2>2, <2>3 DEF PickupTypeOK
<1>3. ASSUME NEW phase \in {"booking", "creating", "sending"},
             replying[m].at \notin {"new", "done"}, Become(m, phase)
      PROVE  RepliesTyped
  <2>1. replying[m] \in Handling BY <1>3, AtWorkHandles
  <2>2. [replying[m] EXCEPT !.at = phase] \in Handling BY <2>1 DEF Handling
  <2>3. replying' = [replying EXCEPT ![m] = [replying[m] EXCEPT !.at = phase]]
    BY <1>3 DEF Become
  <2> QED BY <2>2, <2>3 DEF PickupTypeOK
<1>4. ASSUME NEW said \in Text \cup Tap, Receive(m, said)
      PROVE  PickupTypeOK'
  <2>1. \A n \in At("sending") : replying[n].loaded \in SUBSET Summary
    BY AtWorkHandles DEF At, Handling, Kept
  <2>2. Sight(said) \in SUBSET Summary
    <3>1. CASE said \in Tap BY <3>1 DEF Sight, Tap
    <3>2. CASE said \notin Tap BY <2>1, <3>2 DEF Sight, PickupTypeOK, Summary
    <3> QED BY <3>1, <3>2
  <2>3. [at |-> "read", said |-> said, loaded |-> pending, sight |-> Sight(said)] \in Handling
    BY <1>4, <2>2 DEF PickupTypeOK, Handling
  <2> QED BY <1>4, <2>3 DEF Receive, PickupTypeOK
<1> HIDE DEF RepliesTyped, Ended
<1>5. CASE Confirm(m)
  <2>1. RepliesTyped BY <1>3, <1>5 DEF Confirm
  <2> QED BY <1>5, <2>1 DEF Confirm, PickupTypeOK, RepliesTyped, Kept
<1>6. CASE Cancel(m)
  BY <1>1, <1>6 DEF Cancel, Answer, End, PickupTypeOK, RepliesTyped, Ended, Kept
<1>7. CASE Chat(m)
  BY <1>1, <1>7 DEF Chat, Answer, End, PickupTypeOK, RepliesTyped, Ended
<1>8. CASE Summarise(m)
  <2>1. made' \in Summary /\ {made'} \in Kept /\ pending' = {made'}
    BY <1>8 DEF Summarise, Keeps, Kept
  <2>2. RepliesTyped BY <1>2, <1>8, <2>1 DEF Summarise
  <2> QED BY <1>8, <2>1, <2>2 DEF Summarise, PickupTypeOK, RepliesTyped, Summary
<1>9. CASE SendSummary(m)
  <2>1. replying[m].loaded \subseteq 1 .. made BY <1>9 DEF SendSummary, SentIsMade
  <2>2. newest' \in 0 .. MaxSummaries /\ delivered' \subseteq 1 .. made
    <3>1. newest \in 0 .. MaxSummaries /\ delivered \subseteq 1 .. made /\ made \in 0 .. MaxSummaries
      BY DEF PickupTypeOK
    <3>2. 1 .. made \subseteq 0 .. MaxSummaries BY <3>1, PickupAssumption
    <3>3. \/ newest' \in replying[m].loaded /\ delivered' = delivered \cup replying[m].loaded
          \/ UNCHANGED <<newest, delivered>>
      BY <1>9 DEF SendSummary
    <3> QED BY <2>1, <3>1, <3>2, <3>3
  <2> QED BY <1>1, <1>9, <2>2 DEF SendSummary, End, PickupTypeOK, RepliesTyped, Ended
<1>10. CASE CheckDuplicate(m)
  <2>1. RepliesTyped BY <1>1, <1>3, <1>10 DEF CheckDuplicate, Answer, End, Ended
  <2>2. newest' \in 0 .. MaxSummaries BY <1>10 DEF CheckDuplicate, Answer, PickupTypeOK
  <2>3. raced' \in BOOLEAN BY <1>10, Zenon DEF CheckDuplicate, PickupTypeOK
  <2> QED BY <1>10, <2>1, <2>2, <2>3 DEF CheckDuplicate, PickupTypeOK, RepliesTyped
<1>11. CASE Create(m)
  <2>1. replying[m] \in Handling BY <1>11, AtWorkHandles DEF Create
  <2>2. orders' \subseteq Order /\ orders \subseteq orders'
    BY <1>11, <2>1 DEF Create, Handling, Kept, Order, PickupTypeOK
  <2> QED BY <1>1, <1>11, <2>2 DEF Create, Answer, End, PickupTypeOK, RepliesTyped, Ended
<1>12. CASE CreateFails(m)
  BY <1>1, <1>12 DEF CreateFails, Answer, End, PickupTypeOK, RepliesTyped, Ended
<1> QED BY <1>4, <1>5, <1>6, <1>7, <1>8, <1>9, <1>10, <1>11, <1>12 DEF MessageStep

LEMMA OneHandlerMoves ==
    ASSUME PickupTypeOK, NEW m \in Message, MessageStep(m)
    PROVE  /\ \A n \in Message : n # m => replying'[n] = replying[n]
           /\ made' \in Nat /\ made <= made'
BY DEF MessageStep, Receive, Confirm, Cancel, Chat, Summarise, SendSummary, CheckDuplicate, Create,
   CreateFails, Become, Answer, End, PickupTypeOK, Summary

\* What m's handler has become.
LEMMA HandlerMoves ==
    ASSUME PickupTypeOK, NEW m \in Message, MessageStep(m)
    PROVE  \/ replying'[m] = [at |-> "done"]
           \/ \E said \in Text \cup Tap : Receive(m, said)
           \/ /\ Confirm(m) /\ replying'[m].at = "booking"
              /\ replying'[m].loaded = replying[m].loaded /\ replying'[m].sight = replying[m].sight
           \/ Summarise(m) /\ replying'[m].at = "sending" /\ replying'[m].loaded = {made + 1}
           \/ /\ CheckDuplicate(m) /\ replying'[m].at = "creating"
              /\ replying'[m].loaded = replying[m].loaded /\ replying'[m].sight = replying[m].sight
<1>1. CASE \E said \in Text \cup Tap : Receive(m, said) BY <1>1
<1>2. CASE Confirm(m)
  <2>1. replying[m] \in Handling BY <1>2, AtWorkHandles DEF Confirm
  <2>2. replying'[m] = [replying[m] EXCEPT !.at = "booking"]
    BY <1>2 DEF Confirm, Become, PickupTypeOK
  <2> QED BY <1>2, <2>1, <2>2 DEF Handling
<1>3. CASE Summarise(m)
  <2>1. replying[m] \in Handling BY <1>3, AtWorkHandles DEF Summarise
  <2>2. replying'[m] = [replying[m] EXCEPT !.at = "sending", !.loaded = {made + 1}]
    BY <1>3 DEF Summarise, PickupTypeOK
  <2> QED BY <1>3, <2>1, <2>2 DEF Handling
<1>4. CASE CheckDuplicate(m) /\ Become(m, "creating")
  <2>1. replying[m] \in Handling BY <1>4, AtWorkHandles DEF CheckDuplicate
  <2>2. replying'[m] = [replying[m] EXCEPT !.at = "creating"] BY <1>4 DEF Become, PickupTypeOK
  <2> QED BY <1>4, <2>1, <2>2 DEF Handling
<1>5. CASE End(m) BY <1>5 DEF End, PickupTypeOK
<1> QED BY <1>1, <1>2, <1>3, <1>4, <1>5 DEF MessageStep, Cancel, Chat, SendSummary, CheckDuplicate,
   Create, CreateFails, Answer

\* The newest message stays, or is another one, or the summary m's handler sent.
LEMMA NewestMoves ==
    ASSUME PickupTypeOK, NEW m \in Message, MessageStep(m)
    PROVE  newest' \in {0, newest} \/ (replying[m].at = "sending" /\ newest' \in replying[m].loaded)
BY DEF MessageStep, Receive, Confirm, Cancel, Chat, Summarise, SendSummary, CheckDuplicate, Create,
   CreateFails, Answer

LEMMA PastStays ==
    ASSUME PickupInv, NEW m \in Message, MessageStep(m), NEW s \in Summary, Past(s)
    PROVE  Past(s)'
<1>1. PickupTypeOK BY DEF PickupInv
<1>2. s <= made' /\ s # made + 1 BY <1>1, OneHandlerMoves DEF Past, Summary, PickupTypeOK
<1>3. s # newest' BY <1>1, NewestMoves DEF Past, Summary
<1>4. ASSUME NEW n \in Message, replying'[n].at = "sending" PROVE s \notin replying'[n].loaded
  <2>1. CASE n # m BY <1>1, <1>4, <2>1, OneHandlerMoves DEF Past
  <2>2. CASE n = m
    <3>1. replying'[m].loaded = {made + 1}
      BY <1>1, <1>4, <2>2, HandlerMoves DEF Receive, PickupTypeOK
    <3> QED BY <1>2, <2>2, <3>1
  <2> QED BY <2>1, <2>2
<1> QED BY <1>2, <1>3, <1>4 DEF Past

LEMMA SightKept ==
    ASSUME PickupInv, NEW m \in Message, MessageStep(m)
    PROVE  KeptIsMade' /\ SentIsMade' /\ TapInSight' /\ HaanInSight' /\ BookInSight'
<1>1. PickupTypeOK /\ SentIsMade /\ KeptIsMade /\ TapInSight /\ HaanInSight /\ BookInSight
  BY DEF PickupInv
<1> DEFINE Mine(n) ==
      /\ replying'[n].at = "sending" => replying'[n].loaded \subseteq 1 .. made'
      /\ replying'[n].at = "read" /\ replying'[n].said \in Tap =>
            replying'[n].sight = {replying'[n].said.for}
      /\ replying'[n].at = "read" /\ replying'[n].said \notin Tap =>
            \A s \in replying'[n].loaded : s \in replying'[n].sight \/ Past(s)'
      /\ replying'[n].at \in {"booking", "creating"} => replying'[n].loaded \subseteq replying'[n].sight
<1>2. \A n \in Message : n # m => Mine(n)
  <2> SUFFICES ASSUME NEW n \in Message, n # m PROVE Mine(n) OBVIOUS
  <2>1. replying'[n] = replying[n] BY <1>1, OneHandlerMoves
  <2>2. made' \in Nat /\ made \in Nat /\ made <= made'
    BY <1>1, OneHandlerMoves DEF PickupTypeOK
  <2>3. 1 .. made \subseteq 1 .. made' BY <2>2
  <2>4. ASSUME replying[n].at = "read", NEW s \in replying[n].loaded, Past(s) PROVE Past(s)'
    <3>1. s \in Summary BY <1>1, <2>4, AtWorkHandles DEF Handling, Kept
    <3> QED BY <2>4, <3>1, PastStays
  <2> QED BY <1>1, <2>1, <2>3, <2>4 DEF SentIsMade, TapInSight, HaanInSight, BookInSight, InSight
<1>3. Mine(m)
  <2>1. CASE replying'[m] = [at |-> "done"] BY <2>1
  <2>2. ASSUME NEW said \in Text \cup Tap, Receive(m, said) PROVE Mine(m)
    <3>1. replying'[m] = [at |-> "read", said |-> said, loaded |-> pending, sight |-> Sight(said)]
      BY <1>1, <2>2 DEF Receive, PickupTypeOK
    <3>2. CASE said \in Tap BY <3>1, <3>2 DEF Sight
    <3>3. CASE said \notin Tap
      <4>1. ASSUME NEW s \in pending, s \notin Sight(said) PROVE Past(s)'
        <5>1. s <= made /\ s # 0 BY <1>1, <4>1 DEF KeptIsMade, PickupTypeOK
        <5>2. s # newest BY <3>3, <4>1, <5>1 DEF Sight
        <5>3. \A n \in Message : replying[n].at = "sending" => s \notin replying[n].loaded
          BY <3>3, <4>1, <5>1 DEF Sight, At
        <5> QED BY <1>1, <2>2, <3>1, <5>1, <5>2, <5>3, OneHandlerMoves DEF Past, Receive
      <4> QED BY <3>1, <3>3, <4>1
    <3> QED BY <3>2, <3>3
  <2>3. ASSUME Confirm(m), replying'[m].at = "booking",
               replying'[m].loaded = replying[m].loaded, replying'[m].sight = replying[m].sight
        PROVE  Mine(m)
    <3>1. replying[m] \in Handling BY <1>1, <2>3, AtWorkHandles DEF Confirm
    <3>2. PICK t \in Summary : replying[m].loaded = {t} BY <2>3, <3>1 DEF Confirm, Handling, Kept
    <3>3. t \in replying[m].sight
      <4>1. CASE replying[m].said.say = "yes" /\ replying[m].said.for \in replying[m].loaded
        <5>1. replying[m].said \in Tap BY <3>1, <4>1 DEF Handling, Text
        <5> QED BY <1>1, <2>3, <3>2, <4>1, <5>1 DEF Confirm, TapInSight
      <4>2. CASE replying[m].said.say = "haan" /\ newest \in replying[m].loaded
        <5>1. replying[m].said \notin Tap BY <4>2 DEF Tap
        <5> QED BY <1>1, <2>3, <3>2, <4>2, <5>1 DEF Confirm, HaanInSight, Past
      <4> QED BY <2>3, <4>1, <4>2 DEF Confirm, Confirms
    <3> QED BY <2>3, <3>2, <3>3
  <2>4. ASSUME Summarise(m), replying'[m].at = "sending", replying'[m].loaded = {made + 1}
        PROVE  Mine(m)
    <3>1. made' = made + 1 /\ made \in Nat BY <2>4, <1>1 DEF Summarise, PickupTypeOK
    <3>2. {made + 1} \subseteq 1 .. made' BY <3>1
    <3> QED BY <2>4, <3>2
  <2>5. ASSUME CheckDuplicate(m), replying'[m].at = "creating",
               replying'[m].loaded = replying[m].loaded, replying'[m].sight = replying[m].sight
        PROVE  Mine(m)
    BY <1>1, <2>5 DEF CheckDuplicate, BookInSight, InSight
  <2> HIDE DEF Mine
  <2> QED BY <1>1, <2>1, <2>2, <2>3, <2>4, <2>5, HandlerMoves
<1>4. KeptIsMade'
  <2>1. made' \in Nat /\ made \in Nat /\ made <= made' /\ newest \in Nat
    BY <1>1, OneHandlerMoves DEF PickupTypeOK
  <2>2. newest' <= made'
    <3>1. CASE newest' \in {0, newest} BY <1>1, <2>1, <3>1 DEF KeptIsMade
    <3>2. CASE replying[m].at = "sending" /\ newest' \in replying[m].loaded
      BY <1>1, <2>1, <3>2 DEF SentIsMade
    <3> QED BY <1>1, <3>1, <3>2, NewestMoves
  <2>3. pending' \subseteq 1 .. made'
    <3>1. CASE pending' \subseteq pending BY <1>1, <2>1, <3>1 DEF KeptIsMade
    <3>2. CASE pending' = {made + 1} /\ made' = made + 1 BY <2>1, <3>2
    <3> QED BY <3>1, <3>2 DEF MessageStep, Receive, Confirm, Cancel, Chat, Summarise, Keeps,
              SendSummary, CheckDuplicate, Create, CreateFails
  <2> QED BY <2>2, <2>3 DEF KeptIsMade
<1> QED BY <1>2, <1>3, <1>4 DEF SentIsMade, TapInSight, HaanInSight, BookInSight, InSight

LEMMA OrdersKept ==
    ASSUME PickupInv, NEW m \in Message, MessageStep(m)
    PROVE  BookedAsConfirmed' /\ MadeAlone'
<1>1. PickupTypeOK /\ BookInSight /\ BookedAsConfirmed /\ MadeAlone BY DEF PickupInv
<1>2. \A n \in Message : n # m => replying'[n] = replying[n] BY <1>1, OneHandlerMoves
<1>3. washed' = washed
  BY DEF MessageStep, Receive, Confirm, Cancel, Chat, Summarise, SendSummary, CheckDuplicate, Create,
     CreateFails
<1>4. CASE Create(m)
  <2>1. replying[m] \in Handling BY <1>1, <1>4, AtWorkHandles DEF Create
  <2>2. replying[m].at = "creating" /\ replying'[m].at = "done" /\ raced' = raced
    BY <1>1, <1>4 DEF Create, Answer, End, PickupTypeOK
  <2>3. orders' = orders \cup {[from |-> s, by |-> m, sight |-> replying[m].sight] :
                                s \in replying[m].loaded}
    BY <1>4 DEF Create
  <2>4. BookedAsConfirmed'
    BY <1>1, <2>2, <2>3 DEF BookInSight, InSight, BookedAsConfirmed
  <2>5. ASSUME ~raced PROVE At("creating")' = {} /\ orders = washed
    BY <1>1, <1>2, <2>2, <2>5 DEF MadeAlone, At
  <2>6. ASSUME ~raced, NEW o \in orders' \ washed', NEW p \in orders' \ washed' PROVE o = p
    <3>1. replying[m].loaded = {} \/ \E s \in Summary : replying[m].loaded = {s}
      BY <2>1 DEF Handling, Kept
    <3> QED BY <1>3, <2>3, <2>5, <2>6, <3>1
  <2> QED BY <2>2, <2>4, <2>5, <2>6 DEF MadeAlone
<1>5. CASE CheckDuplicate(m) /\ replying'[m].at = "creating"
  <2>1. orders = washed /\ orders' = orders /\ (raced' <=> (raced \/ At("creating") # {}))
    <3>1. ~End(m) BY <1>1, <1>5 DEF End, PickupTypeOK
    <3> QED BY <1>5, <3>1, Zenon DEF CheckDuplicate, Answer
  <2>2. ASSUME ~raced', NEW n \in At("creating")' PROVE n = m
    BY <1>2, <2>1, <2>2 DEF At
  <2> QED BY <1>1, <1>3, <2>1, <2>2 DEF BookedAsConfirmed, MadeAlone
<1>6. CASE ~Create(m) /\ replying'[m].at # "creating"
  <2>1. orders' = orders /\ (raced' <=> raced)
    <3>1. CASE CheckDuplicate(m)
      <4>1. ~Become(m, "creating")
        <5> SUFFICES ASSUME Become(m, "creating") PROVE FALSE OBVIOUS
        <5>1. replying[m] \in Handling BY <1>1, <3>1, AtWorkHandles DEF CheckDuplicate
        <5>2. replying'[m] = [replying[m] EXCEPT !.at = "creating"]
          BY <1>1 DEF Become, PickupTypeOK
        <5> QED BY <1>6, <5>1, <5>2 DEF Handling
      <4> QED BY <3>1, <4>1 DEF CheckDuplicate
    <3>2. CASE ~CheckDuplicate(m)
      BY <1>6, <3>2 DEF MessageStep, Receive, Confirm, Cancel, Chat, Summarise, SendSummary, CreateFails
    <3> QED BY <3>1, <3>2
  <2>2. At("creating")' \subseteq At("creating") BY <1>2, <1>6 DEF At
  <2>3. ASSUME ~raced, NEW n \in At("creating")', NEW l \in At("creating")' PROVE n = l
    BY <1>1, <2>2, <2>3 DEF MadeAlone
  <2>4. BookedAsConfirmed' BY <1>1, <2>1 DEF BookedAsConfirmed
  <2> HIDE DEF At
  <2> QED BY <1>1, <1>3, <2>1, <2>2, <2>3, <2>4 DEF MadeAlone
<1>7. replying'[m].at = "creating" => CheckDuplicate(m)
  BY <1>1, HandlerMoves DEF Receive, PickupTypeOK
<1> QED BY <1>4, <1>5, <1>6, <1>7

\* The laundry moves on, or the process dies.
LEMMA PickupApart ==
    ASSUME PickupInv, Die \/ (\E o \in orders : Wash(o))
    PROVE  PickupInv'
<1>1. CASE Die
  <2>1. \A m \in Message : replying'[m].at \in {"new", "done"} BY <1>1 DEF Die, Nobody
  <2>2. PickupTypeOK' BY <1>1, PickupAssumption DEF Die, PickupInv, PickupTypeOK, Nobody
  <2>3. At("creating")' = {} BY <2>1 DEF At
  <2> QED BY <1>1, <2>1, <2>2, <2>3 DEF Die, PickupInv, KeptIsMade, SentIsMade, TapInSight,
          HaanInSight, BookInSight, BookedAsConfirmed, MadeAlone
<1>2. ASSUME NEW o \in orders, Wash(o) PROVE PickupInv'
  <2>1. PickupTypeOK' BY <1>2 DEF Wash, PickupInv, PickupTypeOK
  <2>2. At("creating")' = At("creating") BY <1>2 DEF Wash, At
  <2>3. At("creating") # {} /\ ~raced => orders' = washed'
    BY <1>2 DEF Wash, PickupInv, MadeAlone
  <2>4. ~raced => \A p, q \in orders' \ washed' : p = q
    BY <1>2 DEF Wash, PickupInv, MadeAlone
  <2>5. MadeAlone' BY <1>2, <2>2, <2>3, <2>4 DEF MadeAlone, Wash, PickupInv
  <2> QED BY <1>2, <2>1, <2>5 DEF Wash, PickupInv, KeptIsMade, SentIsMade, TapInSight, HaanInSight,
          BookInSight, InSight, BookedAsConfirmed, Past
<1> QED BY <1>1, <1>2

LEMMA PickupInvInductive == PickupInv /\ [PickupNext]_pickupVars => PickupInv'
<1> SUFFICES ASSUME PickupInv, [PickupNext]_pickupVars
             PROVE  PickupInv'
  OBVIOUS
<1>1. ASSUME NEW m \in Message, MessageStep(m) PROVE PickupInv'
  <2>1. PickupTypeOK' BY <1>1, MessageTyped DEF PickupInv
  <2> QED BY <1>1, <2>1, SightKept, OrdersKept DEF PickupInv
<1>2. CASE UNCHANGED pickupVars
  BY <1>2 DEF pickupVars, PickupInv, PickupTypeOK, KeptIsMade, SentIsMade, TapInSight, HaanInSight,
     BookInSight, InSight, BookedAsConfirmed, MadeAlone, At, Past
<1> QED BY <1>1, <1>2, PickupApart DEF PickupNext, MessageStep

LEMMA PickupInvInit == PickupInit => PickupInv
<1> SUFFICES ASSUME PickupInit PROVE PickupInv OBVIOUS
<1>1. PickupTypeOK BY PickupInitTyped
<1>2. \A m \in Message : replying[m].at = "new" BY DEF PickupInit, Nobody
<1>3. At("creating") = {} BY <1>2 DEF At
<1> QED BY <1>1, <1>2, <1>3 DEF PickupInit, PickupInv, KeptIsMade, SentIsMade, TapInSight,
        HaanInSight, BookInSight, BookedAsConfirmed, MadeAlone

\* The variables of a chat keep their types: what was delivered was made, and
\* what was washed was booked.
THEOREM PickupTyped == PickupSpec => []PickupTypeOK
<1>1. PickupInv => PickupTypeOK BY DEF PickupInv
<1> QED BY <1>1, PickupInvInit, PickupInvInductive, PTL DEF PickupSpec

\* Two unwashed pickups of one chat come of confirmations checked together.
LEMMA PickupInvHolds == PickupInv => BookingsHeld
<1> SUFFICES ASSUME PickupInv, Cardinality(orders \ washed) > 1, ~raced PROVE FALSE
  BY DEF PickupInv, BookingsHeld, StackedByRace
<1>1. \A o, p \in orders \ washed : o = p BY DEF PickupInv, MadeAlone
<1>2. orders \ washed = {} \/ \E o : orders \ washed = {o} BY <1>1
<1>3. CASE orders \ washed = {} BY <1>3, FS_EmptySet
<1>4. CASE \E o : orders \ washed = {o}
  <2>1. Cardinality(orders \ washed) = 1 BY <1>4, FS_Singleton
  <2> QED BY <2>1
<1> QED BY <1>2, <1>3, <1>4

\* A pickup is booked from the summary its customer confirmed, however many
\* messages are handled side by side and whatever is made in between, and two
\* unwashed pickups come of two confirmations that were checked together only.
THEOREM PickupConfirmed == PickupSpec => []BookingsHeld
<1>1. PickupInv => BookingsHeld BY PickupInvHolds
<1> QED BY <1>1, PickupInvInit, PickupInvInductive, PTL DEF PickupSpec

----------------------------------------------------------------------------
(***************************************************************************)
(* What the staff dictate.  A draft that was not made and reported failed  *)
(* is in one place at a time: in the slot, with the one message carrying   *)
(* it out, or carried out.  So is the bill of a slip that was not claimed  *)
(* beside a correction: while it is made, and once it is booked, no bill   *)
(* of that slip is parked or can still be read into a new draft.           *)
(***************************************************************************)
BillOf(d, s) == d.kind = "bill" /\ d.slip = s
HasBill(ds, s) == \E d \in ds : BillOf(d, s)

Making(m, d) == handling[m].at = "creating" /\ d \in handling[m].seen
Makes(m, s)  == handling[m].at = "creating" /\ HasBill(handling[m].seen, s)
\* A new draft of the slip may come of what m has seen.
Corrects(m, s) ==
    /\ \/ handling[m].at = "read" /\ handling[m].said.say = "slip"
       \/ handling[m].at = "composing" /\ handling[m].kind = "bill"
    /\ HasBill(handling[m].seen, s)
Booked(s) == \E e \in effects : BillOf(e[1], s)

Uncontested(s) == s \notin contested \cup Slips(unclear)

DraftsNumbered ==
    /\ IsFiniteSet(drafted)
    /\ \A d \in drafted : d.id <= Cardinality(drafted) /\ d.slip <= d.id
    /\ \A b, d \in drafted : BillOf(b, d.slip) => d.kind = "bill"
SeenIsDrafted ==
    parked \subseteq drafted /\ \A m \in Dictation :
        handling[m].at \notin {"idle", "done"} => handling[m].seen \subseteq drafted

DraftInOnePlace ==
    \A d \in drafted \ unclear :
        /\ \A m \in Dictation : Making(m, d) =>
              /\ d \notin parked
              /\ \A n \in Dictation : (Making(n, d) => n = m) /\ <<d, n>> \notin effects
        /\ \A m \in Dictation : <<d, m>> \in effects =>
              d \notin parked /\ \A n \in Dictation : <<d, n>> \in effects => n = m

SlipInOnePlace ==
    \A s \in 1 .. MaxDrafts : Uncontested(s) =>
        /\ \A m \in Dictation : Makes(m, s) =>
              /\ ~HasBill(parked, s) /\ ~Booked(s)
              /\ \A n \in Dictation : (Makes(n, s) => n = m) /\ ~Corrects(n, s)
        /\ Booked(s) => ~HasBill(parked, s) /\ \A n \in Dictation : ~Corrects(n, s)
        /\ \A e, f \in effects : BillOf(e[1], s) /\ BillOf(f[1], s) => e = f

StaffBase == DeskTypeOK /\ DraftsNumbered /\ SeenIsDrafted
StaffInv  == StaffBase /\ DraftInOnePlace /\ SlipInOnePlace

LEMMA HandlingShapes ==
    ASSUME DeskTypeOK, NEW m \in Dictation
    PROVE  /\ handling[m].at = "read" => handling[m] \in Heard
           /\ handling[m].at \in {"composing", "showing", "deciding", "creating"} =>
                 handling[m] \in Work
           /\ handling[m].at \notin {"idle", "done"} => handling[m].seen \in Slot
BY DEF DeskTypeOK, Unheard, Done, Heard, Work

\* A step of one message's handler ends it, or has it go on with what it saw.
LEMMA GoesTyped ==
    ASSUME DeskTypeOK, NEW m \in Dictation, NEW phase \in {"showing", "deciding", "creating"},
           NEW ds \in Slot, Goes(m, phase, ds) \/ Ends(m)
    PROVE  handling' \in [Dictation -> {Unheard, Done} \cup Heard \cup Work]
BY DEF DeskTypeOK, Goes, Ends, Work

\* What one message's handler does.
DictationStep(m) ==
    \/ \E said \in Speech \cup Press : Hear(m, said)
    \/ Noted(m) \/ Interpret(m) \/ Park(m) \/ Show(m)
    \/ Accept(m) \/ Refuse(m) \/ Claim(m) \/ Decline(m)
    \/ CarryOut(m) \/ Fail(m)

LEMMA ParkedIsNew ==
    ASSUME StaffBase, NEW m \in Dictation, Park(m)
    PROVE  \E d \in Draft :
              /\ handling[m].at \in {"composing", "read"}
              /\ d \notin drafted /\ d.id = Cardinality(drafted) + 1 /\ d.slip <= d.id
              /\ drafted' = drafted \cup {d} /\ parked' = {d} /\ Goes(m, "showing", {d})
              /\ \/ d.slip = d.id
                 \/ handling[m].at = "composing" /\ handling[m].kind = "bill"
                    /\ d.kind = "bill" /\ HasBill(handling[m].seen, d.slip)
<1> DEFINE h    == handling[m]
           id   == Cardinality(drafted) + 1
           kind == IF h.at = "composing" THEN h.kind ELSE "note"
<1>1. Cardinality(drafted) \in Nat BY FS_CardinalityType DEF StaffBase, DraftsNumbered
<1>2. h.at \in {"composing", "read"} /\ id \in 1 .. MaxDrafts
  BY <1>1, DeskAssumption DEF Park
<1>3. h.at = "composing" => h.kind \in {"bill", "pay"}
  BY HandlingShapes DEF StaffBase, Work
<1>4. kind \in {"bill", "pay", "note"} BY <1>3
<1>5. h.seen \subseteq drafted /\ drafted \subseteq Draft
  BY <1>2 DEF StaffBase, SeenIsDrafted, DeskTypeOK
<1> HIDE DEF kind
<1>6. PICK slip \in {id} \cup (IF kind = "bill" THEN Slips({d \in h.seen : d.kind = "bill"}) ELSE {}) :
         /\ drafted' = drafted \cup {[id |-> id, kind |-> kind, slip |-> slip]}
         /\ parked' = {[id |-> id, kind |-> kind, slip |-> slip]}
         /\ Goes(m, "showing", {[id |-> id, kind |-> kind, slip |-> slip]})
  BY DEF Park, kind
<1> DEFINE d == [id |-> id, kind |-> kind, slip |-> slip]
<1>7. CASE slip = id
  <2>1. d \in Draft BY <1>2, <1>4, <1>7 DEF Draft
  <2>2. d \notin drafted BY <1>1 DEF StaffBase, DraftsNumbered
  <2>3. d.id = id /\ d.slip = id /\ d.slip <= d.id BY <1>1, <1>7
  <2> HIDE DEF d
  <2> QED BY <1>2, <1>6, <2>1, <2>2, <2>3 DEF d
<1>8. CASE slip # id
  <2>1. kind = "bill" /\ h.at = "composing" /\ h.kind = "bill" BY <1>6, <1>8 DEF kind
  <2>2. PICK b \in h.seen : b.kind = "bill" /\ b.slip = slip BY <1>6, <1>8 DEF Slips
  <2>3. b \in Draft /\ b.slip <= b.id /\ b.id <= Cardinality(drafted)
    BY <1>5, <2>2 DEF StaffBase, DraftsNumbered
  <2>4. slip \in 1 .. MaxDrafts /\ slip <= id BY <1>1, <2>2, <2>3 DEF Draft
  <2>5. d \in Draft BY <1>2, <1>4, <2>4 DEF Draft
  <2>6. d \notin drafted BY <1>1 DEF StaffBase, DraftsNumbered
  <2>7. HasBill(h.seen, slip) BY <2>2 DEF HasBill, BillOf
  <2> QED BY <1>1, <1>2, <1>6, <2>1, <2>4, <2>5, <2>6, <2>7
<1> QED BY <1>7, <1>8

LEMMA DictationTyped ==
    ASSUME StaffBase, NEW m \in Dictation, DictationStep(m)
    PROVE  StaffBase'
<1> USE DeskAssumption
<1>1. DeskTypeOK /\ DraftsNumbered /\ SeenIsDrafted BY DEF StaffBase
<1> DEFINE HandlingTyped == handling' \in [Dictation -> {Unheard, Done} \cup Heard \cup Work]
           SeenKept == \A n \in Dictation :
               handling'[n].at \notin {"idle", "done"} => handling'[n].seen \subseteq drafted'
           Based == HandlingTyped /\ SeenKept
<1>2. ASSUME drafted \subseteq drafted',
             \/ Ends(m)
             \/ \E phase \in {"showing", "deciding", "creating"}, ds \in Slot :
                   ds \subseteq drafted' /\ Goes(m, phase, ds)
      PROVE  Based
  <2>1. HandlingTyped BY <1>1, <1>2, GoesTyped DEF DeskTypeOK, Ends
  <2>2. SeenKept BY <1>1, <1>2 DEF SeenIsDrafted, DeskTypeOK, Ends, Goes, Done
  <2> QED BY <2>1, <2>2
<1> HIDE DEF Based
<1>3. ASSUME Based, UNCHANGED drafted, parked' \subseteq drafted, parked' \in Slot,
             shown' \subseteq drafted, effects' \subseteq drafted \X Dictation,
             unclear' \subseteq drafted, contested' \subseteq 1 .. MaxDrafts, faults' \in 0 .. MaxFaults
      PROVE  StaffBase'
  BY <1>1, <1>3 DEF Based, StaffBase, DeskTypeOK, DraftsNumbered, SeenIsDrafted
<1>4. {} \in Slot /\ {} \subseteq drafted /\ parked \in Slot /\ parked \subseteq drafted
  BY <1>1 DEF Slot, DeskTypeOK, SeenIsDrafted
<1>5. handling[m].at \notin {"idle", "done"} =>
         handling[m].seen \in Slot /\ handling[m].seen \subseteq drafted
  BY <1>1, HandlingShapes DEF SeenIsDrafted
<1>6. ASSUME NEW said \in Speech \cup Press, Hear(m, said) PROVE StaffBase'
  <2>1. parked' \in Slot /\ parked' \subseteq drafted BY <1>4, <1>6 DEF Hear
  <2>2. [at |-> "read", said |-> said, seen |-> parked'] \in Heard BY <2>1 DEF Heard
  <2>3. HandlingTyped BY <1>1, <1>6, <2>2 DEF Hear, DeskTypeOK
  <2>4. SeenKept BY <1>1, <1>6, <2>1 DEF Hear, DeskTypeOK, SeenIsDrafted
  <2> QED BY <1>1, <1>3, <1>6, <2>1, <2>3, <2>4 DEF Hear, DeskTypeOK, Based
<1>7. CASE Noted(m)
  BY <1>1, <1>2, <1>3, <1>4, <1>7 DEF Noted, DeskTypeOK
<1>8. CASE Interpret(m)
  <2>1. PICK kind \in {"bill", "pay"} : handling' =
           [handling EXCEPT ![m] = [at |-> "composing", kind |-> kind, seen |-> handling[m].seen]]
    BY <1>8 DEF Interpret
  <2>2. handling[m].at = "read" BY <1>8 DEF Interpret
  <2>3. [at |-> "composing", kind |-> kind, seen |-> handling[m].seen] \in Work
    BY <1>5, <2>2 DEF Work
  <2>4. HandlingTyped BY <1>1, <2>1, <2>3 DEF DeskTypeOK
  <2>5. SeenKept BY <1>1, <1>5, <1>8, <2>1, <2>2 DEF Interpret, DeskTypeOK, SeenIsDrafted
  <2> QED BY <1>1, <1>3, <1>4, <1>8, <2>4, <2>5 DEF Interpret, DeskTypeOK, Based
<1>9. CASE Park(m)
  <2>1. PICK d \in Draft :
          /\ handling[m].at \in {"composing", "read"}
          /\ d \notin drafted /\ d.id = Cardinality(drafted) + 1 /\ d.slip <= d.id
          /\ drafted' = drafted \cup {d} /\ parked' = {d} /\ Goes(m, "showing", {d})
          /\ \/ d.slip = d.id
             \/ d.kind = "bill" /\ HasBill(handling[m].seen, d.slip)
    BY <1>9, ParkedIsNew
  <2>2. {d} \in Slot /\ {d} \subseteq drafted' BY <2>1 DEF Slot
  <2>3. Based BY <1>2, <2>1, <2>2
  <2>4. IsFiniteSet(drafted') /\ Cardinality(drafted') = Cardinality(drafted) + 1
    BY <1>1, <2>1, FS_AddElement DEF DraftsNumbered
  <2>5. Cardinality(drafted) \in Nat BY <1>1, FS_CardinalityType DEF DraftsNumbered
  <2>6. \A b \in drafted : b.id \in Nat /\ b.slip \in Nat BY <1>1 DEF DeskTypeOK, Draft
  <2>7. \A b \in drafted' : b.id <= Cardinality(drafted') /\ b.slip <= b.id
    BY <1>1, <2>1, <2>4, <2>5, <2>6 DEF DraftsNumbered
  <2>8. d.slip = d.id => \A b \in drafted : b.slip # d.slip
    BY <1>1, <2>1, <2>5, <2>6 DEF DraftsNumbered
  <2>9. HasBill(handling[m].seen, d.slip) => HasBill(drafted, d.slip)
    BY <1>5, <2>1 DEF HasBill
  <2>10. \A b, c \in drafted' : BillOf(b, c.slip) => c.kind = "bill"
    BY <1>1, <2>1, <2>8, <2>9 DEF DraftsNumbered, BillOf, HasBill
  <2>11. DraftsNumbered' BY <2>4, <2>7, <2>10 DEF DraftsNumbered
  <2> QED BY <1>1, <1>9, <2>1, <2>2, <2>3, <2>11
          DEF Park, Based, StaffBase, DeskTypeOK, SeenIsDrafted
<1>10. CASE Show(m)
  BY <1>1, <1>2, <1>3, <1>4, <1>5, <1>10 DEF Show, DeskTypeOK
<1>11. CASE Accept(m)
  <2>1. Of(handling[m].said.kind) = {} \/ Of(handling[m].said.kind) = parked
    BY <1>4 DEF Of, Slot
  <2>2. Based BY <1>2, <1>4, <1>5, <1>11, <2>1 DEF Accept
  <2> QED BY <1>1, <1>3, <1>4, <1>11, <2>2 DEF Accept, DeskTypeOK
<1>12. CASE Refuse(m)
  BY <1>1, <1>2, <1>3, <1>4, <1>12 DEF Refuse, DeskTypeOK
<1>13. CASE Claim(m)
  <2>1. Based BY <1>2, <1>5, <1>13 DEF Claim
  <2>2. Slips(handling[m].seen) \subseteq 1 .. MaxDrafts
    BY <1>1, <1>5, <1>13 DEF Claim, Slips, DeskTypeOK, Draft
  <2>3. contested' \subseteq 1 .. MaxDrafts BY <1>1, <1>13, <2>2 DEF Claim, Contest, DeskTypeOK
  <2> QED BY <1>1, <1>3, <1>4, <1>13, <2>1, <2>3 DEF Claim, DeskTypeOK
<1>14. CASE Decline(m)
  BY <1>1, <1>2, <1>3, <1>4, <1>14 DEF Decline, DeskTypeOK
<1>15. ASSUME NEW ds \in SUBSET drafted
       PROVE  {<<d, m>> : d \in ds} \subseteq drafted \X Dictation
  OBVIOUS
<1>16. CASE CarryOut(m)
  <2>1. effects' \subseteq drafted \X Dictation
    BY <1>1, <1>5, <1>15, <1>16 DEF CarryOut, DeskTypeOK
  <2> QED BY <1>1, <1>2, <1>3, <1>4, <1>16, <2>1 DEF CarryOut, DeskTypeOK
<1>17. CASE Fail(m)
  <2> DEFINE bill == {d \in handling[m].seen : d.kind = "bill"}
  <2>1. bill \in Slot /\ bill \subseteq drafted BY <1>5, <1>17 DEF Fail, Slot
  <2>2. effects' \subseteq drafted \X Dictation /\ unclear' \subseteq drafted
    BY <1>1, <1>5, <1>15, <1>17, <2>1 DEF Fail, DeskTypeOK
  <2>3. Based BY <1>2, <1>17 DEF Fail
  <2>4. parked' \in {parked, bill} BY <1>17 DEF Fail
  <2>5. faults' \in 0 .. MaxFaults BY <1>1, <1>17 DEF Fail, DeskTypeOK
  <2> HIDE DEF bill
  <2> QED BY <1>1, <1>3, <1>4, <1>17, <2>1, <2>2, <2>3, <2>4, <2>5 DEF Fail, DeskTypeOK
<1> QED BY <1>6, <1>7, <1>8, <1>9, <1>10, <1>11, <1>12, <1>13, <1>14, <1>16, <1>17
    DEF DictationStep

LEMMA StaffInit == DeskInit => StaffBase /\ StaffInv
<1> SUFFICES ASSUME DeskInit PROVE StaffBase /\ StaffInv OBVIOUS
<1> USE DeskAssumption
<1>1. DeskTypeOK BY DEF DeskInit, DeskTypeOK, Slot
<1>2. IsFiniteSet(drafted) BY FS_EmptySet DEF DeskInit
<1>3. \A m \in Dictation : handling[m].at = "idle" BY DEF DeskInit, Unheard
<1>4. StaffBase BY <1>1, <1>2, <1>3 DEF DeskInit, StaffBase, DraftsNumbered, SeenIsDrafted
<1> QED BY <1>3, <1>4 DEF DeskInit, StaffInv, DraftInOnePlace, SlipInOnePlace, Makes, Booked

\* A step that carries nothing out, and after which nobody makes what nobody
\* made before, or corrects what was neither corrected nor parked.
LEMMA QuietStep ==
    ASSUME StaffInv, UNCHANGED <<drafted, effects, unclear, contested>>, parked' \subseteq parked,
           \A n \in Dictation : handling'[n].at = "creating" =>
               handling[n].at = "creating" /\ handling'[n].seen = handling[n].seen,
           \A n \in Dictation, s \in 1 .. MaxDrafts :
               Corrects(n, s)' => Corrects(n, s) \/ HasBill(parked, s)
    PROVE  DraftInOnePlace' /\ SlipInOnePlace'
<1>1. DraftInOnePlace /\ SlipInOnePlace BY DEF StaffInv
<1>2. \A n \in Dictation, d \in drafted : Making(n, d)' => Making(n, d) BY DEF Making
<1>3. \A n \in Dictation, s \in 1 .. MaxDrafts : Makes(n, s)' => Makes(n, s) BY DEF Makes
<1>4. \A s \in 1 .. MaxDrafts : /\ HasBill(parked', s) => HasBill(parked, s)
                                /\ Booked(s)' <=> Booked(s)
                                /\ Uncontested(s)' <=> Uncontested(s)
  BY DEF HasBill, Booked, Uncontested
<1>5. DraftInOnePlace' BY <1>1, <1>2 DEF DraftInOnePlace
<1>6. SlipInOnePlace' BY <1>1, <1>3, <1>4 DEF SlipInOnePlace
<1> QED BY <1>5, <1>6
\* A message ends, or goes on without carrying anything out yet.
LEMMA MostStepsQuiet ==
    ASSUME StaffInv, NEW m \in Dictation,
           \/ \E said \in Speech \cup Press : Hear(m, said)
           \/ Noted(m) \/ Interpret(m) \/ Show(m) \/ Accept(m) \/ Refuse(m) \/ Decline(m)
    PROVE  DraftInOnePlace' /\ SlipInOnePlace'
<1>1. DeskTypeOK BY DEF StaffInv, StaffBase
<1>2. UNCHANGED <<drafted, effects, unclear, contested>> /\ parked' \subseteq parked
  BY DEF Hear, Noted, Interpret, Show, Accept, Refuse, Decline
<1>3. PICK new : handling' = [handling EXCEPT ![m] = new]
  BY DEF Hear, Noted, Interpret, Show, Accept, Refuse, Decline, Ends, Goes
<1>4. \A n \in Dictation : handling'[n] = IF n = m THEN new ELSE handling[n]
  BY <1>1, <1>3 DEF DeskTypeOK
<1>5. new.at # "creating"
  BY <1>1, <1>4 DEF Hear, Noted, Interpret, Show, Accept, Refuse, Decline, Ends, Goes, Done, DeskTypeOK
<1>6. ASSUME NEW s \in 1 .. MaxDrafts, Corrects(m, s)'
      PROVE  Corrects(m, s) \/ HasBill(parked, s)
  <2>1. CASE \E said \in Speech \cup Press : Hear(m, said)
    <3>1. handling'[m].seen = parked' BY <1>1, <2>1 DEF Hear, DeskTypeOK
    <3> QED BY <1>2, <1>6, <3>1 DEF Corrects, HasBill
  <2>2. CASE Interpret(m)
    BY <1>1, <1>6, <2>2 DEF Interpret, Corrects, DeskTypeOK
  <2>3. CASE ~Interpret(m) /\ ~(\E said \in Speech \cup Press : Hear(m, said))
    <3>1. handling'[m].at \in {"done", "deciding"}
      BY <1>1, <2>3 DEF Noted, Show, Accept, Refuse, Decline, Ends, Goes, Done, DeskTypeOK
    <3> QED BY <1>6, <3>1 DEF Corrects
  <2> QED BY <2>1, <2>2, <2>3
<1>7. \A n \in Dictation, s \in 1 .. MaxDrafts :
         Corrects(n, s)' => Corrects(n, s) \/ HasBill(parked, s)
  <2> SUFFICES ASSUME NEW n \in Dictation, NEW s \in 1 .. MaxDrafts, Corrects(n, s)'
               PROVE  Corrects(n, s) \/ HasBill(parked, s)
    OBVIOUS
  <2>1. CASE n = m BY <1>6, <2>1
  <2>2. CASE n # m BY <1>4, <2>2 DEF Corrects
  <2> QED BY <2>1, <2>2
<1>8. \A n \in Dictation : handling'[n].at = "creating" =>
          handling[n].at = "creating" /\ handling'[n].seen = handling[n].seen
  BY <1>4, <1>5
<1> QED BY <1>2, <1>7, <1>8, QuietStep

\* A new draft is in the slot only; that of an older slip was read by a message
\* that still corrected it.
LEMMA ParkKept ==
    ASSUME StaffInv, NEW m \in Dictation, Park(m)
    PROVE  DraftInOnePlace' /\ SlipInOnePlace'
<1>1. /\ DeskTypeOK /\ DraftsNumbered /\ SeenIsDrafted
      /\ DraftInOnePlace /\ SlipInOnePlace
  BY DEF StaffInv, StaffBase
<1>2. PICK d \in Draft :
          /\ handling[m].at \in {"composing", "read"}
          /\ d \notin drafted /\ d.id = Cardinality(drafted) + 1 /\ d.slip <= d.id
          /\ drafted' = drafted \cup {d} /\ parked' = {d} /\ Goes(m, "showing", {d})
          /\ \/ d.slip = d.id
             \/ handling[m].at = "composing" /\ handling[m].kind = "bill"
                /\ d.kind = "bill" /\ HasBill(handling[m].seen, d.slip)
  BY ParkedIsNew DEF StaffInv
<1>3. UNCHANGED <<effects, unclear, contested>> BY DEF Park
<1>4. \A n \in Dictation :
         handling'[n] = IF n = m THEN [at |-> "showing", seen |-> {d}] ELSE handling[n]
  BY <1>1, <1>2 DEF Goes, DeskTypeOK
<1>5. \A n \in Dictation : /\ \A b \in drafted : Making(n, b)' => Making(n, b)
                           /\ \A b : Making(n, b)' => b \in drafted
                           /\ \A s : Makes(n, s)' => Makes(n, s)
                           /\ \A s : Corrects(n, s)' => Corrects(n, s)
  BY <1>1, <1>4 DEF Making, Makes, Corrects, SeenIsDrafted
<1>6. effects \subseteq drafted \X Dictation BY <1>1 DEF DeskTypeOK
<1>7. DraftInOnePlace'
  <2>1. ASSUME NEW b \in drafted' \ unclear', NEW n \in Dictation, Making(n, b)'
        PROVE  b \in drafted \ unclear /\ b \notin parked'
    BY <1>2, <1>3, <1>5, <2>1
  <2>2. ASSUME NEW b \in drafted' \ unclear', NEW n \in Dictation, <<b, n>> \in effects'
        PROVE  b \in drafted \ unclear /\ b \notin parked'
    BY <1>2, <1>3, <1>6, <2>2
  <2> QED BY <1>1, <1>3, <1>5, <2>1, <2>2 DEF DraftInOnePlace
<1>8. ASSUME d.kind = "bill", \/ \E n \in Dictation : Makes(n, d.slip)
                              \/ Booked(d.slip)
      PROVE  ~Uncontested(d.slip)
  <2>1. d.slip \in 1 .. MaxDrafts BY DEF Draft
  <2>2. CASE Corrects(m, d.slip) BY <1>1, <1>8, <2>1, <2>2 DEF SlipInOnePlace
  <2>3. CASE d.slip = d.id
    <3>1. ASSUME NEW b \in drafted PROVE b.slip # d.slip
      <4>1. b.slip \in Nat /\ b.id \in Nat /\ Cardinality(drafted) \in Nat
        BY <1>1, FS_CardinalityType DEF DeskTypeOK, Draft, DraftsNumbered
      <4> QED BY <1>1, <1>2, <2>3, <4>1 DEF DraftsNumbered
    <3>2. ~HasBill(drafted, d.slip) BY <3>1 DEF HasBill, BillOf
    <3>3. \A n \in Dictation : ~Makes(n, d.slip)
      BY <1>1, <3>2 DEF Makes, HasBill, SeenIsDrafted
    <3>4. ~Booked(d.slip) BY <1>6, <3>2 DEF Booked, HasBill
    <3> QED BY <1>8, <3>3, <3>4
  <2> QED BY <1>2, <2>2, <2>3 DEF Corrects
<1>9. SlipInOnePlace'
  <2> SUFFICES ASSUME NEW s \in 1 .. MaxDrafts, Uncontested(s)'
               PROVE  (/\ \A n \in Dictation : Makes(n, s) =>
                             /\ ~HasBill(parked, s) /\ ~Booked(s)
                             /\ \A l \in Dictation : (Makes(l, s) => l = n) /\ ~Corrects(l, s)
                       /\ Booked(s) => ~HasBill(parked, s) /\ \A n \in Dictation : ~Corrects(n, s)
                       /\ \A e, f \in effects : BillOf(e[1], s) /\ BillOf(f[1], s) => e = f)'
    BY DEF SlipInOnePlace
  <2>1. Uncontested(s) /\ (Booked(s)' <=> Booked(s)) BY <1>3 DEF Uncontested, Booked
  <2>2. HasBill(parked', s) => d.kind = "bill" /\ d.slip = s BY <1>2 DEF HasBill, BillOf
  <2>3. (\E n \in Dictation : Makes(n, s)) \/ Booked(s) => ~HasBill(parked', s)
    BY <1>8, <2>1, <2>2
  <2> QED BY <1>1, <1>3, <1>5, <2>1, <2>3 DEF SlipInOnePlace
<1> QED BY <1>7, <1>9
SlipKept(s) ==
    /\ \A n \in Dictation : Makes(n, s) =>
          /\ ~HasBill(parked, s) /\ ~Booked(s)
          /\ \A l \in Dictation : (Makes(l, s) => l = n) /\ ~Corrects(l, s)
    /\ Booked(s) => ~HasBill(parked, s) /\ \A n \in Dictation : ~Corrects(n, s)
    /\ \A e, f \in effects : BillOf(e[1], s) /\ BillOf(f[1], s) => e = f

LEMMA SlipsKept == SlipInOnePlace <=> \A s \in 1 .. MaxDrafts : Uncontested(s) => SlipKept(s)
BY DEF SlipInOnePlace, SlipKept

\* What was parked is being made; a slip whose correction is being read is
\* contested from here on.
LEMMA ClaimKept ==
    ASSUME StaffInv, NEW m \in Dictation, Claim(m)
    PROVE  DraftInOnePlace' /\ SlipInOnePlace'
<1>1. DeskTypeOK /\ DraftInOnePlace /\ SlipInOnePlace BY DEF StaffInv, StaffBase
<1>2. /\ parked' = {} /\ UNCHANGED <<drafted, effects, unclear>>
      /\ handling[m].at = "deciding" /\ handling[m].seen = parked
      /\ Contest(parked)
  BY DEF Claim
<1>3. \A n \in Dictation :
         handling'[n] = IF n = m THEN [at |-> "creating", seen |-> parked] ELSE handling[n]
  BY <1>1, <1>2 DEF Claim, Goes, DeskTypeOK
<1>4. DraftInOnePlace'
  <2>1. \A d : Making(m, d)' <=> d \in parked BY <1>3 DEF Making
  <2>2. \A d : \A n \in Dictation : n # m => (Making(n, d)' <=> Making(n, d)) BY <1>3 DEF Making
  <2> QED BY <1>1, <1>2, <2>1, <2>2 DEF DraftInOnePlace
<1>5. SlipInOnePlace'
  <2> SUFFICES ASSUME NEW s \in 1 .. MaxDrafts, Uncontested(s)' PROVE SlipKept(s)'
    BY DEF SlipInOnePlace, SlipKept
  <2>1. Uncontested(s) BY <1>2 DEF Contest, Uncontested
  <2>2. SlipKept(s) BY <1>1, <2>1, SlipsKept
  <2>3. Makes(m, s)' <=> HasBill(parked, s) BY <1>3 DEF Makes
  <2>4. \A n \in Dictation : n # m => (Makes(n, s)' <=> Makes(n, s)) BY <1>3 DEF Makes
  <2>5. \A n \in Dictation : Corrects(n, s)' => Corrects(n, s) /\ n # m BY <1>3 DEF Corrects
  <2>6. ~HasBill(parked', s) /\ (Booked(s)' <=> Booked(s)) BY <1>2 DEF HasBill, Booked
  <2>7. ASSUME HasBill(parked, s), NEW n \in Dictation, Corrects(n, s) PROVE FALSE
    <3>1. s \in Slips(parked) BY <2>7 DEF HasBill, BillOf, Slips
    <3>2. s \in Slips(handling[n].seen) BY <2>7 DEF Corrects, HasBill, BillOf, Slips
    <3>3. n \in {k \in Doing("read") : handling[k].said.say = "slip"}
                 \cup {k \in Doing("composing") : handling[k].kind = "bill"}
      BY <2>7 DEF Corrects, Doing
    <3>4. s \in contested' BY <1>2, <3>1, <3>2, <3>3 DEF Contest
    <3> QED BY <3>4 DEF Uncontested
  <2> QED BY <1>2, <2>2, <2>3, <2>4, <2>5, <2>6, <2>7 DEF SlipKept
<1> QED BY <1>4, <1>5

\* What is carried out is no longer being made.
LEMMA CarryOutKept ==
    ASSUME StaffInv, NEW m \in Dictation, CarryOut(m)
    PROVE  DraftInOnePlace' /\ SlipInOnePlace'
<1>1. DeskTypeOK /\ DraftInOnePlace /\ SlipInOnePlace BY DEF StaffInv, StaffBase
<1> DEFINE ds == handling[m].seen
<1>2. /\ UNCHANGED <<parked, drafted, unclear, contested>>
      /\ handling[m].at = "creating"
      /\ effects' = effects \cup {<<d, m>> : d \in ds}
  BY DEF CarryOut
<1>3. \A n \in Dictation : handling'[n] = IF n = m THEN Done ELSE handling[n]
  BY <1>1 DEF CarryOut, Ends, DeskTypeOK
<1>4. ds \in Slot BY <1>1, <1>2, HandlingShapes
<1>5. \A d, n : <<d, n>> \in effects' <=> <<d, n>> \in effects \/ (d \in ds /\ n = m)
  BY <1>2
<1>6. DraftInOnePlace'
  <2>1. \A d : Making(m, d) <=> d \in ds BY <1>2 DEF Making
  <2>2. \A d : \A n \in Dictation : Making(n, d)' => Making(n, d) /\ n # m
    BY <1>3 DEF Making, Done
  <2> HIDE DEF ds
  <2> QED BY <1>1, <1>2, <1>5, <2>1, <2>2 DEF DraftInOnePlace
<1>7. SlipInOnePlace'
  <2> SUFFICES ASSUME NEW s \in 1 .. MaxDrafts, Uncontested(s)' PROVE SlipKept(s)'
    BY DEF SlipInOnePlace, SlipKept
  <2>1. SlipKept(s) BY <1>1, <1>2, SlipsKept DEF Uncontested
  <2>2. Makes(m, s) <=> HasBill(ds, s) BY <1>2 DEF Makes
  <2>3. \A n \in Dictation : Makes(n, s)' => Makes(n, s) /\ n # m BY <1>3 DEF Makes, Done
  <2>4. \A n \in Dictation : Corrects(n, s)' => Corrects(n, s) BY <1>3 DEF Corrects, Done
  <2>5. Booked(s)' <=> Booked(s) \/ HasBill(ds, s)
    <3>1. \A d \in ds : <<d, m>> \in effects' /\ <<d, m>>[1] = d BY <1>2
    <3>2. \A e \in effects' : e \in effects \/ e[1] \in ds BY <1>2
    <3>3. \A e \in effects : e \in effects' BY <1>2
    <3> HIDE DEF ds
    <3> QED BY <3>1, <3>2, <3>3 DEF Booked, HasBill
  <2>6. ASSUME NEW e \in effects', NEW f \in effects', BillOf(e[1], s), BillOf(f[1], s)
        PROVE  e = f
    <3>1. CASE HasBill(ds, s)
      <4>1. ~Booked(s) BY <2>1, <2>2, <3>1 DEF SlipKept
      <4>2. e \notin effects /\ f \notin effects BY <2>6, <4>1 DEF Booked
      <4> QED BY <1>2, <1>4, <4>2 DEF Slot
    <3>2. CASE ~HasBill(ds, s)
      <4>1. e \in effects /\ f \in effects BY <1>2, <2>6, <3>2 DEF HasBill
      <4> QED BY <2>1, <2>6, <4>1 DEF SlipKept
    <3> QED BY <3>1, <3>2
  <2> HIDE DEF ds
  <2>7. \A e, f \in effects' : BillOf(e[1], s) /\ BillOf(f[1], s) => e = f BY <2>6
  <2> QED BY <1>2, <2>1, <2>2, <2>3, <2>4, <2>5, <2>7 DEF SlipKept
<1> QED BY <1>6, <1>7

\* A bill whose write failed before its commit goes back to the slot; one that
\* was committed all the same is unclear from here on.
LEMMA FailKept ==
    ASSUME StaffInv, NEW m \in Dictation, Fail(m)
    PROVE  DraftInOnePlace' /\ SlipInOnePlace'
<1>1. DeskTypeOK /\ DraftInOnePlace /\ SlipInOnePlace /\ SeenIsDrafted
  BY DEF StaffInv, StaffBase
<1> DEFINE ds   == handling[m].seen
           bill == {d \in ds : d.kind = "bill"}
<1>2. /\ handling[m].at = "creating" /\ UNCHANGED <<drafted, contested>>
      /\ parked' = IF parked = {} THEN bill ELSE parked
  BY DEF Fail
<1>3. \/ UNCHANGED <<effects, unclear>>
      \/ effects' = effects \cup {<<d, m>> : d \in ds} /\ unclear' = unclear \cup bill
  BY DEF Fail
<1>4. \A n \in Dictation : handling'[n] = IF n = m THEN Done ELSE handling[n]
  BY <1>1 DEF Fail, Ends, DeskTypeOK
<1>5. \A d, n : <<d, n>> \in effects' =>
                   <<d, n>> \in effects \/ (d \in ds /\ n = m /\ (d \in unclear' \/ d.kind # "bill"))
  BY <1>3
<1>6. unclear \subseteq unclear' BY <1>3
<1>7. DraftInOnePlace'
  <2>1. \A d : Making(m, d) <=> d \in ds BY <1>2 DEF Making
  <2>2. \A d : \A n \in Dictation : Making(n, d)' => Making(n, d) /\ n # m
    BY <1>4 DEF Making, Done
  <2>3. \A d \in parked' : d \in parked \/ (d \in ds /\ d.kind = "bill") BY <1>2
  <2> HIDE DEF ds, bill
  <2>4. ASSUME NEW d \in drafted \ unclear', NEW n \in Dictation, Making(n, d)'
        PROVE  /\ d \notin parked'
               /\ \A l \in Dictation : (Making(l, d)' => l = n) /\ <<d, l>> \notin effects'
    <3>1. Making(n, d) /\ n # m /\ d \in drafted \ unclear BY <1>6, <2>2, <2>4
    <3>2. d \notin parked /\ \A l \in Dictation : (Making(l, d) => l = n) /\ <<d, l>> \notin effects
      BY <1>1, <3>1 DEF DraftInOnePlace
    <3>3. d \notin ds BY <2>1, <3>1, <3>2
    <3> QED BY <1>5, <2>2, <2>3, <3>2, <3>3
  <2>5. ASSUME NEW d \in drafted \ unclear', NEW n \in Dictation, <<d, n>> \in effects'
        PROVE  d \notin parked' /\ \A l \in Dictation : <<d, l>> \in effects' => l = n
    BY <1>1, <1>5, <1>6, <2>1, <2>3, <2>5 DEF DraftInOnePlace
  <2> QED BY <1>2, <2>4, <2>5 DEF DraftInOnePlace
<1>8. SlipInOnePlace'
  <2> SUFFICES ASSUME NEW s \in 1 .. MaxDrafts, Uncontested(s)' PROVE SlipKept(s)'
    BY DEF SlipInOnePlace, SlipKept
  <2>1. Uncontested(s) BY <1>2, <1>6 DEF Uncontested, Slips
  <2>2. SlipKept(s) BY <1>1, <2>1, SlipsKept
  <2>3. Makes(m, s) <=> HasBill(ds, s) BY <1>2 DEF Makes
  <2>4. \A n \in Dictation : Makes(n, s)' => Makes(n, s) /\ n # m BY <1>4 DEF Makes, Done
  <2>5. \A n \in Dictation : Corrects(n, s)' => Corrects(n, s) BY <1>4 DEF Corrects, Done
  <2>6. HasBill(parked', s) => HasBill(parked, s) \/ HasBill(ds, s) BY <1>2 DEF HasBill
  <2>7. \A e \in effects' : BillOf(e[1], s) => e \in effects
    <3>1. CASE UNCHANGED effects BY <3>1
    <3>2. CASE effects' = effects \cup {<<d, m>> : d \in ds} /\ unclear' = unclear \cup bill
      <4>1. \A d \in bill : d.slip # s BY <3>2 DEF Uncontested, Slips
      <4>2. \A d \in ds : ~BillOf(d, s) BY <4>1 DEF BillOf
      <4> HIDE DEF ds, bill
      <4> QED BY <3>2, <4>2
    <3> QED BY <1>3, <3>1, <3>2
  <2>8. Booked(s)' => Booked(s) BY <2>7 DEF Booked
  <2> HIDE DEF ds, bill
  <2>9. \A e, f \in effects' : BillOf(e[1], s) /\ BillOf(f[1], s) => e = f
    BY <2>2, <2>7 DEF SlipKept
  <2>10. ASSUME NEW n \in Dictation, Makes(n, s)'
         PROVE  /\ ~HasBill(parked', s) /\ ~Booked(s)'
                /\ \A l \in Dictation : (Makes(l, s)' => l = n) /\ ~Corrects(l, s)'
    BY <2>2, <2>3, <2>4, <2>5, <2>6, <2>8, <2>10 DEF SlipKept
  <2>11. Booked(s)' => ~HasBill(parked', s) /\ \A n \in Dictation : ~Corrects(n, s)'
    BY <2>2, <2>3, <2>5, <2>6, <2>8 DEF SlipKept
  <2> QED BY <2>9, <2>10, <2>11 DEF SlipKept
<1> QED BY <1>7, <1>8

LEMMA StaffInvInductive == StaffInv /\ [DeskNext]_deskVars => StaffInv'
<1> SUFFICES ASSUME StaffInv, [DeskNext]_deskVars PROVE StaffInv'
  OBVIOUS
<1>1. ASSUME NEW m \in Dictation, DictationStep(m) PROVE StaffInv'
  <2>1. StaffBase' BY <1>1, DictationTyped DEF StaffInv
  <2>2. DraftInOnePlace' /\ SlipInOnePlace'
    BY <1>1, MostStepsQuiet, ParkKept, ClaimKept, CarryOutKept, FailKept DEF DictationStep
  <2> QED BY <2>1, <2>2 DEF StaffInv
<1>2. CASE Restart
  <2>1. DeskTypeOK /\ DraftsNumbered /\ SeenIsDrafted BY DEF StaffInv, StaffBase
  <2>2. \A m \in Dictation : handling'[m].at \in {"idle", "done"} BY <1>2 DEF Restart, Unheard, Done
  <2>3. DeskTypeOK' BY <1>2, <2>1, DeskAssumption DEF Restart, DeskTypeOK, Slot
  <2>4. StaffBase' BY <1>2, <2>1, <2>2, <2>3 DEF Restart, StaffBase, DraftsNumbered, SeenIsDrafted
  <2>5. \A m \in Dictation, s \in 1 .. MaxDrafts : ~Corrects(m, s)' BY <2>2 DEF Corrects
  <2>6. DraftInOnePlace' /\ SlipInOnePlace'
    BY <1>2, <2>2, <2>5, QuietStep DEF Restart
  <2> QED BY <2>4, <2>6 DEF StaffInv
<1>3. CASE UNCHANGED deskVars
  BY <1>3 DEF deskVars, StaffInv, StaffBase, DeskTypeOK, DraftsNumbered, SeenIsDrafted,
     DraftInOnePlace, SlipInOnePlace, Making, Makes, Corrects, Booked, Uncontested
<1> QED BY <1>1, <1>2, <1>3 DEF DeskNext, DictationStep

\* The variables of a sender's desk keep their types: what is shown, carried
\* out or unclear was drafted.
THEOREM DeskTyped == DeskSpec => []DeskTypeOK
<1>1. StaffInv => DeskTypeOK BY DEF StaffInv, StaffBase
<1> QED BY <1>1, StaffInit, StaffInvInductive, PTL DEF DeskSpec

\* What is in one place at a time is carried out once.
LEMMA StaffInvHolds == StaffInv => OneOrderPerSlip
<1> SUFFICES ASSUME StaffInv PROVE OneOrderPerSlip OBVIOUS
<1>1. DeskTypeOK /\ DraftInOnePlace /\ SlipInOnePlace BY DEF StaffInv, StaffBase
<1>2. ASSUME NEW d \in drafted \ unclear PROVE Times(d) <= 1
  <2> DEFINE E == {e \in effects : e[1] = d}
  <2>1. \A e \in E : \E n \in Dictation : e = <<d, n>> BY <1>1 DEF DeskTypeOK
  <2>2. \A e, f \in E : e = f BY <1>1, <2>1 DEF DraftInOnePlace
  <2>3. CASE E = {} BY <2>3, FS_EmptySet DEF Times
  <2>4. CASE E # {}
    <3>1. PICK e \in E : E = {e} BY <2>2, <2>4
    <3>2. Cardinality(E) = 1 BY <3>1, FS_Singleton
    <3> QED BY <3>2 DEF Times
  <2> QED BY <2>3, <2>4
<1>3. ASSUME NEW e \in effects, NEW f \in effects, e # f, e[1].kind = "bill", e[1].slip = f[1].slip
      PROVE  e[1].slip \in contested \cup Slips(unclear)
  <2>1. e[1] \in drafted /\ f[1] \in drafted /\ f[1] \in Draft BY <1>1 DEF DeskTypeOK
  <2>2. BillOf(e[1], e[1].slip) /\ BillOf(f[1], e[1].slip) /\ e[1].slip \in 1 .. MaxDrafts
    BY <1>3, <2>1 DEF BillOf, StaffInv, StaffBase, DraftsNumbered, Draft
  <2> QED BY <1>1, <1>3, <2>2 DEF SlipInOnePlace, Uncontested
<1> QED BY <1>2, <1>3 DEF OneOrderPerSlip

\* A draft is carried out once and a paper slip becomes one order, whatever
\* messages of its sender are handled side by side and wherever the process
\* restarts, but for the two ways the history records: a correction read while
\* the slip was claimed, and an order made and then reported failed.
THEOREM SlipBookedOnce == DeskSpec => []OneOrderPerSlip
<1>1. StaffInv => OneOrderPerSlip BY StaffInvHolds
<1> QED BY <1>1, StaffInit, StaffInvInductive, PTL DEF DeskSpec
----------------------------------------------------------------------------
(* CustomerThread.                                                         *)

Row == [by : {"customer", "ai", "bot"} \cup Humans, of : 0 .. MaxInbound]
HandlerState == [at : {"new", "read", "compose", "sending", "held", "done"}, loaded : Pause]
JobState == [at : {"listed", "composing", "sending"}, of : 0 .. MaxInbound, loaded : Pause,
             began : Nat]

(***************************************************************************)
(* The inductive invariant.  A message's handler may answer it until it is *)
(* held or done, the job until it has answered under the message's claim,  *)
(* and the outbound queue once for each: while both sides may, there is no *)
(* answer, while one may, at most one.  A message that the job claimed     *)
(* after its handler had ended was reopened by a human if it had an answer *)
(* in the log already.                                                     *)
(***************************************************************************)
MayAnswer(m)    == handler[m].at \notin {"held", "done"}
Working(m)      == job.at \in {"composing", "sending"} /\ job.of = m
MayTake(m)      == m \notin claimed \/ Working(m)
QueuedBy(by, m) == \E q \in outbound : q.by = by /\ q.of = m
HandlerOwes(m)  == MayAnswer(m) \/ QueuedBy("handler", m)
JobOwes(m)      == MayTake(m) \/ QueuedBy("job", m)
Takes(m)        == Working(m) \/ QueuedBy("job", m)

Tasks ==
    /\ handler \in [Inbound -> HandlerState]
    /\ Arrived \in 0 .. MaxInbound
    /\ \A m \in Inbound : handler[m].at # "new" <=> m <= Arrived
    /\ \A m \in claimed : m <= Arrived
    /\ job.at = "listed" => Arrived > 0
    /\ job.at \in {"composing", "sending"} => job.of \in claimed

Rows ==
    /\ log \in Seq(Row)
    /\ \A i \in DOMAIN log : log[i].of <= Arrived

Left ==
    /\ \A q \in outbound : /\ q.by = "handler" => ~MayAnswer(q.of)
                           /\ q.by = "job" => ~MayTake(q.of)
    /\ \A q, r \in outbound : q.by = r.by /\ q.of = r.of => q = r

Alone   == \A m \in claimed \ overlapped : ~MayAnswer(m)
NoneYet == \A m \in Inbound : HandlerOwes(m) /\ JobOwes(m) => \A i \in DOMAIN log : ~AiRow(i, m)
OneYet  == \A m \in Inbound : HandlerOwes(m) \/ JobOwes(m) =>
              \A i, j \in DOMAIN log : AiRow(i, m) /\ AiRow(j, m) => i = j
Behind  == \A m \in Inbound : MayTake(m) =>
              \A i, k \in DOMAIN log : AiRow(i, m) /\ i < k /\ log[k].by = "customer" => log[k].of > m
Reopened == \A m \in Inbound \ (overlapped \cup late) : Takes(m) =>
              \A i \in DOMAIN log : AiRow(i, m) =>
                 \E k \in DOMAIN log : k > i /\ log[k].by = "human"

ThreadBase == ThreadTypeOK /\ Tasks /\ Rows
AnswerInv  == Left /\ Alone /\ NoneYet /\ OneYet /\ Behind /\ Reopened /\ AnsweredOnce
ThreadInv  == ThreadBase /\ AnswerInv

LEMMA JobShapes ==
    ASSUME ThreadTypeOK
    PROVE  /\ job = Idle \/ job \in JobState
           /\ job.at \in {"idle", "listed", "composing", "sending"}
           /\ Idle.at = "idle"
           /\ job.at # "idle" => job \in JobState
BY DEF ThreadTypeOK, JobState, Idle

LEMMA FreshTyped ==
    /\ Running \in Pause
    /\ \A phase \in {"new", "read", "compose", "sending", "held", "done"} :
          Fresh(phase) \in HandlerState /\ Fresh(phase).at = phase
BY DEF Fresh, Running, Pause, HandlerState

\* The messages that arrived are the first ones.
LEMMA ArrivedCounts ==
    ASSUME NEW h, NEW n \in 0 .. MaxInbound, \A m \in Inbound : h[m].at # "new" <=> m <= n
    PROVE  Cardinality({m \in Inbound : h[m].at # "new"}) = n
<1>1. {m \in Inbound : h[m].at # "new"} = 1 .. n BY ThreadAssumption DEF Inbound
<1>2. Cardinality(1 .. n) = n BY FS_Interval, ThreadAssumption
<1> QED BY <1>1, <1>2

LEMMA HandlerGoesOn ==
    ASSUME ThreadBase, NEW m \in Inbound, NEW h \in HandlerState, h.at # "new",
           handler' = [handler EXCEPT ![m] = h], handler[m].at # "new"
    PROVE  /\ handler' \in [Inbound -> HandlerState] /\ Arrived' = Arrived
           /\ \A x \in Inbound : handler'[x].at # "new" <=> handler[x].at # "new"
           /\ handler'[m] = h /\ \A x \in Inbound \ {m} : handler'[x] = handler[x]
<1>1. /\ handler' \in [Inbound -> HandlerState]
      /\ handler'[m] = h /\ \A x \in Inbound \ {m} : handler'[x] = handler[x]
  BY DEF ThreadBase, Tasks
<1>2. \A x \in Inbound : handler'[x].at # "new" <=> handler[x].at # "new" BY <1>1
<1>3. Arrived' = Arrived BY <1>2 DEF Arrived
<1> QED BY <1>1, <1>2, <1>3

\* Where a row stands after another became row p, and where it stood.
Moved(p, i) == IF i < p THEN i ELSE i + 1
Stood(p, j) == IF j < p THEN j ELSE j - 1

LEMMA LogGrows ==
    ASSUME log \in Seq(Row), NEW r \in Row, NEW p \in 1 .. Len(log) + 1, log' = InsertAt(log, p, r)
    PROVE  /\ log' \in Seq(Row) /\ Len(log) \in Nat /\ Len(log)' = Len(log) + 1
           /\ DOMAIN log = 1 .. Len(log) /\ DOMAIN log' = 1 .. Len(log) + 1
           /\ p \in DOMAIN log' /\ log'[p] = r
           /\ \A i \in DOMAIN log : /\ Moved(p, i) \in DOMAIN log' /\ log'[Moved(p, i)] = log[i]
                                    /\ Moved(p, i) # p /\ Stood(p, Moved(p, i)) = i
           /\ \A j \in DOMAIN log' \ {p} : /\ Stood(p, j) \in DOMAIN log
                                           /\ Moved(p, Stood(p, j)) = j
                                           /\ log'[j] = log[Stood(p, j)]
           /\ \A i, k \in DOMAIN log : i < k <=> Moved(p, i) < Moved(p, k)
<1>1. /\ Len(log) \in Nat /\ DOMAIN log = 1 .. Len(log) /\ p \in Nat /\ p >= 1
      /\ p <= Len(log) + 1
  BY LenProperties
<1> DEFINE a == SubSeq(log, 1, p - 1)
           b == SubSeq(log, p, Len(log))
<1>2. /\ a \in Seq(Row) /\ Len(a) = p - 1 /\ \A i \in 1 .. p - 1 : a[i] = log[i]
  <2>1. \A i \in 1 .. p - 1 : log[i] \in Row BY <1>1, ElementOfSeq
  <2> QED BY <1>1, <2>1, SubSeqProperties
<1>3. /\ b \in Seq(Row) /\ Len(b) = Len(log) + 1 - p
      /\ \A i \in 1 .. Len(log) + 1 - p : b[i] = log[p + i - 1]
  <2>1. \A i \in p .. Len(log) : log[i] \in Row BY <1>1, ElementOfSeq
  <2> QED BY <1>1, <2>1, SubSeqProperties
<1>4. log' = a \o <<r>> \o b BY DEF InsertAt
<1> HIDE DEF a, b
<1>5. <<r>> \in Seq(Row) /\ Len(<<r>>) = 1 /\ <<r>>[1] = r OBVIOUS
<1>6. /\ a \o <<r>> \in Seq(Row) /\ Len(a \o <<r>>) = p
      /\ \A i \in 1 .. p : (a \o <<r>>)[i] = IF i <= p - 1 THEN a[i] ELSE r
  BY <1>1, <1>2, <1>5, ConcatProperties
<1>7. /\ log' \in Seq(Row) /\ Len(log') = Len(log) + 1
      /\ \A j \in 1 .. Len(log) + 1 : log'[j] = IF j <= p THEN (a \o <<r>>)[j] ELSE b[j - p]
  <2>1. PICK c : c = a \o <<r>> OBVIOUS
  <2>2. c \in Seq(Row) /\ Len(c) = p /\ log' = c \o b BY <1>4, <1>6, <2>1
  <2>3. /\ c \o b \in Seq(Row) /\ Len(c \o b) = Len(c) + Len(b)
        /\ \A j \in 1 .. Len(c) + Len(b) : (c \o b)[j] = IF j <= Len(c) THEN c[j] ELSE b[j - Len(c)]
    BY ONLY <1>3, <2>2, ConcatProperties
  <2>4. Len(c) + Len(b) = Len(log) + 1 BY <1>1, <1>3, <2>2
  <2> QED BY <2>1, <2>2, <2>3, <2>4
<1>8. DOMAIN log' = 1 .. Len(log) + 1 BY <1>1, <1>7, LenProperties
<1>9. log'[p] = r BY <1>1, <1>6, <1>7
<1>10. \A j \in 1 .. Len(log) + 1 : j # p => log'[j] = log[Stood(p, j)]
  <2> SUFFICES ASSUME NEW j \in 1 .. Len(log) + 1, j # p PROVE log'[j] = log[Stood(p, j)]
    OBVIOUS
  <2>1. CASE j < p BY <1>1, <1>2, <1>6, <1>7, <2>1 DEF Stood
  <2>2. CASE j > p
    <3>1. log'[j] = b[j - p] BY <1>1, <1>7, <2>2
    <3>2. j - p \in 1 .. Len(log) + 1 - p /\ p + (j - p) - 1 = j - 1 BY <1>1, <2>2
    <3>3. b[j - p] = log[j - 1] BY <1>3, <3>2
    <3>4. Stood(p, j) = j - 1 BY <1>1, <2>2 DEF Stood
    <3> QED BY <3>1, <3>3, <3>4
  <2> QED BY <1>1, <2>1, <2>2
<1>11. \A i \in 1 .. Len(log) : /\ Moved(p, i) \in 1 .. Len(log) + 1 /\ Moved(p, i) # p
                                /\ Stood(p, Moved(p, i)) = i
  BY <1>1 DEF Moved, Stood
<1>12. \A j \in 1 .. Len(log) + 1 : j # p => /\ Stood(p, j) \in 1 .. Len(log)
                                             /\ Moved(p, Stood(p, j)) = j
  BY <1>1 DEF Moved, Stood
<1>13. \A i, k \in 1 .. Len(log) : i < k <=> Moved(p, i) < Moved(p, k) BY <1>1 DEF Moved
<1>14. \A i \in 1 .. Len(log) : log'[Moved(p, i)] = log[i] BY <1>10, <1>11
<1> QED BY <1>1, <1>7, <1>8, <1>9, <1>10, <1>11, <1>12, <1>13, <1>14

\* The newest row is one at the end.
LEMMA AppendInserts ==
    ASSUME log \in Seq(Row), NEW r \in Row, log' = Append(log, r)
    PROVE  /\ log' = InsertAt(log, Len(log) + 1, r) /\ Len(log) + 1 \in 1 .. Len(log) + 1
           /\ \A i \in DOMAIN log : Moved(Len(log) + 1, i) = i /\ i < Len(log) + 1
<1>1. Len(log) \in Nat /\ DOMAIN log = 1 .. Len(log) BY LenProperties
<1>2. SubSeq(log, 1, Len(log) + 1 - 1) = log
  <2>1. Len(log) + 1 - 1 = Len(log) BY <1>1
  <2> QED BY <1>1, <2>1, SubSeqFull
<1>3. SubSeq(log, Len(log) + 1, Len(log)) = <<>> BY <1>1, SubSeqEmpty
<1>4. log' = log \o <<r>> BY AppendIsConcat
<1>5. (log \o <<r>>) \o <<>> = log \o <<r>>
  <2>1. log \o <<r>> \in Seq(Row) BY ConcatProperties
  <2> QED BY <2>1, ConcatEmptySeq
<1>6. log' = InsertAt(log, Len(log) + 1, r) BY <1>2, <1>3, <1>4, <1>5 DEF InsertAt
<1> QED BY <1>1, <1>6 DEF Moved

\* No answer is written: nobody may answer who might not before.
LEMMA NoAnswerKeeps ==
    ASSUME ThreadInv, \/ UNCHANGED log
                      \/ \E r \in Row : /\ r.by # "ai" /\ log' = Append(log, r)
                                        /\ r.by = "customer" => r.of > Arrived,
           \A m \in Inbound : HandlerOwes(m)' => HandlerOwes(m),
           \A m \in Inbound : JobOwes(m)' => JobOwes(m),
           \A m \in Inbound : MayTake(m)' => MayTake(m),
           overlapped \subseteq overlapped', late \subseteq late', Left', Alone',
           \A m \in Inbound \ (overlapped' \cup late') :
              Takes(m)' => \/ Takes(m)
                           \/ \A i \in DOMAIN log : AiRow(i, m) =>
                                 \E k \in DOMAIN log : k > i /\ log[k].by = "human"
    PROVE  AnswerInv'
<1>1. /\ ThreadBase /\ Alone /\ NoneYet /\ OneYet /\ Behind /\ Reopened /\ AnsweredOnce
      /\ log \in Seq(Row) /\ \A i \in DOMAIN log : log[i] \in Row /\ log[i].of <= Arrived
      /\ Arrived \in Nat
  <2>1. /\ ThreadBase /\ Alone /\ NoneYet /\ OneYet /\ Behind /\ Reopened /\ AnsweredOnce
        /\ log \in Seq(Row) /\ \A i \in DOMAIN log : log[i].of <= Arrived /\ Arrived \in Nat
    BY ThreadAssumption DEF ThreadInv, AnswerInv, ThreadBase, Rows, Tasks
  <2>2. \A i \in DOMAIN log : log[i] \in Row BY <2>1, LenProperties, ElementOfSeq
  <2>3. Arrived \in Nat BY ThreadAssumption DEF ThreadInv, ThreadBase, Tasks
  <2> QED BY <2>1, <2>2, <2>3
<1>2. /\ DOMAIN log \subseteq DOMAIN log' /\ DOMAIN log' \subseteq Nat
      /\ \A i \in DOMAIN log : log'[i] = log[i]
      /\ \A i \in DOMAIN log' \ DOMAIN log : /\ log'[i].by # "ai"
                                             /\ log'[i].by = "customer" => log'[i].of > Arrived
                                             /\ log'[i].of \in Nat
  <2>1. CASE UNCHANGED log BY <1>1, <2>1, LenProperties
  <2>2. ASSUME NEW r \in Row, r.by # "ai", r.by = "customer" => r.of > Arrived,
               log' = Append(log, r)
        PROVE  /\ DOMAIN log \subseteq DOMAIN log' /\ DOMAIN log' \subseteq Nat
               /\ \A i \in DOMAIN log : log'[i] = log[i]
               /\ \A i \in DOMAIN log' \ DOMAIN log :
                     /\ log'[i].by # "ai"
                     /\ log'[i].by = "customer" => log'[i].of > Arrived
                     /\ log'[i].of \in Nat
    <3>1. /\ DOMAIN log = 1 .. Len(log) /\ DOMAIN log' = 1 .. Len(log) + 1
          /\ Len(log) \in Nat /\ \A i \in 1 .. Len(log) : log'[i] = log[i]
          /\ log'[Len(log) + 1] = r
      BY <1>1, <2>2, AppendProperties, LenProperties
    <3>2. r.of \in Nat BY ThreadAssumption DEF Row
    <3>3. \A i \in DOMAIN log' \ DOMAIN log : log'[i] = r BY <3>1
    <3>4. /\ DOMAIN log \subseteq DOMAIN log' /\ DOMAIN log' \subseteq Nat
          /\ \A i \in DOMAIN log : log'[i] = log[i]
      BY ONLY <3>1
    <3>5. r.by # "ai" /\ (r.by = "customer" => r.of > Arrived) BY ONLY <2>2
    <3> QED BY ONLY <3>2, <3>3, <3>4, <3>5
  <2> QED BY <2>1, <2>2
<1>3. \A m \in Inbound : \A i \in DOMAIN log' : AiRow(i, m)' <=> i \in DOMAIN log /\ AiRow(i, m)
  BY <1>2 DEF AiRow
<1>4. NoneYet' BY <1>1, <1>3 DEF NoneYet
<1>5. OneYet' BY <1>1, <1>3 DEF OneYet
<1>6. Behind'
  <2> SUFFICES ASSUME NEW m \in Inbound, MayTake(m)', NEW i \in DOMAIN log',
                      NEW k \in DOMAIN log', AiRow(i, m)', i < k, log'[k].by = "customer"
               PROVE  log'[k].of > m
    BY DEF Behind
  <2>1. i \in DOMAIN log /\ AiRow(i, m) /\ MayTake(m) BY <1>3
  <2>2. CASE k \in DOMAIN log
    <3>1. log[k].by = "customer" /\ log'[k] = log[k] BY <1>2, <2>2
    <3> QED BY <1>1, <2>1, <2>2, <3>1 DEF Behind
  <2>3. CASE k \notin DOMAIN log
    <3>1. m <= Arrived /\ m \in Nat BY <1>1, <2>1 DEF AiRow, Inbound
    <3> QED BY <1>1, <1>2, <2>3, <3>1
  <2> QED BY <2>2, <2>3
<1>7. Reopened'
  <2> SUFFICES ASSUME NEW m \in Inbound, m \notin overlapped' \cup late', Takes(m)',
                      NEW i \in DOMAIN log', AiRow(i, m)'
               PROVE  \E k \in DOMAIN log' : k > i /\ log'[k].by = "human"
    BY DEF Reopened
  <2>1. i \in DOMAIN log /\ AiRow(i, m) BY <1>3
  <2>2. PICK k \in DOMAIN log : k > i /\ log[k].by = "human"
    BY <1>1, <2>1 DEF Reopened
  <2> QED BY <1>2, <2>2
<1>8. AnsweredOnce'
  <2> SUFFICES ASSUME NEW m \in Inbound, NEW i \in DOMAIN log', NEW j \in DOMAIN log', i < j,
                      AiRow(i, m)', AiRow(j, m)'
               PROVE  /\ \A k \in DOMAIN log' : AiRow(k, m)' => k \in {i, j}
                      /\ \/ m \in overlapped' \cup late'
                         \/ \E k \in DOMAIN log' : k > i /\ log'[k].by = "human"
    BY DEF AnsweredOnce
  <2>1. i \in DOMAIN log /\ AiRow(i, m) /\ j \in DOMAIN log /\ AiRow(j, m) BY <1>3
  <2>2. \A k \in DOMAIN log : AiRow(k, m) => k \in {i, j} BY <1>1, <2>1 DEF AnsweredOnce
  <2>3. m \in overlapped \cup late \/ \E k \in DOMAIN log : k > i /\ log[k].by = "human"
    BY <1>1, <2>1 DEF AnsweredOnce
  <2> QED BY <1>2, <1>3, <2>2, <2>3
<1> QED BY <1>4, <1>5, <1>6, <1>7, <1>8 DEF AnswerInv

\* An answer is written, by one of those that might.
LEMMA AnswerKeeps ==
    ASSUME ThreadInv, NEW m \in Inbound, NEW p \in 1 .. Len(log) + 1,
           log' = InsertAt(log, p, [by |-> "ai", of |-> m]),
           \A x \in Inbound : HandlerOwes(x)' => HandlerOwes(x),
           \A x \in Inbound : JobOwes(x)' => JobOwes(x),
           \A x \in Inbound : MayTake(x)' => MayTake(x),
           \A x \in Inbound : Takes(x)' => Takes(x),
           UNCHANGED overlapped, late \subseteq late', Left', Alone',
           MayTake(m)' => After(m, p),
           \/ HandlerOwes(m) /\ ~HandlerOwes(m)' /\ (MayAnswer(m) \/ m \in late')
           \/ Takes(m) /\ ~JobOwes(m)'
    PROVE  AnswerInv'
<1>1. /\ ThreadBase /\ Left /\ Alone /\ NoneYet /\ OneYet /\ Behind /\ Reopened /\ AnsweredOnce
      /\ log \in Seq(Row) /\ Tasks
  BY DEF ThreadInv, AnswerInv, ThreadBase, Rows
<1> DEFINE r == [by |-> "ai", of |-> m]
<1>2. r \in Row /\ r.by = "ai" /\ r.of = m BY ThreadAssumption DEF Row, Inbound
<1> HIDE DEF r
<1>3. log' = InsertAt(log, p, r) BY DEF r
<1>4. /\ log' \in Seq(Row) /\ Len(log) \in Nat /\ Len(log)' = Len(log) + 1
      /\ DOMAIN log = 1 .. Len(log) /\ DOMAIN log' = 1 .. Len(log) + 1
      /\ p \in DOMAIN log' /\ log'[p] = r
      /\ \A i \in DOMAIN log : /\ Moved(p, i) \in DOMAIN log' /\ log'[Moved(p, i)] = log[i]
                               /\ Moved(p, i) # p /\ Stood(p, Moved(p, i)) = i
      /\ \A j \in DOMAIN log' \ {p} : /\ Stood(p, j) \in DOMAIN log
                                      /\ Moved(p, Stood(p, j)) = j
                                      /\ log'[j] = log[Stood(p, j)]
      /\ \A i, k \in DOMAIN log : i < k <=> Moved(p, i) < Moved(p, k)
  BY <1>1, <1>2, <1>3, LogGrows
<1>5. \A x \in Inbound : \A j \in DOMAIN log' :
          AiRow(j, x)' <=> \/ j # p /\ Stood(p, j) \in DOMAIN log /\ AiRow(Stood(p, j), x)
                           \/ j = p /\ x = m
  BY <1>2, <1>4 DEF AiRow
<1>6. \A i \in DOMAIN log : \A k \in DOMAIN log :
          k > i => Moved(p, k) > Moved(p, i) /\ Moved(p, k) \in DOMAIN log'
  BY <1>4
<1>7. \A x \in Inbound : /\ Working(x) => MayTake(x)
                         /\ Takes(x) => JobOwes(x) /\ x \in claimed
  <2>1. \A x \in Inbound : QueuedBy("job", x) => ~MayTake(x)
    BY <1>1 DEF Left, QueuedBy
  <2> QED BY <1>1, <2>1 DEF Takes, JobOwes, MayTake, Working, Tasks
<1>8. Takes(m) /\ MayAnswer(m) => m \in overlapped BY <1>1, <1>7 DEF Alone
<1>9. HandlerOwes(m) \/ JobOwes(m) BY <1>7
<1>10. NoneYet'
  <2> SUFFICES ASSUME NEW x \in Inbound, HandlerOwes(x)', JobOwes(x)', NEW i \in DOMAIN log',
                      AiRow(i, x)'
               PROVE  FALSE
    BY DEF NoneYet
  <2>1. x # m OBVIOUS
  <2> QED BY <1>1, <1>5, <2>1 DEF NoneYet
<1>11. OneYet'
  <2> SUFFICES ASSUME NEW x \in Inbound, HandlerOwes(x)' \/ JobOwes(x)', NEW i \in DOMAIN log',
                      NEW j \in DOMAIN log', AiRow(i, x)', AiRow(j, x)'
               PROVE  i = j
    BY DEF OneYet
  <2>1. CASE x # m
    <3>1. /\ Stood(p, i) \in DOMAIN log /\ AiRow(Stood(p, i), x) /\ i # p
          /\ Stood(p, j) \in DOMAIN log /\ AiRow(Stood(p, j), x) /\ j # p
      BY <1>5, <2>1
    <3>2. Stood(p, i) = Stood(p, j) BY <1>1, <3>1 DEF OneYet
    <3> QED BY <1>4, <3>1, <3>2
  <2>2. CASE x = m
    <3>1. HandlerOwes(m) /\ JobOwes(m) BY <1>7, <2>2
    <3>2. \A k \in DOMAIN log : ~AiRow(k, m) BY <1>1, <3>1 DEF NoneYet
    <3> QED BY <1>5, <2>2, <3>2
  <2> QED BY <2>1, <2>2
<1>12. Behind'
  <2> SUFFICES ASSUME NEW x \in Inbound, MayTake(x)', NEW i \in DOMAIN log',
                      NEW k \in DOMAIN log', AiRow(i, x)', i < k, log'[k].by = "customer"
               PROVE  log'[k].of > x
    BY DEF Behind
  <2>1. k # p /\ Stood(p, k) \in DOMAIN log /\ log'[k] = log[Stood(p, k)]
    <3>1. k # p BY <1>2, <1>4
    <3> QED BY <1>4, <3>1
  <2>2. CASE i # p
    <3>1. Stood(p, i) \in DOMAIN log /\ AiRow(Stood(p, i), x) BY <1>5, <2>2
    <3>2. Stood(p, i) < Stood(p, k) BY <1>4, <2>1, <2>2, <3>1
    <3> QED BY <1>1, <2>1, <3>1, <3>2 DEF Behind
  <2>3. CASE i = p
    <3>1. x = m /\ After(m, p) BY <1>5, <2>3
    <3>2. Stood(p, k) \in p .. Len(log) BY <1>4, <2>1, <2>3 DEF Stood
    <3> QED BY <2>1, <3>1, <3>2 DEF After
  <2> QED BY <2>2, <2>3
<1>13. Reopened'
  <2> SUFFICES ASSUME NEW x \in Inbound, x \notin overlapped' \cup late', Takes(x)',
                      NEW i \in DOMAIN log', AiRow(i, x)'
               PROVE  \E k \in DOMAIN log' : k > i /\ log'[k].by = "human"
    BY DEF Reopened
  <2>1. x # m
    <3> SUFFICES ASSUME x = m PROVE FALSE OBVIOUS
    <3>1. Takes(m) /\ m \notin overlapped /\ m \notin late' OBVIOUS
    <3>2. JobOwes(m)' BY DEF Takes, JobOwes, MayTake
    <3> QED BY <1>8, <3>1, <3>2
  <2>2. Stood(p, i) \in DOMAIN log /\ AiRow(Stood(p, i), x) /\ i # p BY <1>5, <2>1
  <2>3. PICK k \in DOMAIN log : k > Stood(p, i) /\ log[k].by = "human"
    BY <1>1, <2>2 DEF Reopened
  <2>4. Moved(p, k) > i /\ Moved(p, k) \in DOMAIN log' /\ log'[Moved(p, k)] = log[k]
    BY <1>4, <1>6, <2>2, <2>3
  <2> QED BY <2>3, <2>4
<1>14. AnsweredOnce'
  <2> SUFFICES ASSUME NEW x \in Inbound, NEW i \in DOMAIN log', NEW j \in DOMAIN log', i < j,
                      AiRow(i, x)', AiRow(j, x)'
               PROVE  /\ \A k \in DOMAIN log' : AiRow(k, x)' => k \in {i, j}
                      /\ \/ x \in overlapped' \cup late'
                         \/ \E k \in DOMAIN log' : k > i /\ log'[k].by = "human"
    BY DEF AnsweredOnce
  <2>1. i \in Nat /\ j \in Nat /\ p \in Nat BY <1>4
  <2>2. CASE i # p /\ j # p
    <3>1. /\ Stood(p, i) \in DOMAIN log /\ AiRow(Stood(p, i), x) /\ Moved(p, Stood(p, i)) = i
          /\ Stood(p, j) \in DOMAIN log /\ AiRow(Stood(p, j), x) /\ Moved(p, Stood(p, j)) = j
      BY <1>4, <1>5, <2>2
    <3>2. Stood(p, i) < Stood(p, j) BY <1>4, <3>1
    <3>3. Stood(p, i) # Stood(p, j) BY <1>4, <3>1, <2>1
    <3>4. x # m BY <1>1, <1>9, <3>1, <3>3 DEF OneYet
    <3>5. \A k \in DOMAIN log : AiRow(k, x) => k \in {Stood(p, i), Stood(p, j)}
      BY <1>1, <3>1, <3>2 DEF AnsweredOnce
    <3>6. \A k \in DOMAIN log' : AiRow(k, x)' => k \in {i, j}
      <4> TAKE k \in DOMAIN log'
      <4> HAVE AiRow(k, x)'
      <4>1. /\ Stood(p, k) \in DOMAIN log /\ AiRow(Stood(p, k), x)
            /\ Moved(p, Stood(p, k)) = k
        BY <1>4, <1>5, <3>4
      <4> QED BY <3>1, <3>5, <4>1
    <3>7. \/ x \in overlapped \cup late
          \/ \E k \in DOMAIN log : k > Stood(p, i) /\ log[k].by = "human"
      BY <1>1, <3>1, <3>2 DEF AnsweredOnce
    <3>8. ASSUME NEW k \in DOMAIN log, k > Stood(p, i), log[k].by = "human"
          PROVE  \E y \in DOMAIN log' : y > i /\ log'[y].by = "human"
      BY <1>4, <1>6, <3>1, <3>8
    <3> QED BY <3>6, <3>7, <3>8
  <2>3. CASE i = p \/ j = p
    <3>1. PICK f \in DOMAIN log' : f \in {i, j} /\ f # p /\ i <= f /\ {i, j} = {f, p}
      BY <2>1, <2>3
    <3>2. x = m BY <1>5, <2>3
    <3>3. Stood(p, f) \in DOMAIN log /\ AiRow(Stood(p, f), m) /\ Moved(p, Stood(p, f)) = f
      BY <1>4, <1>5, <3>1, <3>2
    <3>4. \A k \in DOMAIN log : AiRow(k, m) => k = Stood(p, f) BY <1>1, <1>9, <3>3 DEF OneYet
    <3>5. \A k \in DOMAIN log' : AiRow(k, m)' => k \in {f, p}
      <4> TAKE k \in DOMAIN log'
      <4> HAVE AiRow(k, m)'
      <4>1. CASE k = p BY <4>1
      <4>2. CASE k # p
        <5>1. /\ Stood(p, k) \in DOMAIN log /\ AiRow(Stood(p, k), m)
              /\ Moved(p, Stood(p, k)) = k
          BY <1>4, <1>5, <4>2
        <5> QED BY <3>3, <3>4, <5>1
      <4> QED BY <4>1, <4>2
    <3>6. CASE HandlerOwes(m) /\ ~HandlerOwes(m)' /\ (MayAnswer(m) \/ m \in late')
      <4>1. ~JobOwes(m) BY <1>1, <3>3, <3>6 DEF NoneYet
      <4>2. m \in claimed BY <4>1 DEF JobOwes, MayTake
      <4>3. m \in overlapped \cup late' BY <1>1, <3>6, <4>2 DEF Alone
      <4> QED BY <3>1, <3>2, <3>5, <4>3
    <3>7. CASE Takes(m) /\ m \notin overlapped' \cup late'
      <4>1. m \notin overlapped \cup late BY <3>7
      <4>2. PICK k \in DOMAIN log : k > Stood(p, f) /\ log[k].by = "human"
        BY <1>1, <3>3, <3>7, <4>1 DEF Reopened
      <4>3. Moved(p, k) > f /\ Moved(p, k) \in DOMAIN log' /\ log'[Moved(p, k)].by = "human"
        BY <1>4, <1>6, <3>3, <4>2
      <4>4. Moved(p, k) > i
        <5>1. Moved(p, k) \in Nat /\ f \in Nat BY <1>4, <3>1, <4>3
        <5> QED BY <2>1, <3>1, <4>3, <5>1
      <4> QED BY <3>1, <3>2, <3>5, <4>3, <4>4
    <3> QED BY <3>1, <3>2, <3>5, <3>6, <3>7
  <2> QED BY <2>2, <2>3
<1> QED BY <1>10, <1>11, <1>12, <1>13, <1>14 DEF AnswerInv

LEMMA RowsGrow ==
    ASSUME ThreadBase, NEW r \in Row, Arrived' \in Nat, Arrived' >= Arrived, r.of <= Arrived',
           \/ log' = Append(log, r)
           \/ \E p \in 1 .. Len(log) + 1 : log' = InsertAt(log, p, r)
    PROVE  Rows'
<1>1. log \in Seq(Row) /\ Rows /\ Arrived \in Nat
  BY ThreadAssumption DEF ThreadBase, Rows, Tasks
<1>2. PICK p \in 1 .. Len(log) + 1 : log' = InsertAt(log, p, r) BY <1>1, AppendInserts
<1>3. /\ log' \in Seq(Row) /\ log'[p] = r /\ DOMAIN log = 1 .. Len(log)
      /\ \A j \in DOMAIN log' \ {p} : /\ Stood(p, j) \in DOMAIN log
                                      /\ log'[j] = log[Stood(p, j)]
  BY <1>1, <1>2, LogGrows
<1>4. \A i \in DOMAIN log : log[i].of \in Nat /\ log[i].of <= Arrived
  <2>1. \A i \in DOMAIN log : log[i] \in Row BY <1>1, <1>3, ElementOfSeq
  <2>2. \A r0 \in Row : r0.of \in Nat BY ThreadAssumption DEF Row
  <2> QED BY <1>1, <2>1, <2>2 DEF Rows
<1>5. \A j \in DOMAIN log' : log'[j].of <= Arrived'
  <2> TAKE j \in DOMAIN log'
  <2>1. CASE j = p BY <1>3, <2>1
  <2>2. CASE j # p
    <3>1. PICK i \in DOMAIN log : log'[j] = log[i] BY <1>3, <2>2
    <3> QED BY <1>1, <1>4, <3>1
  <2> QED BY <2>1, <2>2
<1> QED BY <1>3, <1>5 DEF Rows

LEMMA RowsStay == ASSUME ThreadBase, UNCHANGED log, Arrived' = Arrived PROVE Rows'
BY DEF ThreadBase, Rows

\* What nobody queues or takes from the queue stays there, and as a handler ends
\* and the job lets go, it is still the only one.
LEMMA LeftStays ==
    ASSUME ThreadInv, \/ UNCHANGED outbound
                      \/ outbound' = {[q EXCEPT !.spoken = TRUE] : q \in outbound},
           \A m \in Inbound : MayAnswer(m)' => MayAnswer(m),
           \A m \in Inbound : MayTake(m)' => MayTake(m)
    PROVE  /\ Left' /\ outbound' \subseteq Queued
           /\ \A by, m : QueuedBy(by, m)' <=> QueuedBy(by, m)
           /\ \A m \in Inbound : /\ HandlerOwes(m)' => HandlerOwes(m)
                                 /\ JobOwes(m)' => JobOwes(m)
<1>1. outbound \subseteq Queued /\ Left BY DEF ThreadInv, ThreadBase, ThreadTypeOK, AnswerInv
<1>2. /\ \A q \in outbound' : \E o \in outbound : q.by = o.by /\ q.of = o.of
      /\ \A o \in outbound : \E q \in outbound' : q.by = o.by /\ q.of = o.of
      /\ \A q, x \in outbound' : q.by = x.by /\ q.of = x.of => q = x
      /\ outbound' \subseteq Queued
  <2>1. CASE UNCHANGED outbound BY <1>1, <2>1 DEF Left
  <2>2. CASE outbound' = {[q EXCEPT !.spoken = TRUE] : q \in outbound}
    <3>1. \A q \in outbound : /\ [q EXCEPT !.spoken = TRUE] \in Queued
                              /\ [q EXCEPT !.spoken = TRUE].by = q.by
                              /\ [q EXCEPT !.spoken = TRUE].of = q.of
      BY <1>1 DEF Queued
    <3>2. \A q \in outbound' : \E o \in outbound : /\ q = [o EXCEPT !.spoken = TRUE]
                                                   /\ q.by = o.by /\ q.of = o.of
      BY <2>2, <3>1
    <3>3. \A o \in outbound : [o EXCEPT !.spoken = TRUE] \in outbound' BY <2>2
    <3>4. ASSUME NEW q \in outbound', NEW x \in outbound', q.by = x.by, q.of = x.of PROVE q = x
      <4>1. PICK o \in outbound : q = [o EXCEPT !.spoken = TRUE] /\ q.by = o.by /\ q.of = o.of
        BY <3>2
      <4>2. PICK y \in outbound : x = [y EXCEPT !.spoken = TRUE] /\ x.by = y.by /\ x.of = y.of
        BY <3>2
      <4>3. o = y BY <1>1, <3>4, <4>1, <4>2 DEF Left
      <4> QED BY <4>1, <4>2, <4>3
    <3>5. outbound' \subseteq Queued BY <2>2, <3>1
    <3> QED BY <3>1, <3>2, <3>3, <3>4, <3>5
  <2> QED BY <2>1, <2>2
<1>3. \A by, m : QueuedBy(by, m)' <=> QueuedBy(by, m) BY <1>2 DEF QueuedBy
<1>4. Left'
  <2>1. ASSUME NEW q \in outbound'
        PROVE  /\ (q.by = "handler" => ~MayAnswer(q.of))'
               /\ (q.by = "job" => ~MayTake(q.of))'
    <3>1. PICK o \in outbound : q.by = o.by /\ q.of = o.of BY <1>2
    <3>2. o.of \in Inbound BY <1>1 DEF Queued
    <3> QED BY <1>1, <3>1, <3>2 DEF Left
  <2> QED BY <1>2, <2>1 DEF Left
<1> QED BY <1>2, <1>3, <1>4 DEF HandlerOwes, JobOwes

\* A reply is queued by the one that might answer and now may not.
LEMMA LeftGrows ==
    ASSUME ThreadInv, NEW by \in {"handler", "job"}, NEW m \in Inbound,
           outbound' = outbound \cup {[by |-> by, of |-> m, spoken |-> FALSE]},
           \A x \in Inbound : MayAnswer(x)' => MayAnswer(x),
           \A x \in Inbound : MayTake(x)' => MayTake(x),
           \/ by = "handler" /\ MayAnswer(m) /\ ~MayAnswer(m)'
           \/ by = "job" /\ MayTake(m) /\ ~MayTake(m)'
    PROVE  /\ Left' /\ outbound' \subseteq Queued
           /\ \A b, x : QueuedBy(b, x)' <=> QueuedBy(b, x) \/ (b = by /\ x = m)
           /\ \A x \in Inbound : /\ HandlerOwes(x)' => HandlerOwes(x)
                                 /\ JobOwes(x)' => JobOwes(x)
<1>1. outbound \subseteq Queued /\ Left BY DEF ThreadInv, ThreadBase, ThreadTypeOK, AnswerInv
<1> DEFINE n == [by |-> by, of |-> m, spoken |-> FALSE]
<1>2. n \in Queued /\ n.by = by /\ n.of = m BY DEF Queued
<1>3. outbound' = outbound \cup {n} OBVIOUS
<1> HIDE DEF n
<1>4. \A b, x : QueuedBy(b, x)' <=> QueuedBy(b, x) \/ (b = by /\ x = m)
  BY <1>2, <1>3 DEF QueuedBy
<1>5. \A q \in outbound : ~(q.by = by /\ q.of = m) BY <1>1 DEF Left
<1>6. ASSUME NEW q \in outbound'
      PROVE  /\ (q.by = "handler" => ~MayAnswer(q.of))'
             /\ (q.by = "job" => ~MayTake(q.of))'
  <2>1. CASE q = n BY <1>2, <2>1
  <2>2. CASE q \in outbound
    <3>1. q.of \in Inbound BY <1>1, <2>2 DEF Queued
    <3> QED BY <1>1, <2>2, <3>1 DEF Left
  <2> QED BY <1>3, <2>1, <2>2
<1>7. \A q, x \in outbound' : q.by = x.by /\ q.of = x.of => q = x
  BY <1>1, <1>2, <1>3, <1>5 DEF Left
<1>8. Left' BY <1>6, <1>7 DEF Left
<1> QED BY <1>1, <1>2, <1>3, <1>4, <1>8 DEF HandlerOwes, JobOwes

----------------------------------------------------------------------------
(* The steps of the thread.                                                *)

LEMMA ArriveKeeps == ASSUME ThreadInv, NEW m \in Inbound, Arrive(m) PROVE ThreadInv'
<1> DEFINE r == [by |-> "customer", of |-> m]
           h == [at |-> "read", loaded |-> pause]
<1>1. ThreadBase /\ ThreadTypeOK /\ Tasks /\ Alone /\ Arrived \in Nat /\ MaxInbound \in Nat
  BY ThreadAssumption DEF ThreadInv, ThreadBase, AnswerInv, Tasks
<1>2. /\ m = Arrived + 1 /\ handler' = [handler EXCEPT ![m] = h] /\ log' = Append(log, r)
      /\ UNCHANGED <<Owner, pause, job, Records, outbound, trouble>>
  BY DEF Arrive
<1>3. r \in Row /\ h \in HandlerState /\ r.by = "customer" /\ r.of = m /\ h.at = "read"
  BY <1>1, ThreadAssumption DEF Row, HandlerState, Inbound, ThreadTypeOK
<1> HIDE DEF r, h
<1>4. /\ handler' \in [Inbound -> HandlerState] /\ handler'[m] = h
      /\ \A x \in Inbound \ {m} : handler'[x] = handler[x]
  BY <1>1, <1>2, <1>3 DEF Tasks
<1>5. m \in 0 .. MaxInbound BY <1>1 DEF Inbound
<1>6. \A x \in Inbound : handler'[x].at # "new" <=> x <= m
  <2> TAKE x \in Inbound
  <2>1. x \in Nat /\ (handler[x].at # "new" <=> x <= Arrived) BY <1>1 DEF Tasks, Inbound
  <2>2. CASE x = m BY <1>3, <1>4, <2>1, <2>2
  <2>3. CASE x # m
    <3>1. x <= Arrived <=> x <= m BY <1>1, <1>2, <2>1, <2>3
    <3> QED BY <1>4, <2>1, <2>3, <3>1
  <2> QED BY <2>2, <2>3
<1>7. Arrived' = m
  <2>1. PICK g : g = handler' OBVIOUS
  <2>2. Cardinality({x \in Inbound : g[x].at # "new"}) = m BY <1>5, <1>6, <2>1, ArrivedCounts
  <2> QED BY <2>1, <2>2 DEF Arrived
<1>8. Rows' BY <1>1, <1>2, <1>3, <1>5, <1>7, RowsGrow
<1>9. Tasks'
  <2>1. \A x \in claimed : x \in Nat /\ x <= m
    BY <1>1, <1>2 DEF Tasks, ThreadTypeOK, Inbound
  <2> QED BY <1>1, <1>2, <1>4, <1>5, <1>6, <1>7, <2>1 DEF Tasks, Records
<1>10. ThreadTypeOK'
  <2>1. \A x \in Inbound : handler'[x] \in HandlerState BY <1>4
  <2> QED BY <1>1, <1>2, <1>8, <2>1
          DEF ThreadTypeOK, Rows, Row, HandlerState, Owner, Records
<1>11. \A x \in Inbound : MayAnswer(x)' <=> MayAnswer(x)
  <2>1. handler[m].at = "new" BY <1>1, <1>2 DEF Tasks
  <2> QED BY <1>3, <1>4, <2>1 DEF MayAnswer
<1>12. AnswerInv'
  <2>1. Alone' BY <1>1, <1>2, <1>11 DEF Alone, Records, ThreadTypeOK
  <2>2. \A x \in Inbound : (MayTake(x)' <=> MayTake(x)) /\ (Working(x)' <=> Working(x))
    BY <1>2 DEF MayTake, Working, Records
  <2>3. /\ Left' /\ \A x \in Inbound : /\ HandlerOwes(x)' => HandlerOwes(x)
                                       /\ JobOwes(x)' => JobOwes(x)
                                       /\ Takes(x)' => Takes(x)
    BY <1>2, <1>11, <2>2, LeftStays DEF Takes
  <2>4. r.of > Arrived /\ r.by # "ai" BY <1>1, <1>2, <1>3
  <2> QED BY <1>2, <1>3, <2>1, <2>2, <2>3, <2>4, NoAnswerKeeps DEF Records
<1> QED BY <1>8, <1>9, <1>10, <1>12 DEF ThreadInv, ThreadBase

\* A handler at work goes on, writes its row, leaves it to the queue or ends.
LEMMA HandlerKeeps ==
    ASSUME ThreadInv, NEW m \in Inbound, NEW h \in HandlerState, h.at # "new",
           handler[m].at \in {"read", "compose", "sending"},
           handler' = [handler EXCEPT ![m] = h], pause' \in Pause,
           UNCHANGED <<Owner, job, Records>>, trouble' \in 0 .. MaxTrouble,
           \/ UNCHANGED <<log, outbound>>
           \/ log' = Append(log, [by |-> "bot", of |-> m]) /\ UNCHANGED outbound
           \/ /\ \E p \in 1 .. Len(log) + 1 : After(m, p) /\ Reply(m, p)
              /\ h.at = "done" /\ UNCHANGED outbound
           \/ /\ outbound' = outbound \cup {[by |-> "handler", of |-> m, spoken |-> FALSE]}
              /\ h.at = "done" /\ UNCHANGED log
    PROVE  ThreadInv'
<1>1. ThreadBase /\ ThreadTypeOK /\ Tasks /\ Alone /\ Left
  BY DEF ThreadInv, ThreadBase, AnswerInv
<1>2. /\ handler' \in [Inbound -> HandlerState] /\ Arrived' = Arrived
      /\ \A x \in Inbound : handler'[x].at # "new" <=> handler[x].at # "new"
      /\ handler'[m] = h /\ \A x \in Inbound \ {m} : handler'[x] = handler[x]
  BY <1>1, HandlerGoesOn
<1>3. Tasks' BY <1>1, <1>2 DEF Tasks, Records
<1>4. m <= Arrived /\ Arrived \in Nat BY <1>1, ThreadAssumption DEF Tasks
<1>5. \A b \in {"bot", "ai"} : [by |-> b, of |-> m] \in Row BY ThreadAssumption DEF Row, Inbound
<1>6. Rows'
  <2>1. CASE UNCHANGED log BY <1>1, <1>2, <2>1, RowsStay
  <2>2. ASSUME NEW b \in {"bot", "ai"},
               \/ log' = Append(log, [by |-> b, of |-> m])
               \/ \E p \in 1 .. Len(log) + 1 : log' = InsertAt(log, p, [by |-> b, of |-> m])
        PROVE  Rows'
    <3>1. PICK r \in Row : r = [by |-> b, of |-> m] BY <1>5
    <3>2. Arrived' \in Nat /\ Arrived' >= Arrived /\ r.of <= Arrived' BY <1>2, <1>4, <3>1
    <3> QED BY <1>1, <2>2, <3>1, <3>2, RowsGrow
  <2> QED BY <2>1, <2>2 DEF Reply
<1>8. /\ \A x \in Inbound : MayAnswer(x)' => MayAnswer(x)
      /\ \A x \in Inbound : MayTake(x)' <=> MayTake(x)
      /\ \A x \in Inbound : Working(x)' <=> Working(x)
      /\ MayAnswer(m) /\ (h.at = "done" => ~MayAnswer(m)')
  BY <1>2 DEF MayAnswer, MayTake, Working, Records
<1>9. Alone' BY <1>1, <1>8 DEF Alone, Records, ThreadTypeOK
<1>10. ~QueuedBy("handler", m) BY <1>1, <1>8 DEF Left, QueuedBy
<1>11. CASE UNCHANGED outbound
  <2>1. /\ Left' /\ outbound' \subseteq Queued
        /\ \A by, x : QueuedBy(by, x)' <=> QueuedBy(by, x)
        /\ \A x \in Inbound : /\ HandlerOwes(x)' => HandlerOwes(x)
                              /\ JobOwes(x)' => JobOwes(x)
    BY <1>8, <1>11, LeftStays
  <2>2. \A x \in Inbound : Takes(x)' <=> Takes(x) BY <1>8, <2>1 DEF Takes
  <2>3. AnswerInv'
    <3>1. CASE UNCHANGED log BY <1>8, <1>9, <2>1, <2>2, <3>1, NoAnswerKeeps DEF Records
    <3>2. CASE log' = Append(log, [by |-> "bot", of |-> m])
      <4>1. PICK r \in Row : r = [by |-> "bot", of |-> m] BY <1>5
      <4>2. r.by # "ai" /\ r.by # "customer" /\ log' = Append(log, r) BY <3>2, <4>1
      <4> QED BY <1>8, <1>9, <2>1, <2>2, <4>2, NoAnswerKeeps DEF Records
    <3>3. ASSUME NEW p \in 1 .. Len(log) + 1, After(m, p), Reply(m, p), h.at = "done"
          PROVE  AnswerInv'
      <4>1. HandlerOwes(m) /\ ~HandlerOwes(m)'
        BY <1>8, <1>10, <2>1, <3>3 DEF HandlerOwes
      <4> QED BY <1>8, <1>9, <2>1, <2>2, <3>3, <4>1, AnswerKeeps DEF Records, Reply
    <3>4. CASE outbound' = outbound \cup {[by |-> "handler", of |-> m, spoken |-> FALSE]}
      <4>1. [by |-> "handler", of |-> m, spoken |-> FALSE] \in outbound BY <1>11, <3>4
      <4> QED BY <1>10, <4>1 DEF QueuedBy
    <3> QED BY <3>1, <3>2, <3>3, <3>4
  <2>4. ThreadTypeOK'
    <3>1. \A x \in Inbound : handler'[x] \in HandlerState BY <1>2
    <3> QED BY <1>1, <1>6, <2>1, <3>1 DEF ThreadTypeOK, Rows, Row, HandlerState, Owner, Records
  <2> QED BY <1>3, <1>6, <2>3, <2>4 DEF ThreadInv, ThreadBase
<1>12. CASE /\ outbound' = outbound \cup {[by |-> "handler", of |-> m, spoken |-> FALSE]}
            /\ h.at = "done" /\ UNCHANGED log
  <2>1. /\ Left' /\ outbound' \subseteq Queued
        /\ \A b, x : QueuedBy(b, x)' <=> QueuedBy(b, x) \/ (b = "handler" /\ x = m)
        /\ \A x \in Inbound : /\ HandlerOwes(x)' => HandlerOwes(x)
                              /\ JobOwes(x)' => JobOwes(x)
    BY <1>8, <1>12, LeftGrows
  <2>2. \A x \in Inbound : Takes(x)' <=> Takes(x) BY <1>8, <2>1 DEF Takes
  <2>3. AnswerInv' BY <1>8, <1>9, <1>12, <2>1, <2>2, NoAnswerKeeps DEF Records
  <2>4. ThreadTypeOK'
    <3>1. \A x \in Inbound : handler'[x] \in HandlerState BY <1>2
    <3> QED BY <1>1, <1>6, <2>1, <3>1 DEF ThreadTypeOK, Rows, Row, HandlerState, Owner, Records
  <2> QED BY <1>3, <1>6, <2>3, <2>4 DEF ThreadInv, ThreadBase
<1> QED BY <1>11, <1>12

LEMMA HandlerStepKeeps ==
    ASSUME ThreadInv, NEW m \in Inbound, HandlerStep(m) PROVE ThreadInv'
<1>1. /\ handler \in [Inbound -> HandlerState] /\ pause \in Pause
      /\ trouble \in 0 .. MaxTrouble /\ (Trouble => trouble' \in 0 .. MaxTrouble)
  BY ThreadAssumption DEF ThreadInv, ThreadBase, Tasks, ThreadTypeOK, Trouble
<1>2. Running \in Pause /\ \A on \in BOOLEAN : [on |-> on, at |-> "recent"] \in Pause
  BY DEF Running, Pause
<1>3. ASSUME NEW phase \in {"compose", "sending", "held", "done"}, Step(m, phase)
      PROVE  \E h \in HandlerState : h.at = phase /\ handler' = [handler EXCEPT ![m] = h]
  <2> DEFINE h == IF phase \in {"held", "done"} THEN Fresh(phase)
                                                ELSE [handler[m] EXCEPT !.at = phase]
  <2>1. h \in HandlerState /\ h.at = phase
    <3>1. handler[m] \in HandlerState BY <1>1
    <3>2. CASE phase \in {"held", "done"} BY <3>2, FreshTyped
    <3>3. CASE phase \notin {"held", "done"} BY <3>1, <3>3 DEF HandlerState
    <3> QED BY <3>2, <3>3
  <2> QED BY <2>1, <1>3 DEF Step
<1>4. CASE BadRating(m)
  <2>1. PICK h \in HandlerState : h.at = "done" /\ handler' = [handler EXCEPT ![m] = h]
    BY <1>3, <1>4 DEF BadRating
  <2>2. pause' \in Pause
    <3>1. (pause.on \/ ~handler[m].loaded.on) \in BOOLEAN OBVIOUS
    <3> QED BY <1>2, <1>4, <3>1 DEF BadRating
  <2> QED BY <1>1, <1>4, <2>1, <2>2, HandlerKeeps DEF BadRating
<1>5. CASE Gate(m)
  <2>1. /\ handler[m].at = "read" /\ UNCHANGED <<log, Owner, job, Records, outbound, trouble>>
        /\ pause' = pause \/ pause' = Running
    BY <1>5 DEF Gate
  <2>2. \/ \E phase \in {"compose", "held", "done"} : Step(m, phase)
        \/ \E phase \in {"compose", "done"} :
              handler' = [handler EXCEPT ![m] = Fresh(phase)]
    BY <1>5 DEF Gate
  <2>3. \E h \in HandlerState : h.at # "new" /\ handler' = [handler EXCEPT ![m] = h]
    BY <1>3, <2>2, FreshTyped
  <2> QED BY <1>1, <1>2, <2>1, <2>3, HandlerKeeps
<1>6. CASE Compose(m)
  <2>1. /\ handler[m].at = "compose" /\ UNCHANGED <<log, Owner, job, Records, outbound, trouble>>
        /\ pause' = pause \/ pause' = [on |-> TRUE, at |-> "recent"]
        /\ \E phase \in {"sending", "done"} : Step(m, phase)
    BY <1>6 DEF Compose
  <2>2. \E h \in HandlerState : h.at # "new" /\ handler' = [handler EXCEPT ![m] = h]
    BY <1>3, <2>1
  <2> QED BY <1>1, <1>2, <2>1, <2>2, HandlerKeeps
<1>7. CASE Send(m)
  <2>1. PICK h \in HandlerState : h.at = "done" /\ handler' = [handler EXCEPT ![m] = h]
    BY <1>3, <1>7 DEF Send
  <2>2. /\ handler[m].at = "sending" /\ UNCHANGED <<Owner, pause, job, Records>>
        /\ \/ /\ \E p \in 1 .. Len(log) + 1 : After(m, p) /\ Reply(m, p)
              /\ UNCHANGED <<outbound, trouble>>
           \/ /\ Trouble /\ UNCHANGED log
              /\ outbound' = outbound \cup {[by |-> "handler", of |-> m, spoken |-> FALSE]}
           \/ UNCHANGED <<log, outbound, trouble>>
    BY <1>7 DEF Send, Enqueue
  <2>3. trouble' \in 0 .. MaxTrouble BY <1>1, <2>2
  <2> QED BY <1>1, <2>1, <2>2, <2>3, HandlerKeeps
<1> QED BY <1>4, <1>5, <1>6, <1>7 DEF HandlerStep

\* The job moves without an answer: a claim is taken or given back with it.
LEMMA JobKeeps ==
    ASSUME ThreadInv, UNCHANGED <<log, handler, Owner, outbound, late, dropped>>, pause' \in Pause,
           trouble' \in 0 .. MaxTrouble,
           overlapped \subseteq overlapped', overlapped' \subseteq Inbound,
           claimed' \subseteq Inbound, job' = Idle \/ job' \in JobState,
           \A x \in claimed' : x <= Arrived,
           job'.at = "listed" => Arrived > 0,
           job'.at \in {"composing", "sending"} => job'.of \in claimed',
           \A x \in Inbound : MayTake(x)' => MayTake(x), Alone',
           \A x \in Inbound \ overlapped' :
              Working(x)' => \/ Working(x)
                             \/ \A i \in DOMAIN log : AiRow(i, x) =>
                                   \E k \in DOMAIN log : k > i /\ log[k].by = "human"
    PROVE  ThreadInv'
<1>1. ThreadBase /\ ThreadTypeOK /\ Tasks BY DEF ThreadInv, ThreadBase
<1>2. Arrived' = Arrived BY DEF Arrived
<1>3. Tasks' BY <1>1, <1>2 DEF Tasks
<1>4. Rows' BY <1>1, <1>2, RowsStay
<1>5. ThreadTypeOK' BY <1>1 DEF ThreadTypeOK, JobState, Owner
<1>6. \A x \in Inbound : MayAnswer(x)' => MayAnswer(x) BY DEF MayAnswer
<1>7. AnswerInv'
  <2>1. /\ Left' /\ \A by, x : QueuedBy(by, x)' <=> QueuedBy(by, x)
        /\ \A x \in Inbound : /\ HandlerOwes(x)' => HandlerOwes(x)
                              /\ JobOwes(x)' => JobOwes(x)
    BY <1>6, LeftStays
  <2> QED BY <2>1, NoAnswerKeeps DEF Takes
<1> QED BY <1>3, <1>4, <1>5, <1>7 DEF ThreadInv, ThreadBase

\* What the claim finds: a turn with an answer was reopened by a human.
LEMMA JobClaimsKeeps == ASSUME ThreadInv, JobClaims PROVE ThreadInv'
<1>0. PICK m : m = Arrived OBVIOUS
<1>1. ThreadBase /\ ThreadTypeOK /\ Tasks /\ Rows /\ Alone /\ Behind /\ log \in Seq(Row)
  BY DEF ThreadInv, ThreadBase, AnswerInv, Rows
<1>2. /\ job.at = "listed" /\ UNCHANGED <<log, Owner, pause, handler, late, dropped, outbound, trouble>>
  BY DEF JobClaims
<1>3. /\ Arrived \in 0 .. MaxInbound /\ Arrived > 0 /\ m \in Inbound /\ MaxInbound \in Nat
      /\ job \in JobState /\ m = Arrived
  BY <1>0, <1>1, <1>2, JobShapes, ThreadAssumption DEF Tasks, Inbound
<1>4. pause \in Pause /\ trouble \in 0 .. MaxTrouble
  BY <1>1 DEF ThreadTypeOK
<1>5. claimed \subseteq Inbound /\ overlapped \subseteq Inbound BY <1>1 DEF ThreadTypeOK
<1>6. CASE job' = Idle /\ UNCHANGED <<claimed, overlapped>>
  <2>1. \A x \in Inbound : MayTake(x)' => MayTake(x)
    BY <1>6, JobShapes, <1>1 DEF MayTake, Working, Idle
  <2>2. Alone' BY <1>1, <1>2, <1>6 DEF Alone, MayAnswer
  <2>3. \A x : ~Working(x)' BY <1>6 DEF Working, Idle
  <2>4. job'.at = "idle" BY <1>6 DEF Idle
  <2>5. \A x \in claimed : x <= Arrived BY <1>1 DEF Tasks
  <2> QED BY <1>2, <1>4, <1>5, <1>6, <2>1, <2>2, <2>3, <2>4, <2>5, JobKeeps
<1>7. CASE ~(job' = Idle /\ UNCHANGED <<claimed, overlapped>>)
  <2>1. /\ m \notin claimed /\ claimed' = claimed \cup {m}
        /\ overlapped' = overlapped \cup ({m} \cap Busy)
        /\ job' = [job EXCEPT !.at = "composing", !.of = m]
        /\ ~HandledExceptBy({"human"})
    BY <1>0, <1>7 DEF JobClaims
  <2>2. job' \in JobState /\ job'.at = "composing" /\ job'.of = m
    BY <1>3, <2>1 DEF JobState
  <2>3. m \notin overlapped' => ~MayAnswer(m)'
    <3>1. handler[m].at # "new" BY <1>1, <1>3 DEF Tasks
    <3>2. handler[m] \in HandlerState BY <1>1, <1>3 DEF Tasks
    <3> QED BY <1>2, <1>3, <2>1, <3>1, <3>2 DEF MayAnswer, Busy, HandlerState
  <2>4. Alone' BY <1>1, <1>2, <2>1, <2>3 DEF Alone, MayAnswer
  <2>5. \A x \in Inbound : MayTake(x)' => MayTake(x)
    BY <1>2, <2>1, <2>2 DEF MayTake, Working
  <2>6. ASSUME NEW i \in DOMAIN log, AiRow(i, m)
        PROVE  \E k \in DOMAIN log : k > i /\ log[k].by = "human"
    <3>1. Len(log) \in Nat /\ DOMAIN log = 1 .. Len(log) BY <1>1, LenProperties
    <3>2. log # <<>> /\ Len(log) \in DOMAIN log /\ i <= Len(log) BY <3>1
    <3>3. Last(log) = log[Len(log)] BY DEF Last
    <3>4. log[Len(log)].by \in {"customer", "human"}
      BY <2>1, <3>2, <3>3 DEF HandledExceptBy
    <3>5. i < Len(log)
      <4>1. i # Len(log) BY <2>6, <3>4 DEF AiRow
      <4> QED BY <3>1, <3>2, <4>1
    <3>6. log[Len(log)].by # "customer"
      <4> SUFFICES ASSUME log[Len(log)].by = "customer" PROVE FALSE OBVIOUS
      <4>1. log[Len(log)].of > m BY <1>1, <1>3, <2>1, <2>6, <3>2, <3>5 DEF Behind, MayTake
      <4>2. log[Len(log)].of <= Arrived BY <1>1, <3>2 DEF Rows
      <4>3. log[Len(log)] \in Row BY <1>1, <3>1, <3>2, ElementOfSeq
      <4>4. log[Len(log)].of \in Nat BY <4>3, ThreadAssumption DEF Row
      <4> QED BY <1>3, <4>1, <4>2, <4>4
    <3> QED BY <3>2, <3>4, <3>5, <3>6
  <2>7. \A x \in Inbound : Working(x)' => x = m BY <2>2 DEF Working
  <2>8. /\ claimed' \subseteq Inbound /\ overlapped' \subseteq Inbound
        /\ overlapped \subseteq overlapped' /\ \A x \in claimed' : x <= Arrived
        /\ job'.of \in claimed'
    BY <1>1, <1>3, <1>5, <2>1, <2>2 DEF Tasks
  <2> QED BY <1>2, <1>4, <2>2, <2>4, <2>5, <2>6, <2>7, <2>8, JobKeeps
<1> QED BY <1>6, <1>7

LEMMA JobStepKeeps == ASSUME ThreadInv, JobStep PROVE ThreadInv'
<1>1. ThreadBase /\ ThreadTypeOK /\ Tasks /\ Alone /\ Left
  BY DEF ThreadInv, ThreadBase, AnswerInv
<1>2. /\ pause \in Pause /\ trouble \in 0 .. MaxTrouble /\ log \in Seq(Row)
      /\ claimed \subseteq Inbound /\ overlapped \subseteq Inbound /\ MaxTrouble \in Nat
      /\ \A x \in claimed : x <= Arrived
      /\ [on |-> TRUE, at |-> "recent"] \in Pause
  BY <1>1, ThreadAssumption DEF ThreadTypeOK, Tasks, Pause, ThreadBase, Rows
<1>3. CASE JobLists
  <2>1. /\ job' = [at |-> "listed", of |-> 0, loaded |-> pause, began |-> Len(log)]
        /\ Arrived > 0 /\ job = Idle
        /\ UNCHANGED <<log, Owner, pause, handler, claimed, late, dropped, overlapped>>
        /\ UNCHANGED <<outbound, trouble>>
    BY <1>3 DEF JobLists, Records
  <2>2. job' \in JobState /\ job'.at = "listed"
    <3>1. Len(log) \in Nat BY <1>2, LenProperties
    <3> QED BY <1>2, <2>1, <3>1, ThreadAssumption DEF JobState
  <2>3. \A x \in Inbound : ~Working(x) /\ ~Working(x)'
    BY <2>1, <2>2 DEF Working, Idle
  <2>4. \A x \in Inbound : MayTake(x)' => MayTake(x) BY <2>1, <2>3 DEF MayTake
  <2>5. Alone' BY <1>1, <2>1 DEF Alone, MayAnswer
  <2> QED BY <1>2, <2>1, <2>2, <2>3, <2>4, <2>5, JobKeeps
<1>4. CASE JobClaims BY <1>4, JobClaimsKeeps
<1>5. ASSUME job.at \in {"composing", "sending"}, Release,
             UNCHANGED <<log, handler, Owner, overlapped, late, dropped, outbound>>,
             pause' \in Pause, trouble' \in 0 .. MaxTrouble
      PROVE  ThreadInv'
  <2>1. job' = Idle /\ claimed' = claimed \ {job.of} /\ job'.at = "idle"
    BY <1>5 DEF Release, Idle
  <2>2. \A x \in Inbound : ~Working(x)' BY <2>1 DEF Working
  <2>3. \A x \in Inbound : MayTake(x)' => MayTake(x)
    BY <1>5, <2>1 DEF MayTake, Working
  <2>4. Alone' BY <1>1, <1>5, <2>1 DEF Alone, MayAnswer
  <2>5. claimed' \subseteq Inbound /\ \A x \in claimed' : x <= Arrived BY <1>2, <2>1
  <2> QED BY <1>2, <1>5, <2>1, <2>2, <2>3, <2>4, <2>5, JobKeeps
<1>6. CASE JobComposes
  <2>1. /\ job.at = "composing" /\ UNCHANGED <<log, Owner, handler, late, dropped, overlapped, outbound>>
        /\ pause' \in Pause /\ trouble' \in 0 .. MaxTrouble
    <3>1. /\ job.at = "composing" /\ UNCHANGED <<log, Owner, handler, late, dropped, overlapped, outbound>>
          /\ pause' = pause \/ pause' = [on |-> TRUE, at |-> "recent"]
          /\ UNCHANGED trouble \/ (trouble < MaxTrouble /\ trouble' = trouble + 1)
      BY <1>6 DEF JobComposes, Trouble
    <3>2. trouble' \in 0 .. MaxTrouble BY <1>2, <3>1
    <3> QED BY <1>2, <3>1, <3>2
  <2>2. CASE Release BY <1>5, <2>1, <2>2
  <2>3. CASE ~Release
    <3>1. job' = [job EXCEPT !.at = "sending"] /\ UNCHANGED claimed
      BY <1>6, <2>3 DEF JobComposes
    <3>2. job \in JobState BY <1>1, <2>1, JobShapes
    <3>3. job' \in JobState /\ job'.at = "sending" /\ job'.of = job.of
      BY <3>1, <3>2 DEF JobState
    <3>4. \A x \in Inbound : Working(x)' <=> Working(x) BY <2>1, <3>3 DEF Working
    <3>5. \A x \in Inbound : MayTake(x)' => MayTake(x) BY <3>1, <3>4 DEF MayTake
    <3>6. Alone' BY <1>1, <2>1, <3>1 DEF Alone, MayAnswer
    <3>7. job.of \in claimed BY <1>1, <2>1 DEF Tasks
    <3> QED BY <1>2, <2>1, <3>1, <3>3, <3>4, <3>5, <3>6, <3>7, JobKeeps
  <2> QED BY <2>2, <2>3
<1>7. CASE JobSends
  <2>1. /\ job.at = "sending" /\ UNCHANGED <<Owner, pause, handler, late, dropped, overlapped>>
        /\ trouble' \in 0 .. MaxTrouble /\ job \in JobState
    <3>1. /\ job.at = "sending" /\ UNCHANGED <<Owner, pause, handler, late, dropped, overlapped>>
          /\ UNCHANGED trouble \/ (trouble < MaxTrouble /\ trouble' = trouble + 1)
      BY <1>7 DEF JobSends, Trouble, Enqueue
    <3> QED BY <1>1, <1>2, <3>1, JobShapes
  <2>2. PICK m : m = job.of OBVIOUS
  <2>3. Working(m) /\ m \in claimed /\ m \in Inbound
    BY <1>1, <1>2, <2>1, <2>2 DEF Working, Tasks
  <2>4. CASE Release /\ UNCHANGED <<log, outbound>> BY <1>2, <1>5, <2>1, <2>4
  <2>5. ASSUME job' = Idle, UNCHANGED claimed
        PROVE  /\ job'.at = "idle" /\ \A x \in Inbound : ~Working(x)'
               /\ \A x \in Inbound : MayTake(x)' => MayTake(x)
               /\ \A x \in Inbound : MayAnswer(x)' => MayAnswer(x)
               /\ Alone' /\ ~MayTake(m)' /\ Tasks' /\ Arrived' = Arrived
    <3>1. job'.at = "idle" /\ \A x \in Inbound : ~Working(x)' BY <2>5 DEF Working, Idle
    <3>2. \A x \in Inbound : MayTake(x)' => MayTake(x) BY <2>5, <3>1 DEF MayTake
    <3>3. Alone' BY <1>1, <2>1, <2>5 DEF Alone, MayAnswer
    <3>4. Arrived' = Arrived BY <2>1 DEF Arrived
    <3>5. Tasks' BY <1>1, <2>1, <2>5, <3>1, <3>4 DEF Tasks
    <3>6. \A x \in Inbound : MayAnswer(x)' => MayAnswer(x) BY <2>1 DEF MayAnswer
    <3> QED BY <2>3, <2>5, <3>1, <3>2, <3>3, <3>4, <3>5, <3>6 DEF MayTake
  <2>6. Takes(m) /\ MayTake(m) BY <2>3 DEF Takes, MayTake
  <2>7. CASE Enqueue("job", job.of) /\ job' = Idle /\ UNCHANGED <<log, claimed>>
    <3>1. outbound' = outbound \cup {[by |-> "job", of |-> m, spoken |-> FALSE]}
      BY <2>2, <2>7 DEF Enqueue
    <3>2. /\ Left' /\ outbound' \subseteq Queued
          /\ \A b, x : QueuedBy(b, x)' <=> QueuedBy(b, x) \/ (b = "job" /\ x = m)
          /\ \A x \in Inbound : /\ HandlerOwes(x)' => HandlerOwes(x)
                                /\ JobOwes(x)' => JobOwes(x)
      BY <2>3, <2>5, <2>6, <2>7, <3>1, LeftGrows
    <3>3. \A x \in Inbound : Takes(x)' => Takes(x) BY <2>5, <2>6, <2>7, <3>2 DEF Takes
    <3>4. AnswerInv' BY <2>1, <2>5, <2>7, <3>2, <3>3, NoAnswerKeeps
    <3>5. Rows' BY <1>1, <2>5, <2>7, RowsStay
    <3>6. ThreadTypeOK' BY <1>1, <2>1, <2>7, <3>2, <3>5 DEF ThreadTypeOK, Rows, Row, Owner
    <3> QED BY <2>5, <2>7, <3>4, <3>5, <3>6 DEF ThreadInv, ThreadBase
  <2>8. CASE /\ \E p \in job.began + 1 .. Len(log) + 1 : Reply(job.of, p)
             /\ job' = Idle /\ UNCHANGED <<claimed, outbound, trouble>>
    <3>1. PICK p \in 1 .. Len(log) + 1 : Reply(m, p)
      <4>1. Len(log) \in Nat /\ job.began \in Nat BY <1>2, <2>1, LenProperties DEF JobState
      <4>2. PICK p \in job.began + 1 .. Len(log) + 1 : Reply(job.of, p) BY <2>8
      <4>3. p \in 1 .. Len(log) + 1 BY <4>1, <4>2
      <4> QED BY <2>2, <4>2, <4>3
    <3>2. /\ Left' /\ outbound' \subseteq Queued
          /\ \A by, x : QueuedBy(by, x)' <=> QueuedBy(by, x)
          /\ \A x \in Inbound : /\ HandlerOwes(x)' => HandlerOwes(x)
                                /\ JobOwes(x)' => JobOwes(x)
      BY <2>5, <2>8, LeftStays
    <3>3. \A x \in Inbound : Takes(x)' => Takes(x) BY <2>5, <2>8, <3>2 DEF Takes
    <3>4. ~JobOwes(m)'
      <4>1. ~QueuedBy("job", m) BY <1>1, <2>6 DEF Left, QueuedBy
      <4> QED BY <2>5, <2>8, <3>2, <4>1 DEF JobOwes
    <3>5. AnswerInv'
      BY <2>1, <2>3, <2>5, <2>6, <2>8, <3>1, <3>2, <3>3, <3>4, AnswerKeeps DEF Reply
    <3>6. Rows'
      <4>0. m \in 0 .. MaxInbound BY <2>3, ThreadAssumption DEF Inbound
      <4>1. PICK r \in Row : r = [by |-> "ai", of |-> m] BY <4>0 DEF Row
      <4>2. m <= Arrived /\ Arrived \in Nat BY <1>1, <2>3, ThreadAssumption DEF Tasks
      <4>3. log' = InsertAt(log, p, r) BY <3>1, <4>1 DEF Reply
      <4>4. Arrived' \in Nat /\ Arrived' >= Arrived /\ r.of <= Arrived' BY <2>5, <2>8, <4>1, <4>2
      <4> QED BY <1>1, <4>3, <4>4, RowsGrow
    <3>7. ThreadTypeOK' BY <1>1, <2>1, <2>8, <3>2, <3>6 DEF ThreadTypeOK, Rows, Row, Owner
    <3> QED BY <2>5, <2>8, <3>5, <3>6, <3>7 DEF ThreadInv, ThreadBase
  <2> QED BY <1>7, <2>4, <2>7, <2>8 DEF JobSends
<1> QED BY <1>3, <1>4, <1>6, <1>7 DEF JobStep

\* The queue sends a reply, for the one that left it there, or gives it up.
LEMMA DrainKeeps == ASSUME ThreadInv, NEW q \in outbound, Drain(q) PROVE ThreadInv'
<1>1. ThreadBase /\ ThreadTypeOK /\ Tasks /\ Alone /\ Left /\ log \in Seq(Row)
  BY DEF ThreadInv, ThreadBase, AnswerInv, Rows
<1>2. PICK m : m = q.of OBVIOUS
<1>3. m \in Inbound /\ q.by \in {"handler", "job"} /\ outbound \subseteq Queued
  BY <1>1, <1>2 DEF ThreadTypeOK, Queued
<1>4. /\ outbound' = outbound \ {q}
      /\ UNCHANGED <<Owner, pause, handler, job, claimed, overlapped>>
      /\ \/ /\ log' = Append(log, [by |-> "ai", of |-> m])
            /\ late' = late \cup {x \in {m} : q.by = "handler"}
            /\ UNCHANGED <<dropped, trouble>>
         \/ /\ UNCHANGED trouble \/ (trouble < MaxTrouble /\ trouble' = trouble + 1)
            /\ dropped' = dropped \cup {m}
            /\ UNCHANGED <<log, late>>
  BY <1>2 DEF Drain, Trouble
<1>5. /\ trouble' \in 0 .. MaxTrouble /\ late' \subseteq Inbound /\ dropped' \subseteq Inbound
      /\ late \subseteq late' /\ (log' # log /\ q.by = "handler" => m \in late')
  BY <1>1, <1>3, <1>4, ThreadAssumption DEF ThreadTypeOK
<1>6. /\ \A x \in Inbound : MayAnswer(x)' <=> MayAnswer(x)
      /\ \A x \in Inbound : MayTake(x)' <=> MayTake(x)
      /\ \A x \in Inbound : Working(x)' <=> Working(x)
  BY <1>4 DEF MayAnswer, MayTake, Working
<1>7. Left'
  <2>1. ASSUME NEW x \in outbound'
        PROVE  /\ (x.by = "handler" => ~MayAnswer(x.of))'
               /\ (x.by = "job" => ~MayTake(x.of))'
    <3>1. x \in outbound /\ x.of \in Inbound BY <1>3, <1>4 DEF Queued
    <3> QED BY <1>1, <1>6, <3>1 DEF Left
  <2> QED BY <1>1, <1>4, <2>1 DEF Left
<1>8. /\ \A by, x : QueuedBy(by, x)' => QueuedBy(by, x)
      /\ QueuedBy(q.by, m) /\ ~QueuedBy(q.by, m)'
  <2>1. \A by, x : QueuedBy(by, x)' => QueuedBy(by, x) BY <1>4 DEF QueuedBy
  <2>2. QueuedBy(q.by, m) BY <1>2 DEF QueuedBy
  <2>3. ~QueuedBy(q.by, m)' BY <1>1, <1>2, <1>4 DEF QueuedBy, Left
  <2> QED BY <2>1, <2>2, <2>3
<1>9. \A x \in Inbound : /\ HandlerOwes(x)' => HandlerOwes(x)
                         /\ JobOwes(x)' => JobOwes(x)
                         /\ Takes(x)' => Takes(x)
  BY <1>6, <1>8 DEF HandlerOwes, JobOwes, Takes
<1>10. Alone' BY <1>1, <1>4, <1>6 DEF Alone, ThreadTypeOK
<1>11. Arrived' = Arrived /\ Arrived \in Nat BY <1>1, <1>4, ThreadAssumption DEF Arrived, Tasks
<1>12. Tasks' BY <1>1, <1>4, <1>11 DEF Tasks
<1>13. CASE UNCHANGED log
  <2>1. AnswerInv' BY <1>4, <1>5, <1>6, <1>7, <1>9, <1>10, <1>13, NoAnswerKeeps
  <2>2. Rows' BY <1>1, <1>11, <1>13, RowsStay
  <2>3. ThreadTypeOK'
    BY <1>1, <1>3, <1>4, <1>5, <2>2 DEF ThreadTypeOK, Rows, Row, Owner
  <2> QED BY <1>12, <2>1, <2>2, <2>3 DEF ThreadInv, ThreadBase
<1>14. CASE log' # log /\ log' = Append(log, [by |-> "ai", of |-> m])
  <2>1. m <= Arrived
    <3>1. CASE q.by = "job"
      <4>1. m \in claimed BY <1>1, <1>2, <3>1 DEF Left, MayTake
      <4> QED BY <1>1, <4>1 DEF Tasks
    <3>2. CASE q.by = "handler"
      <4>1. ~MayAnswer(m) BY <1>1, <1>2, <3>2 DEF Left
      <4> QED BY <1>1, <1>3, <4>1 DEF MayAnswer, Tasks
    <3> QED BY <1>3, <3>1, <3>2
  <2>2. m \in 0 .. MaxInbound BY <1>3, ThreadAssumption DEF Inbound
  <2>3. PICK r \in Row : r = [by |-> "ai", of |-> m] BY <2>2 DEF Row
  <2>4. Rows' BY <1>1, <1>11, <1>14, <2>1, <2>3, RowsGrow
  <2>5. ThreadTypeOK'
    BY <1>1, <1>3, <1>4, <1>5, <2>4 DEF ThreadTypeOK, Rows, Row, Owner
  <2>6. PICK p \in 1 .. Len(log) + 1 : log' = InsertAt(log, p, r) /\ p = Len(log) + 1
    BY <1>1, <1>14, <2>3, AppendInserts
  <2>7. After(m, p)
    <3>1. Len(log) \in Nat BY <1>1, LenProperties
    <3> QED BY <2>6, <3>1 DEF After
  <2>8. \/ HandlerOwes(m) /\ ~HandlerOwes(m)' /\ (MayAnswer(m) \/ m \in late')
        \/ Takes(m) /\ ~JobOwes(m)'
    <3>1. CASE q.by = "handler"
      <4>1. ~MayAnswer(m) BY <1>1, <1>2, <3>1 DEF Left
      <4> QED BY <1>3, <1>5, <1>6, <1>8, <1>14, <3>1, <4>1 DEF HandlerOwes
    <3>2. CASE q.by = "job"
      <4>1. ~MayTake(m) BY <1>1, <1>2, <3>2 DEF Left
      <4> QED BY <1>3, <1>6, <1>8, <3>2, <4>1 DEF Takes, JobOwes
    <3> QED BY <1>3, <3>1, <3>2
  <2>9. AnswerInv'
    BY <1>3, <1>4, <1>5, <1>6, <1>7, <1>9, <1>10, <2>3, <2>6, <2>7, <2>8, AnswerKeeps
  <2> QED BY <1>12, <2>4, <2>5, <2>9 DEF ThreadInv, ThreadBase
<1> QED BY <1>4, <1>13, <1>14

\* People and clocks touch neither a handler nor the job.
LEMMA OutsideKeeps ==
    ASSUME ThreadInv, UNCHANGED <<handler, job, Records>>, pause' \in Pause,
           \/ UNCHANGED outbound
           \/ outbound' = {[q EXCEPT !.spoken = TRUE] : q \in outbound},
           humanAge' \in {"none", "fresh", "cool", "old"}, enabled' \in BOOLEAN,
           manual' \in BOOLEAN, trouble' \in 0 .. MaxTrouble,
           \/ UNCHANGED log
           \/ \E by \in Humans \cup {"bot"} : log' = Append(log, [by |-> by, of |-> 0])
    PROVE  ThreadInv'
<1>1. ThreadBase /\ ThreadTypeOK /\ Tasks /\ Alone /\ Arrived \in Nat
  BY ThreadAssumption DEF ThreadInv, ThreadBase, AnswerInv, Tasks
<1>2. Arrived' = Arrived /\ Tasks'
  <2>1. Arrived' = Arrived BY DEF Arrived
  <2> QED BY <1>1, <2>1 DEF Tasks, Records
<1>3. \/ UNCHANGED log
      \/ \E r \in Row : r.by \notin {"ai", "customer"} /\ r.of = 0 /\ log' = Append(log, r)
  <2>1. ASSUME NEW by \in Humans \cup {"bot"}
        PROVE  \E r \in Row : /\ r.by \notin {"ai", "customer"} /\ r.of = 0
                              /\ r = [by |-> by, of |-> 0]
    BY ThreadAssumption DEF Row, Humans
  <2> QED BY <2>1
<1>4. Rows'
  <2>1. CASE UNCHANGED log BY <1>1, <1>2, <2>1, RowsStay
  <2>2. ASSUME NEW r \in Row, r.by # "customer", r.of = 0, log' = Append(log, r) PROVE Rows'
    BY <1>1, <1>2, <2>2, RowsGrow
  <2> QED BY <1>3, <2>1, <2>2
<1>5. /\ \A x \in Inbound : /\ MayAnswer(x)' <=> MayAnswer(x)
                            /\ MayTake(x)' <=> MayTake(x)
                            /\ Working(x)' <=> Working(x)
      /\ Alone'
  <2>1. \A x \in Inbound : /\ MayAnswer(x)' <=> MayAnswer(x)
                           /\ MayTake(x)' <=> MayTake(x)
                           /\ Working(x)' <=> Working(x)
    BY DEF MayAnswer, MayTake, Working, Records
  <2>2. Alone' BY <1>1 DEF Alone, MayAnswer, Records
  <2> QED BY <2>1, <2>2
<1>6. /\ Left' /\ outbound' \subseteq Queued
      /\ \A by, x : QueuedBy(by, x)' <=> QueuedBy(by, x)
      /\ \A x \in Inbound : /\ HandlerOwes(x)' => HandlerOwes(x)
                            /\ JobOwes(x)' => JobOwes(x)
  BY <1>5, LeftStays
<1>7. ThreadTypeOK' BY <1>1, <1>4, <1>6 DEF ThreadTypeOK, Rows, Row, Records
<1>8. AnswerInv'
  <2>1. \A x \in Inbound : Takes(x)' => Takes(x) BY <1>5, <1>6 DEF Takes
  <2> QED BY <1>3, <1>5, <1>6, <2>1, NoAnswerKeeps DEF Records
<1> QED BY <1>2, <1>4, <1>7, <1>8 DEF ThreadInv, ThreadBase

LEMMA CrashKeeps == ASSUME ThreadInv, Crash PROVE ThreadInv'
<1>1. ThreadBase /\ ThreadTypeOK /\ Tasks /\ Alone /\ handler \in [Inbound -> HandlerState]
  BY DEF ThreadInv, ThreadBase, AnswerInv, Tasks
<1>2. /\ handler' = [m \in Inbound |-> IF m \in Busy THEN Fresh("done") ELSE handler[m]]
      /\ job' = Idle /\ trouble' = trouble + 1 /\ trouble < MaxTrouble
      /\ UNCHANGED <<log, Owner, pause, claimed, late, overlapped, outbound>>
  BY DEF Crash, Trouble
<1>3. /\ handler' \in [Inbound -> HandlerState]
      /\ \A x \in Inbound : handler'[x].at # "new" <=> handler[x].at # "new"
      /\ \A x \in Inbound : handler'[x].at = "done" \/ handler'[x] = handler[x]
  <2>1. \A x \in Busy : handler[x].at # "new" BY DEF Busy
  <2> QED BY <1>1, <1>2, <2>1, FreshTyped
<1>4. Arrived' = Arrived BY <1>3 DEF Arrived
<1>5. job'.at = "idle" /\ \A x \in Inbound : ~Working(x)' BY <1>2 DEF Idle, Working
<1>6. Tasks' BY <1>1, <1>2, <1>3, <1>4, <1>5 DEF Tasks
<1>7. Rows' BY <1>1, <1>2, <1>4, RowsStay
<1>8. ThreadTypeOK'
  <2>1. \A x \in Inbound : handler'[x] \in HandlerState BY <1>3
  <2>2. dropped' \subseteq Inbound BY <1>1 DEF Crash, Busy, ThreadTypeOK
  <2>3. trouble' \in 0 .. MaxTrouble BY <1>1, <1>2, ThreadAssumption DEF ThreadTypeOK
  <2> QED BY <1>1, <1>2, <2>1, <2>2, <2>3 DEF ThreadTypeOK, HandlerState, Owner
<1>9. \A x \in Inbound : (MayAnswer(x)' => MayAnswer(x)) /\ (MayTake(x)' => MayTake(x))
  BY <1>2, <1>3, <1>5 DEF MayAnswer, MayTake
<1>10. Alone' BY <1>1, <1>2, <1>9 DEF Alone, ThreadTypeOK
<1>11. AnswerInv'
  <2>1. /\ Left' /\ \A by, x : QueuedBy(by, x)' <=> QueuedBy(by, x)
        /\ \A x \in Inbound : /\ HandlerOwes(x)' => HandlerOwes(x)
                              /\ JobOwes(x)' => JobOwes(x)
    BY <1>2, <1>9, LeftStays
  <2>2. \A x \in Inbound : Takes(x)' => Takes(x) BY <1>5, <2>1 DEF Takes
  <2> QED BY <1>2, <1>9, <1>10, <2>1, <2>2, NoAnswerKeeps
<1> QED BY <1>6, <1>7, <1>8, <1>11 DEF ThreadInv, ThreadBase

LEMMA ThreadInvInductive == ThreadInv /\ [ThreadNext]_threadVars => ThreadInv'
<1> SUFFICES ASSUME ThreadInv, [ThreadNext]_threadVars
             PROVE  ThreadInv'
  OBVIOUS
<1>1. /\ pause \in Pause /\ humanAge \in {"none", "fresh", "cool", "old"}
      /\ enabled \in BOOLEAN /\ manual \in BOOLEAN /\ trouble \in 0 .. MaxTrouble
      /\ Trouble => trouble' \in 0 .. MaxTrouble
  BY ThreadAssumption DEF ThreadInv, ThreadBase, ThreadTypeOK, Trouble
<1>2. \A q \in Pause : [q EXCEPT !.at = "expired"] \in Pause
  <2> TAKE q \in Pause
  <2>1. q \in [on : BOOLEAN, at : {"null", "recent", "expired"}]
    <3>1. CASE q = [on |-> FALSE, at |-> "null"] BY <3>1
    <3> QED BY <3>1 DEF Pause
  <2>2. [q EXCEPT !.at = "expired"] \in [on : BOOLEAN, at : {"null", "recent", "expired"}]
    BY <2>1
  <2> QED BY <2>2 DEF Pause
<1>3. \A on \in BOOLEAN : [on |-> on, at |-> "null"] \in Pause BY DEF Pause
<1>4. ASSUME NEW by \in Humans, HumanWrites(by) PROVE ThreadInv'
  BY <1>1, <1>4, OutsideKeeps DEF HumanWrites
<1>5. ASSUME NEW on \in BOOLEAN, Toggle(on) PROVE ThreadInv'
  BY <1>1, <1>3, <1>5, OutsideKeeps DEF Toggle
<1>6. CASE SwitchAgent \/ Notice BY <1>1, <1>6, OutsideKeeps DEF SwitchAgent, Notice, Owner
<1>7. CASE PauseAges BY <1>1, <1>2, <1>7, OutsideKeeps DEF PauseAges, Owner
<1>8. CASE GraceElapses BY <1>1, <1>8, OutsideKeeps DEF GraceElapses
<1>9. CASE DayPasses BY <1>1, <1>9, OutsideKeeps DEF DayPasses
<1>10. CASE UNCHANGED threadVars BY <1>1, <1>10, OutsideKeeps DEF threadVars, Records
<1> QED BY <1>4, <1>5, <1>6, <1>7, <1>8, <1>9, <1>10, ArriveKeeps, HandlerStepKeeps,
           JobStepKeeps, DrainKeeps, CrashKeeps
        DEF ThreadNext, DrainStep

LEMMA ThreadInitInv == ThreadInit => ThreadInv
<1> SUFFICES ASSUME ThreadInit PROVE ThreadInv OBVIOUS
<1>1. /\ log = <<>> /\ log \in Seq(Row) /\ DOMAIN log = {}
      /\ handler = [m \in Inbound |-> [at |-> "new", loaded |-> Running]]
      /\ claimed = {} /\ outbound = {} /\ job.at = "idle" /\ job = Idle
  BY EmptySeq DEF ThreadInit, Idle
<1>2. [at |-> "new", loaded |-> Running] \in HandlerState
  BY FreshTyped DEF HandlerState
<1>3. Arrived = 0
  <2>1. {m \in Inbound : handler[m].at # "new"} = {} BY <1>1
  <2> QED BY <2>1, FS_EmptySet DEF Arrived
<1>4. Tasks BY <1>1, <1>2, <1>3, ThreadAssumption DEF Tasks, Inbound
<1>5. Rows BY <1>1 DEF Rows
<1>6. ThreadTypeOK
  <2>1. \A m \in Inbound : handler[m] \in HandlerState BY <1>1, <1>2
  <2>2. 0 \in 0 .. MaxTrouble BY ThreadAssumption
  <2>3. job = Idle \/ job \in JobState BY <1>1
  <2> QED BY <1>1, <2>1, <2>2, <2>3, FreshTyped
          DEF ThreadInit, ThreadTypeOK, Row, HandlerState, JobState
<1>7. AnswerInv
  BY <1>1 DEF AnswerInv, Left, Alone, NoneYet, OneYet, Behind, Reopened, AnsweredOnce
<1> QED BY <1>4, <1>5, <1>6, <1>7 DEF ThreadInv, ThreadBase

\* The thread, its handlers and the job keep their types.
THEOREM ThreadTyped == ThreadSpec => []ThreadTypeOK
<1>1. ThreadInv => ThreadTypeOK BY DEF ThreadInv, ThreadBase
<1> QED BY <1>1, ThreadInitInv, ThreadInvInductive, PTL DEF ThreadSpec

\* Whoever answers, pauses, switches off or dies: a message the customer sent is
\* answered by the AI a second time only if a person's message from the phone
\* came after the first answer, the job took it over while its own handler was
\* at work, or the handler's answer came late from the outbound queue; and never
\* a third time (human_handoff.py, webhook.py, whatsapp.py).
THEOREM MessageAnsweredOnce == ThreadSpec => []AnsweredOnce
<1>1. ThreadInv => AnsweredOnce BY DEF ThreadInv, AnswerInv
<1> QED BY <1>1, ThreadInitInv, ThreadInvInductive, PTL DEF ThreadSpec

-----------------------------------------------------------------------------
(***************************************************************************)
(* The four parts together, as MCDesk explores them.                       *)
(***************************************************************************)

\* A step of the composition is a step of one part, and the others stutter.
LEMMA ComposedStep ==
    ASSUME [Next]_vars
    PROVE  /\ [ThreadNext]_threadVars
           /\ [PickupNext]_pickupVars
           /\ [DeskNext]_deskVars
           /\ [SchedNext]_schedVars
<1>1. [ThreadNext]_threadVars BY Zenon DEF Next, vars
<1>2. [PickupNext]_pickupVars BY Zenon DEF Next, vars
<1>3. [DeskNext]_deskVars BY Zenon DEF Next, vars
<1>4. [SchedNext]_schedVars BY Zenon DEF Next, vars
<1> QED BY <1>1, <1>2, <1>3, <1>4

\* The composition the run explores keeps the types of its parts and what each
\* promises: one answer, the confirmed booking, one order per slip and one
\* reminder, with the exceptions each of them names.
THEOREM DeskHolds ==
    Spec => [](TypeOK /\ AnsweredOnce /\ BookingsHeld /\ OneOrderPerSlip /\ RemindedOnce)
<1> DEFINE Inv == ThreadInv /\ PickupInv /\ StaffInv /\ ReminderInv
           Held == TypeOK /\ AnsweredOnce /\ BookingsHeld /\ OneOrderPerSlip /\ RemindedOnce
<1>1. Init => Inv
  BY ThreadInitInv, PickupInvInit, StaffInit, ReminderInitInv DEF Init
<1>2. Inv /\ [Next]_vars => Inv'
  BY ComposedStep, ThreadInvInductive, PickupInvInductive, StaffInvInductive,
     ReminderInvInductive
<1>3. Inv => Held
  <2> SUFFICES ASSUME Inv PROVE Held OBVIOUS
  <2>1. ThreadTypeOK /\ PickupTypeOK /\ DeskTypeOK /\ SchedTypeOK
    BY DEF ThreadInv, ThreadBase, PickupInv, StaffInv, StaffBase, ReminderInv
  <2>2. AnsweredOnce BY DEF ThreadInv, AnswerInv
  <2>3. BookingsHeld BY PickupInvHolds
  <2>4. OneOrderPerSlip BY StaffInvHolds
  <2>5. RemindedOnce BY DEF ReminderInv
  <2> QED BY <2>1, <2>2, <2>3, <2>4, <2>5 DEF TypeOK
<1> HIDE DEF Inv, Held
<1>4. Spec => Init /\ [][Next]_vars BY PTL DEF Spec
<1>5. Init /\ [][Next]_vars => []Held BY <1>1, <1>2, <1>3, PTL
<1>6. Spec => []Held BY <1>4, <1>5, PTL
<1> QED BY <1>6 DEF Held

=============================================================================
