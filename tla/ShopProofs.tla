---------------------------- MODULE ShopProofs -----------------------------
(***************************************************************************)
(* Proofs about the shop's work and its customers: the tasks of an order's *)
(* stages (StageTasks), a marketing campaign (Campaigns), the bills of     *)
(* pickups (PanelBills), orders made on the web page (SelfOrder), and      *)
(* rewards (Referrals).                                                    *)
(***************************************************************************)
EXTENDS StageTasks, Campaigns, PanelBills, SelfOrder, Referrals, SetSums,
        SequenceTheorems

----------------------------------------------------------------------------
(* StageTasks.                                                             *)

(***************************************************************************)
(* StageTasks.  An order that waits for somebody's hand is on a list, or a *)
(* request is on its way with the task it calls for or with its next       *)
(* status.                                                                 *)
(***************************************************************************)
ShopTask == [kind : Kinds, open : BOOLEAN]
Somewhere == Stage \cup Shelved
Hooking == {"resume", "close", "open"}
ActState == [at : {"idle", "complete", "advance", "commit", "deliver", "plan"} \cup Hooking,
             task : 0 .. MaxTasks, old : Somewhere, to : Seq(Somewhere)]

\* A task that is being finished is one of the order's, and not a delivery.
OnTask == \A a \in Actor : act[a].at \in {"complete", "advance"} =>
    act[a].task \in DOMAIN tasks /\ tasks[act[a].task].kind \in {"pickup"} \cup Work

\* A request that writes a status or runs its hook has one in hand.
InHand == \A a \in Actor :
    /\ act[a].at \in Hooking \cup {"commit", "deliver"} => act[a].to # <<>>
    /\ act[a].at = "deliver" => Head(act[a].to) = "READY"

Waits == {"PICKED_UP", "IN_IRON", "READY"}
Called(s) == IF s = "READY" THEN {"delivery"} ELSE Matching(s)

OnTheWay(a, s) ==
    \/ act[a].at = "commit" /\ CanMove(act[a].old, Head(act[a].to))
    \/ act[a].at = "advance" /\ tasks[act[a].task].kind \in Called(s)
    \/ act[a].at \in Hooking \cup {"deliver"} /\ Head(act[a].to) = s

Listed(s) == stage = s => OpenOf(Called(s)) # {} \/ \E a \in Actor : OnTheWay(a, s)

StageBase == StageTypeOK /\ OnTask /\ InHand
StageInv  == StageBase /\ (~forgiven => \A s \in Waits : Listed(s))

----------------------------------------------------------------------------

\* Where each status stands in the sequence.
LEMMA AtIs ==
    /\ At("RECEIVED") = 1 /\ At("PICKUP_ASSIGNED") = 2 /\ At("PICKED_UP") = 3
    /\ At("IN_WASH") = 4 /\ At("IN_IRON") = 5 /\ At("READY") = 6
<1> DEFINE L == Lifecycle
<1>1. /\ L[1] = "RECEIVED" /\ L[2] = "PICKUP_ASSIGNED" /\ L[3] = "PICKED_UP"
      /\ L[4] = "IN_WASH" /\ L[5] = "IN_IRON" /\ L[6] = "READY" /\ L[7] = "OUT_FOR_DELIVERY"
      /\ L[8] = "DELIVERED" /\ DOMAIN L = 1 .. 8
  BY DEF Lifecycle
<1>2. \A i \in DOMAIN L : i \in {1, 2, 3, 4, 5, 6, 7, 8}
  BY <1>1
<1> HIDE DEF L
<1>3. ASSUME NEW k \in DOMAIN L, \A i \in DOMAIN L : L[i] = L[k] => i = k
      PROVE  (CHOOSE i \in DOMAIN L : L[i] = L[k]) = k
  BY <1>3
<1>4. \A k \in DOMAIN L : \A i \in DOMAIN L : L[i] = L[k] => i = k
  BY <1>1, <1>2
<1>5. \A k \in DOMAIN L : (CHOOSE i \in DOMAIN L : L[i] = L[k]) = k
  BY <1>3, <1>4
<1>6. \A k \in DOMAIN L : At(L[k]) = k
  BY <1>5 DEF At, L
<1> QED
  BY <1>1, <1>6

LEMMA StagesAre ==
    Stage = {"RECEIVED", "PICKUP_ASSIGNED", "PICKED_UP", "IN_WASH", "IN_IRON", "READY",
             "OUT_FOR_DELIVERY", "DELIVERED"}
<1>1. DOMAIN Lifecycle = 1 .. 8
  BY DEF Lifecycle
<1>2. \A i \in 1 .. 8 : i \in {1, 2, 3, 4, 5, 6, 7, 8}
  OBVIOUS
<1> QED
  BY <1>1, <1>2 DEF Lifecycle, Stage

LEMMA AfterIs == \A s : After(s) \in {"IN_WASH", "IN_IRON", "READY"}
  BY DEF After, Before

\* A finished task takes the order along stages.
LEMMA PathTyped == \A kind, s : Path(kind, s) \in Seq(Somewhere)
<1> SUFFICES ASSUME NEW kind, NEW s
             PROVE  Path(kind, s) \in Seq(Somewhere)
  OBVIOUS
<1>1. {"PICKUP_ASSIGNED", "PICKED_UP", "IN_WASH", "IN_IRON", "READY"} \subseteq Somewhere
  BY StagesAre DEF Somewhere
<1>2. \A x, y \in Somewhere : <<x>> \in Seq(Somewhere) /\ <<x, y>> \in Seq(Somewhere)
  OBVIOUS
<1>3. <<>> \in Seq(Somewhere)
  OBVIOUS
<1> QED
  BY <1>1, <1>2, <1>3, AfterIs DEF Path

\* The work a waiting order calls for, once done, moves it on.
LEMMA PathMoves ==
    ASSUME NEW s \in Waits, NEW kind \in Called(s), kind \in {"pickup"} \cup Work
    PROVE  Path(kind, s) # <<>> /\ CanMove(s, Head(Path(kind, s)))
<1>1. s \in {"PICKED_UP", "IN_IRON"} /\ kind \in Work /\ (s = "IN_IRON" => kind = "iron")
  BY DEF Waits, Called, Matching, Work
<1>2. \A x, y : Head(<<x>>) = x /\ Head(<<x, y>>) = x /\ <<x>> # <<>> /\ <<x, y>> # <<>>
  OBVIOUS
<1>3. CanMove("PICKED_UP", "IN_WASH") /\ CanMove("PICKED_UP", "IN_IRON")
      /\ CanMove("PICKED_UP", "READY") /\ CanMove("IN_IRON", "READY")
  BY AtIs DEF CanMove, Shelved
<1>4. CASE s = "IN_IRON"
  <2>1. Path(kind, s) = <<After("IN_IRON")>> /\ After("IN_IRON") = "READY"
    BY <1>1, <1>4 DEF Path, Before, After, Work
  <2> QED
    BY <1>2, <1>3, <1>4, <2>1
<1>5. CASE s = "PICKED_UP" /\ kind = "wash"
  <2>1. CASE "IN_WASH" \in Processing
    <3>1. Path(kind, s) = <<"IN_WASH", After("IN_WASH")>>
      BY <1>5, <2>1 DEF Path, Before
    <3> QED
      BY <1>2, <1>3, <1>5, <3>1
  <2>2. CASE "IN_WASH" \notin Processing
    <3>1. Path(kind, s) = <<After("PICKED_UP")>> /\ After("PICKED_UP") \in {"IN_IRON", "READY"}
      BY <1>5, <2>2 DEF Path, Before, After, Work
    <3> QED
      BY <1>2, <1>3, <1>5, <3>1
  <2> QED
    BY <2>1, <2>2
<1>6. CASE s = "PICKED_UP" /\ kind = "iron"
  <2>1. CASE "IN_IRON" \in Processing
    <3>1. Path(kind, s) = <<After("IN_IRON")>> /\ After("IN_IRON") = "READY"
      BY <1>6, <2>1 DEF Path, Before, After
    <3> QED
      BY <1>2, <1>3, <1>6, <3>1
  <2>2. CASE "IN_IRON" \notin Processing
    <3>1. Path(kind, s) = <<After("PICKED_UP")>> /\ After("PICKED_UP") \in {"IN_WASH", "READY"}
      BY <1>6, <2>2 DEF Path, Before, After, Work
    <3> QED
      BY <1>2, <1>3, <1>6, <3>1
  <2> QED
    BY <2>1, <2>2
<1> QED
  BY <1>1, <1>4, <1>5, <1>6 DEF Work

\* What is known of the tasks after a step: none is lost, and each keeps its kind.
TasksKept ==
    /\ tasks' \in Seq(ShopTask) /\ Len(tasks') <= MaxTasks
    /\ DOMAIN tasks \subseteq DOMAIN tasks'
    /\ \A i \in DOMAIN tasks : tasks'[i].kind = tasks[i].kind

LEMMA ShutKeeps ==
    ASSUME StageTypeOK, NEW ids, Shut(ids)
    PROVE  /\ TasksKept /\ DOMAIN tasks' = DOMAIN tasks
           /\ \A i \in DOMAIN tasks : tasks'[i].open = (tasks[i].open /\ i \notin ids)
<1>1. tasks \in Seq(ShopTask) /\ Len(tasks) <= MaxTasks /\ Len(tasks) \in Nat
      /\ DOMAIN tasks = 1 .. Len(tasks)
  BY DEF StageTypeOK, ShopTask
<1>2. \A i \in DOMAIN tasks : tasks[i] \in ShopTask
  BY <1>1
<1>3. tasks' = [i \in 1 .. Len(tasks) |-> [tasks[i] EXCEPT !.open = @ /\ i \notin ids]]
  BY <1>1 DEF Shut
<1>4. \A i \in 1 .. Len(tasks) : [tasks[i] EXCEPT !.open = @ /\ i \notin ids] \in ShopTask
  BY <1>1, <1>2 DEF ShopTask
<1>5. tasks' \in Seq(ShopTask) /\ Len(tasks') = Len(tasks) /\ DOMAIN tasks' = DOMAIN tasks
  BY <1>1, <1>3, <1>4
<1>6. \A i \in DOMAIN tasks : tasks'[i] = [tasks[i] EXCEPT !.open = @ /\ i \notin ids]
  BY <1>1, <1>3
<1>7. \A i \in DOMAIN tasks :
         /\ tasks'[i].kind = tasks[i].kind
         /\ tasks'[i].open = (tasks[i].open /\ i \notin ids)
  BY <1>2, <1>6 DEF ShopTask
<1> QED
  BY <1>1, <1>5, <1>7 DEF TasksKept

LEMMA CreatedAdds ==
    ASSUME StageTypeOK, NEW kind \in Kinds, NEW unless \in SUBSET Kinds, Created(kind, unless)
    PROVE  /\ TasksKept
           /\ \A kinds : OpenOf(kinds) \subseteq OpenOf(kinds)'
           /\ OpenOf(unless \cup {kind})' # {}
<1>1. tasks \in Seq(ShopTask) /\ Len(tasks) <= MaxTasks /\ Len(tasks) \in Nat /\ MaxTasks \in Nat
      /\ DOMAIN tasks = 1 .. Len(tasks)
  BY StageAssumption DEF StageTypeOK, ShopTask
<1>2. CASE OpenOf(unless \cup {kind}) # {} /\ UNCHANGED tasks
  BY <1>1, <1>2 DEF TasksKept, OpenOf
<1>3. CASE Len(tasks) < MaxTasks /\ tasks' = Append(tasks, [kind |-> kind, open |-> TRUE])
  <2>1. [kind |-> kind, open |-> TRUE] \in ShopTask
    BY DEF ShopTask
  <2>2. /\ tasks' \in Seq(ShopTask) /\ Len(tasks') = Len(tasks) + 1
        /\ \A i \in 1 .. Len(tasks) : tasks'[i] = tasks[i]
        /\ tasks'[Len(tasks) + 1] = [kind |-> kind, open |-> TRUE]
    BY <1>1, <1>3, <2>1
  <2>3. DOMAIN tasks' = 1 .. Len(tasks) + 1
    BY <2>2
  <2>4. TasksKept
    BY <1>1, <1>3, <2>2, <2>3 DEF TasksKept
  <2>5. \A kinds : OpenOf(kinds) \subseteq OpenOf(kinds)'
    BY <1>1, <2>2, <2>3 DEF OpenOf
  <2>6. Len(tasks) + 1 \in OpenOf(unless \cup {kind})'
    BY <1>1, <2>2, <2>3 DEF OpenOf
  <2> QED
    BY <2>4, <2>5, <2>6
<1> QED
  BY <1>2, <1>3 DEF Created

LEMMA StageInitOk == StageInit => StageInv
<1> SUFFICES ASSUME StageInit PROVE StageInv
  OBVIOUS
<1>1. <<>> \in Seq(ShopTask) /\ Len(<<>>) = 0
  OBVIOUS
<1>2. \A t \in ShopTask : <<t>> \in Seq(ShopTask) /\ Len(<<t>>) = 1
  OBVIOUS
<1>3. \A k \in Kinds : [kind |-> k, open |-> TRUE] \in ShopTask
  BY DEF ShopTask
<1>4. tasks \in Seq(ShopTask) /\ Len(tasks) <= 1
  <2>1. tasks = <<>> \/ \E k \in Kinds : tasks = <<[kind |-> k, open |-> TRUE]>>
    BY DEF StageInit, Kinds, Work
  <2>2. CASE tasks = <<>>
    BY <1>1, <2>2
  <2>3. CASE \E k \in Kinds : tasks = <<[kind |-> k, open |-> TRUE]>>
    BY <1>2, <1>3, <2>3
  <2> QED
    BY <2>1, <2>2, <2>3
<1>5. Len(tasks) <= MaxTasks
  <2>1. Len(tasks) \in Nat
    BY <1>4
  <2> QED
    BY <1>4, <2>1, StageAssumption
<1>6. stage \in {"RECEIVED", "PICKUP_ASSIGNED"} /\ stage \in Somewhere /\ stage \notin Waits
  BY StagesAre DEF StageInit, Somewhere, Waits
<1>7. Free \in ActState
  BY StageAssumption, StagesAre DEF Free, ActState, Somewhere
<1>8. act = [a \in Actor |-> Free] /\ forgiven = FALSE /\ moves = 0
  BY DEF StageInit
<1>9. StageTypeOK
  <2>1. act \in [Actor -> ActState]
    BY <1>7, <1>8
  <2>2. moves \in 0 .. MaxMoves
    BY <1>8, StageAssumption
  <2> QED
    BY <1>4, <1>5, <1>6, <1>8, <2>1, <2>2
    DEF StageTypeOK, ShopTask, Somewhere, ActState, Hooking
<1>10. OnTask /\ InHand
  BY <1>8 DEF OnTask, InHand, Free, Hooking
<1> QED
  BY <1>6, <1>9, <1>10 DEF StageInv, StageBase, Listed

\* One request takes a step to r and the tasks stay what they are about.
StageStep(a, r) == act' = [act EXCEPT ![a] = r] /\ TasksKept

RightState(r) ==
    /\ r \in ActState
    /\ r.at \in {"complete", "advance"} =>
          r.task \in DOMAIN tasks /\ tasks[r.task].kind \in {"pickup"} \cup Work
    /\ r.at \in Hooking \cup {"commit", "deliver"} => r.to # <<>>
    /\ r.at = "deliver" => Head(r.to) = "READY"

LEMMA StepTyped ==
    ASSUME StageBase, NEW a \in Actor, NEW r, StageStep(a, r), RightState(r),
           stage' \in Somewhere, forgiven' \in BOOLEAN, moves' \in 0 .. MaxMoves
    PROVE  StageBase'
<1>1. act \in [Actor -> ActState] /\ act' \in [Actor -> ActState]
  BY DEF StageBase, StageTypeOK, StageStep, RightState, ActState, Hooking, Somewhere
<1>2. StageTypeOK'
  BY <1>1 DEF StageTypeOK, StageStep, TasksKept, ShopTask, ActState, Hooking, Somewhere
<1>3. act'[a] = r /\ \A b \in Actor \ {a} : act'[b] = act[b]
  BY <1>1 DEF StageStep
<1>4. OnTask'
  BY <1>3 DEF OnTask, StageBase, StageStep, TasksKept, RightState
<1>5. InHand'
  BY <1>3 DEF InHand, StageBase, RightState
<1> QED
  BY <1>2, <1>4, <1>5 DEF StageBase

\* What the others have under way stays under way.
LEMMA OthersOnTheWay ==
    ASSUME StageBase, NEW a \in Actor, NEW r, StageStep(a, r),
           NEW b \in Actor \ {a}, NEW s, OnTheWay(b, s)
    PROVE  OnTheWay(b, s)'
<1>1. act'[b] = act[b]
  BY DEF StageStep, StageBase, StageTypeOK
<1>2. CASE act[b].at = "commit" /\ CanMove(act[b].old, Head(act[b].to))
  BY <1>1, <1>2 DEF OnTheWay
<1>3. CASE act[b].at = "advance" /\ tasks[act[b].task].kind \in Called(s)
  BY <1>1, <1>3 DEF OnTheWay, StageBase, OnTask, StageStep, TasksKept
<1>4. CASE act[b].at \in Hooking \cup {"deliver"} /\ Head(act[b].to) = s
  BY <1>1, <1>4 DEF OnTheWay
<1> QED
  BY <1>2, <1>3, <1>4 DEF OnTheWay

\* A step of a request that was not on its way with it takes nothing off the list.
LEMMA StillListed ==
    ASSUME StageBase, NEW a \in Actor, NEW r, StageStep(a, r), NEW s,
           Listed(s), stage' = s => stage = s,
           OpenOf(Called(s)) \subseteq OpenOf(Called(s))', OnTheWay(a, s) => OnTheWay(a, s)'
    PROVE  Listed(s)'
  BY OthersOnTheWay DEF Listed

LEMMA SameTasks ==
    ASSUME StageTypeOK, UNCHANGED tasks
    PROVE  TasksKept /\ \A kinds : OpenOf(kinds)' = OpenOf(kinds)
  BY DEF StageTypeOK, TasksKept, ShopTask, OpenOf

LEMMA FreeIsRight == Free \in ActState /\ RightState(Free)
<1>1. Free \in ActState
  BY StageAssumption, StagesAre DEF Free, ActState, Somewhere
<1> QED
  BY <1>1 DEF Free, RightState, Hooking

\* A request or the planner starts from what it reads.
StartsWork(a) ==
    \/ \E new \in Stage \cup Shelved : Choose(a, new)
    \/ \E i \in DOMAIN tasks : TapStage(a, i) \/ TapDone(a, i) \/ TapDelivery(a, i)
    \/ Plan(a)

LEMMA StartStep ==
    ASSUME StageInv, NEW a \in Actor, StartsWork(a)
    PROVE  StageInv'
<1>1. StageBase /\ StageTypeOK /\ stage \in Somewhere /\ moves \in 0 .. MaxMoves
  BY DEF StageInv, StageBase, StageTypeOK, Somewhere
<1>2. act[a].at = "idle" /\ moves < MaxMoves /\ moves' = moves + 1
      /\ UNCHANGED <<stage, tasks, forgiven>>
  BY DEF StartsWork, Choose, TapStage, TapDone, TapDelivery, Plan, Starts
<1>3. PICK r : act' = [act EXCEPT ![a] = r] /\ RightState(r)
  <2>1. \A x \in Somewhere : <<x>> \in Seq(Somewhere) /\ <<x>> # <<>>
    OBVIOUS
  <2>2. \A x \in Somewhere : RightState([Free EXCEPT !.at = "commit", !.old = stage, !.to = <<x>>])
    BY <1>1, <2>1, FreeIsRight DEF RightState, ActState, Hooking
  <2>3. CASE \E new \in Stage \cup Shelved : Choose(a, new)
    BY <2>2, <2>3 DEF Choose, Is, Somewhere
  <2>4. CASE \E i \in DOMAIN tasks : TapStage(a, i)
    <3>1. After(stage) \in Somewhere
      BY AfterIs, StagesAre DEF Somewhere
    <3> QED
      BY <2>2, <2>4, <3>1 DEF TapStage, Is
  <2>5. CASE \E i \in DOMAIN tasks : TapDone(a, i)
    <3>1. PICK i \in DOMAIN tasks : TapDone(a, i)
      BY <2>5
    <3>2. i \in 0 .. MaxTasks /\ tasks[i].kind \in {"pickup"} \cup Work
      BY <1>1, <3>1, StageAssumption DEF TapDone, OpenOf, StageTypeOK
    <3>3. RightState([Free EXCEPT !.at = "complete", !.old = stage, !.task = i])
      BY <1>1, <3>2, FreeIsRight DEF RightState, ActState, Hooking
    <3> QED
      BY <3>1, <3>3 DEF TapDone, Is
  <2>6. CASE \E i \in DOMAIN tasks : TapDelivery(a, i)
    <3>1. "OUT_FOR_DELIVERY" \in Somewhere /\ "DELIVERED" \in Somewhere
      BY StagesAre DEF Somewhere
    <3>2. \E x \in {"OUT_FOR_DELIVERY", "DELIVERED"} :
            Is(a, [Free EXCEPT !.at = "commit", !.old = stage, !.to = <<x>>])
      <4>1. PICK step \in {<<"READY", "OUT_FOR_DELIVERY">>, <<"OUT_FOR_DELIVERY", "DELIVERED">>} :
              Is(a, [Free EXCEPT !.at = "commit", !.old = stage, !.to = <<step[2]>>])
        BY <2>6 DEF TapDelivery
      <4>2. step[2] \in {"OUT_FOR_DELIVERY", "DELIVERED"}
        OBVIOUS
      <4> QED
        BY <4>1, <4>2
    <3> QED
      BY <2>2, <3>1, <3>2 DEF Is
  <2>7. CASE Plan(a)
    <3>1. RightState([Free EXCEPT !.at = "plan"])
      BY FreeIsRight DEF RightState, ActState, Hooking, Free
    <3> QED
      BY <2>7, <3>1 DEF Plan, Is
  <2> QED
    BY <2>3, <2>4, <2>5, <2>6, <2>7 DEF StartsWork
<1>4. TasksKept /\ \A kinds : OpenOf(kinds)' = OpenOf(kinds)
  BY <1>1, <1>2, SameTasks
<1>5. StageStep(a, r)
  BY <1>3, <1>4 DEF StageStep
<1>6. moves' \in 0 .. MaxMoves
  BY <1>1, <1>2, StageAssumption
<1>7. StageBase'
  BY <1>1, <1>2, <1>3, <1>5, <1>6, StepTyped DEF StageTypeOK
<1>8. \A s : ~OnTheWay(a, s)
  BY <1>2 DEF OnTheWay, Hooking
<1>9. ASSUME NEW s \in Waits, Listed(s) PROVE Listed(s)'
  BY <1>1, <1>2, <1>4, <1>5, <1>8, <1>9, StillListed
<1> QED
  BY <1>2, <1>7, <1>9 DEF StageInv

\* The task is finished: its request is on its way with the next status.
LEMMA CompleteStep ==
    ASSUME StageInv, NEW a \in Actor, Complete(a)
    PROVE  StageInv'
<1> DEFINE i == act[a].task
<1>1. StageBase /\ StageTypeOK /\ act[a] \in ActState /\ act[a].at = "complete"
      /\ i \in DOMAIN tasks /\ tasks[i].kind \in {"pickup"} \cup Work
  BY DEF StageInv, StageBase, StageTypeOK, ActState, Hooking, Somewhere, OnTask, Complete
<1>2. UNCHANGED <<stage, forgiven, moves>>
  BY DEF Complete
<1>3. CASE tasks[i].open
  <2>1. Shut({i}) /\ act' = [act EXCEPT ![a].at = "advance"]
    BY <1>3 DEF Complete, Proceeds
  <2>2. act' = [act EXCEPT ![a] = [act[a] EXCEPT !.at = "advance"]]
    BY <2>1
  <2>3. TasksKept /\ DOMAIN tasks' = DOMAIN tasks
        /\ \A k \in DOMAIN tasks : tasks'[k].kind = tasks[k].kind
                                   /\ tasks'[k].open = (tasks[k].open /\ k \notin {i})
    BY <1>1, <2>1, ShutKeeps DEF TasksKept
  <2>4. RightState([act[a] EXCEPT !.at = "advance"])
    BY <1>1 DEF RightState, ActState, Hooking
  <2>5. StageStep(a, [act[a] EXCEPT !.at = "advance"])
    BY <2>2, <2>3 DEF StageStep
  <2>6. StageBase'
    BY <1>1, <1>2, <2>4, <2>5, StepTyped DEF StageTypeOK, Somewhere
  <2>7. ASSUME NEW s \in Waits, Listed(s) PROVE Listed(s)'
    <3>1. CASE tasks[i].kind \in Called(s)
      <4>1. act'[a] = [act[a] EXCEPT !.at = "advance"]
        BY <1>1, <2>2 DEF StageTypeOK
      <4>2. act'[a].at = "advance" /\ act'[a].task = i
        BY <1>1, <4>1 DEF ActState
      <4>3. OnTheWay(a, s)'
        BY <1>1, <2>3, <3>1, <4>2 DEF OnTheWay
      <4> QED
        BY <4>3 DEF Listed
    <3>2. CASE tasks[i].kind \notin Called(s)
      <4>1. OpenOf(Called(s)) \subseteq OpenOf(Called(s))'
        BY <1>1, <2>3, <3>2 DEF OpenOf
      <4>2. ~OnTheWay(a, s)
        BY <1>1 DEF OnTheWay, Hooking
      <4> QED
        BY <1>1, <1>2, <2>5, <2>7, <4>1, <4>2, StillListed
    <3> QED
      BY <3>1, <3>2
  <2> QED
    BY <1>2, <2>6, <2>7 DEF StageInv
<1>4. CASE ~tasks[i].open
  <2>1. act' = [act EXCEPT ![a] = Free] /\ UNCHANGED tasks
    BY <1>4 DEF Complete, Is
  <2>2. TasksKept /\ \A kinds : OpenOf(kinds)' = OpenOf(kinds)
    BY <1>1, <2>1, SameTasks
  <2>3. StageStep(a, Free)
    BY <2>1, <2>2 DEF StageStep
  <2>4. StageBase'
    BY <1>1, <1>2, <2>3, StepTyped, FreeIsRight DEF StageTypeOK, Somewhere
  <2>5. \A s : ~OnTheWay(a, s)
    BY <1>1 DEF OnTheWay, Hooking
  <2>6. ASSUME NEW s \in Waits, Listed(s) PROVE Listed(s)'
    BY <1>1, <1>2, <2>2, <2>3, <2>5, <2>6, StillListed
  <2> QED
    BY <1>2, <2>4, <2>6 DEF StageInv
<1> QED
  BY <1>3, <1>4

\* A finished task sends its request on to the order's next status.
LEMMA AdvanceStep ==
    ASSUME StageInv, NEW a \in Actor, Advance(a)
    PROVE  StageInv'
<1> DEFINE kind == tasks[act[a].task].kind
           seen == IF kind = "pickup" THEN act[a].old ELSE stage
           path == Path(kind, seen)
           on   == [Free EXCEPT !.at = "commit", !.old = seen, !.to = path]
           r    == IF path = <<>> THEN Free ELSE on
<1>1. StageBase /\ StageTypeOK /\ act[a] \in ActState /\ act[a].at = "advance"
      /\ kind \in {"pickup"} \cup Work /\ stage \in Somewhere
  BY DEF StageInv, StageBase, StageTypeOK, ActState, Hooking, Somewhere, OnTask, Advance
<1>2. UNCHANGED <<stage, tasks, forgiven, moves>> /\ act' = [act EXCEPT ![a] = r]
  BY DEF Advance, Is
<1>3. TasksKept /\ \A kinds : OpenOf(kinds)' = OpenOf(kinds)
  BY <1>1, <1>2, SameTasks
<1>4. seen \in Somewhere /\ path \in Seq(Somewhere)
  BY <1>1, PathTyped DEF ActState
<1>5. RightState(r)
  BY <1>4, FreeIsRight DEF RightState, ActState, Hooking
<1>6. StageStep(a, r)
  BY <1>2, <1>3 DEF StageStep
<1>7. StageBase'
  BY <1>1, <1>2, <1>5, <1>6, StepTyped DEF StageTypeOK
<1>8. ASSUME NEW s \in Waits, Listed(s) PROVE Listed(s)'
  <2>1. CASE stage = s /\ kind \in Called(s)
    <3>1. kind # "pickup"
      BY <2>1 DEF Called, Matching, Work
    <3>2. path # <<>> /\ CanMove(s, Head(path)) /\ seen = s
      BY <1>1, <2>1, <3>1, PathMoves
    <3>3. act'[a] = on
      BY <1>1, <1>2, <3>2 DEF StageTypeOK
    <3>4. act'[a].at = "commit" /\ act'[a].old = s /\ act'[a].to = path
      BY <3>2, <3>3 DEF Free
    <3>5. OnTheWay(a, s)'
      BY <3>2, <3>4 DEF OnTheWay
    <3> QED
      BY <3>5 DEF Listed
  <2>2. CASE stage # s
    BY <1>2, <2>2 DEF Listed
  <2>3. CASE kind \notin Called(s)
    <3>1. ~OnTheWay(a, s)
      BY <1>1, <2>3 DEF OnTheWay, Hooking
    <3> QED
      BY <1>1, <1>2, <1>3, <1>6, <1>8, <3>1, StillListed
  <2> QED
    BY <2>1, <2>2, <2>3
<1> QED
  BY <1>2, <1>7, <1>8 DEF StageInv

\* A new status brings its hook along.
LEMMA CommitStep ==
    ASSUME StageInv, NEW a \in Actor, Commit(a)
    PROVE  StageInv'
<1> DEFINE s0 == act[a]
           on(p) == [act[a] EXCEPT !.at = p]
<1>1. StageBase /\ StageTypeOK /\ act[a] \in ActState /\ act[a].at = "commit"
      /\ act[a].to # <<>> /\ stage \in Somewhere
  BY DEF StageInv, StageBase, StageTypeOK, ActState, Hooking, Somewhere, InHand, Commit
<1>2. UNCHANGED <<tasks, forgiven, moves>>
  BY DEF Commit
<1>3. TasksKept /\ \A kinds : OpenOf(kinds)' = OpenOf(kinds)
  BY <1>1, <1>2, SameTasks
<1>4. CASE CanMove(act[a].old, Head(act[a].to))
  <2>1. PICK p \in {"resume", "close"} : act' = [act EXCEPT ![a].at = p]
    BY <1>4 DEF Commit, Proceeds
  <2>2. stage' = Head(act[a].to) /\ stage' \in Somewhere
    BY <1>1, <1>4 DEF Commit, ActState
  <2>3. act' = [act EXCEPT ![a] = on(p)]
    BY <2>1
  <2>4. RightState(on(p))
    BY <1>1, <2>1 DEF RightState, ActState, Hooking
  <2>5. StageStep(a, on(p))
    BY <1>3, <2>3 DEF StageStep
  <2>6. StageBase'
    BY <1>1, <1>2, <2>2, <2>4, <2>5, StepTyped DEF StageTypeOK
  <2>7. act'[a] = on(p)
    BY <1>1, <2>3 DEF StageTypeOK
  <2>8. act'[a].at = p /\ act'[a].to = act[a].to
    BY <1>1, <2>7 DEF ActState
  <2>9. \A s : s = stage' => OnTheWay(a, s)'
    BY <2>1, <2>2, <2>8 DEF OnTheWay, Hooking
  <2>10. ASSUME NEW s \in Waits PROVE Listed(s)'
    BY <2>9 DEF Listed
  <2> QED
    BY <2>6, <2>10 DEF StageInv
<1>5. CASE ~CanMove(act[a].old, Head(act[a].to))
  <2>1. act' = [act EXCEPT ![a] = Free] /\ UNCHANGED stage
    BY <1>5 DEF Commit, Is
  <2>2. StageStep(a, Free)
    BY <1>3, <2>1 DEF StageStep
  <2>3. StageBase'
    BY <1>1, <1>2, <2>1, <2>2, StepTyped, FreeIsRight DEF StageTypeOK
  <2>4. \A s : ~OnTheWay(a, s)
    BY <1>1, <1>5 DEF OnTheWay, Hooking
  <2>5. ASSUME NEW s \in Waits, Listed(s) PROVE Listed(s)'
    BY <1>1, <1>3, <2>1, <2>2, <2>4, <2>5, StillListed
  <2> QED
    BY <1>2, <2>3, <2>5 DEF StageInv
<1> QED
  BY <1>4, <1>5

\* A request with its hook half done, and what it is about.
InHook(a, new) ==
    /\ StageBase /\ StageTypeOK /\ act[a] \in ActState /\ act[a].at \in Hooking
    /\ act[a].to # <<>> /\ new = Head(act[a].to) /\ new \in Somewhere /\ stage \in Somewhere

LEMMA HookKnown ==
    ASSUME StageInv, NEW a \in Actor, act[a].at \in Hooking
    PROVE  InHook(a, Head(act[a].to))
<1>1. act[a] \in ActState /\ act[a].to # <<>>
  BY DEF StageInv, StageBase, StageTypeOK, ActState, Hooking, Somewhere, InHand
<1>2. Head(act[a].to) \in Somewhere
  BY <1>1 DEF ActState
<1> QED
  BY <1>1, <1>2 DEF StageInv, StageBase, StageTypeOK, Somewhere, InHook

\* The next step of a hook is about the same status.
LEMMA HookGoesOn ==
    ASSUME NEW a \in Actor, NEW new, InHook(a, new), NEW p \in Hooking, Proceeds(a, p)
    PROVE  /\ act' = [act EXCEPT ![a] = [act[a] EXCEPT !.at = p]]
           /\ RightState([act[a] EXCEPT !.at = p])
           /\ \A s : s = new \/ OnTheWay(a, s) => OnTheWay(a, s)'
<1>1. act' = [act EXCEPT ![a] = [act[a] EXCEPT !.at = p]]
  BY DEF Proceeds
<1>2. RightState([act[a] EXCEPT !.at = p])
  BY DEF InHook, RightState, ActState, Hooking
<1>3. act'[a].at = p /\ act'[a].to = act[a].to
  BY <1>1 DEF InHook, StageTypeOK, ActState
<1>4. \A s : OnTheWay(a, s) => Head(act[a].to) = s
  BY DEF InHook, OnTheWay, Hooking
<1>5. \A s : Head(act[a].to) = s => OnTheWay(a, s)'
  BY <1>3 DEF OnTheWay
<1> QED
  BY <1>1, <1>2, <1>4, <1>5 DEF InHook

LEMMA ResumeStep ==
    ASSUME StageInv, NEW a \in Actor, Resume(a)
    PROVE  StageInv'
<1> DEFINE new == Head(act[a].to)
           r   == [act[a] EXCEPT !.at = "close"]
<1>1. InHook(a, new)
  BY HookKnown DEF Resume, Hooking
<1>2. UNCHANGED <<stage, forgiven, moves>> /\ Proceeds(a, "close")
  BY DEF Resume
<1>3. TasksKept /\ \A kinds : OpenOf(kinds) \subseteq OpenOf(kinds)'
  <2>1. FirstKind \in Kinds /\ {"pickup", "delivery", "iron", "wash"} \subseteq Kinds
        /\ Work \in SUBSET Kinds /\ {} \in SUBSET Kinds
    BY DEF FirstKind, Kinds, Work
  <2>2. \/ UNCHANGED tasks
        \/ \E kind \in Kinds, unless \in SUBSET Kinds : Created(kind, unless)
    BY <2>1 DEF Resume
  <2> QED
    BY <1>1, <2>2, SameTasks, CreatedAdds DEF InHook
<1>4. StageStep(a, r) /\ RightState(r) /\ \A s : OnTheWay(a, s) => OnTheWay(a, s)'
  BY <1>1, <1>2, <1>3, HookGoesOn DEF StageStep, Hooking
<1>5. StageBase'
  BY <1>1, <1>2, <1>4, StepTyped DEF InHook, StageTypeOK
<1>6. ASSUME NEW s \in Waits, Listed(s) PROVE Listed(s)'
  BY <1>1, <1>2, <1>3, <1>4, <1>6, StillListed DEF InHook
<1> QED
  BY <1>2, <1>5, <1>6 DEF StageInv

LEMMA CloseStep ==
    ASSUME StageInv, NEW a \in Actor, Close(a)
    PROVE  StageInv'
<1> DEFINE new  == Head(act[a].to)
           gone == OpenOf(IF new \in Shelved THEN Kinds ELSE DoneOn(new))
           r    == [act[a] EXCEPT !.at = "open"]
<1>1. InHook(a, new)
  BY HookKnown DEF Close, Hooking
<1>2. UNCHANGED <<stage, moves>> /\ Proceeds(a, "open") /\ Shut(gone)
      /\ forgiven' = (forgiven \/ (gone # {} /\ stage # new))
  BY DEF Close
<1>3. TasksKept /\ DOMAIN tasks' = DOMAIN tasks
      /\ \A i \in DOMAIN tasks : tasks'[i].kind = tasks[i].kind
                                 /\ tasks'[i].open = (tasks[i].open /\ i \notin gone)
  BY <1>1, <1>2, ShutKeeps DEF InHook, TasksKept
<1>4. StageStep(a, r) /\ RightState(r)
      /\ \A s : s = new \/ OnTheWay(a, s) => OnTheWay(a, s)'
  <2>1. Proceeds(a, "open") /\ "open" \in Hooking
    BY <1>2 DEF Hooking
  <2> HIDE DEF new, gone
  <2> QED
    BY <1>1, <1>3, <2>1, HookGoesOn DEF StageStep
<1>5. forgiven' \in BOOLEAN
  BY <1>1, <1>2 DEF InHook, StageTypeOK
<1>6. StageBase'
  BY <1>1, <1>2, <1>4, <1>5, StepTyped DEF InHook, StageTypeOK
<1>7. ASSUME ~forgiven', NEW s \in Waits, Listed(s) PROVE Listed(s)'
  <2>1. CASE stage = s /\ new = s
    BY <1>4, <2>1 DEF Listed
  <2>2. CASE stage # s
    BY <1>2, <2>2 DEF Listed
  <2>3. CASE stage = s /\ new # s
    <3>1. gone = {}
      BY <1>2, <1>7, <2>3
    <3>2. OpenOf(Called(s)) \subseteq OpenOf(Called(s))'
      BY <1>3, <3>1 DEF OpenOf
    <3> QED
      BY <1>1, <1>2, <1>4, <1>7, <3>2, StillListed DEF InHook
  <2> QED
    BY <2>1, <2>2, <2>3
<1>8. forgiven => forgiven'
  BY <1>2
<1> QED
  BY <1>6, <1>7, <1>8 DEF StageInv

\* The hook ends with the order offered for delivery, the next status, or nothing.
LEMMA HookEnds ==
    ASSUME NEW a \in Actor, NEW new, InHook(a, new), AfterHook(a)
    PROVE  \E r : /\ act' = [act EXCEPT ![a] = r] /\ RightState(r)
                  /\ new = "READY" => \A s : OnTheWay(a, s) => OnTheWay(a, s)'
<1>1. CASE new = "READY"
  <2> DEFINE r == [act[a] EXCEPT !.at = "deliver"]
  <2>1. act' = [act EXCEPT ![a] = r]
    BY <1>1 DEF AfterHook, Is, InHook
  <2>2. RightState(r)
    BY <1>1 DEF InHook, RightState, ActState, Hooking
  <2>3. act'[a].at = "deliver" /\ act'[a].to = act[a].to
    BY <2>1 DEF InHook, StageTypeOK, ActState
  <2>4. \A s : OnTheWay(a, s) => s = Head(act[a].to)
    BY DEF InHook, OnTheWay, Hooking
  <2>5. \A s : s = Head(act[a].to) => OnTheWay(a, s)'
    BY <2>3 DEF OnTheWay
  <2> QED
    BY <2>1, <2>2, <2>4, <2>5
<1>2. CASE new # "READY" /\ Len(act[a].to) = 1
  <2>1. act' = [act EXCEPT ![a] = Free]
    BY <1>2 DEF AfterHook, Is, InHook
  <2> QED
    BY <1>2, <2>1, FreeIsRight
<1>3. CASE new # "READY" /\ Len(act[a].to) # 1
  <2> DEFINE r == [act[a] EXCEPT !.at = "commit", !.old = Head(act[a].to), !.to = Tail(act[a].to)]
  <2>1. act' = [act EXCEPT ![a] = r]
    BY <1>3 DEF AfterHook, Is, InHook
  <2>2. act[a].to \in Seq(Somewhere) /\ act[a].to # <<>>
    BY DEF InHook, ActState
  <2>3. Tail(act[a].to) \in Seq(Somewhere) /\ Tail(act[a].to) # <<>>
    <3>1. \A t \in Seq(Somewhere) : t # <<>> =>
            Tail(t) \in Seq(Somewhere) /\ Len(Tail(t)) = Len(t) - 1 /\ Len(t) \in Nat
      BY HeadTailProperties
    <3>2. Len(<<>>) = 0
      OBVIOUS
    <3>3. Len(Tail(act[a].to)) # 0
      BY <1>3, <2>2, <3>1
    <3> QED
      BY <2>2, <3>1, <3>2, <3>3
  <2>4. RightState(r)
    BY <2>3 DEF InHook, RightState, ActState, Hooking
  <2> QED
    BY <1>3, <2>1, <2>4
<1> QED
  BY <1>1, <1>2, <1>3

LEMMA AssignStep ==
    ASSUME StageInv, NEW a \in Actor, Assign(a)
    PROVE  StageInv'
<1> DEFINE new == Head(act[a].to)
<1>1. InHook(a, new)
  BY HookKnown DEF Assign, Hooking
<1>2. UNCHANGED <<stage, forgiven, moves>> /\ AfterHook(a)
  BY DEF Assign
<1>3. FirstKind \in Work /\ Work \in SUBSET Kinds /\ {"delivery", "iron"} \subseteq Kinds
      /\ {} \in SUBSET Kinds
  BY DEF FirstKind, Kinds, Work
<1>4. /\ TasksKept /\ \A kinds : OpenOf(kinds) \subseteq OpenOf(kinds)'
      /\ new \in Waits => \A s : s = new => OpenOf(Called(s))' # {}
  <2>1. CASE new = "PICKED_UP"
    <3>1. Created(FirstKind, Work)
      BY <2>1 DEF Assign
    <3>2. Called("PICKED_UP") = Work \cup {FirstKind}
      BY <1>3 DEF Called, Matching
    <3> QED
      BY <1>1, <1>3, <2>1, <3>1, <3>2, CreatedAdds DEF InHook
  <2>2. CASE new = "IN_IRON"
    <3>1. Created("iron", {})
      BY <2>2 DEF Assign, Ironing
    <3>2. Called("IN_IRON") = {} \cup {"iron"}
      BY DEF Called, Matching
    <3> QED
      BY <1>1, <1>3, <2>2, <3>1, <3>2, CreatedAdds DEF InHook
  <2>3. CASE new = "READY"
    <3>1. Created("delivery", {})
      BY <2>3 DEF Assign
    <3>2. Called("READY") = {} \cup {"delivery"}
      BY DEF Called
    <3> QED
      BY <1>1, <1>3, <2>3, <3>1, <3>2, CreatedAdds DEF InHook
  <2>4. CASE new \notin Waits
    <3>1. UNCHANGED tasks
      BY <2>4 DEF Assign, Waits
    <3> QED
      BY <1>1, <2>4, <3>1, SameTasks DEF InHook
  <2> QED
    BY <2>1, <2>2, <2>3, <2>4 DEF Waits
<1>5. PICK r : act' = [act EXCEPT ![a] = r] /\ RightState(r)
  BY <1>1, <1>2, HookEnds
<1>6. StageStep(a, r)
  BY <1>4, <1>5 DEF StageStep
<1>7. StageBase'
  BY <1>1, <1>2, <1>5, <1>6, StepTyped DEF InHook, StageTypeOK
<1>8. ASSUME NEW s \in Waits, Listed(s) PROVE Listed(s)'
  <2>1. CASE s = new
    BY <1>4, <2>1 DEF Listed
  <2>2. CASE s # new
    <3>1. ~OnTheWay(a, s)
      BY <1>1, <2>2 DEF InHook, OnTheWay, Hooking
    <3> QED
      BY <1>1, <1>2, <1>4, <1>6, <1>8, <3>1, StillListed DEF InHook
  <2> QED
    BY <2>1, <2>2
<1> QED
  BY <1>2, <1>7, <1>8 DEF StageInv

LEMMA HookFailsStep ==
    ASSUME StageInv, NEW a \in Actor, HookFails(a)
    PROVE  StageInv'
<1> DEFINE new == Head(act[a].to)
<1>1. InHook(a, new)
  BY HookKnown DEF HookFails, Hooking
<1>2. UNCHANGED <<stage, tasks, moves>> /\ AfterHook(a)
      /\ forgiven' = (forgiven \/ new # "READY")
  BY DEF HookFails
<1>3. PICK r : /\ act' = [act EXCEPT ![a] = r] /\ RightState(r)
               /\ new = "READY" => \A s : OnTheWay(a, s) => OnTheWay(a, s)'
  BY <1>1, <1>2, HookEnds
<1>4. TasksKept /\ \A kinds : OpenOf(kinds)' = OpenOf(kinds)
  BY <1>1, <1>2, SameTasks DEF InHook
<1>5. StageStep(a, r)
  BY <1>3, <1>4 DEF StageStep
<1>6. forgiven' \in BOOLEAN /\ (forgiven => forgiven')
  BY <1>1, <1>2 DEF InHook, StageTypeOK
<1>7. StageBase'
  BY <1>1, <1>2, <1>3, <1>5, <1>6, StepTyped DEF InHook, StageTypeOK
<1>8. ASSUME ~forgiven', NEW s \in Waits, Listed(s) PROVE Listed(s)'
  BY <1>1, <1>2, <1>3, <1>4, <1>5, <1>8, StillListed DEF InHook
<1> QED
  BY <1>6, <1>7, <1>8 DEF StageInv

LEMMA DeliverStep ==
    ASSUME StageInv, NEW a \in Actor, Deliver(a)
    PROVE  StageInv'
<1>1. StageBase /\ StageTypeOK /\ act[a].at = "deliver" /\ Head(act[a].to) = "READY"
      /\ stage \in Somewhere
  BY DEF StageInv, StageBase, InHand, Deliver, StageTypeOK, Somewhere
<1>2. UNCHANGED <<stage, forgiven, moves>> /\ act' = [act EXCEPT ![a] = Free]
      /\ Created("delivery", {})
  BY DEF Deliver, Is
<1>3. TasksKept /\ (\A kinds : OpenOf(kinds) \subseteq OpenOf(kinds)')
      /\ OpenOf({} \cup {"delivery"})' # {}
  BY <1>1, <1>2, CreatedAdds DEF Kinds
<1>4. StageStep(a, Free)
  BY <1>2, <1>3 DEF StageStep
<1>5. StageBase'
  BY <1>1, <1>2, <1>4, StepTyped, FreeIsRight DEF StageTypeOK
<1>6. ASSUME NEW s \in Waits, Listed(s) PROVE Listed(s)'
  <2>1. CASE s = "READY"
    <3>1. Called("READY") = {} \cup {"delivery"}
      BY DEF Called
    <3> QED
      BY <1>3, <2>1, <3>1 DEF Listed
  <2>2. CASE s # "READY"
    <3>1. ~OnTheWay(a, s)
      BY <1>1, <2>2 DEF OnTheWay, Hooking
    <3> QED
      BY <1>1, <1>2, <1>3, <1>4, <1>6, <3>1, StillListed
  <2> QED
    BY <2>1, <2>2
<1> QED
  BY <1>2, <1>5, <1>6 DEF StageInv

\* A request that dies and a task taken off by hand are forgiven.
LEMMA ForgivenStep ==
    ASSUME StageInv, (\E a \in Actor : Abandons(a)) \/ (\E i \in DOMAIN tasks : ByHand(i))
    PROVE  StageInv'
<1>1. StageBase /\ StageTypeOK /\ stage \in Somewhere
  BY DEF StageInv, StageBase, StageTypeOK, Somewhere
<1>2. CASE \E a \in Actor : Abandons(a)
  <2>1. PICK a \in Actor : Abandons(a)
    BY <1>2
  <2>2. UNCHANGED <<stage, tasks, moves>> /\ forgiven' = TRUE /\ act' = [act EXCEPT ![a] = Free]
    BY <2>1 DEF Abandons, Is
  <2>3. StageStep(a, Free)
    BY <1>1, <2>2, SameTasks DEF StageStep
  <2>4. StageBase'
    BY <1>1, <2>2, <2>3, StepTyped, FreeIsRight DEF StageTypeOK
  <2> QED
    BY <2>2, <2>4 DEF StageInv
<1>3. CASE \E i \in DOMAIN tasks : ByHand(i)
  <2>1. PICK i \in DOMAIN tasks : ByHand(i)
    BY <1>3
  <2>2. UNCHANGED <<stage, act, moves>> /\ forgiven' = TRUE /\ Shut({i})
    BY <2>1 DEF ByHand
  <2>3. TasksKept
    BY <1>1, <2>2, ShutKeeps
  <2>4. StageTypeOK'
    BY <1>1, <2>2, <2>3 DEF StageTypeOK, TasksKept, ShopTask
  <2>5. OnTask' /\ InHand'
    BY <1>1, <2>2, <2>3 DEF StageBase, OnTask, InHand, TasksKept
  <2> QED
    BY <2>2, <2>4, <2>5 DEF StageInv, StageBase
<1> QED
  BY <1>2, <1>3

LEMMA PlanCreatesStep ==
    ASSUME StageInv, NEW a \in Actor, PlanCreates(a)
    PROVE  StageInv'
<1>1. StageBase /\ StageTypeOK /\ stage \in Somewhere /\ act[a].at = "plan"
  BY DEF StageInv, StageBase, StageTypeOK, Somewhere, PlanCreates
<1>2. UNCHANGED <<stage, forgiven, moves>> /\ act' = [act EXCEPT ![a] = Free]
      /\ Created(FirstKind, {})
  BY DEF PlanCreates, Is
<1>3. TasksKept /\ \A kinds : OpenOf(kinds) \subseteq OpenOf(kinds)'
  BY <1>1, <1>2, CreatedAdds DEF FirstKind, Kinds, Work
<1>4. StageStep(a, Free)
  BY <1>2, <1>3 DEF StageStep
<1>5. StageBase'
  BY <1>1, <1>2, <1>4, StepTyped, FreeIsRight DEF StageTypeOK
<1>6. \A s : ~OnTheWay(a, s)
  BY <1>1 DEF OnTheWay, Hooking
<1>7. ASSUME NEW s \in Waits, Listed(s) PROVE Listed(s)'
  BY <1>1, <1>2, <1>3, <1>4, <1>6, <1>7, StillListed
<1> QED
  BY <1>2, <1>5, <1>7 DEF StageInv

LEMMA StageInvStep == StageInv /\ [StageNext]_stageVars => StageInv'
<1> SUFFICES ASSUME StageInv, [StageNext]_stageVars PROVE StageInv'
  OBVIOUS
<1>1. CASE \E a \in Actor : StartsWork(a)
  BY <1>1, StartStep
<1>2. CASE \E a \in Actor : Complete(a) \/ Advance(a) \/ Commit(a)
  BY <1>2, CompleteStep, AdvanceStep, CommitStep
<1>3. CASE \E a \in Actor : Resume(a) \/ Close(a) \/ Assign(a) \/ HookFails(a)
  BY <1>3, ResumeStep, CloseStep, AssignStep, HookFailsStep
<1>4. CASE \E a \in Actor : Deliver(a) \/ PlanCreates(a)
  BY <1>4, DeliverStep, PlanCreatesStep
<1>5. CASE (\E a \in Actor : Abandons(a)) \/ (\E i \in DOMAIN tasks : ByHand(i))
  BY <1>5, ForgivenStep
<1>6. CASE UNCHANGED stageVars
  BY <1>6 DEF stageVars, StageInv, StageBase, StageTypeOK, OnTask, InHand, Listed, OnTheWay, OpenOf
<1> QED
  BY <1>1, <1>2, <1>3, <1>4, <1>5, <1>6 DEF StageNext, StartsWork

LEMMA StageInvHolds == StageSpec => []StageInv
  BY StageInitOk, StageInvStep, PTL DEF StageSpec

\* StageTasks: the order, its tasks and the requests at it stay well formed.
THEOREM StagesTyped == StageSpec => []StageTypeOK
<1>1. StageInv => StageTypeOK
  BY DEF StageInv, StageBase
<1> QED
  BY <1>1, StageInvHolds, PTL

\* Nobody's order is forgotten (WorkListed): with no request under way, an order
\* that was picked up, is at the iron or is ready has an open task of that
\* stage, unless a failure, a hand or a late hook took it.
THEOREM OrderOnList == StageSpec => []WorkListed
<1>1. ASSUME StageInv PROVE WorkListed
  <2> SUFFICES ASSUME \A a \in Actor : act[a].at = "idle", ~forgiven
               PROVE  /\ stage = "PICKED_UP" => OpenOf(Work) # {}
                      /\ stage = "IN_IRON" => OpenOf({"iron"}) # {}
                      /\ stage = "READY" => OpenOf({"delivery"}) # {}
    BY DEF WorkListed
  <2>1. \A s \in Waits : stage = s => OpenOf(Called(s)) # {}
    BY <1>1 DEF StageInv, Listed, OnTheWay, Hooking
  <2>2. Called("PICKED_UP") = Work /\ Called("IN_IRON") = {"iron"} /\ Called("READY") = {"delivery"}
    BY DEF Called, Matching
  <2> QED
    BY <2>1, <2>2 DEF Waits
<1> QED
  BY <1>1, StageInvHolds, PTL

----------------------------------------------------------------------------
(* Campaigns.                                                              *)

(***************************************************************************)
(* Campaigns.  A worker past its claim is the only one at its customer,    *)
(* whom no copy has reached; after a brake that found nobody unaware every *)
(* worker still comes to the gate; and while nothing has lapsed one worker *)
(* runs at a time, over rows still queued, and knows what has been spent.  *)
(***************************************************************************)
SendState == [at: SendSteps, seen: Statuses \cup {"none"}, page: SUBSET Customer,
              cur: Customer \cup {Nobody}, spent: Nat, sent: Nat,
              out: {"none", "accepted", "refused", "queued"}]

Handing == {"reserve", "paced", "release"}
Busy    == {"claim", "settle"} \cup Handing
HandsTo(w, c) == sender[w].at \in Handing /\ sender[w].cur = c

\* A worker has a page between the page's read and its end, and a row in hand
\* between two gates.
SendShape == \A w \in Sender :
    /\ sender[w].at \in {"idle", "loaded", "counting", "paging"} => sender[w].page = {}
    /\ sender[w].at \in Busy => sender[w].cur \in Customer

\* The claim of a customer, and the copies it stands for.
HoldsAlone == \A v, w \in Sender, c \in Customer : HandsTo(v, c) /\ HandsTo(w, c) => v = w
HoldsFirst == \A w \in Sender, c \in Customer :
    HandsTo(w, c) => c \in claimed /\ reached[c] = 0 /\ c \notin waiting
WaitsFirst == \A c \in Customer :
    /\ reached[c] <= 1 + lost[c]
    /\ c \in waiting => reached[c] <= lost[c]
    /\ c \in waiting \/ reached[c] > 0 => c \in claimed
OfferInv == HoldsAlone /\ HoldsFirst /\ WaitsFirst

\* The brake.
Aware(w) == \/ sender[w].at \in {"idle", "gate"}
            \/ sender[w].at \in Busy /\ ~(sender[w].page \subseteq {sender[w].cur})
Stopped == /\ campaign = "cancelled" /\ turnedTo = {}
           /\ \A o \in Owner : owner[o] = "idle"
           /\ \A w \in Sender : Aware(w)
BrakeInv == /\ ~braked => turnedTo = {}
            /\ braked /\ gaps = {} => Stopped

\* The month's budget.
OneWorks == \A v, w \in Sender : sender[v].at # "idle" /\ sender[w].at # "idle" => v = w
RowsTell == ticketed = {c \in Customer : rec[c] \in SentRows}
PageWaits == \A w \in Sender :
    /\ \A c \in sender[w].page : rec[c] = "queued"
    /\ sender[w].at \in Busy => rec[sender[w].cur] = "queued"
KnowsSpent == \A w \in Sender :
    /\ sender[w].at \in {"paging", "gate"} \cup Busy => sender[w].spent = Cardinality(ticketed)
    /\ sender[w].at \in Busy => sender[w].spent < MonthBudget
MonthKept == Cardinality(ticketed) <= MonthBudget
BudgetInv == ~lapsed => OneWorks /\ RowsTell /\ PageWaits /\ KnowsSpent /\ MonthKept

CampaignInv == CampaignTypeOK /\ SendShape /\ OfferInv /\ BrakeInv /\ BudgetInv

----------------------------------------------------------------------------

\* One worker goes on to s.
SenderGoes(w, s) == sender' = [sender EXCEPT ![w] = s]

LEMMA SenderAfter ==
    ASSUME CampaignTypeOK, NEW w \in Sender, NEW s \in SendState, SenderGoes(w, s)
    PROVE  /\ sender' \in [Sender -> SendState] /\ sender'[w] = s
           /\ \A v \in Sender : v # w => sender'[v] = sender[v]
  BY DEF CampaignTypeOK, SendState, SenderGoes

\* Where NextRow takes a worker.
LEMMA NextRowIs ==
    ASSUME NEW s \in SendState, NEW c
    PROVE  /\ NextRow(s, c) \in SendState
           /\ NextRow(s, c).page = s.page \ {c} /\ NextRow(s, c).spent = s.spent
           /\ NextRow(s, c).at = IF s.page \ {c} = {} THEN "paging" ELSE "gate"
<1> DEFINE z == IF s.page \ {c} = {} THEN "paging" ELSE "gate"
<1>1. z \in {"paging", "gate"}
  OBVIOUS
<1>2. NextRow(s, c) = [s EXCEPT !.page = s.page \ {c}, !.cur = Nobody, !.out = "none", !.at = z]
  BY DEF NextRow
<1> HIDE DEF z
<1>3. [s EXCEPT !.page = s.page \ {c}, !.cur = Nobody, !.out = "none", !.at = z] \in SendState
  BY <1>1 DEF SendState, SendSteps
<1>4. /\ NextRow(s, c).page = s.page \ {c} /\ NextRow(s, c).spent = s.spent
      /\ NextRow(s, c).at = z
  BY <1>2 DEF SendState
<1> QED
  BY <1>2, <1>3, <1>4 DEF z

\* A worker that has sent n messages more.
LEMMA SentMore ==
    ASSUME NEW s \in SendState, NEW n \in Nat
    PROVE  LET z == [s EXCEPT !.sent = @ + n, !.spent = @ + n] IN
           z \in SendState /\ z.spent = s.spent + n /\ z.page = s.page
<1>1. s.sent + n \in Nat /\ s.spent + n \in Nat
  BY DEF SendState
<1> QED
  BY <1>1 DEF SendState

\* The count the worker reads is the count of the tickets.
LEMMA TicketsCounted ==
    ASSUME CampaignTypeOK, CampaignAssumption
    PROVE  /\ IsFiniteSet(ticketed) /\ Cardinality(ticketed) \in Nat /\ MonthSendCount \in Nat
           /\ RowsTell => MonthSendCount = Cardinality(ticketed)
<1>1. ticketed \subseteq Customer /\ IsFiniteSet(Customer)
  BY DEF CampaignTypeOK, CampaignAssumption
<1>2. IsFiniteSet(ticketed) /\ Cardinality(ticketed) \in Nat
  BY <1>1, FS_Subset, FS_CardinalityType
<1>3. IsFiniteSet({c \in Customer : rec[c] \in SentRows})
  BY <1>1, FS_Subset
<1>4. MonthSendCount \in Nat
  BY <1>3, FS_CardinalityType DEF MonthSendCount
<1> QED
  BY <1>2, <1>4 DEF RowsTell, MonthSendCount

\* What a step has to leave alone for each part of the invariant.
OfferFrame ==
    /\ claimed \subseteq claimed' /\ UNCHANGED <<reached, lost>> /\ waiting' \subseteq waiting
    /\ \A v \in Sender, c \in Customer : HandsTo(v, c)' => HandsTo(v, c)

BrakeFrame ==
    /\ braked' = braked /\ gaps' = gaps
    /\ ~braked => turnedTo' = turnedTo
    /\ Stopped => Stopped'

BudgetFrame ==
    /\ lapsed => lapsed'
    /\ rec' = rec /\ ticketed' = ticketed
    /\ \A v \in Sender :
          /\ sender'[v].at # "idle" => sender[v].at # "idle"
          /\ sender'[v].page \subseteq sender[v].page
          /\ sender'[v].at \in {"paging", "gate"} \cup Busy =>
                sender[v].at \in {"paging", "gate"} \cup Busy /\ sender'[v].spent = sender[v].spent
          /\ sender'[v].at \in Busy => sender[v].at \in Busy /\ sender'[v].cur = sender[v].cur

LEMMA OffersStay ==
    ASSUME OfferInv, OfferFrame
    PROVE  OfferInv'
  BY DEF OfferInv, OfferFrame, HoldsAlone, HoldsFirst, WaitsFirst, HandsTo

LEMMA BrakeStays ==
    ASSUME BrakeInv, BrakeFrame
    PROVE  BrakeInv'
<1>1. (~braked => turnedTo = {})'
  BY DEF BrakeInv, BrakeFrame
<1>2. ASSUME braked', gaps' = {}
      PROVE  Stopped'
  BY <1>2 DEF BrakeInv, BrakeFrame
<1> QED
  BY <1>1, <1>2 DEF BrakeInv

LEMMA BudgetStays ==
    ASSUME BudgetInv, BudgetFrame
    PROVE  BudgetInv'
<1> SUFFICES ASSUME ~lapsed'
             PROVE  (OneWorks /\ RowsTell /\ PageWaits /\ KnowsSpent /\ MonthKept)'
  BY DEF BudgetInv
<1>1. OneWorks /\ RowsTell /\ PageWaits /\ KnowsSpent /\ MonthKept
  BY DEF BudgetInv, BudgetFrame
<1>2. OneWorks' /\ RowsTell' /\ MonthKept'
  BY <1>1 DEF BudgetFrame, OneWorks, RowsTell, MonthKept
<1>3. PageWaits'
  BY <1>1 DEF BudgetFrame, PageWaits
<1>4. KnowsSpent'
  BY <1>1 DEF BudgetFrame, KnowsSpent
<1> QED
  BY <1>2, <1>3, <1>4

LEMMA LookKeeps ==
    ASSUME CampaignInv, NEW o \in Owner, Look(o)
    PROVE  CampaignInv'
<1> USE CampaignAssumption
<1>1. CampaignTypeOK /\ SendShape /\ OfferInv /\ BrakeInv /\ BudgetInv
  BY DEF CampaignInv
<1>2. /\ UNCHANGED <<campaign, rec, ticketed, claimed, willing, recent, slots, quiet, waiting,
                     reached, lost, braked, gaps, turnedTo, lapsed, news>>
      /\ campaign = "suggested"
      /\ owner' \in [Owner -> {"idle", "approving", "queueing", "empty"}]
  BY <1>1 DEF Look, shop, campaignHistory, News, CampaignTypeOK, SendShape, SendState
<1>4. sender' = sender
  BY DEF Look
<1>5. CampaignTypeOK'
  BY <1>1, <1>2, <1>4 DEF CampaignTypeOK, SendState
<1>6. SendShape'
  BY <1>1, <1>2, <1>4 DEF SendShape, Busy, Handing
<1>7. OfferFrame
  BY <1>1, <1>2, <1>4 DEF OfferFrame, HandsTo, Handing
<1>8. OfferInv'
  BY <1>1, <1>7, OffersStay
<1>9. BrakeFrame
  BY <1>1, <1>2, <1>4 DEF BrakeFrame, Stopped, Aware, SendShape, Busy, Handing
<1>10. BrakeInv'
  BY <1>1, <1>9, BrakeStays
<1>11. BudgetFrame
  BY <1>1, <1>2, <1>4 DEF BudgetFrame, SendShape, Busy, Handing
<1>12. BudgetInv'
  BY <1>1, <1>11, BudgetStays
<1> QED
  BY <1>5, <1>6, <1>7, <1>8, <1>9, <1>10, <1>11, <1>12 DEF CampaignInv

LEMMA ApproveKeeps ==
    ASSUME CampaignInv, NEW o \in Owner, ApproveCampaign(o)
    PROVE  CampaignInv'
<1> USE CampaignAssumption
<1>1. CampaignTypeOK /\ SendShape /\ OfferInv /\ BrakeInv /\ BudgetInv
  BY DEF CampaignInv
<1>2. /\ UNCHANGED <<rec, ticketed, claimed, willing, recent, slots, quiet, waiting, reached, lost,
                     braked, gaps, turnedTo, lapsed, news>>
      /\ campaign' \in Statuses
      /\ owner[o] = "approving"
      /\ owner' \in [Owner -> {"idle", "approving", "queueing", "empty"}]
  BY <1>1 DEF ApproveCampaign, shop, campaignHistory, CampaignTypeOK, Statuses
<1>4. sender' = sender
  BY DEF ApproveCampaign
<1>5. CampaignTypeOK'
  BY <1>1, <1>2, <1>4 DEF CampaignTypeOK, SendState
<1>6. SendShape'
  BY <1>1, <1>2, <1>4 DEF SendShape, Busy, Handing
<1>7. OfferFrame
  BY <1>1, <1>2, <1>4 DEF OfferFrame, HandsTo, Handing
<1>8. OfferInv'
  BY <1>1, <1>7, OffersStay
<1>9. BrakeFrame
  BY <1>1, <1>2, <1>4 DEF BrakeFrame, Stopped, Aware, SendShape, Busy, Handing
<1>10. BrakeInv'
  BY <1>1, <1>9, BrakeStays
<1>11. BudgetFrame
  BY <1>1, <1>2, <1>4 DEF BudgetFrame, SendShape, Busy, Handing
<1>12. BudgetInv'
  BY <1>1, <1>11, BudgetStays
<1> QED
  BY <1>5, <1>6, <1>7, <1>8, <1>9, <1>10, <1>11, <1>12 DEF CampaignInv

LEMMA QueueKeeps ==
    ASSUME CampaignInv, NEW o \in Owner, Queue(o)
    PROVE  CampaignInv'
<1> USE CampaignAssumption
<1>1. CampaignTypeOK /\ SendShape /\ OfferInv /\ BrakeInv /\ BudgetInv
  BY DEF CampaignInv
<1>2. /\ UNCHANGED <<campaign, ticketed, claimed, willing, recent, slots, quiet, waiting,
                     reached, lost, braked, gaps, turnedTo, lapsed, news>>
      /\ owner[o] = "queueing"
      /\ owner' \in [Owner -> {"idle", "approving", "queueing", "empty"}]
      /\ rec' \in [Customer -> {"none", "queued", "skipped", "failed", "sent", "delivered"}]
      /\ \/ rec' = rec
         \/ \A c \in Customer : rec[c] = "none" /\ rec'[c] \in {"queued", "skipped"}
  BY <1>1 DEF Queue, shop, campaignHistory, News, CampaignTypeOK, SendShape, SendState
<1>4. sender' = sender
  BY DEF Queue
<1>5. CampaignTypeOK'
  BY <1>1, <1>2, <1>4 DEF CampaignTypeOK, SendState
<1>6. SendShape'
  BY <1>1, <1>2, <1>4 DEF SendShape, Busy, Handing
<1>7. OfferFrame
  BY <1>1, <1>2, <1>4 DEF OfferFrame, HandsTo, Handing
<1>8. OfferInv'
  BY <1>1, <1>7, OffersStay
<1>9. BrakeFrame
  BY <1>1, <1>2, <1>4 DEF BrakeFrame, Stopped, Aware, SendShape, Busy, Handing
<1>10. BrakeInv'
  BY <1>1, <1>9, BrakeStays
<1>11. BudgetInv'
  <2>1. CASE rec' = rec
    <3>1. BudgetFrame
      BY <1>2, <1>4, <2>1 DEF BudgetFrame
    <3> QED
      BY <1>1, <3>1, BudgetStays
  <2>2. CASE \A c \in Customer : rec[c] = "none" /\ rec'[c] \in {"queued", "skipped"}
    <3> SUFFICES ASSUME ~lapsed
                 PROVE  (OneWorks /\ RowsTell /\ PageWaits /\ KnowsSpent /\ MonthKept)'
      BY <1>2 DEF BudgetInv
    <3>1. OneWorks /\ RowsTell /\ PageWaits /\ KnowsSpent /\ MonthKept
      BY <1>1 DEF BudgetInv
    <3>2. OneWorks' /\ KnowsSpent' /\ MonthKept'
      BY <1>2, <1>4, <3>1 DEF OneWorks, KnowsSpent, MonthKept
    <3>3. RowsTell'
      BY <1>2, <2>2, <3>1 DEF RowsTell, SentRows
    <3>4. \A v \in Sender : sender[v].page \subseteq Customer
      BY <1>1 DEF CampaignTypeOK
    <3>5. PageWaits'
      BY <1>1, <1>4, <2>2, <3>1, <3>4 DEF PageWaits, SendShape
    <3> QED
      BY <3>2, <3>3, <3>5
  <2> QED
    BY <1>2, <2>1, <2>2
<1> QED
  BY <1>5, <1>6, <1>7, <1>8, <1>9, <1>10, <1>11 DEF CampaignInv

LEMMA CloseEmptyKeeps ==
    ASSUME CampaignInv, NEW o \in Owner, CloseEmpty(o)
    PROVE  CampaignInv'
<1> USE CampaignAssumption
<1>1. CampaignTypeOK /\ SendShape /\ OfferInv /\ BrakeInv /\ BudgetInv
  BY DEF CampaignInv
<1>2. /\ UNCHANGED <<rec, ticketed, claimed, willing, recent, slots, quiet, waiting, reached, lost,
                     braked, gaps, turnedTo, lapsed, news>>
      /\ campaign' \in Statuses
      /\ owner[o] = "empty"
      /\ owner' \in [Owner -> {"idle", "approving", "queueing", "empty"}]
  BY <1>1 DEF CloseEmpty, shop, campaignHistory, CampaignTypeOK, Statuses
<1>4. sender' = sender
  BY DEF CloseEmpty
<1>5. CampaignTypeOK'
  BY <1>1, <1>2, <1>4 DEF CampaignTypeOK, SendState
<1>6. SendShape'
  BY <1>1, <1>2, <1>4 DEF SendShape, Busy, Handing
<1>7. OfferFrame
  BY <1>1, <1>2, <1>4 DEF OfferFrame, HandsTo, Handing
<1>8. OfferInv'
  BY <1>1, <1>7, OffersStay
<1>9. BrakeFrame
  BY <1>1, <1>2, <1>4 DEF BrakeFrame, Stopped, Aware, SendShape, Busy, Handing
<1>10. BrakeInv'
  BY <1>1, <1>9, BrakeStays
<1>11. BudgetFrame
  BY <1>1, <1>2, <1>4 DEF BudgetFrame, SendShape, Busy, Handing
<1>12. BudgetInv'
  BY <1>1, <1>11, BudgetStays
<1> QED
  BY <1>5, <1>6, <1>7, <1>8, <1>9, <1>10, <1>11, <1>12 DEF CampaignInv

LEMMA BrakeKeeps ==
    ASSUME CampaignInv, NEW o \in Owner, Brake(o)
    PROVE  CampaignInv'
<1> USE CampaignAssumption
<1>1. CampaignTypeOK /\ SendShape /\ OfferInv /\ BrakeInv /\ BudgetInv
  BY DEF CampaignInv
<1>2. /\ UNCHANGED <<rec, ticketed, claimed, owner, willing, recent, slots, quiet, waiting,
                     reached, lost, turnedTo, lapsed, news>>
      /\ campaign' = "cancelled" /\ braked'
      /\ gaps' = gaps \cup Unaware
  BY <1>1 DEF Brake, shop, campaignHistory, News, CampaignTypeOK, SendShape, SendState
<1>4. sender' = sender
  BY DEF Brake
<1>5. CampaignTypeOK'
  BY <1>1, <1>2, <1>4 DEF CampaignTypeOK, Unaware, Statuses
<1>6. SendShape'
  BY <1>1, <1>2, <1>4 DEF SendShape, Busy, Handing
<1>7. OfferFrame
  BY <1>1, <1>2, <1>4 DEF OfferFrame, HandsTo, Handing
<1>8. OfferInv'
  BY <1>1, <1>7, OffersStay
<1>9. BrakeInv'
  <2> SUFFICES ASSUME gaps' = {}
               PROVE  Stopped'
    BY <1>2 DEF BrakeInv
  <2>1. Unaware = {} /\ gaps = {}
    BY <1>2
  <2>2. turnedTo = {}
    BY <1>1, <2>1 DEF BrakeInv, Stopped
  <2>3. \A p \in Owner : owner[p] = "idle"
    BY <2>1 DEF Unaware
  <2>4. \A w \in Sender : Aware(w)
    <3> TAKE w \in Sender
    <3>1. /\ sender[w].at # "loaded"
          /\ sender[w].at \in {"idle", "gate"} \/ ~(sender[w].page \subseteq {sender[w].cur})
      BY <2>1 DEF Unaware
    <3>2. sender[w].at \in SendSteps
      BY <1>1 DEF CampaignTypeOK
    <3>3. sender[w].at \notin {"idle", "loaded", "counting", "paging"} \/ sender[w].page = {}
      BY <1>1 DEF SendShape
    <3> QED
      BY <3>1, <3>2, <3>3 DEF Aware, SendSteps, Busy, Handing
  <2> QED
    BY <1>2, <1>4, <2>2, <2>3, <2>4 DEF Stopped, Aware
<1>10. BudgetFrame
  BY <1>1, <1>2, <1>4 DEF BudgetFrame, SendShape, Busy, Handing
<1>11. BudgetInv'
  BY <1>1, <1>10, BudgetStays
<1> QED
  BY <1>5, <1>6, <1>7, <1>8, <1>9, <1>10, <1>11 DEF CampaignInv

LEMMA StartKeeps ==
    ASSUME CampaignInv, NEW w \in Sender, Start(w)
    PROVE  CampaignInv'
<1> DEFINE s == [sender[w] EXCEPT !.at = "loaded", !.seen = campaign]
<1> USE CampaignAssumption
<1>1. CampaignTypeOK /\ SendShape /\ OfferInv /\ BrakeInv /\ BudgetInv
  BY DEF CampaignInv
<1>2. /\ UNCHANGED <<campaign, rec, ticketed, claimed, owner, willing, recent, slots, quiet,
                     waiting, reached, lost, braked, gaps, turnedTo, news>>
      /\ sender[w].at = "idle" /\ sender[w] \in SendState
      /\ campaign # "cancelled"
      /\ lapsed' \in BOOLEAN
      /\ lapsed => lapsed'
      /\ ~lapsed' => \A v \in Sender : sender[v].at = "idle"
  BY <1>1 DEF Start, shop, campaignHistory, News, CampaignTypeOK, SendShape, SendState
<1>3. s \in SendState /\ SenderGoes(w, s)
  BY <1>1, <1>2 DEF Start, Resting, SendSteps, SendState, SenderGoes, CampaignTypeOK
<1>4. /\ sender' \in [Sender -> SendState]
      /\ sender'[w].at = "loaded"
      /\ sender'[w].page = sender[w].page
      /\ \A v \in Sender : v # w => sender'[v] = sender[v]
  <2>1. /\ sender' \in [Sender -> SendState] /\ sender'[w] = s
        /\ \A v \in Sender : v # w => sender'[v] = sender[v]
    BY <1>1, <1>3, SenderAfter
  <2> QED
    BY <1>2, <2>1 DEF Resting, SendState
<1>5. CampaignTypeOK'
  BY <1>1, <1>2, <1>4 DEF CampaignTypeOK, SendState
<1>6. SendShape'
  BY <1>1, <1>2, <1>4 DEF SendShape, Busy, Handing
<1>7. OfferFrame
  BY <1>1, <1>2, <1>4 DEF OfferFrame, HandsTo, Handing
<1>8. OfferInv'
  BY <1>1, <1>7, OffersStay
<1>9. BrakeFrame
  BY <1>1, <1>2, <1>4 DEF BrakeFrame, Stopped, Aware, SendShape, Busy, Handing
<1>10. BrakeInv'
  BY <1>1, <1>9, BrakeStays
<1>11. BudgetInv'
  <2> SUFFICES ASSUME ~lapsed'
               PROVE  (OneWorks /\ RowsTell /\ PageWaits /\ KnowsSpent /\ MonthKept)'
    BY DEF BudgetInv
  <2>1. RowsTell /\ PageWaits /\ KnowsSpent /\ MonthKept /\ \A v \in Sender : sender[v].at = "idle"
    BY <1>1, <1>2 DEF BudgetInv
  <2>2. OneWorks' /\ RowsTell' /\ MonthKept'
    BY <1>2, <1>4, <2>1 DEF OneWorks, RowsTell, MonthKept
  <2>3. PageWaits' /\ KnowsSpent'
    BY <1>2, <1>4, <2>1 DEF PageWaits, KnowsSpent, Busy, Handing
  <2> QED
    BY <2>2, <2>3
<1> QED
  BY <1>5, <1>6, <1>7, <1>8, <1>9, <1>10, <1>11 DEF CampaignInv

LEMMA BeginKeeps ==
    ASSUME CampaignInv, NEW w \in Sender, Begin(w)
    PROVE  CampaignInv'
<1> DEFINE s == [sender[w] EXCEPT !.at = "counting", !.seen = "sending"]
<1> USE CampaignAssumption
<1>1. CampaignTypeOK /\ SendShape /\ OfferInv /\ BrakeInv /\ BudgetInv
  BY DEF CampaignInv
<1>2. /\ UNCHANGED <<rec, ticketed, claimed, owner, willing, recent, slots, quiet, waiting,
                     reached, lost, braked, gaps, turnedTo, lapsed, news>>
      /\ campaign' \in Statuses
      /\ sender[w].at = "loaded" /\ sender[w] \in SendState
  BY <1>1 DEF Begin, WriteStatus, shop, campaignHistory, CampaignTypeOK, SendState, Statuses
<1>3. s \in SendState /\ SenderGoes(w, s)
  BY <1>1, <1>2 DEF Begin, SendSteps, SendState, SenderGoes, CampaignTypeOK, Statuses
<1>4. /\ sender' \in [Sender -> SendState]
      /\ sender'[w].at = "counting"
      /\ sender'[w].page = sender[w].page
      /\ \A v \in Sender : v # w => sender'[v] = sender[v]
  <2>1. /\ sender' \in [Sender -> SendState] /\ sender'[w] = s
        /\ \A v \in Sender : v # w => sender'[v] = sender[v]
    BY <1>1, <1>3, SenderAfter
  <2> QED
    BY <1>2, <2>1 DEF Resting, SendState
<1>5. CampaignTypeOK'
  BY <1>1, <1>2, <1>4 DEF CampaignTypeOK, SendState
<1>6. SendShape'
  BY <1>1, <1>2, <1>4 DEF SendShape, Busy, Handing
<1>7. OfferFrame
  BY <1>1, <1>2, <1>4 DEF OfferFrame, HandsTo, Handing
<1>8. OfferInv'
  BY <1>1, <1>7, OffersStay
<1>9. BrakeFrame
  BY <1>1, <1>2, <1>4 DEF BrakeFrame, Stopped, Aware, SendShape, Busy, Handing
<1>10. BrakeInv'
  BY <1>1, <1>9, BrakeStays
<1>11. BudgetFrame
  BY <1>1, <1>2, <1>4 DEF BudgetFrame, SendShape, Busy, Handing
<1>12. BudgetInv'
  BY <1>1, <1>11, BudgetStays
<1> QED
  BY <1>5, <1>6, <1>7, <1>8, <1>9, <1>10, <1>11, <1>12 DEF CampaignInv

LEMMA CountKeeps ==
    ASSUME CampaignInv, NEW w \in Sender, Count(w)
    PROVE  CampaignInv'
<1> DEFINE s == [sender[w] EXCEPT !.at = "paging", !.spent = MonthSendCount]
<1> USE CampaignAssumption
<1>1. CampaignTypeOK /\ SendShape /\ OfferInv /\ BrakeInv /\ BudgetInv
  BY DEF CampaignInv
<1>2. /\ UNCHANGED <<campaign, rec, ticketed, claimed, owner, willing, recent, slots, quiet,
                     waiting, reached, lost, braked, gaps, turnedTo, lapsed, news>>
      /\ sender[w].at = "counting" /\ sender[w] \in SendState
      /\ MonthSendCount \in Nat
  BY <1>1, TicketsCounted DEF Count, shop, campaignHistory, CampaignTypeOK, SendState
<1>3. s \in SendState /\ SenderGoes(w, s)
  BY <1>1, <1>2 DEF Count, Resting, SendSteps, SendState, SenderGoes, CampaignTypeOK
<1>4. /\ sender' \in [Sender -> SendState]
      /\ sender'[w].at = "paging" /\ sender'[w].spent = MonthSendCount
      /\ sender'[w].page = sender[w].page
      /\ \A v \in Sender : v # w => sender'[v] = sender[v]
  <2>1. /\ sender' \in [Sender -> SendState] /\ sender'[w] = s
        /\ \A v \in Sender : v # w => sender'[v] = sender[v]
    BY <1>1, <1>3, SenderAfter
  <2> QED
    BY <1>2, <2>1 DEF Resting, SendState
<1>5. CampaignTypeOK'
  BY <1>1, <1>2, <1>4 DEF CampaignTypeOK, SendState
<1>6. SendShape'
  BY <1>1, <1>2, <1>4 DEF SendShape, Busy, Handing
<1>7. OfferFrame
  BY <1>1, <1>2, <1>4 DEF OfferFrame, HandsTo, Handing
<1>8. OfferInv'
  BY <1>1, <1>7, OffersStay
<1>9. BrakeFrame
  BY <1>1, <1>2, <1>4 DEF BrakeFrame, Stopped, Aware, SendShape, Busy, Handing
<1>10. BrakeInv'
  BY <1>1, <1>9, BrakeStays
<1>11. BudgetInv'
  <2> SUFFICES ASSUME ~lapsed
               PROVE  (OneWorks /\ RowsTell /\ PageWaits /\ KnowsSpent /\ MonthKept)'
    BY <1>2 DEF BudgetInv
  <2>1. OneWorks /\ RowsTell /\ PageWaits /\ KnowsSpent /\ MonthKept
    BY <1>1 DEF BudgetInv
  <2>2. OneWorks' /\ RowsTell' /\ MonthKept'
    BY <1>2, <1>4, <2>1 DEF OneWorks, RowsTell, MonthKept
  <2>3. PageWaits'
    BY <1>2, <1>4, <2>1 DEF PageWaits, Busy, Handing
  <2>4. MonthSendCount = Cardinality(ticketed)
    BY <1>1, <2>1, TicketsCounted
  <2>5. KnowsSpent'
    BY <1>2, <1>4, <2>1, <2>4 DEF KnowsSpent, Busy, Handing
  <2> QED
    BY <2>2, <2>3, <2>5
<1> QED
  BY <1>5, <1>6, <1>7, <1>8, <1>9, <1>10, <1>11 DEF CampaignInv

LEMMA PageKeeps ==
    ASSUME CampaignInv, NEW w \in Sender, Page(w)
    PROVE  CampaignInv'
<1> PICK page \in SUBSET Queued : sender' = [sender EXCEPT ![w].at = "gate", ![w].page = page]
  BY DEF Page
<1> HIDE DEF Queued
<1> DEFINE s == [sender[w] EXCEPT !.at = "gate", !.page = page]
<1> USE CampaignAssumption
<1>1. CampaignTypeOK /\ SendShape /\ OfferInv /\ BrakeInv /\ BudgetInv
  BY DEF CampaignInv
<1>2. /\ UNCHANGED <<campaign, rec, ticketed, claimed, owner, willing, recent, slots, quiet,
                     waiting, reached, lost, braked, gaps, turnedTo, lapsed, news>>
      /\ sender[w].at = "paging" /\ sender[w] \in SendState
      /\ page \subseteq Customer /\ \A c \in page : rec[c] = "queued"
  BY <1>1 DEF Page, Queued, shop, campaignHistory, CampaignTypeOK, SendState
<1>3. s \in SendState /\ SenderGoes(w, s)
  BY <1>1, <1>2 DEF SendSteps, SendState, SenderGoes, CampaignTypeOK
<1>4. /\ sender' \in [Sender -> SendState]
      /\ sender'[w].at = "gate" /\ sender'[w].page = page
      /\ sender'[w].spent = sender[w].spent
      /\ \A v \in Sender : v # w => sender'[v] = sender[v]
  <2>1. /\ sender' \in [Sender -> SendState] /\ sender'[w] = s
        /\ \A v \in Sender : v # w => sender'[v] = sender[v]
    BY <1>1, <1>3, SenderAfter
  <2> QED
    BY <1>2, <2>1 DEF Resting, SendState
<1>5. CampaignTypeOK'
  BY <1>1, <1>2, <1>4 DEF CampaignTypeOK, SendState
<1>6. SendShape'
  BY <1>1, <1>2, <1>4 DEF SendShape, Busy, Handing
<1>7. OfferFrame
  BY <1>1, <1>2, <1>4 DEF OfferFrame, HandsTo, Handing
<1>8. OfferInv'
  BY <1>1, <1>7, OffersStay
<1>9. BrakeFrame
  BY <1>1, <1>2, <1>4 DEF BrakeFrame, Stopped, Aware, SendShape, Busy, Handing
<1>10. BrakeInv'
  BY <1>1, <1>9, BrakeStays
<1>11. BudgetInv'
  <2> SUFFICES ASSUME ~lapsed
               PROVE  (OneWorks /\ RowsTell /\ PageWaits /\ KnowsSpent /\ MonthKept)'
    BY <1>2 DEF BudgetInv
  <2>1. OneWorks /\ RowsTell /\ PageWaits /\ KnowsSpent /\ MonthKept
    BY <1>1 DEF BudgetInv
  <2>2. OneWorks' /\ RowsTell' /\ MonthKept'
    BY <1>2, <1>4, <2>1 DEF OneWorks, RowsTell, MonthKept
  <2>3. PageWaits'
    BY <1>2, <1>4, <2>1 DEF PageWaits, Busy, Handing
  <2>4. KnowsSpent'
    BY <1>2, <1>4, <2>1 DEF KnowsSpent, Busy, Handing
  <2> QED
    BY <2>2, <2>3, <2>4
<1> QED
  BY <1>5, <1>6, <1>7, <1>8, <1>9, <1>10, <1>11 DEF CampaignInv

LEMMA FinishKeeps ==
    ASSUME CampaignInv, NEW w \in Sender, Finish(w)
    PROVE  CampaignInv'
<1> DEFINE s == Resting
<1> USE CampaignAssumption
<1>1. CampaignTypeOK /\ SendShape /\ OfferInv /\ BrakeInv /\ BudgetInv
  BY DEF CampaignInv
<1>2. /\ UNCHANGED <<rec, ticketed, claimed, owner, willing, recent, slots, quiet, waiting,
                     reached, lost, braked, gaps, turnedTo, lapsed, news>>
      /\ campaign' \in Statuses
      /\ sender[w].at = "paging" /\ sender[w] \in SendState
  BY <1>1 DEF Finish, WriteStatus, shop, campaignHistory, CampaignTypeOK, SendState, Statuses
<1>3. s \in SendState /\ SenderGoes(w, s)
  BY <1>1, <1>2 DEF Finish, WriteStatus, Resting, SendSteps, SendState, SenderGoes, CampaignTypeOK
<1>4. /\ sender' \in [Sender -> SendState]
      /\ sender'[w].at = "idle" /\ sender'[w].page = {}
      /\ \A v \in Sender : v # w => sender'[v] = sender[v]
  <2>1. /\ sender' \in [Sender -> SendState] /\ sender'[w] = s
        /\ \A v \in Sender : v # w => sender'[v] = sender[v]
    BY <1>1, <1>3, SenderAfter
  <2> QED
    BY <1>2, <2>1 DEF Resting, SendState
<1>5. CampaignTypeOK'
  BY <1>1, <1>2, <1>4 DEF CampaignTypeOK, SendState
<1>6. SendShape'
  BY <1>1, <1>2, <1>4 DEF SendShape, Busy, Handing
<1>7. OfferFrame
  BY <1>1, <1>2, <1>4 DEF OfferFrame, HandsTo, Handing
<1>8. OfferInv'
  BY <1>1, <1>7, OffersStay
<1>9. BrakeFrame
  BY <1>1, <1>2, <1>4 DEF BrakeFrame, Stopped, Aware, SendShape, Busy, Handing
<1>10. BrakeInv'
  BY <1>1, <1>9, BrakeStays
<1>11. BudgetFrame
  BY <1>1, <1>2, <1>4 DEF BudgetFrame, SendShape, Busy, Handing
<1>12. BudgetInv'
  BY <1>1, <1>11, BudgetStays
<1> QED
  BY <1>5, <1>6, <1>7, <1>8, <1>9, <1>10, <1>11, <1>12 DEF CampaignInv

LEMMA StopKeeps ==
    ASSUME CampaignInv, NEW w \in Sender, Stop(w)
    PROVE  CampaignInv'
<1> DEFINE s == Resting
<1> USE CampaignAssumption
<1>1. CampaignTypeOK /\ SendShape /\ OfferInv /\ BrakeInv /\ BudgetInv
  BY DEF CampaignInv
<1>2. /\ UNCHANGED <<campaign, rec, ticketed, claimed, owner, willing, recent, slots, quiet,
                     waiting, reached, lost, braked, gaps, turnedTo, lapsed, news>>
      /\ sender[w].at = "gate" /\ sender[w] \in SendState
  BY <1>1 DEF Stop, shop, campaignHistory, News, CampaignTypeOK, SendShape, SendState
<1>3. s \in SendState /\ SenderGoes(w, s)
  BY <1>1, <1>2 DEF Stop, Resting, SendSteps, SendState, SenderGoes, CampaignTypeOK
<1>4. /\ sender' \in [Sender -> SendState]
      /\ sender'[w].at = "idle" /\ sender'[w].page = {}
      /\ \A v \in Sender : v # w => sender'[v] = sender[v]
  <2>1. /\ sender' \in [Sender -> SendState] /\ sender'[w] = s
        /\ \A v \in Sender : v # w => sender'[v] = sender[v]
    BY <1>1, <1>3, SenderAfter
  <2> QED
    BY <1>2, <2>1 DEF Resting, SendState
<1>5. CampaignTypeOK'
  BY <1>1, <1>2, <1>4 DEF CampaignTypeOK, SendState
<1>6. SendShape'
  BY <1>1, <1>2, <1>4 DEF SendShape, Busy, Handing
<1>7. OfferFrame
  BY <1>1, <1>2, <1>4 DEF OfferFrame, HandsTo, Handing
<1>8. OfferInv'
  BY <1>1, <1>7, OffersStay
<1>9. BrakeFrame
  BY <1>1, <1>2, <1>4 DEF BrakeFrame, Stopped, Aware, SendShape, Busy, Handing
<1>10. BrakeInv'
  BY <1>1, <1>9, BrakeStays
<1>11. BudgetFrame
  BY <1>1, <1>2, <1>4 DEF BudgetFrame, SendShape, Busy, Handing
<1>12. BudgetInv'
  BY <1>1, <1>11, BudgetStays
<1> QED
  BY <1>5, <1>6, <1>7, <1>8, <1>9, <1>10, <1>11, <1>12 DEF CampaignInv

LEMMA TurnAwayKeeps ==
    ASSUME CampaignInv, NEW w \in Sender, NEW c \in Customer, Turn(w, c),
           Spent(w) >= MonthBudget \/ ~Eligible(c)
    PROVE  CampaignInv'
<1> DEFINE s == NextRow([sender[w] EXCEPT !.seen = campaign, !.spent = Spent(w)], c)
<1> USE CampaignAssumption
<1>1. CampaignTypeOK /\ SendShape /\ OfferInv /\ BrakeInv /\ BudgetInv
  BY DEF CampaignInv
<1>2. /\ UNCHANGED <<campaign, ticketed, claimed, owner, willing, recent, slots, quiet, waiting,
                     reached, lost, braked, gaps, lapsed, news>>
      /\ sender[w].at = "gate" /\ sender[w] \in SendState
      /\ campaign # "cancelled" /\ c \in sender[w].page
      /\ Spent(w) \in Nat
      /\ turnedTo' = IF braked THEN turnedTo \cup {c} ELSE turnedTo
      /\ rec' = [rec EXCEPT ![c] = "skipped"]
  <2>1. Spent(w) \in Nat
    BY <1>1, TicketsCounted DEF Spent, CampaignTypeOK
  <2>2. [sender[w] EXCEPT !.seen = campaign, !.spent = Spent(w)].spent = Spent(w)
    BY <1>1 DEF CampaignTypeOK
  <2> QED
    BY <1>1, <2>1, <2>2 DEF Turn, MayTurn, shop, CampaignTypeOK, SendState
<1>3. s \in SendState /\ SenderGoes(w, s)
  <2> DEFINE z == [sender[w] EXCEPT !.seen = campaign, !.spent = Spent(w)]
  <2>1. z \in SendState /\ z.spent = Spent(w)
    BY <1>1, <1>2 DEF CampaignTypeOK, SendState
  <2>2. SenderGoes(w, s)
    BY <2>1 DEF Turn, SenderGoes
  <2> QED
    BY <2>1, <2>2, NextRowIs
<1>4. /\ sender' \in [Sender -> SendState]
      /\ sender'[w].page = sender[w].page \ {c} /\ sender'[w].spent = Spent(w)
      /\ sender'[w].at = IF sender[w].page \ {c} = {} THEN "paging" ELSE "gate"
      /\ \A v \in Sender : v # w => sender'[v] = sender[v]
  <2>1. /\ sender' \in [Sender -> SendState] /\ sender'[w] = s
        /\ \A v \in Sender : v # w => sender'[v] = sender[v]
    BY <1>1, <1>3, SenderAfter
  <2> QED
    <3> DEFINE z == [sender[w] EXCEPT !.seen = campaign, !.spent = Spent(w)]
    <3>1. z \in SendState /\ z.spent = Spent(w) /\ z.page = sender[w].page
      BY <1>1, <1>2 DEF CampaignTypeOK, SendState
    <3>2. sender'[w] = NextRow(z, c)
      BY <2>1
    <3> HIDE DEF z
    <3> QED
      BY <2>1, <3>1, <3>2, NextRowIs
<1>5. CampaignTypeOK'
  BY <1>1, <1>2, <1>4 DEF CampaignTypeOK, SendState
<1>6. SendShape'
  BY <1>1, <1>2, <1>4 DEF SendShape, Busy, Handing
<1>7. OfferFrame
  BY <1>1, <1>2, <1>4 DEF OfferFrame, HandsTo, Handing
<1>8. OfferInv'
  BY <1>1, <1>7, OffersStay
<1>9. BrakeFrame
  BY <1>1, <1>2, <1>4 DEF BrakeFrame, Stopped, Aware, SendShape, Busy, Handing
<1>10. BrakeInv'
  BY <1>1, <1>9, BrakeStays
<1>11. BudgetInv'
  <2> SUFFICES ASSUME ~lapsed
               PROVE  (OneWorks /\ RowsTell /\ PageWaits /\ KnowsSpent /\ MonthKept)'
    BY <1>2 DEF BudgetInv
  <2>1. OneWorks /\ RowsTell /\ PageWaits /\ KnowsSpent /\ MonthKept
    BY <1>1 DEF BudgetInv
  <2>2. rec[c] = "queued" /\ \A v \in Sender : v # w => sender[v].at = "idle" /\ sender[v].page = {}
    BY <1>1, <1>2, <2>1 DEF PageWaits, OneWorks, SendShape, Busy, Handing
  <2>3. OneWorks' /\ MonthKept'
    BY <1>2, <1>4, <2>1 DEF OneWorks, MonthKept
  <2>4. RowsTell'
    BY <1>1, <1>2, <2>1, <2>2 DEF RowsTell, SentRows, CampaignTypeOK
  <2>5. PageWaits'
    BY <1>1, <1>2, <1>4, <2>1, <2>2 DEF PageWaits, Busy, Handing, SendState, CampaignTypeOK
  <2>6. Spent(w) = Cardinality(ticketed)
    BY <1>1, <1>2, <2>1, TicketsCounted DEF Spent, KnowsSpent
  <2>7. KnowsSpent'
    BY <1>2, <1>4, <2>1, <2>2, <2>6 DEF KnowsSpent, Busy, Handing
  <2> QED
    BY <2>3, <2>4, <2>5, <2>7
<1> QED
  BY <1>5, <1>6, <1>7, <1>8, <1>9, <1>10, <1>11 DEF CampaignInv

LEMMA TurnToKeeps ==
    ASSUME CampaignInv, NEW w \in Sender, NEW c \in Customer, Turn(w, c),
           ~(Spent(w) >= MonthBudget \/ ~Eligible(c))
    PROVE  CampaignInv'
<1> DEFINE s == [sender[w] EXCEPT !.seen = campaign, !.spent = Spent(w), !.at = "claim", !.cur = c]
<1> USE CampaignAssumption
<1>1. CampaignTypeOK /\ SendShape /\ OfferInv /\ BrakeInv /\ BudgetInv
  BY DEF CampaignInv
<1>2. /\ UNCHANGED <<campaign, rec, ticketed, claimed, owner, willing, recent, slots, quiet,
                     waiting, reached, lost, braked, gaps, lapsed, news>>
      /\ sender[w].at = "gate" /\ sender[w] \in SendState
      /\ campaign # "cancelled" /\ c \in sender[w].page
      /\ Spent(w) \in Nat /\ Spent(w) < MonthBudget
      /\ turnedTo' = IF braked THEN turnedTo \cup {c} ELSE turnedTo
  <2>1. Spent(w) \in Nat
    BY <1>1, TicketsCounted DEF Spent, CampaignTypeOK
  <2>2. [sender[w] EXCEPT !.seen = campaign, !.spent = Spent(w)].spent = Spent(w)
    BY <1>1 DEF CampaignTypeOK
  <2> QED
    BY <1>1, <2>1, <2>2 DEF Turn, MayTurn, shop, CampaignTypeOK, SendState
<1>3. s \in SendState /\ SenderGoes(w, s)
  <2> DEFINE z == [sender[w] EXCEPT !.seen = campaign, !.spent = Spent(w)]
  <2>1. z.spent = Spent(w)
    BY <1>1, <1>2 DEF CampaignTypeOK, SendState
  <2>2. SenderGoes(w, [z EXCEPT !.at = "claim", !.cur = c])
    BY <2>1 DEF Turn, SenderGoes
  <2> QED
    BY <1>1, <1>2, <2>2 DEF SendState, SendSteps, CampaignTypeOK
<1>4. /\ sender' \in [Sender -> SendState]
      /\ sender'[w].at = "claim" /\ sender'[w].spent = Spent(w) /\ sender'[w].cur = c
      /\ sender'[w].page = sender[w].page
      /\ \A v \in Sender : v # w => sender'[v] = sender[v]
  <2>1. /\ sender' \in [Sender -> SendState] /\ sender'[w] = s
        /\ \A v \in Sender : v # w => sender'[v] = sender[v]
    BY <1>1, <1>3, SenderAfter
  <2> QED
    BY <1>2, <2>1 DEF Resting, SendState
<1>5. CampaignTypeOK'
  BY <1>1, <1>2, <1>4 DEF CampaignTypeOK, SendState
<1>6. SendShape'
  BY <1>1, <1>2, <1>4 DEF SendShape, Busy, Handing
<1>7. OfferFrame
  BY <1>1, <1>2, <1>4 DEF OfferFrame, HandsTo, Handing
<1>8. OfferInv'
  BY <1>1, <1>7, OffersStay
<1>9. BrakeFrame
  BY <1>1, <1>2, <1>4 DEF BrakeFrame, Stopped, Aware, SendShape, Busy, Handing
<1>10. BrakeInv'
  BY <1>1, <1>9, BrakeStays
<1>11. BudgetInv'
  <2> SUFFICES ASSUME ~lapsed
               PROVE  (OneWorks /\ RowsTell /\ PageWaits /\ KnowsSpent /\ MonthKept)'
    BY <1>2 DEF BudgetInv
  <2>1. OneWorks /\ RowsTell /\ PageWaits /\ KnowsSpent /\ MonthKept
    BY <1>1 DEF BudgetInv
  <2>2. OneWorks' /\ RowsTell' /\ MonthKept'
    BY <1>2, <1>4, <2>1 DEF OneWorks, RowsTell, MonthKept
  <2>3. PageWaits'
    BY <1>2, <1>4, <2>1 DEF PageWaits
  <2>4. Spent(w) = Cardinality(ticketed)
    BY <1>1, <1>2, <2>1, TicketsCounted DEF Spent, KnowsSpent
  <2>5. KnowsSpent'
    BY <1>2, <1>4, <2>1, <2>4 DEF KnowsSpent
  <2> QED
    BY <2>2, <2>3, <2>5
<1> QED
  BY <1>5, <1>6, <1>7, <1>8, <1>9, <1>10, <1>11 DEF CampaignInv

LEMMA ClaimLostKeeps ==
    ASSUME CampaignInv, NEW w \in Sender, Claim(w), Taken(w)
    PROVE  CampaignInv'
<1> DEFINE s == NextRow(sender[w], sender[w].cur)
<1> USE CampaignAssumption
<1>1. CampaignTypeOK /\ SendShape /\ OfferInv /\ BrakeInv /\ BudgetInv
  BY DEF CampaignInv
<1>2. /\ UNCHANGED <<campaign, ticketed, claimed, owner, willing, recent, slots, quiet, waiting,
                     reached, lost, braked, gaps, turnedTo, lapsed, news>>
      /\ sender[w].at = "claim" /\ sender[w] \in SendState /\ sender[w].cur \in Customer
      /\ rec' = [rec EXCEPT ![sender[w].cur] = "skipped"]
  BY <1>1 DEF Claim, Taken, shop, campaignHistory, CampaignTypeOK, SendShape, Busy, SendState
<1>3. s \in SendState /\ SenderGoes(w, s)
  BY <1>2, NextRowIs DEF Claim, SenderGoes
<1>4. /\ sender' \in [Sender -> SendState]
      /\ sender'[w].page = sender[w].page \ {sender[w].cur} /\ sender'[w].spent = sender[w].spent
      /\ sender'[w].at = IF sender[w].page \ {sender[w].cur} = {} THEN "paging" ELSE "gate"
      /\ \A v \in Sender : v # w => sender'[v] = sender[v]
  <2>1. /\ sender' \in [Sender -> SendState] /\ sender'[w] = s
        /\ \A v \in Sender : v # w => sender'[v] = sender[v]
    BY <1>1, <1>3, SenderAfter
  <2> QED
    BY <1>2, <2>1, NextRowIs
<1>5. CampaignTypeOK'
  BY <1>1, <1>2, <1>4 DEF CampaignTypeOK, SendState
<1>6. SendShape'
  BY <1>1, <1>2, <1>4 DEF SendShape, Busy, Handing
<1>7. OfferFrame
  BY <1>1, <1>2, <1>4 DEF OfferFrame, HandsTo, Handing
<1>8. OfferInv'
  BY <1>1, <1>7, OffersStay
<1>9. BrakeFrame
  BY <1>1, <1>2, <1>4 DEF BrakeFrame, Stopped, Aware, SendShape, Busy, Handing
<1>10. BrakeInv'
  BY <1>1, <1>9, BrakeStays
<1>11. BudgetInv'
  <2> SUFFICES ASSUME ~lapsed
               PROVE  (OneWorks /\ RowsTell /\ PageWaits /\ KnowsSpent /\ MonthKept)'
    BY <1>2 DEF BudgetInv
  <2>1. OneWorks /\ RowsTell /\ PageWaits /\ KnowsSpent /\ MonthKept
    BY <1>1 DEF BudgetInv
  <2>2. rec[sender[w].cur] = "queued" /\ \A v \in Sender : v # w =>
      sender[v].at = "idle" /\ sender[v].page = {}
    BY <1>1, <1>2, <2>1 DEF PageWaits, OneWorks, SendShape, Busy, Handing
  <2>3. OneWorks' /\ MonthKept'
    BY <1>2, <1>4, <2>1 DEF OneWorks, MonthKept
  <2>4. RowsTell'
    BY <1>1, <1>2, <2>1, <2>2 DEF RowsTell, SentRows, CampaignTypeOK
  <2>5. PageWaits'
    BY <1>1, <1>2, <1>4, <2>1, <2>2 DEF PageWaits, Busy, Handing, SendState, CampaignTypeOK
  <2>6. sender[w].spent = Cardinality(ticketed)
    BY <1>1, <1>2, <2>1 DEF KnowsSpent, Busy
  <2>7. KnowsSpent'
    BY <1>2, <1>4, <2>1, <2>2, <2>6 DEF KnowsSpent, Busy, Handing
  <2> QED
    BY <2>3, <2>4, <2>5, <2>7
<1> QED
  BY <1>5, <1>6, <1>7, <1>8, <1>9, <1>10, <1>11 DEF CampaignInv

LEMMA ClaimWonKeeps ==
    ASSUME CampaignInv, NEW w \in Sender, Claim(w), ~Taken(w)
    PROVE  CampaignInv'
<1> DEFINE s == [sender[w] EXCEPT !.at = "reserve"]
<1> USE CampaignAssumption
<1>1. CampaignTypeOK /\ SendShape /\ OfferInv /\ BrakeInv /\ BudgetInv
  BY DEF CampaignInv
<1>2. /\ UNCHANGED <<campaign, rec, ticketed, owner, willing, recent, slots, quiet, waiting,
                     reached, lost, braked, gaps, turnedTo, lapsed, news>>
      /\ sender[w].at = "claim" /\ sender[w] \in SendState /\ sender[w].cur \in Customer
      /\ sender[w].cur \notin claimed /\ claimed' = claimed \cup {sender[w].cur}
  BY <1>1 DEF Claim, Taken, shop, campaignHistory, CampaignTypeOK, SendShape, Busy, SendState
<1>3. s \in SendState /\ SenderGoes(w, s)
  BY <1>1, <1>2 DEF Claim, Resting, SendSteps, SendState, SenderGoes, CampaignTypeOK
<1>4. /\ sender' \in [Sender -> SendState]
      /\ sender'[w].at = "reserve"
      /\ sender'[w].page = sender[w].page /\ sender'[w].cur = sender[w].cur
      /\ sender'[w].spent = sender[w].spent
      /\ \A v \in Sender : v # w => sender'[v] = sender[v]
  <2>1. /\ sender' \in [Sender -> SendState] /\ sender'[w] = s
        /\ \A v \in Sender : v # w => sender'[v] = sender[v]
    BY <1>1, <1>3, SenderAfter
  <2> QED
    BY <1>2, <2>1 DEF Resting, SendState
<1>5. CampaignTypeOK'
  BY <1>1, <1>2, <1>4 DEF CampaignTypeOK, SendState
<1>6. SendShape'
  BY <1>1, <1>2, <1>4 DEF SendShape, Busy, Handing
<1>7. OfferInv'
  <2>1. \A v \in Sender, c \in Customer :
           HandsTo(v, c)' <=> HandsTo(v, c) \/ (v = w /\ c = sender[w].cur)
    BY <1>2, <1>4 DEF HandsTo, Handing
  <2>2. \A v \in Sender : ~HandsTo(v, sender[w].cur)
    BY <1>1, <1>2 DEF OfferInv, HoldsFirst
  <2>3. HoldsAlone'
    BY <1>1, <2>1, <2>2 DEF OfferInv, HoldsAlone
  <2>4. reached[sender[w].cur] = 0 /\ sender[w].cur \notin waiting
    BY <1>1, <1>2 DEF OfferInv, WaitsFirst, CampaignTypeOK
  <2>5. HoldsFirst'
    BY <1>1, <1>2, <2>1, <2>4 DEF OfferInv, HoldsFirst
  <2>6. WaitsFirst'
    BY <1>1, <1>2 DEF OfferInv, WaitsFirst
  <2> QED
    BY <2>3, <2>5, <2>6 DEF OfferInv
<1>8. BrakeFrame
  BY <1>1, <1>2, <1>4 DEF BrakeFrame, Stopped, Aware, SendShape, Busy, Handing
<1>9. BrakeInv'
  BY <1>1, <1>8, BrakeStays
<1>10. BudgetFrame
  BY <1>1, <1>2, <1>4 DEF BudgetFrame, SendShape, Busy, Handing
<1>11. BudgetInv'
  BY <1>1, <1>10, BudgetStays
<1> QED
  BY <1>5, <1>6, <1>7, <1>8, <1>9, <1>10, <1>11 DEF CampaignInv

LEMMA ReserveGotKeeps ==
    ASSUME CampaignInv, NEW w \in Sender, Reserve(w),
           Permitted(sender[w].cur) /\ slots < DailyCap
    PROVE  CampaignInv'
<1> DEFINE s == [sender[w] EXCEPT !.at = "paced"]
<1> USE CampaignAssumption
<1>1. CampaignTypeOK /\ SendShape /\ OfferInv /\ BrakeInv /\ BudgetInv
  BY DEF CampaignInv
<1>2. /\ UNCHANGED <<campaign, rec, ticketed, claimed, owner, willing, recent, quiet, waiting,
                     reached, lost, braked, gaps, turnedTo, lapsed, news>>
      /\ sender[w].at = "reserve" /\ sender[w] \in SendState
      /\ slots' \in 0 .. DailyCap
  BY <1>1 DEF Reserve, shop, campaignHistory, News, CampaignTypeOK, SendShape, SendState
<1>3. s \in SendState /\ SenderGoes(w, s)
  BY <1>1, <1>2 DEF Reserve, Resting, SendSteps, SendState, SenderGoes, CampaignTypeOK
<1>4. /\ sender' \in [Sender -> SendState]
      /\ sender'[w].at = "paced"
      /\ sender'[w].page = sender[w].page /\ sender'[w].cur = sender[w].cur
      /\ sender'[w].spent = sender[w].spent
      /\ \A v \in Sender : v # w => sender'[v] = sender[v]
  <2>1. /\ sender' \in [Sender -> SendState] /\ sender'[w] = s
        /\ \A v \in Sender : v # w => sender'[v] = sender[v]
    BY <1>1, <1>3, SenderAfter
  <2> QED
    BY <1>2, <2>1 DEF Resting, SendState
<1>5. CampaignTypeOK'
  BY <1>1, <1>2, <1>4 DEF CampaignTypeOK, SendState
<1>6. SendShape'
  BY <1>1, <1>2, <1>4 DEF SendShape, Busy, Handing
<1>7. OfferFrame
  BY <1>1, <1>2, <1>4 DEF OfferFrame, HandsTo, Handing
<1>8. OfferInv'
  BY <1>1, <1>7, OffersStay
<1>9. BrakeFrame
  BY <1>1, <1>2, <1>4 DEF BrakeFrame, Stopped, Aware, SendShape, Busy, Handing
<1>10. BrakeInv'
  BY <1>1, <1>9, BrakeStays
<1>11. BudgetFrame
  BY <1>1, <1>2, <1>4 DEF BudgetFrame, SendShape, Busy, Handing
<1>12. BudgetInv'
  BY <1>1, <1>11, BudgetStays
<1> QED
  BY <1>5, <1>6, <1>7, <1>8, <1>9, <1>10, <1>11, <1>12 DEF CampaignInv

LEMMA ReserveNotKeeps ==
    ASSUME CampaignInv, NEW w \in Sender, Reserve(w),
           ~(Permitted(sender[w].cur) /\ slots < DailyCap)
    PROVE  CampaignInv'
<1> DEFINE s == [sender[w] EXCEPT !.at = "release", !.out = "refused"]
<1> USE CampaignAssumption
<1>1. CampaignTypeOK /\ SendShape /\ OfferInv /\ BrakeInv /\ BudgetInv
  BY DEF CampaignInv
<1>2. /\ UNCHANGED <<campaign, rec, ticketed, claimed, owner, willing, recent, slots, quiet,
                     waiting, reached, lost, braked, gaps, turnedTo, lapsed, news>>
      /\ sender[w].at = "reserve" /\ sender[w] \in SendState
  BY <1>1 DEF Reserve, shop, campaignHistory, News, CampaignTypeOK, SendShape, SendState
<1>3. s \in SendState /\ SenderGoes(w, s)
  BY <1>1, <1>2 DEF Reserve, Resting, SendSteps, SendState, SenderGoes, CampaignTypeOK
<1>4. /\ sender' \in [Sender -> SendState]
      /\ sender'[w].at = "release"
      /\ sender'[w].page = sender[w].page /\ sender'[w].cur = sender[w].cur
      /\ sender'[w].spent = sender[w].spent
      /\ \A v \in Sender : v # w => sender'[v] = sender[v]
  <2>1. /\ sender' \in [Sender -> SendState] /\ sender'[w] = s
        /\ \A v \in Sender : v # w => sender'[v] = sender[v]
    BY <1>1, <1>3, SenderAfter
  <2> QED
    BY <1>2, <2>1 DEF Resting, SendState
<1>5. CampaignTypeOK'
  BY <1>1, <1>2, <1>4 DEF CampaignTypeOK, SendState
<1>6. SendShape'
  BY <1>1, <1>2, <1>4 DEF SendShape, Busy, Handing
<1>7. OfferFrame
  BY <1>1, <1>2, <1>4 DEF OfferFrame, HandsTo, Handing
<1>8. OfferInv'
  BY <1>1, <1>7, OffersStay
<1>9. BrakeFrame
  BY <1>1, <1>2, <1>4 DEF BrakeFrame, Stopped, Aware, SendShape, Busy, Handing
<1>10. BrakeInv'
  BY <1>1, <1>9, BrakeStays
<1>11. BudgetFrame
  BY <1>1, <1>2, <1>4 DEF BudgetFrame, SendShape, Busy, Handing
<1>12. BudgetInv'
  BY <1>1, <1>11, BudgetStays
<1> QED
  BY <1>5, <1>6, <1>7, <1>8, <1>9, <1>10, <1>11, <1>12 DEF CampaignInv

LEMMA OfferSentKeeps ==
    ASSUME CampaignInv, NEW w \in Sender, Offer(w),
           Reaches(sender[w].cur), UNCHANGED <<waiting, lost, news>>,
           sender' = [sender EXCEPT ![w].at = "settle", ![w].out = "accepted"]
    PROVE  CampaignInv'
<1> DEFINE s == [sender[w] EXCEPT !.at = "settle", !.out = "accepted"]
<1> USE CampaignAssumption
<1>1. CampaignTypeOK /\ SendShape /\ OfferInv /\ BrakeInv /\ BudgetInv
  BY DEF CampaignInv
<1>2. /\ UNCHANGED <<campaign, rec, ticketed, claimed, owner, willing, recent, slots, quiet,
                     waiting, lost, braked, gaps, turnedTo, lapsed, news>>
      /\ sender[w].at = "paced" /\ sender[w] \in SendState /\ HandsTo(w, sender[w].cur)
      /\ sender[w].cur \in Customer
      /\ reached' = [reached EXCEPT ![sender[w].cur] = reached[sender[w].cur] + 1]
  BY <1>1 DEF Offer, Reaches, shop, CampaignTypeOK, SendShape, Busy, Handing, HandsTo, SendState
<1>3. s \in SendState /\ SenderGoes(w, s)
  BY <1>1, <1>2 DEF SendSteps, SendState, SenderGoes, CampaignTypeOK
<1>4. /\ sender' \in [Sender -> SendState]
      /\ sender'[w].at = "settle"
      /\ sender'[w].page = sender[w].page /\ sender'[w].cur = sender[w].cur
      /\ sender'[w].spent = sender[w].spent
      /\ \A v \in Sender : v # w => sender'[v] = sender[v]
  <2>1. /\ sender' \in [Sender -> SendState] /\ sender'[w] = s
        /\ \A v \in Sender : v # w => sender'[v] = sender[v]
    BY <1>1, <1>3, SenderAfter
  <2> QED
    BY <1>2, <2>1 DEF Resting, SendState
<1>5. CampaignTypeOK'
  BY <1>1, <1>2, <1>4 DEF CampaignTypeOK, SendState
<1>6. SendShape'
  BY <1>1, <1>2, <1>4 DEF SendShape, Busy, Handing
<1>7. OfferInv'
  <2>1. \A v \in Sender, c \in Customer : HandsTo(v, c)' => HandsTo(v, c) /\ v # w
    BY <1>2, <1>4 DEF HandsTo, Handing
  <2>2. \A v \in Sender, c \in Customer : HandsTo(v, c)' => c # sender[w].cur
    BY <1>1, <1>2, <2>1 DEF OfferInv, HoldsAlone
  <2>3. HoldsAlone'
    BY <1>1, <2>1 DEF OfferInv, HoldsAlone
  <2>4. HoldsFirst'
    BY <1>1, <1>2, <2>1, <2>2 DEF OfferInv, HoldsFirst, CampaignTypeOK
  <2>5. /\ sender[w].cur \in claimed /\ reached[sender[w].cur] = 0
        /\ sender[w].cur \notin waiting
    BY <1>1, <1>2 DEF OfferInv, HoldsFirst
  <2>6. WaitsFirst'
    BY <1>1, <1>2, <2>5 DEF OfferInv, WaitsFirst, CampaignTypeOK
  <2> QED
    BY <2>3, <2>4, <2>6 DEF OfferInv
<1>8. BrakeFrame
  BY <1>1, <1>2, <1>4 DEF BrakeFrame, Stopped, Aware, SendShape, Busy, Handing
<1>9. BrakeInv'
  BY <1>1, <1>8, BrakeStays
<1>10. BudgetFrame
  BY <1>1, <1>2, <1>4 DEF BudgetFrame, SendShape, Busy, Handing
<1>11. BudgetInv'
  BY <1>1, <1>10, BudgetStays
<1> QED
  BY <1>5, <1>6, <1>7, <1>8, <1>9, <1>10, <1>11 DEF CampaignInv

LEMMA OfferQueuedKeeps ==
    ASSUME CampaignInv, NEW w \in Sender, Offer(w),
           waiting' \in {waiting, waiting \cup {sender[w].cur}},
           AnswerLost(sender[w].cur) \/ UNCHANGED <<reached, lost, news>>,
           sender' = [sender EXCEPT ![w].at = "settle", ![w].out = "queued"]
    PROVE  CampaignInv'
<1> DEFINE s == [sender[w] EXCEPT !.at = "settle", !.out = "queued"]
<1> USE CampaignAssumption
<1>1. CampaignTypeOK /\ SendShape /\ OfferInv /\ BrakeInv /\ BudgetInv
  BY DEF CampaignInv
<1>2. /\ UNCHANGED <<campaign, rec, ticketed, claimed, owner, willing, recent, slots, quiet,
                     braked, gaps, turnedTo, lapsed>>
      /\ sender[w].at = "paced" /\ sender[w] \in SendState /\ HandsTo(w, sender[w].cur)
      /\ sender[w].cur \in Customer
      /\ waiting' \subseteq waiting \cup {sender[w].cur}
  BY <1>1 DEF Offer, shop, CampaignTypeOK, SendShape, Busy, Handing, HandsTo, SendState
<1>12. /\ reached' \in [Customer -> Nat] /\ lost' \in [Customer -> Nat] /\ news' \in 0 .. MaxNews
       /\ \A d \in Customer \ {sender[w].cur} : reached'[d] = reached[d] /\ lost'[d] = lost[d]
       /\ \E n \in {0, 1} : /\ reached'[sender[w].cur] = reached[sender[w].cur] + n
                           /\ lost'[sender[w].cur] = lost[sender[w].cur] + n
  <2>1. CASE AnswerLost(sender[w].cur)
    BY <1>1, <1>2, <2>1 DEF AnswerLost, Reaches, News, CampaignTypeOK, CampaignAssumption
  <2>2. CASE UNCHANGED <<reached, lost, news>>
    BY <1>1, <1>2, <2>2 DEF CampaignTypeOK
  <2> QED
    BY <2>1, <2>2
<1>3. s \in SendState /\ SenderGoes(w, s)
  BY <1>1, <1>2 DEF SendSteps, SendState, SenderGoes, CampaignTypeOK
<1>4. /\ sender' \in [Sender -> SendState]
      /\ sender'[w].at = "settle"
      /\ sender'[w].page = sender[w].page /\ sender'[w].cur = sender[w].cur
      /\ sender'[w].spent = sender[w].spent
      /\ \A v \in Sender : v # w => sender'[v] = sender[v]
  <2>1. /\ sender' \in [Sender -> SendState] /\ sender'[w] = s
        /\ \A v \in Sender : v # w => sender'[v] = sender[v]
    BY <1>1, <1>3, SenderAfter
  <2> QED
    BY <1>2, <2>1 DEF Resting, SendState
<1>5. CampaignTypeOK'
  BY <1>1, <1>2, <1>4, <1>12 DEF CampaignTypeOK, SendState
<1>6. SendShape'
  BY <1>1, <1>2, <1>4 DEF SendShape, Busy, Handing
<1>7. OfferInv'
  <2>1. \A v \in Sender, c \in Customer : HandsTo(v, c)' => HandsTo(v, c) /\ v # w
    BY <1>2, <1>4 DEF HandsTo, Handing
  <2>2. \A v \in Sender, c \in Customer : HandsTo(v, c)' => c # sender[w].cur
    BY <1>1, <1>2, <2>1 DEF OfferInv, HoldsAlone
  <2>3. HoldsAlone'
    BY <1>1, <2>1 DEF OfferInv, HoldsAlone
  <2>4. HoldsFirst'
    BY <1>1, <1>2, <1>12, <2>1, <2>2 DEF OfferInv, HoldsFirst, CampaignTypeOK
  <2>5. /\ sender[w].cur \in claimed /\ reached[sender[w].cur] = 0
        /\ sender[w].cur \notin waiting
    BY <1>1, <1>2 DEF OfferInv, HoldsFirst
  <2>6. WaitsFirst'
    BY <1>1, <1>2, <1>12, <2>5 DEF OfferInv, WaitsFirst, CampaignTypeOK
  <2> QED
    BY <2>3, <2>4, <2>6 DEF OfferInv
<1>8. BrakeFrame
  BY <1>1, <1>2, <1>4 DEF BrakeFrame, Stopped, Aware, SendShape, Busy, Handing
<1>9. BrakeInv'
  BY <1>1, <1>8, BrakeStays
<1>10. BudgetFrame
  BY <1>1, <1>2, <1>4 DEF BudgetFrame, SendShape, Busy, Handing
<1>11. BudgetInv'
  BY <1>1, <1>10, BudgetStays
<1> QED
  BY <1>5, <1>6, <1>7, <1>8, <1>9, <1>10, <1>11 DEF CampaignInv

LEMMA OfferRefusedKeeps ==
    ASSUME CampaignInv, NEW w \in Sender, Offer(w), UNCHANGED <<reached, waiting, lost, news>>,
           sender' = [sender EXCEPT ![w].at = "release", ![w].out = "refused"]
    PROVE  CampaignInv'
<1> DEFINE s == [sender[w] EXCEPT !.at = "release", !.out = "refused"]
<1> USE CampaignAssumption
<1>1. CampaignTypeOK /\ SendShape /\ OfferInv /\ BrakeInv /\ BudgetInv
  BY DEF CampaignInv
<1>2. /\ UNCHANGED <<campaign, rec, ticketed, claimed, owner, willing, recent, slots, quiet,
                     waiting, reached, lost, braked, gaps, turnedTo, lapsed, news>>
      /\ sender[w].at = "paced" /\ sender[w] \in SendState
  BY <1>1 DEF Offer, shop, CampaignTypeOK, SendState
<1>3. s \in SendState /\ SenderGoes(w, s)
  BY <1>1, <1>2 DEF SendSteps, SendState, SenderGoes, CampaignTypeOK
<1>4. /\ sender' \in [Sender -> SendState]
      /\ sender'[w].at = "release"
      /\ sender'[w].page = sender[w].page /\ sender'[w].cur = sender[w].cur
      /\ sender'[w].spent = sender[w].spent
      /\ \A v \in Sender : v # w => sender'[v] = sender[v]
  <2>1. /\ sender' \in [Sender -> SendState] /\ sender'[w] = s
        /\ \A v \in Sender : v # w => sender'[v] = sender[v]
    BY <1>1, <1>3, SenderAfter
  <2> QED
    BY <1>2, <2>1 DEF Resting, SendState
<1>5. CampaignTypeOK'
  BY <1>1, <1>2, <1>4 DEF CampaignTypeOK, SendState
<1>6. SendShape'
  BY <1>1, <1>2, <1>4 DEF SendShape, Busy, Handing
<1>7. OfferFrame
  BY <1>1, <1>2, <1>4 DEF OfferFrame, HandsTo, Handing
<1>8. OfferInv'
  BY <1>1, <1>7, OffersStay
<1>9. BrakeFrame
  BY <1>1, <1>2, <1>4 DEF BrakeFrame, Stopped, Aware, SendShape, Busy, Handing
<1>10. BrakeInv'
  BY <1>1, <1>9, BrakeStays
<1>11. BudgetFrame
  BY <1>1, <1>2, <1>4 DEF BudgetFrame, SendShape, Busy, Handing
<1>12. BudgetInv'
  BY <1>1, <1>11, BudgetStays
<1> QED
  BY <1>5, <1>6, <1>7, <1>8, <1>9, <1>10, <1>11, <1>12 DEF CampaignInv

LEMMA GiveBackKeeps ==
    ASSUME CampaignInv, NEW w \in Sender, GiveBack(w)
    PROVE  CampaignInv'
<1> DEFINE s == [sender[w] EXCEPT !.at = "settle"]
<1> USE CampaignAssumption
<1>1. CampaignTypeOK /\ SendShape /\ OfferInv /\ BrakeInv /\ BudgetInv
  BY DEF CampaignInv
<1>2. /\ UNCHANGED <<campaign, rec, ticketed, owner, willing, recent, slots, quiet, waiting,
                     reached, lost, braked, gaps, turnedTo, lapsed, news>>
      /\ sender[w].at = "release" /\ sender[w] \in SendState /\ HandsTo(w, sender[w].cur)
      /\ sender[w].cur \in Customer
      /\ claimed' = claimed \ {sender[w].cur}
  BY <1>1
    DEF GiveBack, shop, campaignHistory, CampaignTypeOK, SendShape, Busy, Handing, HandsTo,
        SendState
<1>3. s \in SendState /\ SenderGoes(w, s)
  BY <1>1, <1>2 DEF GiveBack, Resting, SendSteps, SendState, SenderGoes, CampaignTypeOK
<1>4. /\ sender' \in [Sender -> SendState]
      /\ sender'[w].at = "settle"
      /\ sender'[w].page = sender[w].page /\ sender'[w].cur = sender[w].cur
      /\ sender'[w].spent = sender[w].spent
      /\ \A v \in Sender : v # w => sender'[v] = sender[v]
  <2>1. /\ sender' \in [Sender -> SendState] /\ sender'[w] = s
        /\ \A v \in Sender : v # w => sender'[v] = sender[v]
    BY <1>1, <1>3, SenderAfter
  <2> QED
    BY <1>2, <2>1 DEF Resting, SendState
<1>5. CampaignTypeOK'
  BY <1>1, <1>2, <1>4 DEF CampaignTypeOK, SendState
<1>6. SendShape'
  BY <1>1, <1>2, <1>4 DEF SendShape, Busy, Handing
<1>7. OfferInv'
  <2>1. \A v \in Sender, c \in Customer : HandsTo(v, c)' => HandsTo(v, c) /\ v # w
    BY <1>2, <1>4 DEF HandsTo, Handing
  <2>2. \A v \in Sender, c \in Customer : HandsTo(v, c)' => c # sender[w].cur
    BY <1>1, <1>2, <2>1 DEF OfferInv, HoldsAlone
  <2>3. HoldsAlone'
    BY <1>1, <2>1 DEF OfferInv, HoldsAlone
  <2>4. HoldsFirst'
    BY <1>1, <1>2, <2>1, <2>2 DEF OfferInv, HoldsFirst, CampaignTypeOK
  <2>5. /\ sender[w].cur \in claimed /\ reached[sender[w].cur] = 0
        /\ sender[w].cur \notin waiting
    BY <1>1, <1>2 DEF OfferInv, HoldsFirst
  <2>6. WaitsFirst'
    BY <1>1, <1>2, <2>5 DEF OfferInv, WaitsFirst, CampaignTypeOK
  <2> QED
    BY <2>3, <2>4, <2>6 DEF OfferInv
<1>8. BrakeFrame
  BY <1>1, <1>2, <1>4 DEF BrakeFrame, Stopped, Aware, SendShape, Busy, Handing
<1>9. BrakeInv'
  BY <1>1, <1>8, BrakeStays
<1>10. BudgetFrame
  BY <1>1, <1>2, <1>4 DEF BudgetFrame, SendShape, Busy, Handing
<1>11. BudgetInv'
  BY <1>1, <1>10, BudgetStays
<1> QED
  BY <1>5, <1>6, <1>7, <1>8, <1>9, <1>10, <1>11 DEF CampaignInv

LEMMA SettleSentKeeps ==
    ASSUME CampaignInv, NEW w \in Sender, Settle(w), sender[w].out = "accepted"
    PROVE  CampaignInv'
<1> DEFINE n == IF sender[w].out = "accepted" THEN 1 ELSE 0
           s == NextRow([sender[w] EXCEPT !.sent = @ + n, !.spent = @ + n], sender[w].cur)
<1> USE CampaignAssumption
<1>1. CampaignTypeOK /\ SendShape /\ OfferInv /\ BrakeInv /\ BudgetInv
  BY DEF CampaignInv
<1>2. /\ UNCHANGED <<campaign, claimed, owner, willing, slots, quiet, waiting, reached, lost,
                     braked, gaps, turnedTo, lapsed, news>>
      /\ sender[w].at = "settle" /\ sender[w] \in SendState /\ sender[w].cur \in Customer
      /\ rec' = [rec EXCEPT ![sender[w].cur] = "sent"]
      /\ ticketed' = ticketed \cup {sender[w].cur} /\ recent' = recent \cup {sender[w].cur}
  BY <1>1 DEF Settle, campaignHistory, CampaignTypeOK, SendShape, Busy, SendState
<1>3. s \in SendState /\ SenderGoes(w, s)
  <2> DEFINE z == [sender[w] EXCEPT !.sent = @ + n, !.spent = @ + n]
  <2>1. n \in Nat /\ n = 1
    OBVIOUS
  <2>2. SenderGoes(w, s)
    BY DEF Settle, SenderGoes
  <2> HIDE DEF n
  <2>3. z \in SendState
    BY <1>2, <2>1, SentMore
  <2> HIDE DEF z
  <2>4. NextRow(z, sender[w].cur) \in SendState
    BY <2>3, NextRowIs
  <2> QED
    BY <2>2, <2>4 DEF z
<1>4. /\ sender' \in [Sender -> SendState]
      /\ sender'[w].page = sender[w].page \ {sender[w].cur}
      /\ sender'[w].spent = sender[w].spent + 1
      /\ sender'[w].at = IF sender[w].page \ {sender[w].cur} = {} THEN "paging" ELSE "gate"
      /\ \A v \in Sender : v # w => sender'[v] = sender[v]
  <2>1. /\ sender' \in [Sender -> SendState] /\ sender'[w] = s
        /\ \A v \in Sender : v # w => sender'[v] = sender[v]
    BY <1>1, <1>3, SenderAfter
  <2> QED
    <3> DEFINE z == [sender[w] EXCEPT !.sent = @ + n, !.spent = @ + n]
    <3>1. n \in Nat /\ n = 1
      OBVIOUS
    <3> HIDE DEF n
    <3>2. z \in SendState /\ z.spent = sender[w].spent + n /\ z.page = sender[w].page
      BY <1>2, <3>1, SentMore
    <3>3. sender[w].spent + n = sender[w].spent + 1
      BY <1>2, <3>1 DEF SendState
    <3>4. sender'[w] = NextRow(z, sender[w].cur)
      BY <2>1
    <3> HIDE DEF z
    <3> QED
      BY <2>1, <3>2, <3>3, <3>4, NextRowIs
<1>5. CampaignTypeOK'
  BY <1>1, <1>2, <1>4 DEF CampaignTypeOK, SendState
<1>6. SendShape'
  BY <1>1, <1>2, <1>4 DEF SendShape, Busy, Handing
<1>7. OfferFrame
  BY <1>1, <1>2, <1>4 DEF OfferFrame, HandsTo, Handing
<1>8. OfferInv'
  BY <1>1, <1>7, OffersStay
<1>9. BrakeFrame
  BY <1>1, <1>2, <1>4 DEF BrakeFrame, Stopped, Aware, SendShape, Busy, Handing
<1>10. BrakeInv'
  BY <1>1, <1>9, BrakeStays
<1>11. BudgetInv'
  <2> SUFFICES ASSUME ~lapsed
               PROVE  (OneWorks /\ RowsTell /\ PageWaits /\ KnowsSpent /\ MonthKept)'
    BY <1>2 DEF BudgetInv
  <2>1. OneWorks /\ RowsTell /\ PageWaits /\ KnowsSpent /\ MonthKept
    BY <1>1 DEF BudgetInv
  <2> DEFINE c == sender[w].cur
  <2>2. /\ rec[c] = "queued" /\ c \notin ticketed
        /\ sender[w].spent = Cardinality(ticketed) /\ sender[w].spent < MonthBudget
        /\ \A v \in Sender : v # w => sender[v].at = "idle" /\ sender[v].page = {}
    BY <1>1, <1>2, <2>1 DEF RowsTell, SentRows, PageWaits, KnowsSpent, OneWorks, SendShape, Busy
  <2>3. OneWorks'
    BY <1>2, <1>4, <2>1 DEF OneWorks
  <2>4. RowsTell'
    BY <1>1, <1>2, <2>1, <2>2 DEF RowsTell, SentRows, CampaignTypeOK
  <2>5. PageWaits'
    BY <1>1, <1>2, <1>4, <2>1, <2>2 DEF PageWaits, Busy, Handing, SendState, CampaignTypeOK
  <2>6. Cardinality(ticketed') = Cardinality(ticketed) + 1 /\ Cardinality(ticketed) \in Nat
    BY <1>1, <1>2, <2>2, TicketsCounted, FS_AddElement
  <2>7. KnowsSpent' /\ MonthKept'
    BY <1>2, <1>4, <2>1, <2>2, <2>6 DEF KnowsSpent, MonthKept, Busy, Handing
  <2> QED
    BY <2>3, <2>4, <2>5, <2>7
<1> QED
  BY <1>5, <1>6, <1>7, <1>8, <1>9, <1>10, <1>11 DEF CampaignInv

LEMMA SettleNotKeeps ==
    ASSUME CampaignInv, NEW w \in Sender, Settle(w), sender[w].out # "accepted"
    PROVE  CampaignInv'
<1> DEFINE n == IF sender[w].out = "accepted" THEN 1 ELSE 0
           s == NextRow([sender[w] EXCEPT !.sent = @ + n, !.spent = @ + n], sender[w].cur)
<1> USE CampaignAssumption
<1>1. CampaignTypeOK /\ SendShape /\ OfferInv /\ BrakeInv /\ BudgetInv
  BY DEF CampaignInv
<1>2. /\ UNCHANGED <<campaign, claimed, owner, willing, slots, quiet, waiting, ticketed, recent,
                     reached, lost, braked, gaps, turnedTo, lapsed, news>>
      /\ sender[w].at = "settle" /\ sender[w] \in SendState /\ sender[w].cur \in Customer
      /\ rec' = [rec EXCEPT ![sender[w].cur] = "failed"]
  BY <1>1 DEF Settle, campaignHistory, CampaignTypeOK, SendShape, Busy, SendState
<1>3. s \in SendState /\ SenderGoes(w, s)
  <2> DEFINE z == [sender[w] EXCEPT !.sent = @ + n, !.spent = @ + n]
  <2>1. n \in Nat /\ n = 0
    OBVIOUS
  <2>2. SenderGoes(w, s)
    BY DEF Settle, SenderGoes
  <2> HIDE DEF n
  <2>3. z \in SendState
    BY <1>2, <2>1, SentMore
  <2> HIDE DEF z
  <2>4. NextRow(z, sender[w].cur) \in SendState
    BY <2>3, NextRowIs
  <2> QED
    BY <2>2, <2>4 DEF z
<1>4. /\ sender' \in [Sender -> SendState]
      /\ sender'[w].page = sender[w].page \ {sender[w].cur} /\ sender'[w].spent = sender[w].spent
      /\ sender'[w].at = IF sender[w].page \ {sender[w].cur} = {} THEN "paging" ELSE "gate"
      /\ \A v \in Sender : v # w => sender'[v] = sender[v]
  <2>1. /\ sender' \in [Sender -> SendState] /\ sender'[w] = s
        /\ \A v \in Sender : v # w => sender'[v] = sender[v]
    BY <1>1, <1>3, SenderAfter
  <2> QED
    <3> DEFINE z == [sender[w] EXCEPT !.sent = @ + n, !.spent = @ + n]
    <3>1. n \in Nat /\ n = 0
      OBVIOUS
    <3> HIDE DEF n
    <3>2. z \in SendState /\ z.spent = sender[w].spent + n /\ z.page = sender[w].page
      BY <1>2, <3>1, SentMore
    <3>3. sender[w].spent + n = sender[w].spent
      BY <1>2, <3>1 DEF SendState
    <3>4. sender'[w] = NextRow(z, sender[w].cur)
      BY <2>1
    <3> HIDE DEF z
    <3> QED
      BY <2>1, <3>2, <3>3, <3>4, NextRowIs
<1>5. CampaignTypeOK'
  BY <1>1, <1>2, <1>4 DEF CampaignTypeOK, SendState
<1>6. SendShape'
  BY <1>1, <1>2, <1>4 DEF SendShape, Busy, Handing
<1>7. OfferFrame
  BY <1>1, <1>2, <1>4 DEF OfferFrame, HandsTo, Handing
<1>8. OfferInv'
  BY <1>1, <1>7, OffersStay
<1>9. BrakeFrame
  BY <1>1, <1>2, <1>4 DEF BrakeFrame, Stopped, Aware, SendShape, Busy, Handing
<1>10. BrakeInv'
  BY <1>1, <1>9, BrakeStays
<1>11. BudgetInv'
  <2> SUFFICES ASSUME ~lapsed
               PROVE  (OneWorks /\ RowsTell /\ PageWaits /\ KnowsSpent /\ MonthKept)'
    BY <1>2 DEF BudgetInv
  <2>1. OneWorks /\ RowsTell /\ PageWaits /\ KnowsSpent /\ MonthKept
    BY <1>1 DEF BudgetInv
  <2> DEFINE c == sender[w].cur
  <2>2. /\ rec[c] = "queued" /\ c \notin ticketed
        /\ sender[w].spent = Cardinality(ticketed) /\ sender[w].spent < MonthBudget
        /\ \A v \in Sender : v # w => sender[v].at = "idle" /\ sender[v].page = {}
    BY <1>1, <1>2, <2>1 DEF RowsTell, SentRows, PageWaits, KnowsSpent, OneWorks, SendShape, Busy
  <2>3. OneWorks'
    BY <1>2, <1>4, <2>1 DEF OneWorks
  <2>4. RowsTell'
    BY <1>1, <1>2, <2>1, <2>2 DEF RowsTell, SentRows, CampaignTypeOK
  <2>5. PageWaits'
    BY <1>1, <1>2, <1>4, <2>1, <2>2 DEF PageWaits, Busy, Handing, SendState, CampaignTypeOK
  <2>6. KnowsSpent' /\ MonthKept'
    BY <1>2, <1>4, <2>1, <2>2 DEF KnowsSpent, MonthKept, Busy, Handing
  <2> QED
    BY <2>3, <2>4, <2>5, <2>6
<1> QED
  BY <1>5, <1>6, <1>7, <1>8, <1>9, <1>10, <1>11 DEF CampaignInv

LEMMA SenderDiesKeeps ==
    ASSUME CampaignInv, NEW w \in Sender, SenderDies(w)
    PROVE  CampaignInv'
<1> DEFINE s == Resting
<1> USE CampaignAssumption
<1>1. CampaignTypeOK /\ SendShape /\ OfferInv /\ BrakeInv /\ BudgetInv
  BY DEF CampaignInv
<1>2. /\ UNCHANGED <<campaign, rec, ticketed, claimed, owner, willing, recent, slots, quiet,
                     waiting, reached, lost, braked, gaps, turnedTo>>
      /\ sender[w] \in SendState
      /\ lapsed' \in BOOLEAN
      /\ lapsed => lapsed'
      /\ news' \in 0 .. MaxNews
  BY <1>1 DEF SenderDies, shop, campaignHistory, News, CampaignTypeOK, SendShape, SendState
<1>3. s \in SendState /\ SenderGoes(w, s)
  BY <1>1, <1>2 DEF SenderDies, Resting, SendSteps, SendState, SenderGoes, CampaignTypeOK
<1>4. /\ sender' \in [Sender -> SendState]
      /\ sender'[w].at = "idle" /\ sender'[w].page = {}
      /\ \A v \in Sender : v # w => sender'[v] = sender[v]
  <2>1. /\ sender' \in [Sender -> SendState] /\ sender'[w] = s
        /\ \A v \in Sender : v # w => sender'[v] = sender[v]
    BY <1>1, <1>3, SenderAfter
  <2> QED
    BY <1>2, <2>1 DEF Resting, SendState
<1>5. CampaignTypeOK'
  BY <1>1, <1>2, <1>4 DEF CampaignTypeOK, SendState
<1>6. SendShape'
  BY <1>1, <1>2, <1>4 DEF SendShape, Busy, Handing
<1>7. OfferFrame
  BY <1>1, <1>2, <1>4 DEF OfferFrame, HandsTo, Handing
<1>8. OfferInv'
  BY <1>1, <1>7, OffersStay
<1>9. BrakeFrame
  BY <1>1, <1>2, <1>4 DEF BrakeFrame, Stopped, Aware, SendShape, Busy, Handing
<1>10. BrakeInv'
  BY <1>1, <1>9, BrakeStays
<1>11. BudgetFrame
  BY <1>1, <1>2, <1>4 DEF BudgetFrame, SendShape, Busy, Handing
<1>12. BudgetInv'
  BY <1>1, <1>11, BudgetStays
<1> QED
  BY <1>5, <1>6, <1>7, <1>8, <1>9, <1>10, <1>11, <1>12 DEF CampaignInv

LEMMA DrainKeeps ==
    ASSUME CampaignInv, NEW c \in Customer, Drain(c)
    PROVE  CampaignInv'
<1> USE CampaignAssumption
<1>1. CampaignTypeOK /\ SendShape /\ OfferInv /\ BrakeInv /\ BudgetInv
  BY DEF CampaignInv
<1>2. /\ UNCHANGED <<campaign, rec, ticketed, claimed, owner, willing, recent, quiet,
                     braked, gaps, turnedTo, lapsed>>
      /\ c \in waiting /\ slots' \in 0 .. DailyCap
  BY <1>1 DEF Drain, CampaignTypeOK, CampaignAssumption
<1>12. /\ waiting' \subseteq waiting
       /\ reached' \in [Customer -> Nat] /\ lost' \in [Customer -> Nat] /\ news' \in 0 .. MaxNews
       /\ \A d \in Customer : d # c => reached'[d] = reached[d] /\ lost'[d] = lost[d]
       /\ \/ reached'[c] = reached[c] + 1 /\ lost'[c] = lost[c] /\ c \notin waiting'
          \/ reached'[c] = reached[c] /\ lost'[c] = lost[c]
          \/ reached'[c] = reached[c] + 1 /\ lost'[c] = lost[c] + 1
  <2>1. CASE waiting' = waiting \ {c} /\ Reaches(c) /\ UNCHANGED <<lost, news>>
    BY <1>1, <2>1 DEF Reaches, CampaignTypeOK
  <2>2. CASE waiting' \in {waiting, waiting \ {c}} /\ UNCHANGED <<reached, lost, news>>
    BY <1>1, <2>2 DEF CampaignTypeOK
  <2>3. CASE AnswerLost(c) /\ UNCHANGED waiting
    BY <1>1, <2>3 DEF AnswerLost, Reaches, News, CampaignTypeOK, CampaignAssumption
  <2> QED
    BY <2>1, <2>2, <2>3 DEF Drain
<1>4. sender' = sender
  BY DEF Drain
<1>5. CampaignTypeOK'
  BY <1>1, <1>2, <1>4, <1>12 DEF CampaignTypeOK, SendState
<1>6. SendShape'
  BY <1>1, <1>2, <1>4 DEF SendShape, Busy, Handing
<1>7. OfferInv'
  <2>1. \A v \in Sender, d \in Customer : HandsTo(v, d)' <=> HandsTo(v, d)
    BY <1>4 DEF HandsTo
  <2>2. \A v \in Sender : ~HandsTo(v, c)
    BY <1>1, <1>2 DEF OfferInv, HoldsFirst
  <2>3. HoldsAlone' /\ HoldsFirst'
    BY <1>1, <1>2, <1>12, <2>1, <2>2 DEF OfferInv, HoldsAlone, HoldsFirst
  <2>4. reached[c] <= lost[c] /\ c \in claimed
    BY <1>1, <1>2 DEF OfferInv, WaitsFirst
  <2>5. WaitsFirst'
    BY <1>1, <1>2, <1>12, <2>4 DEF OfferInv, WaitsFirst, CampaignTypeOK
  <2> QED
    BY <2>3, <2>5 DEF OfferInv
<1>8. BrakeFrame
  BY <1>1, <1>2, <1>4 DEF BrakeFrame, Stopped, Aware, SendShape, Busy, Handing
<1>9. BrakeInv'
  BY <1>1, <1>8, BrakeStays
<1>10. BudgetFrame
  BY <1>1, <1>2, <1>4 DEF BudgetFrame, SendShape, Busy, Handing
<1>11. BudgetInv'
  BY <1>1, <1>10, BudgetStays
<1> QED
  BY <1>5, <1>6, <1>7, <1>8, <1>9, <1>10, <1>11 DEF CampaignInv

LEMMA GiveUpKeeps ==
    ASSUME CampaignInv, NEW c \in Customer, GiveUp(c)
    PROVE  CampaignInv'
<1> USE CampaignAssumption
<1>1. CampaignTypeOK /\ SendShape /\ OfferInv /\ BrakeInv /\ BudgetInv
  BY DEF CampaignInv
<1>2. /\ UNCHANGED <<campaign, rec, ticketed, claimed, owner, willing, recent, slots, quiet,
                     sender, reached, lost, braked, gaps, turnedTo, lapsed, news>>
      /\ waiting' \subseteq waiting
  BY DEF GiveUp, campaignHistory
<1>3. CampaignTypeOK'
  BY <1>1, <1>2 DEF CampaignTypeOK
<1>4. SendShape'
  BY <1>1, <1>2 DEF SendShape, Busy, Handing
<1>5. OfferInv'
  BY <1>1, <1>2, OffersStay DEF OfferFrame, HandsTo
<1>6. BrakeFrame
  BY <1>2 DEF BrakeFrame, Stopped, Aware
<1>7. BudgetFrame
  BY <1>2 DEF BudgetFrame
<1> QED
  BY <1>1, <1>3, <1>4, <1>5, <1>6, <1>7, BrakeStays, BudgetStays DEF CampaignInv

LEMMA TickedKeeps ==
    ASSUME CampaignInv, NEW c \in Customer, NEW k \in {"delivered", "failed"}, Ticked(c, k)
    PROVE  CampaignInv'
<1> USE CampaignAssumption
<1>1. CampaignTypeOK /\ SendShape /\ OfferInv /\ BrakeInv /\ BudgetInv
  BY DEF CampaignInv
<1>2. /\ UNCHANGED <<campaign, ticketed, claimed, owner, willing, recent, slots, quiet, waiting,
                     reached, lost, braked, gaps, turnedTo>>
      /\ c \in ticketed /\ rec' = [rec EXCEPT ![c] = k]
      /\ lapsed' \in BOOLEAN
      /\ lapsed => lapsed'
      /\ k = "failed" => lapsed'
      /\ news' \in 0 .. MaxNews
  <2>1. lapsed \in BOOLEAN /\ lapsed' = (lapsed \/ k = "failed")
    BY <1>1 DEF Ticked, CampaignTypeOK
  <2>2. lapsed' \in BOOLEAN /\ (lapsed => lapsed') /\ (k = "failed" => lapsed')
    BY <2>1, Zenon
  <2> QED
    BY <1>1, <2>2 DEF Ticked, shop, News, CampaignTypeOK
<1>4. sender' = sender
  BY DEF Ticked
<1>5. CampaignTypeOK'
  BY <1>1, <1>2, <1>4 DEF CampaignTypeOK, SendState
<1>6. SendShape'
  BY <1>1, <1>2, <1>4 DEF SendShape, Busy, Handing
<1>7. OfferFrame
  BY <1>1, <1>2, <1>4 DEF OfferFrame, HandsTo, Handing
<1>8. OfferInv'
  BY <1>1, <1>7, OffersStay
<1>9. BrakeFrame
  BY <1>1, <1>2, <1>4 DEF BrakeFrame, Stopped, Aware, SendShape, Busy, Handing
<1>10. BrakeInv'
  BY <1>1, <1>9, BrakeStays
<1>11. BudgetInv'
  <2> SUFFICES ASSUME ~lapsed'
               PROVE  (OneWorks /\ RowsTell /\ PageWaits /\ KnowsSpent /\ MonthKept)'
    BY DEF BudgetInv
  <2>1. /\ OneWorks /\ RowsTell /\ PageWaits /\ KnowsSpent /\ MonthKept
        /\ k = "delivered"
    BY <1>1, <1>2 DEF BudgetInv
  <2>2. rec[c] # "queued"
    BY <1>2, <2>1 DEF RowsTell, SentRows
  <2>3. OneWorks' /\ KnowsSpent' /\ MonthKept'
    BY <1>2, <1>4, <2>1 DEF OneWorks, KnowsSpent, MonthKept
  <2>4. RowsTell'
    BY <1>1, <1>2, <2>1 DEF RowsTell, SentRows, CampaignTypeOK
  <2>5. PageWaits'
    BY <1>1, <1>2, <1>4, <2>1, <2>2 DEF PageWaits, CampaignTypeOK, SendShape
  <2> QED
    BY <2>3, <2>4, <2>5
<1> QED
  BY <1>5, <1>6, <1>7, <1>8, <1>9, <1>10, <1>11 DEF CampaignInv

LEMMA OptOutKeeps ==
    ASSUME CampaignInv, NEW c \in Customer, OptOut(c)
    PROVE  CampaignInv'
<1> USE CampaignAssumption
<1>1. CampaignTypeOK /\ SendShape /\ OfferInv /\ BrakeInv /\ BudgetInv
  BY DEF CampaignInv
<1>2. /\ UNCHANGED <<campaign, rec, ticketed, claimed, owner, recent, slots, quiet, waiting,
                     reached, lost, braked, gaps, turnedTo, lapsed>>
      /\ willing' = willing \ {c}
      /\ news' \in 0 .. MaxNews
  BY <1>1 DEF OptOut, shop, campaignHistory, News, CampaignTypeOK, SendShape, SendState
<1>4. sender' = sender
  BY DEF OptOut
<1>5. CampaignTypeOK'
  BY <1>1, <1>2, <1>4 DEF CampaignTypeOK, SendState
<1>6. SendShape'
  BY <1>1, <1>2, <1>4 DEF SendShape, Busy, Handing
<1>7. OfferFrame
  BY <1>1, <1>2, <1>4 DEF OfferFrame, HandsTo, Handing
<1>8. OfferInv'
  BY <1>1, <1>7, OffersStay
<1>9. BrakeFrame
  BY <1>1, <1>2, <1>4 DEF BrakeFrame, Stopped, Aware, SendShape, Busy, Handing
<1>10. BrakeInv'
  BY <1>1, <1>9, BrakeStays
<1>11. BudgetFrame
  BY <1>1, <1>2, <1>4 DEF BudgetFrame, SendShape, Busy, Handing
<1>12. BudgetInv'
  BY <1>1, <1>11, BudgetStays
<1> QED
  BY <1>5, <1>6, <1>7, <1>8, <1>9, <1>10, <1>11, <1>12 DEF CampaignInv

LEMMA ClockKeeps ==
    ASSUME CampaignInv, Clock
    PROVE  CampaignInv'
<1> USE CampaignAssumption
<1>1. CampaignTypeOK /\ SendShape /\ OfferInv /\ BrakeInv /\ BudgetInv
  BY DEF CampaignInv
<1>2. /\ UNCHANGED <<campaign, rec, ticketed, claimed, owner, willing, recent, slots, waiting,
                     reached, lost, braked, gaps, turnedTo, lapsed>>
      /\ quiet' \in BOOLEAN
      /\ news' \in 0 .. MaxNews
  BY <1>1 DEF Clock, shop, campaignHistory, News, CampaignTypeOK, SendShape, SendState
<1>4. sender' = sender
  BY DEF Clock
<1>5. CampaignTypeOK'
  BY <1>1, <1>2, <1>4 DEF CampaignTypeOK, SendState
<1>6. SendShape'
  BY <1>1, <1>2, <1>4 DEF SendShape, Busy, Handing
<1>7. OfferFrame
  BY <1>1, <1>2, <1>4 DEF OfferFrame, HandsTo, Handing
<1>8. OfferInv'
  BY <1>1, <1>7, OffersStay
<1>9. BrakeFrame
  BY <1>1, <1>2, <1>4 DEF BrakeFrame, Stopped, Aware, SendShape, Busy, Handing
<1>10. BrakeInv'
  BY <1>1, <1>9, BrakeStays
<1>11. BudgetFrame
  BY <1>1, <1>2, <1>4 DEF BudgetFrame, SendShape, Busy, Handing
<1>12. BudgetInv'
  BY <1>1, <1>11, BudgetStays
<1> QED
  BY <1>5, <1>6, <1>7, <1>8, <1>9, <1>10, <1>11, <1>12 DEF CampaignInv

LEMMA CampaignRests ==
    ASSUME CampaignInv, UNCHANGED campaignVars
    PROVE  CampaignInv'
<1>1. CampaignTypeOK' /\ SendShape'
  BY DEF CampaignInv, campaignVars, CampaignTypeOK, SendShape
<1>2. OfferInv'
  BY DEF CampaignInv, campaignVars, OfferInv, HoldsAlone, HoldsFirst, WaitsFirst, HandsTo
<1>3. BrakeInv'
  BY DEF CampaignInv, campaignVars, BrakeInv, Stopped, Aware
<1>4. BudgetInv'
  BY DEF CampaignInv, campaignVars, BudgetInv, OneWorks, RowsTell, PageWaits, KnowsSpent, MonthKept
<1> QED
  BY <1>1, <1>2, <1>3, <1>4 DEF CampaignInv

LEMMA CampaignStep ==
    ASSUME CampaignInv, [CampaignNext]_campaignVars
    PROVE  CampaignInv'
<1>1. ASSUME NEW o \in Owner,
             Look(o) \/ ApproveCampaign(o) \/ Queue(o) \/ CloseEmpty(o) \/ Brake(o)
      PROVE  CampaignInv'
  BY <1>1, LookKeeps, ApproveKeeps, QueueKeeps, CloseEmptyKeeps, BrakeKeeps
<1>2. ASSUME NEW w \in Sender,
             Start(w) \/ Begin(w) \/ Count(w) \/ Page(w) \/ Finish(w) \/ Stop(w)
      PROVE  CampaignInv'
  BY <1>2, StartKeeps, BeginKeeps, CountKeeps, PageKeeps, FinishKeeps, StopKeeps
<1>3. ASSUME NEW w \in Sender, NEW c \in Customer, Turn(w, c)
      PROVE  CampaignInv'
  BY <1>3, TurnAwayKeeps, TurnToKeeps
<1>4. ASSUME NEW w \in Sender, Claim(w) \/ Reserve(w)
      PROVE  CampaignInv'
  BY <1>4, ClaimLostKeeps, ClaimWonKeeps, ReserveGotKeeps, ReserveNotKeeps
<1>5. ASSUME NEW w \in Sender, Offer(w)
      PROVE  CampaignInv'
  BY <1>5, OfferSentKeeps, OfferQueuedKeeps, OfferRefusedKeeps DEF Offer
<1>6. ASSUME NEW w \in Sender, GiveBack(w) \/ Settle(w) \/ SenderDies(w)
      PROVE  CampaignInv'
  BY <1>6, GiveBackKeeps, SettleSentKeeps, SettleNotKeeps, SenderDiesKeeps
<1>7. ASSUME NEW c \in Customer,
             Drain(c) \/ GiveUp(c) \/ OptOut(c) \/ \E s \in {"delivered", "failed"} : Ticked(c, s)
      PROVE  CampaignInv'
  BY <1>7, DrainKeeps, GiveUpKeeps, OptOutKeeps, TickedKeeps
<1>8. CASE Clock
  BY <1>8, ClockKeeps
<1>9. CASE UNCHANGED campaignVars
  BY <1>9, CampaignRests
<1> QED
  BY <1>1, <1>2, <1>3, <1>4, <1>5, <1>6, <1>7, <1>8, <1>9 DEF CampaignNext

LEMMA CampaignBegins ==
    ASSUME CampaignInit
    PROVE  CampaignInv
<1> USE CampaignAssumption
<1>1. CampaignTypeOK
  <2>1. Resting \in SendState
    BY DEF Resting, SendState, SendSteps
  <2>2. sender \in [Sender -> SendState] /\ campaign \in Statuses
    BY <2>1 DEF CampaignInit, Statuses
  <2>3. rec \in [Customer -> {"none", "queued", "skipped", "failed", "sent", "delivered"}]
    BY DEF CampaignInit
  <2>4. {ticketed, claimed, willing, recent, waiting, turnedTo} \subseteq SUBSET Customer
    BY DEF CampaignInit
  <2>5. slots \in 0 .. DailyCap
    BY DEF CampaignInit
  <2>8. quiet \in BOOLEAN /\ braked \in BOOLEAN /\ lapsed \in BOOLEAN
    BY Zenon DEF CampaignInit
  <2>6. owner \in [Owner -> {"idle", "approving", "queueing", "empty"}]
    BY DEF CampaignInit
  <2>7. {reached, lost} \subseteq [Customer -> Nat]
    BY DEF CampaignInit
  <2>9. gaps \subseteq Sender \cup Owner /\ news \in 0 .. MaxNews
    BY DEF CampaignInit
  <2> QED
    BY ONLY <2>2, <2>3, <2>4, <2>5, <2>6, <2>7, <2>8, <2>9 DEF CampaignTypeOK, SendState
<1>2. SendShape /\ OfferInv
  BY DEF CampaignInit, SendShape, OfferInv, HoldsAlone, HoldsFirst, WaitsFirst, HandsTo, Resting,
         Busy, Handing
<1>3. BrakeInv
  BY DEF CampaignInit, BrakeInv
<1>4. RowsTell /\ OneWorks /\ PageWaits
  BY DEF CampaignInit, RowsTell, SentRows, OneWorks, PageWaits, Resting, Busy, Handing
<1>5. Cardinality(ticketed) = 0
  BY FS_EmptySet DEF CampaignInit
<1>6. KnowsSpent /\ MonthKept
  BY <1>5 DEF CampaignInit, KnowsSpent, MonthKept, Resting, Busy, Handing
<1> QED
  BY <1>1, <1>2, <1>3, <1>4, <1>6 DEF CampaignInv, BudgetInv

LEMMA CampaignAlways == CampaignSpec => []CampaignInv
<1>1. CampaignInv /\ [CampaignNext]_campaignVars => CampaignInv'
  BY CampaignStep
<1> QED
  BY CampaignBegins, <1>1, PTL DEF CampaignSpec

\* The campaign, its rows and its workers keep their types.
THEOREM CampaignTyped == CampaignSpec => []CampaignTypeOK
<1>1. CampaignInv => CampaignTypeOK
  BY DEF CampaignInv
<1> QED
  BY CampaignAlways, <1>1, PTL

\* send_campaign and the drain of its failed messages bring a customer one copy
\* of a campaign, and one more for each that the gateway took and called failed;
\* the worker turns to nobody after a brake that found nobody between a read and
\* its write, and overspends the month only where workers overlapped or a sent
\* row does not tell it.
THEOREM CampaignKept == CampaignSpec => []CampaignHeld
<1>1. ASSUME CampaignInv
      PROVE  CampaignHeld
  <2>1. OfferedOnce
    BY <1>1 DEF CampaignInv, OfferInv, WaitsFirst, OfferedOnce
  <2>2. BrakeHolds
    BY <1>1 DEF CampaignInv, BrakeInv, Stopped, BrakeHolds
  <2>3. Cardinality(ticketed) \in Nat
    BY <1>1, TicketsCounted, CampaignAssumption DEF CampaignInv
  <2>4. OverspentByOverlap
    BY <1>1, <2>3, CampaignAssumption DEF CampaignInv, BudgetInv, MonthKept, OverspentByOverlap
  <2> QED
    BY <2>1, <2>2, <2>4 DEF CampaignHeld
<1> QED
  BY CampaignAlways, <1>1, PTL

----------------------------------------------------------------------------
(* PanelBills.                                                             *)

(***************************************************************************)
(* PanelBills.  The orders of a pickup, and the requests behind its mark   *)
(* that have not made theirs yet, are no more than one and the replies that *)
(* took the mark away; one that bills an order is alone with it until the  *)
(* advance is taken; and the bills a coupon has paid for, with the requests *)
(* that found it valid and have no bill yet, are no more than one and the  *)
(* requests that judged it beside another, as the rewards are with those   *)
(* about to earn one.                                                      *)
(***************************************************************************)
Making  == {"made", "judging", "earning", "linking"}
Marking == {"creating", "checked", "failing"} \cup Making
Billing == {"locked", "redeeming", "paying"} \cup Making

AskFits(q) ==
    /\ asker[q].at \in {"creating", "checked"} => asker[q].bill = Unbilled
    /\ asker[q].at \in Billing \cup {"closing", "moving"} => asker[q].bill \in Bill
    /\ asker[q].at \in {"linking", "locked", "redeeming", "closing", "moving"} =>
           asker[q].for \in Pickup
    /\ asker[q].at \in {"made", "redeeming"} => asker[q].cut
    /\ asker[q].bill \in Bill => bills[asker[q].bill].stage # "none"
PanelShape == \A q \in Asker : AskFits(q)

\* The mark of a pickup is set for a request.
Behind(q, t) == asker[q].at \in Marking /\ asker[q].for = t
MarkInv == \A t \in Pickup \ shut : errand[t].mark => \E q \in Asker : Behind(q, t)

\* A pickup's orders, and those still to be made.
FailedTold == \A q \in Asker :
    asker[q].at = "failing" /\ asker[q].bill \in Bill /\ asker[q].for \in Pickup =>
        asker[q].for \in unclear
Orders(t) == {b \in Bill : bills[b].for = t}
StillToMake(q, t) == Behind(q, t) /\ asker[q].bill = Unbilled
Coming(t) == {q \in Asker : StillToMake(q, t)}
Entered(t) == errand[t].mark \/ errand[t].bill # Unbilled
TaskBills == \A t \in Pickup \ (unclear \cup shut) :
    Cardinality(Orders(t)) + Cardinality(Coming(t)) <= OneMoreIf(rewritten[t], Entered(t))
TaskInv == FailedTold /\ TaskBills

\* An order has one task, and one request that may take its advance.
Pays(q, b) == asker[q].at \in Billing /\ asker[q].bill = b
LinkedMade == \A t \in Pickup : errand[t].bill \in Bill => bills[errand[t].bill].stage # "none"
LinkedOne  == \A t, u \in Pickup : errand[t].bill \in Bill /\ errand[t].bill = errand[u].bill =>
    t = u
MadeUnlinked == \A q \in Asker, t \in Pickup : asker[q].at \in Making =>
    errand[t].bill # asker[q].bill
LockedLinked == \A q \in Asker : asker[q].at = "locked" => errand[asker[q].for].bill = asker[q].bill
LockedOne == \A p, q \in Asker :
    asker[p].at = "locked" /\ asker[q].at = "locked" /\ asker[p].for = asker[q].for => p = q
PricedFirst == \A b \in Bill :
    /\ ~bills[b].priced => bills[b].advances = 0
    /\ \A q \in Asker : Pays(q, b) /\ asker[q].at # "locked" => bills[b].priced
PayerOne == \A b \in Bill, p, q \in Asker : Pays(p, b) /\ Pays(q, b) => p = q
UnpaidYet == \A b \in Bill : bills[b].advances <= 1 /\ \A q \in Asker : Pays(q, b) =>
    bills[b].advances = 0
PayInv == /\ LinkedMade /\ LinkedOne /\ MadeUnlinked /\ LockedLinked /\ LockedOne
          /\ PricedFirst /\ PayerOne /\ UnpaidYet

\* The coupon and the rule.
Found(q) == asker[q].cut /\ asker[q].at \in {"checked", "made", "locked", "redeeming"}
CutTold == \A b \in Bill : bills[b].cut /\ b \notin spilt =>
    b \in coupon.used \/ \E q \in Asker : asker[q].at \in {"made", "redeeming"} /\ asker[q].bill = b
CutBills == {b \in Bill : bills[b].cut} \ spilt
Seeks(q) == asker[q].cut /\ asker[q].at \in {"checked", "locked"}
Seekers == {q \in Asker : Seeks(q)}
FoundKept == Cardinality(CutBills) + Cardinality(Seekers) <= 1 + foundBeside
Earners == {q \in Asker : asker[q].at = "earning"}
PrizeKept == prizes + Cardinality(Earners) <= 1 + judgedBeside
CouponInv == CutTold /\ FoundKept /\ PrizeKept

PanelBase == PanelTypeOK /\ PanelShape
PanelInv == PanelBase /\ MarkInv /\ TaskInv /\ PayInv /\ CouponInv

AskState == [at: AskSteps, for: Pickup \cup {Counter}, bill: Bill \cup {Unbilled}, cut: BOOLEAN]
ErrandState == [open: BOOLEAN, mark: BOOLEAN, bill: Bill \cup {Unbilled}]
BillState == [stage: {"none", "assigned", "received", "picked", "cancelled"},
              priced: BOOLEAN, cut: BOOLEAN, advances: Nat, for: Pickup \cup {Counter}]

----------------------------------------------------------------------------

\* One request goes on to r.
AskerGoes(q, r) == asker' = [asker EXCEPT ![q] = r]

LEMMA AskerAfter ==
    ASSUME PanelTypeOK, NEW q \in Asker, NEW r \in AskState, AskerGoes(q, r)
    PROVE  /\ asker' \in [Asker -> AskState] /\ asker'[q] = r
           /\ \A p \in Asker : p # q => asker'[p] = asker[p]
  BY DEF PanelTypeOK, AskState, AskerGoes

LEMMA ErrandAfter ==
    ASSUME PanelTypeOK, NEW t \in Pickup, NEW e \in ErrandState,
           errand' = [errand EXCEPT ![t] = e]
    PROVE  /\ errand' \in [Pickup -> ErrandState] /\ errand'[t] = e
           /\ \A u \in Pickup : u # t => errand'[u] = errand[u]
  BY DEF PanelTypeOK, ErrandState

LEMMA BillAfter ==
    ASSUME PanelTypeOK, NEW b \in Bill, NEW o \in BillState,
           bills' = [bills EXCEPT ![b] = o]
    PROVE  /\ bills' \in [Bill -> BillState] /\ bills'[b] = o
           /\ \A c \in Bill : c # b => bills'[c] = bills[c]
  BY DEF PanelTypeOK, BillState

\* What a step has to leave alone for each part of the invariant.
ShapeFrame == \A b \in Bill : bills[b].stage # "none" => bills'[b].stage # "none"

MarkFrame ==
    /\ \A t \in Pickup : errand'[t].mark => errand[t].mark
    /\ \A q \in Asker, t \in Pickup : Behind(q, t)' <=> Behind(q, t)
    /\ shut \subseteq shut'

TaskFrame ==
    /\ \A b \in Bill : bills'[b].for = bills[b].for
    /\ rewritten' = rewritten
    /\ \A t \in Pickup : Entered(t) => Entered(t)'
    /\ \A q \in Asker, t \in Pickup : StillToMake(q, t)' => StillToMake(q, t)
    /\ unclear \subseteq unclear' /\ shut \subseteq shut'

PayFrame ==
    /\ \A b \in Bill : /\ bills[b].stage # "none" => bills'[b].stage # "none"
                       /\ bills'[b].advances = bills[b].advances
                       /\ bills[b].priced => bills'[b].priced
    /\ \A t \in Pickup : errand'[t].bill = errand[t].bill
    /\ \A q \in Asker : asker'[q].at \in Billing =>
          /\ asker[q].at \in Billing /\ asker'[q].bill = asker[q].bill
          /\ asker'[q].at \in Making => asker[q].at \in Making
          /\ asker'[q].at = "locked" <=> asker[q].at = "locked"
          /\ asker'[q].for = asker[q].for

CutFrame ==
    /\ \A b \in Bill : bills'[b].cut = bills[b].cut
    /\ coupon.used \subseteq coupon'.used /\ spilt \subseteq spilt'
    /\ \A q \in Asker : asker[q].at \in {"made", "redeeming"} =>
          \/ asker'[q].at \in {"made", "redeeming"} /\ asker'[q].bill = asker[q].bill
          \/ asker[q].bill \in spilt' \cup coupon'.used

FoundFrame ==
    /\ foundBeside' = foundBeside
    /\ \A b \in Bill : bills'[b].cut /\ b \notin spilt' => bills[b].cut /\ b \notin spilt
    /\ \A q \in Asker : Seeks(q)' => Seeks(q)

PrizeFrame ==
    /\ prizes' = prizes /\ judgedBeside' = judgedBeside
    /\ \A q \in Asker : asker'[q].at = "earning" => asker[q].at = "earning"

\* Counting: a set that is smaller, has one element more, or one less.
LEMMA Smaller ==
    ASSUME NEW S, NEW T, IsFiniteSet(T), S \subseteq T
    PROVE  /\ IsFiniteSet(S) /\ Cardinality(S) \in Nat /\ Cardinality(T) \in Nat
           /\ Cardinality(S) <= Cardinality(T)
<1>1. IsFiniteSet(S) /\ Cardinality(S) <= Cardinality(T)
  BY FS_Subset
<1> QED
  BY <1>1, FS_CardinalityType

LEMMA OneMore ==
    ASSUME NEW S, NEW T, NEW x, IsFiniteSet(T), S \subseteq T \cup {x}
    PROVE  Cardinality(S) \in Nat /\ Cardinality(T) \in Nat /\ Cardinality(S) <= Cardinality(T) + 1
<1>1. IsFiniteSet(T \cup {x}) /\ Cardinality(T \cup {x}) <= Cardinality(T) + 1
  <2>1. Cardinality(T) \in Nat
    BY FS_CardinalityType
  <2>2. /\ IsFiniteSet(T \cup {x})
        /\ Cardinality(T \cup {x}) = IF x \in T THEN Cardinality(T) ELSE Cardinality(T) + 1
    BY FS_AddElement
  <2> QED
    BY <2>1, <2>2
<1>2. Cardinality(S) \in Nat /\ Cardinality(S) <= Cardinality(T \cup {x})
  BY <1>1, Smaller
<1> QED
  BY <1>1, <1>2, FS_CardinalityType

LEMMA OneLess ==
    ASSUME NEW S, NEW T, NEW x \in T, IsFiniteSet(T), S \subseteq T \ {x}
    PROVE  Cardinality(S) \in Nat /\ Cardinality(T) \in Nat /\ Cardinality(S) + 1 <= Cardinality(T)
<1>1. IsFiniteSet(T \ {x}) /\ Cardinality(T \ {x}) = Cardinality(T) - 1
  BY FS_RemoveElement
<1>2. Cardinality(S) \in Nat /\ Cardinality(S) <= Cardinality(T \ {x})
  BY <1>1, Smaller
<1> QED
  BY <1>1, <1>2, FS_CardinalityType

\* What is counted is finite.
LEMMA PanelFinite ==
    /\ \A t \in Pickup : IsFiniteSet(Orders(t)) /\ IsFiniteSet(Coming(t))
    /\ IsFiniteSet(CutBills) /\ IsFiniteSet(Seekers) /\ IsFiniteSet(Earners)
<1>1. IsFiniteSet(Asker) /\ IsFiniteSet(Bill)
  BY PanelAssumption
<1>2. ASSUME NEW t \in Pickup
      PROVE  IsFiniteSet(Orders(t)) /\ IsFiniteSet(Coming(t))
  <2>1. Orders(t) \subseteq Bill /\ Coming(t) \subseteq Asker
    BY DEF Orders, Coming
  <2> QED
    BY <1>1, <2>1, Smaller
<1>3. CutBills \subseteq Bill /\ Seekers \subseteq Asker /\ Earners \subseteq Asker
  BY DEF CutBills, Seekers, Earners
<1> QED
  BY <1>1, <1>2, <1>3, Smaller

LEMMA ShapeStays ==
    ASSUME PanelShape, ShapeFrame, NEW q \in Asker,
           \A p \in Asker : p # q => asker'[p] = asker[p],
           AskFits(q)'
    PROVE  PanelShape'
  BY DEF PanelShape, ShapeFrame, AskFits

LEMMA MarkStays ==
    ASSUME MarkInv, MarkFrame
    PROVE  MarkInv'
  BY DEF MarkInv, MarkFrame

LEMMA TaskStays ==
    ASSUME TaskBills, TaskFrame, PanelTypeOK
    PROVE  TaskBills'
<1> SUFFICES ASSUME NEW t \in Pickup \ (unclear \cup shut)
             PROVE  (Cardinality(Orders(t)) + Cardinality(Coming(t))
                        <= OneMoreIf(rewritten[t], Entered(t)))'
  BY DEF TaskBills, TaskFrame
<1>1. /\ Orders(t)' \subseteq Orders(t) /\ Coming(t)' \subseteq Coming(t)
      /\ rewritten'[t] = rewritten[t] /\ rewritten[t] \in Nat
      /\ Entered(t) => Entered(t)'
  BY DEF TaskFrame, Orders, Coming, PanelTypeOK
<1>2. /\ Cardinality(Orders(t))' \in Nat /\ Cardinality(Orders(t))' <= Cardinality(Orders(t))
      /\ Cardinality(Coming(t))' \in Nat /\ Cardinality(Coming(t))' <= Cardinality(Coming(t))
      /\ Cardinality(Orders(t)) \in Nat /\ Cardinality(Coming(t)) \in Nat
  BY <1>1, PanelFinite, Smaller
<1>3. Cardinality(Orders(t)) + Cardinality(Coming(t)) <= OneMoreIf(rewritten[t], Entered(t))
  BY DEF TaskBills
<1> QED
  BY <1>1, <1>2, <1>3 DEF OneMoreIf

\* How the orders of one pickup and the requests still to make one may change.
TaskRests(t) ==
    /\ Orders(t)' \subseteq Orders(t) /\ Coming(t)' \subseteq Coming(t)
    /\ rewritten'[t] = rewritten[t] /\ (Entered(t) => Entered(t)')
TaskEnters(t, q) ==
    /\ Orders(t)' \subseteq Orders(t) /\ Coming(t)' \subseteq Coming(t) \cup {q}
    /\ rewritten'[t] = rewritten[t] /\ ~Entered(t) /\ Entered(t)'
TaskMade(t, q, b) ==
    /\ q \in Coming(t) /\ Orders(t)' \subseteq Orders(t) \cup {b}
    /\ Coming(t)' \subseteq Coming(t) \ {q}
    /\ rewritten'[t] = rewritten[t] /\ (Entered(t) => Entered(t)')
TaskLeft(t, q) ==
    /\ q \in Coming(t) /\ Orders(t)' \subseteq Orders(t)
    /\ Coming(t)' \subseteq Coming(t) \ {q} /\ rewritten'[t] = rewritten[t]
TaskReplied(t) ==
    /\ Orders(t)' \subseteq Orders(t) /\ Coming(t)' \subseteq Coming(t)
    /\ rewritten'[t] = rewritten[t] + 1

TaskMoves(t) ==
    \/ TaskRests(t) \/ TaskReplied(t)
    \/ \E q \in Asker : TaskEnters(t, q) \/ TaskLeft(t, q)
    \/ \E q \in Asker, b \in Bill : TaskMade(t, q, b)

LEMMA TaskCounted ==
    ASSUME TaskBills, PanelTypeOK, NEW t \in Pickup \ (unclear \cup shut), TaskMoves(t)
    PROVE  (Cardinality(Orders(t)) + Cardinality(Coming(t))
               <= OneMoreIf(rewritten[t], Entered(t)))'
<1>1. /\ rewritten[t] \in Nat /\ IsFiniteSet(Orders(t)) /\ IsFiniteSet(Coming(t))
      /\ Cardinality(Orders(t)) \in Nat /\ Cardinality(Coming(t)) \in Nat
      /\ Cardinality(Orders(t)) + Cardinality(Coming(t)) <= OneMoreIf(rewritten[t], Entered(t))
  BY PanelFinite, FS_CardinalityType DEF PanelTypeOK, TaskBills
<1>2. CASE TaskRests(t)
  <2>1. /\ Cardinality(Orders(t)') \in Nat /\ Cardinality(Orders(t)') <= Cardinality(Orders(t))
        /\ Cardinality(Coming(t)') \in Nat /\ Cardinality(Coming(t)') <= Cardinality(Coming(t))
    BY <1>1, <1>2, Smaller DEF TaskRests
  <2> QED
    BY <1>1, <1>2, <2>1 DEF TaskRests, OneMoreIf
<1>3. CASE TaskReplied(t)
  <2>1. /\ Cardinality(Orders(t)') \in Nat /\ Cardinality(Orders(t)') <= Cardinality(Orders(t))
        /\ Cardinality(Coming(t)') \in Nat /\ Cardinality(Coming(t)') <= Cardinality(Coming(t))
    BY <1>1, <1>3, Smaller DEF TaskReplied
  <2> QED
    BY <1>1, <1>3, <2>1 DEF TaskReplied, OneMoreIf
<1>4. ASSUME NEW q \in Asker, TaskEnters(t, q)
      PROVE  (Cardinality(Orders(t)) + Cardinality(Coming(t))
                 <= OneMoreIf(rewritten[t], Entered(t)))'
  <2>1. /\ Cardinality(Orders(t)') \in Nat /\ Cardinality(Orders(t)') <= Cardinality(Orders(t))
        /\ Cardinality(Coming(t)') \in Nat /\ Cardinality(Coming(t)') <= Cardinality(Coming(t)) + 1
    BY <1>1, <1>4, Smaller, OneMore DEF TaskEnters
  <2> QED
    BY <1>1, <1>4, <2>1 DEF TaskEnters, OneMoreIf
<1>5. ASSUME NEW q \in Asker, NEW b \in Bill, TaskMade(t, q, b)
      PROVE  (Cardinality(Orders(t)) + Cardinality(Coming(t))
                 <= OneMoreIf(rewritten[t], Entered(t)))'
  <2>1. /\ Cardinality(Orders(t)') \in Nat /\ Cardinality(Orders(t)') <= Cardinality(Orders(t)) + 1
        /\ Cardinality(Coming(t)') \in Nat /\ Cardinality(Coming(t)') + 1 <= Cardinality(Coming(t))
    BY <1>1, <1>5, OneMore, OneLess DEF TaskMade
  <2> QED
    BY <1>1, <1>5, <2>1 DEF TaskMade, OneMoreIf
<1>6. ASSUME NEW q \in Asker, TaskLeft(t, q)
      PROVE  (Cardinality(Orders(t)) + Cardinality(Coming(t))
                 <= OneMoreIf(rewritten[t], Entered(t)))'
  <2>1. /\ Cardinality(Orders(t)') \in Nat /\ Cardinality(Orders(t)') <= Cardinality(Orders(t))
        /\ Cardinality(Coming(t)') \in Nat /\ Cardinality(Coming(t)') + 1 <= Cardinality(Coming(t))
    BY <1>1, <1>6, Smaller, OneLess DEF TaskLeft
  <2> QED
    BY <1>1, <1>6, <2>1 DEF TaskLeft, OneMoreIf
<1> QED
  BY <1>2, <1>3, <1>4, <1>5, <1>6 DEF TaskMoves

LEMMA TasksMove ==
    ASSUME TaskBills, PanelTypeOK, unclear \subseteq unclear', shut \subseteq shut',
           \A t \in Pickup \ (unclear' \cup shut') : TaskMoves(t)
    PROVE  TaskBills'
  BY TaskCounted DEF TaskBills

LEMMA PayStays ==
    ASSUME PayInv, PayFrame, PanelShape
    PROVE  PayInv'
<1>1. LinkedMade' /\ LinkedOne'
  BY DEF PayInv, PayFrame, LinkedMade, LinkedOne
<1>2. MadeUnlinked'
  BY DEF PayInv, PayFrame, MadeUnlinked, Billing, Making
<1>3. LockedLinked' /\ LockedOne'
  BY DEF PayInv, PayFrame, LockedLinked, LockedOne, PanelShape, AskFits, Billing, Making
<1>4. PricedFirst'
  BY DEF PayInv, PayFrame, PricedFirst, Pays
<1>5. PayerOne' /\ UnpaidYet'
  BY DEF PayInv, PayFrame, PayerOne, UnpaidYet, Pays
<1> QED
  BY <1>1, <1>2, <1>3, <1>4, <1>5 DEF PayInv

LEMMA CutStays ==
    ASSUME CutTold, CutFrame
    PROVE  CutTold'
  BY DEF CutTold, CutFrame

LEMMA FoundStays ==
    ASSUME FoundKept, FoundFrame, PanelTypeOK
    PROVE  FoundKept'
<1>1. CutBills' \subseteq CutBills /\ Seekers' \subseteq Seekers
  BY DEF FoundFrame, CutBills, Seekers
<1>2. /\ Cardinality(CutBills') \in Nat /\ Cardinality(CutBills') <= Cardinality(CutBills)
      /\ Cardinality(Seekers') \in Nat /\ Cardinality(Seekers') <= Cardinality(Seekers)
      /\ Cardinality(CutBills) \in Nat /\ Cardinality(Seekers) \in Nat
  BY <1>1, PanelFinite, Smaller
<1>3. foundBeside' = foundBeside /\ foundBeside \in Nat
  BY DEF FoundFrame, PanelTypeOK
<1> QED
  BY <1>2, <1>3 DEF FoundKept

LEMMA PrizeStays ==
    ASSUME PrizeKept, PrizeFrame, PanelTypeOK
    PROVE  PrizeKept'
<1>1. Earners' \subseteq Earners
  BY DEF PrizeFrame, Earners
<1>2. /\ Cardinality(Earners') \in Nat /\ Cardinality(Earners') <= Cardinality(Earners)
      /\ Cardinality(Earners) \in Nat
  BY <1>1, PanelFinite, Smaller
<1>3. prizes' = prizes /\ judgedBeside' = judgedBeside /\ judgedBeside \in Nat /\ prizes \in Nat
  BY DEF PrizeFrame, PanelTypeOK
<1> QED
  BY <1>2, <1>3 DEF PrizeKept

\* A coupon found valid while nobody else has found it so: no bill has it yet.
LEMMA NoneSpent ==
    ASSUME PanelShape, CutTold, coupon.used = {}, NEW q \in Asker,
           asker[q].at \in {"free", "creating"}, \A p \in Asker : p # q => ~Found(p)
    PROVE  CutBills = {} /\ Seekers = {}
<1>1. \A p \in Asker : ~Found(p)
  BY DEF Found
<1>2. Seekers = {}
  BY <1>1 DEF Seekers, Seeks, Found
<1>3. CutBills = {}
  BY <1>1 DEF CutBills, CutTold, PanelShape, AskFits, Found
<1> QED
  BY <1>2, <1>3

\* One request more has found the coupon valid, counted if another had.
LEMMA FoundOneMore ==
    ASSUME PanelTypeOK, PanelShape, CutTold, FoundKept, NEW q \in Asker,
           asker[q].at \in {"free", "creating"}, coupon.used = {},
           foundBeside' = OneMoreIf(foundBeside, \E p \in Asker \ {q} : Found(p)),
           CutBills' \subseteq CutBills, Seekers' \subseteq Seekers \cup {q}
    PROVE  FoundKept'
<1>1. /\ Cardinality(CutBills') \in Nat /\ Cardinality(CutBills') <= Cardinality(CutBills)
      /\ Cardinality(CutBills) \in Nat /\ Cardinality(Seekers) \in Nat
      /\ Cardinality(Seekers') \in Nat /\ Cardinality(Seekers') <= Cardinality(Seekers) + 1
  BY PanelFinite, Smaller, OneMore
<1>2. foundBeside \in Nat
  BY DEF PanelTypeOK
<1>3. CASE \E p \in Asker \ {q} : Found(p)
  BY <1>1, <1>2, <1>3 DEF FoundKept, OneMoreIf
<1>4. CASE ~\E p \in Asker \ {q} : Found(p)
  <2>1. CutBills = {} /\ Seekers = {}
    BY <1>4, NoneSpent
  <2>2. Cardinality(CutBills) = 0 /\ Cardinality(Seekers) = 0
    BY <2>1, FS_EmptySet
  <2> QED
    BY <1>1, <1>2, <1>4, <2>2 DEF FoundKept, OneMoreIf
<1> QED
  BY <1>3, <1>4

\* A request that found the coupon valid has its bill.
LEMMA FoundBilled ==
    ASSUME PanelTypeOK, FoundKept, NEW q \in Seekers, NEW b \in Bill,
           foundBeside' = foundBeside, CutBills' \subseteq CutBills \cup {b},
           Seekers' \subseteq Seekers \ {q}
    PROVE  FoundKept'
<1>1. /\ Cardinality(CutBills') \in Nat /\ Cardinality(CutBills') <= Cardinality(CutBills) + 1
      /\ Cardinality(Seekers') \in Nat /\ Cardinality(Seekers') + 1 <= Cardinality(Seekers)
      /\ Cardinality(CutBills) \in Nat /\ Cardinality(Seekers) \in Nat /\ foundBeside \in Nat
  BY PanelFinite, OneMore, OneLess DEF PanelTypeOK
<1> QED
  BY <1>1 DEF FoundKept

LEMMA MarkKeeps ==
    ASSUME PanelInv, NEW q \in Asker, NEW t \in Pickup, NEW deal \in BOOLEAN,
           Mark(q, t, deal)
    PROVE  PanelInv'
<1> DEFINE r == [NoAsk EXCEPT !.at = "creating", !.for = t, !.cut = deal]
<1> USE PanelAssumption
<1>1. /\ PanelTypeOK /\ PanelShape /\ MarkInv /\ FailedTold /\ TaskBills /\ PayInv
      /\ CutTold /\ FoundKept /\ PrizeKept
  BY DEF PanelInv, PanelBase, TaskInv, CouponInv
<1>2. /\ bills' = bills /\ coupon' = coupon /\ prizes' = prizes
      /\ UNCHANGED panelHistory
      /\ asker[q].at = "free"
      /\ ~errand[t].mark /\ errand'[t].mark /\ errand'[t].bill = errand[t].bill
      /\ errand[t].bill = Unbilled
      /\ errand' \in [Pickup -> ErrandState] /\ \A u \in Pickup : u # t => errand'[u] = errand[u]
  <2> DEFINE e == [errand[t] EXCEPT !.mark = TRUE]
  <2>1. errand[t] \in ErrandState
    BY <1>1 DEF PanelTypeOK, ErrandState
  <2>2. e \in ErrandState /\ e.mark /\ e.bill = errand[t].bill
    BY <2>1 DEF ErrandState
  <2>3. errand' = [errand EXCEPT ![t] = e]
    BY DEF Mark
  <2>4. /\ errand' \in [Pickup -> ErrandState] /\ errand'[t] = e
        /\ \A u \in Pickup : u # t => errand'[u] = errand[u]
    BY <1>1, <2>2, <2>3, ErrandAfter
  <2> QED
    BY <2>2, <2>4 DEF Mark, Unmarked, AtStep, panelHistory
<1>3. r \in AskState /\ AskerGoes(q, r)
  BY <1>1, <1>2 DEF Mark, Unmarked, AtStep, Go, NoAsk, AskSteps, AskState, AskerGoes, PanelTypeOK
<1>4. /\ asker' \in [Asker -> AskState] /\ asker'[q].at = "creating"
      /\ asker'[q].for = t /\ asker'[q].bill = Unbilled
      /\ asker'[q].cut = deal
      /\ \A p \in Asker : p # q => asker'[p] = asker[p]
  <2>1. /\ asker' \in [Asker -> AskState] /\ asker'[q] = r
        /\ \A p \in Asker : p # q => asker'[p] = asker[p]
    BY <1>1, <1>3, AskerAfter
  <2>2. asker[q] \in AskState
    BY <1>1 DEF PanelTypeOK, AskState
  <2> QED
    BY <2>1, <2>2 DEF NoAsk, AskState
<1>5. PanelTypeOK'
  BY <1>1, <1>2, <1>4 DEF panelHistory, Mark, PanelTypeOK, AskState, ErrandState
<1>6. ShapeFrame
  BY <1>1, <1>2, <1>4 DEF ShapeFrame
<1>7. AskFits(q)'
  BY <1>1, <1>2, <1>4, <1>6 DEF PanelShape, ShapeFrame, AskFits, Making, Billing, AskState
<1>8. PanelShape'
  BY <1>1, <1>2, <1>4, <1>6, <1>7, ShapeStays
<1>9. MarkInv'
  <2>1. \A p \in Asker, u \in Pickup : Behind(p, u) => Behind(p, u)'
    BY <1>2, <1>4 DEF Behind, Marking, Making
  <2>2. Behind(q, t)'
    BY <1>4 DEF Behind, Marking
  <2> QED
    BY <1>1, <1>2, <2>1, <2>2 DEF MarkInv, panelHistory
<1>10. FailedTold'
  BY <1>1, <1>2, <1>4 DEF FailedTold, AskState, panelHistory
<1>11. \A u \in Pickup : TaskMoves(u)
  <2>1. TaskEnters(t, q)
    BY <1>2, <1>4 DEF TaskEnters, Orders, Coming, StillToMake, Behind, Entered, panelHistory
  <2>2. \A u \in Pickup : u # t => TaskRests(u)
    BY <1>2, <1>4
      DEF TaskRests, Orders, Coming, StillToMake, Behind, Entered, Marking, Making, panelHistory
  <2> QED
    BY <2>1, <2>2 DEF TaskMoves
<1>12. TaskBills'
  BY <1>1, <1>2, <1>11, TasksMove DEF panelHistory
<1>13. PayFrame
  BY <1>1, <1>2, <1>4 DEF PayFrame, Billing, Making
<1>14. PayInv'
  BY <1>1, <1>13, PayStays
<1>15. CutFrame
  BY <1>1, <1>2, <1>4 DEF CutFrame, Making, panelHistory
<1>16. CutTold'
  BY <1>1, <1>15, CutStays
<1>17. FoundFrame
  BY <1>1, <1>2, <1>4 DEF FoundFrame, Seeks, panelHistory
<1>18. FoundKept'
  BY <1>1, <1>17, FoundStays
<1>19. PrizeFrame
  BY <1>1, <1>2, <1>4 DEF PrizeFrame, AskState, panelHistory
<1>20. PrizeKept'
  BY <1>1, <1>19, PrizeStays
<1> QED
  BY <1>5, <1>6, <1>7, <1>8, <1>9, <1>10, <1>11, <1>12, <1>13, <1>14, <1>15, <1>16, <1>17, <1>18,
       <1>19, <1>20 DEF PanelInv, PanelBase, TaskInv, CouponInv

LEMMA AtCounterKeeps ==
    ASSUME PanelInv, NEW q \in Asker, NEW deal \in BOOLEAN, AtCounter(q, deal)
    PROVE  PanelInv'
<1> DEFINE r == [NoAsk EXCEPT !.at = "creating", !.cut = deal]
<1> USE PanelAssumption
<1>1. /\ PanelTypeOK /\ PanelShape /\ MarkInv /\ FailedTold /\ TaskBills /\ PayInv
      /\ CutTold /\ FoundKept /\ PrizeKept
  BY DEF PanelInv, PanelBase, TaskInv, CouponInv
<1>2. /\ UNCHANGED <<errand, bills, coupon, prizes>>
      /\ UNCHANGED panelHistory
      /\ asker[q].at = "free"
  BY <1>1 DEF AtCounter, AtStep, Hitch, panelHistory, PanelTypeOK, PanelShape, AskFits, AskState
<1>3. r \in AskState /\ AskerGoes(q, r)
  BY <1>1, <1>2 DEF AtCounter, AtStep, Go, NoAsk, AskSteps, AskState, AskerGoes, PanelTypeOK
<1>4. /\ asker' \in [Asker -> AskState] /\ asker'[q].at = "creating"
      /\ asker'[q].for = Counter /\ asker'[q].bill = Unbilled
      /\ asker'[q].cut = deal
      /\ \A p \in Asker : p # q => asker'[p] = asker[p]
  <2>1. /\ asker' \in [Asker -> AskState] /\ asker'[q] = r
        /\ \A p \in Asker : p # q => asker'[p] = asker[p]
    BY <1>1, <1>3, AskerAfter
  <2>2. asker[q] \in AskState
    BY <1>1 DEF PanelTypeOK, AskState
  <2> QED
    BY <2>1, <2>2 DEF NoAsk, AskState
<1>5. PanelTypeOK'
  BY <1>1, <1>2, <1>4 DEF panelHistory, AtCounter, Hitch, panelHistory, PanelTypeOK, AskState
<1>6. ShapeFrame
  BY <1>1, <1>2, <1>4 DEF ShapeFrame
<1>7. AskFits(q)'
  BY <1>1, <1>2, <1>4, <1>6 DEF PanelShape, ShapeFrame, AskFits, Making, Billing, AskState
<1>8. PanelShape'
  BY <1>1, <1>2, <1>4, <1>6, <1>7, ShapeStays
<1>9. MarkFrame
  BY <1>1, <1>2, <1>4 DEF MarkFrame, Behind, Marking, Making, panelHistory
<1>10. MarkInv'
  BY <1>1, <1>9, MarkStays
<1>11. FailedTold'
  BY <1>1, <1>2, <1>4 DEF FailedTold, AskState, panelHistory
<1>12. TaskFrame
  BY <1>1, <1>2, <1>4
    DEF TaskFrame, StillToMake, Behind, Entered, Marking, Making, panelHistory
<1>13. TaskBills'
  BY <1>1, <1>12, TaskStays
<1>14. PayFrame
  BY <1>1, <1>2, <1>4 DEF PayFrame, Billing, Making
<1>15. PayInv'
  BY <1>1, <1>14, PayStays
<1>16. CutFrame
  BY <1>1, <1>2, <1>4 DEF CutFrame, Making, panelHistory
<1>17. CutTold'
  BY <1>1, <1>16, CutStays
<1>18. FoundFrame
  BY <1>1, <1>2, <1>4 DEF FoundFrame, Seeks, panelHistory
<1>19. FoundKept'
  BY <1>1, <1>18, FoundStays
<1>20. PrizeFrame
  BY <1>1, <1>2, <1>4 DEF PrizeFrame, AskState, panelHistory
<1>21. PrizeKept'
  BY <1>1, <1>20, PrizeStays
<1> QED
  BY <1>5, <1>6, <1>7, <1>8, <1>9, <1>10, <1>11, <1>12, <1>13, <1>14, <1>15, <1>16, <1>17, <1>18,
       <1>19, <1>20, <1>21 DEF PanelInv, PanelBase, TaskInv, CouponInv

LEMMA LockLinkedKeeps ==
    ASSUME PanelInv, NEW q \in Asker, NEW t \in Pickup, NEW deal \in BOOLEAN,
           LockLinked(q, t, deal)
    PROVE  PanelInv'
<1> DEFINE r == [at |-> "locked", for |-> t, bill |-> errand[t].bill, cut |-> deal]
<1> USE PanelAssumption
<1>1. /\ PanelTypeOK /\ PanelShape /\ MarkInv /\ FailedTold /\ TaskBills /\ PayInv
      /\ CutTold /\ FoundKept /\ PrizeKept
  BY DEF PanelInv, PanelBase, TaskInv, CouponInv
<1>2. /\ UNCHANGED <<errand, bills, coupon, prizes, judgedBeside, rewritten, spilt, unclear, shut>>
      /\ asker[q].at = "free"
      /\ errand[t].bill \in Bill /\ bills[errand[t].bill].stage = "assigned"
      /\ ~bills[errand[t].bill].priced
      /\ \A p \in Asker : asker[p].at = "locked" => asker[p].for # t
      /\ deal => coupon.used = {}
      /\ foundBeside' = OneMoreIf(foundBeside, deal /\ \E p \in Asker \ {q} : Found(p))
      /\ foundBeside' \in Nat /\ foundBeside \in Nat
  BY <1>1 DEF LockLinked, CouponValid, HeldBeside, Found, TaskLocked, AtStep, OneMoreIf, PanelTypeOK
<1>3. r \in AskState /\ AskerGoes(q, r)
  BY <1>1, <1>2 DEF LockLinked, AtStep, Go, NoAsk, AskSteps, AskState, AskerGoes, PanelTypeOK
<1>4. /\ asker' \in [Asker -> AskState] /\ asker'[q].at = "locked"
      /\ asker'[q].for = t /\ asker'[q].bill = errand[t].bill
      /\ asker'[q].cut = deal
      /\ \A p \in Asker : p # q => asker'[p] = asker[p]
  <2>1. /\ asker' \in [Asker -> AskState] /\ asker'[q] = r
        /\ \A p \in Asker : p # q => asker'[p] = asker[p]
    BY <1>1, <1>3, AskerAfter
  <2>2. asker[q] \in AskState
    BY <1>1 DEF PanelTypeOK, AskState
  <2> QED
    BY <2>1, <2>2 DEF NoAsk, AskState
<1>5. PanelTypeOK'
  BY <1>1, <1>2, <1>4 DEF panelHistory, LockLinked, HeldBeside, PanelTypeOK, AskState
<1>6. ShapeFrame
  BY <1>1, <1>2, <1>4 DEF ShapeFrame
<1>7. AskFits(q)'
  BY <1>1, <1>2, <1>4, <1>6 DEF PanelShape, ShapeFrame, AskFits, Making, Billing, AskState
<1>8. PanelShape'
  BY <1>1, <1>2, <1>4, <1>6, <1>7, ShapeStays
<1>9. MarkFrame
  BY <1>1, <1>2, <1>4 DEF MarkFrame, Behind, Marking, Making, panelHistory
<1>10. MarkInv'
  BY <1>1, <1>9, MarkStays
<1>11. FailedTold'
  BY <1>1, <1>2, <1>4 DEF FailedTold, AskState, panelHistory
<1>12. TaskFrame
  BY <1>1, <1>2, <1>4
    DEF TaskFrame, StillToMake, Behind, Entered, Marking, Making, panelHistory
<1>13. TaskBills'
  BY <1>1, <1>12, TaskStays
<1>14. PayInv'
  <2>1. \A p \in Asker : ~Pays(p, errand[t].bill)
    BY <1>1, <1>2
      DEF PayInv, PricedFirst, LockedLinked, LinkedOne, PanelShape, AskFits, Pays, Billing
  <2>2. \A p \in Asker, b \in Bill :
           Pays(p, b)' <=> Pays(p, b) \/ (p = q /\ b = errand[t].bill)
    BY <1>2, <1>4 DEF Pays, Billing, Making
  <2>3. LinkedMade' /\ LinkedOne' /\ MadeUnlinked'
    BY <1>1, <1>2, <1>4 DEF PayInv, LinkedMade, LinkedOne, MadeUnlinked, Making
  <2>4. LockedLinked' /\ LockedOne'
    BY <1>1, <1>2, <1>4 DEF PayInv, LockedLinked, LockedOne
  <2>5. PricedFirst'
    BY <1>1, <1>2, <1>4, <2>2 DEF PayInv, PricedFirst
  <2>6. PayerOne'
    BY <1>1, <2>1, <2>2 DEF PayInv, PayerOne
  <2>7. UnpaidYet'
    BY <1>1, <1>2, <2>2 DEF PayInv, UnpaidYet, PricedFirst
  <2> QED
    BY <2>3, <2>4, <2>5, <2>6, <2>7 DEF PayInv
<1>15. CutFrame
  BY <1>1, <1>2, <1>4 DEF CutFrame, Making, panelHistory
<1>16. CutTold'
  BY <1>1, <1>15, CutStays
<1>17. FoundKept'
  <2>1. CASE deal
    <3>1. CutBills' \subseteq CutBills /\ Seekers' \subseteq Seekers \cup {q}
      BY <1>2, <1>4 DEF CutBills, Seekers, Seeks
    <3>2. foundBeside' = OneMoreIf(foundBeside, \E p \in Asker \ {q} : Found(p))
      BY <1>2, <2>1 DEF OneMoreIf
    <3> QED
      BY <1>1, <1>2, <2>1, <3>1, <3>2, FoundOneMore
  <2>2. CASE ~deal
    <3>1. FoundFrame
      BY <1>2, <1>4, <2>2 DEF FoundFrame, Seeks, OneMoreIf
    <3> QED
      BY <1>1, <3>1, FoundStays
  <2> QED
    BY <2>1, <2>2
<1>18. PrizeFrame
  BY <1>1, <1>2, <1>4 DEF PrizeFrame, AskState, panelHistory
<1>19. PrizeKept'
  BY <1>1, <1>18, PrizeStays
<1> QED
  BY <1>5, <1>6, <1>7, <1>8, <1>9, <1>10, <1>11, <1>12, <1>13, <1>14, <1>15, <1>16, <1>17, <1>18,
       <1>19 DEF PanelInv, PanelBase, TaskInv, CouponInv

LEMMA WriteBillKeeps ==
    ASSUME PanelInv, NEW q \in Asker, WriteBill(q)
    PROVE  PanelInv'
<1> DEFINE r == [asker[q] EXCEPT !.at = IF asker[q].cut THEN "redeeming" ELSE "paying"]
<1> USE PanelAssumption
<1>1. /\ PanelTypeOK /\ PanelShape /\ MarkInv /\ FailedTold /\ TaskBills /\ PayInv
      /\ CutTold /\ FoundKept /\ PrizeKept
  BY DEF PanelInv, PanelBase, TaskInv, CouponInv
<1>2. /\ UNCHANGED <<errand, coupon, prizes>>
      /\ UNCHANGED panelHistory
      /\ asker[q].at = "locked" /\ asker[q].bill \in Bill /\ asker[q] \in AskState
      /\ bills' \in [Bill -> BillState] /\ bills'[asker[q].bill].cut = asker[q].cut
      /\ \A b \in Bill : bills[b].priced => bills'[b].priced
      /\ bills'[asker[q].bill].priced
      /\ \A b \in Bill : /\ bills'[b].stage = bills[b].stage /\ bills'[b].for = bills[b].for
                       /\ bills'[b].advances = bills[b].advances
      /\ \A b \in Bill : b # asker[q].bill => bills'[b] = bills[b]
  <2> DEFINE b == asker[q].bill
             o == [bills[b] EXCEPT !.priced = TRUE, !.cut = asker[q].cut]
  <2>1. asker[q].at = "locked" /\ b \in Bill /\ asker[q] \in AskState
    BY <1>1 DEF WriteBill, AtStep, PanelTypeOK, PanelShape, AskFits, Billing, AskState
  <2>2. bills[b] \in BillState
    BY <1>1, <2>1 DEF PanelTypeOK, BillState
  <2>3. /\ o \in BillState /\ o.priced /\ o.cut = asker[q].cut /\ o.stage = bills[b].stage
        /\ o.for = bills[b].for /\ o.advances = bills[b].advances
    BY <2>1, <2>2 DEF BillState, AskState
  <2>4. bills' = [bills EXCEPT ![b] = o]
    BY DEF WriteBill
  <2>5. /\ bills' \in [Bill -> BillState] /\ bills'[b] = o
        /\ \A c \in Bill : c # b => bills'[c] = bills[c]
    BY <1>1, <2>1, <2>3, <2>4, BillAfter
  <2>6. UNCHANGED <<errand, coupon, prizes>> /\ UNCHANGED panelHistory
    BY DEF WriteBill, panelHistory
  <2> QED
    BY <2>1, <2>3, <2>5, <2>6
<1>3. r \in AskState /\ AskerGoes(q, r)
  BY <1>1, <1>2 DEF WriteBill, AtStep, Go, NoAsk, AskSteps, AskState, AskerGoes, PanelTypeOK
<1>4. /\ asker' \in [Asker -> AskState]
      /\ asker'[q].at = IF asker[q].cut THEN "redeeming" ELSE "paying"
      /\ asker'[q].for = asker[q].for /\ asker'[q].bill = asker[q].bill
      /\ asker'[q].cut = asker[q].cut
      /\ \A p \in Asker : p # q => asker'[p] = asker[p]
  <2>1. /\ asker' \in [Asker -> AskState] /\ asker'[q] = r
        /\ \A p \in Asker : p # q => asker'[p] = asker[p]
    BY <1>1, <1>3, AskerAfter
  <2>2. asker[q] \in AskState
    BY <1>1 DEF PanelTypeOK, AskState
  <2> QED
    BY <2>1, <2>2 DEF NoAsk, AskState
<1>5. PanelTypeOK'
  BY <1>1, <1>2, <1>4 DEF panelHistory, WriteBill, PanelTypeOK, AskState, BillState
<1>6. ShapeFrame
  BY <1>1, <1>2, <1>4 DEF ShapeFrame
<1>7. AskFits(q)'
  BY <1>1, <1>2, <1>4, <1>6 DEF PanelShape, ShapeFrame, AskFits, Making, Billing, AskState
<1>8. PanelShape'
  BY <1>1, <1>2, <1>4, <1>6, <1>7, ShapeStays
<1>9. MarkFrame
  BY <1>1, <1>2, <1>4 DEF MarkFrame, Behind, Marking, Making, panelHistory
<1>10. MarkInv'
  BY <1>1, <1>9, MarkStays
<1>11. FailedTold'
  BY <1>1, <1>2, <1>4 DEF FailedTold, AskState, panelHistory
<1>12. TaskFrame
  BY <1>1, <1>2, <1>4
    DEF TaskFrame, StillToMake, Behind, Entered, Marking, Making, panelHistory
<1>13. TaskBills'
  BY <1>1, <1>12, TaskStays
<1>14. PayInv'
  <2>1. \A p \in Asker, b \in Bill : Pays(p, b)' <=> Pays(p, b)
    BY <1>2, <1>4 DEF Pays, Billing, Making
  <2>2. LinkedMade' /\ LinkedOne' /\ MadeUnlinked'
    BY <1>1, <1>2, <1>4 DEF PayInv, LinkedMade, LinkedOne, MadeUnlinked, Making
  <2>3. LockedLinked' /\ LockedOne'
    BY <1>1, <1>2, <1>4 DEF PayInv, LockedLinked, LockedOne
  <2>4. PayerOne' /\ UnpaidYet'
    BY <1>1, <1>2, <2>1 DEF PayInv, PayerOne, UnpaidYet
  <2>5. PricedFirst'
    BY <1>1, <1>2, <1>4 DEF PayInv, PricedFirst, Pays, PayerOne, Billing
  <2> QED
    BY <2>2, <2>3, <2>4, <2>5 DEF PayInv
<1>15. CutTold'
  BY <1>1, <1>2, <1>4 DEF CutTold, panelHistory
<1>16. FoundKept'
  <2>1. CASE asker[q].cut
    <3>1. /\ q \in Seekers /\ CutBills' \subseteq CutBills \cup {asker[q].bill}
          /\ Seekers' \subseteq Seekers \ {q} /\ foundBeside' = foundBeside
      BY <1>2, <1>4, <2>1 DEF CutBills, Seekers, Seeks, panelHistory
    <3> QED
      BY <1>1, <1>2, <3>1, FoundBilled
  <2>2. CASE ~asker[q].cut
    <3>1. FoundFrame
      BY <1>2, <1>4, <2>2 DEF FoundFrame, Seeks, panelHistory
    <3> QED
      BY <1>1, <3>1, FoundStays
  <2> QED
    BY <2>1, <2>2
<1>17. PrizeFrame
  BY <1>1, <1>2, <1>4 DEF PrizeFrame, AskState, panelHistory
<1>18. PrizeKept'
  BY <1>1, <1>17, PrizeStays
<1> QED
  BY <1>5, <1>6, <1>7, <1>8, <1>9, <1>10, <1>11, <1>12, <1>13, <1>14, <1>15, <1>16, <1>17, 
       <1>18 DEF PanelInv, PanelBase, TaskInv, CouponInv

LEMMA CheckCouponKeeps ==
    ASSUME PanelInv, NEW q \in Asker, CheckCoupon(q)
    PROVE  PanelInv'
<1> DEFINE r ==
    [asker[q] EXCEPT !.at = IF asker[q].cut /\ ~CouponValid THEN "failing" ELSE "checked"]
<1> USE PanelAssumption
<1>1. /\ PanelTypeOK /\ PanelShape /\ MarkInv /\ FailedTold /\ TaskBills /\ PayInv
      /\ CutTold /\ FoundKept /\ PrizeKept
  BY DEF PanelInv, PanelBase, TaskInv, CouponInv
<1>2. /\ UNCHANGED <<errand, bills, coupon, prizes, judgedBeside, rewritten, spilt, unclear, shut>>
      /\ asker[q].at = "creating" /\ asker[q].bill = Unbilled /\ asker[q] \in AskState
      /\ CouponValid => coupon.used = {}
      /\ foundBeside' = OneMoreIf(foundBeside, asker[q].cut /\ CouponValid
                                                  /\ \E p \in Asker \ {q} : Found(p))
      /\ foundBeside' \in Nat /\ foundBeside \in Nat
  BY <1>1
    DEF CheckCoupon, CouponValid, HeldBeside, Found, AtStep, OneMoreIf, PanelTypeOK, PanelShape,
        AskFits, AskState
<1>3. r \in AskState /\ AskerGoes(q, r)
  BY <1>1, <1>2 DEF CheckCoupon, AtStep, Go, NoAsk, AskSteps, AskState, AskerGoes, PanelTypeOK
<1>4. /\ asker' \in [Asker -> AskState]
      /\ asker'[q].at = IF asker[q].cut /\ ~CouponValid THEN "failing" ELSE "checked"
      /\ asker'[q].for = asker[q].for /\ asker'[q].bill = asker[q].bill
      /\ asker'[q].cut = asker[q].cut
      /\ \A p \in Asker : p # q => asker'[p] = asker[p]
  <2>1. /\ asker' \in [Asker -> AskState] /\ asker'[q] = r
        /\ \A p \in Asker : p # q => asker'[p] = asker[p]
    BY <1>1, <1>3, AskerAfter
  <2>2. asker[q] \in AskState
    BY <1>1 DEF PanelTypeOK, AskState
  <2> QED
    BY <2>1, <2>2 DEF NoAsk, AskState
<1>5. PanelTypeOK'
  BY <1>1, <1>2, <1>4 DEF panelHistory, CheckCoupon, CouponValid, HeldBeside, PanelTypeOK, AskState
<1>6. ShapeFrame
  BY <1>1, <1>2, <1>4 DEF ShapeFrame
<1>7. AskFits(q)'
  BY <1>1, <1>2, <1>4, <1>6 DEF PanelShape, ShapeFrame, AskFits, Making, Billing, AskState
<1>8. PanelShape'
  BY <1>1, <1>2, <1>4, <1>6, <1>7, ShapeStays
<1>9. MarkFrame
  BY <1>1, <1>2, <1>4 DEF MarkFrame, Behind, Marking, Making, panelHistory
<1>10. MarkInv'
  BY <1>1, <1>9, MarkStays
<1>11. FailedTold'
  BY <1>1, <1>2, <1>4 DEF FailedTold, AskState, panelHistory
<1>12. TaskFrame
  BY <1>1, <1>2, <1>4
    DEF TaskFrame, StillToMake, Behind, Entered, Marking, Making, panelHistory
<1>13. TaskBills'
  BY <1>1, <1>12, TaskStays
<1>14. PayFrame
  BY <1>1, <1>2, <1>4 DEF PayFrame, Billing, Making
<1>15. PayInv'
  BY <1>1, <1>14, PayStays
<1>16. CutFrame
  BY <1>1, <1>2, <1>4 DEF CutFrame, Making, panelHistory
<1>17. CutTold'
  BY <1>1, <1>16, CutStays
<1>18. FoundKept'
  <2>1. CASE asker[q].cut /\ CouponValid
    <3>1. CutBills' \subseteq CutBills /\ Seekers' \subseteq Seekers \cup {q}
      BY <1>2, <1>4 DEF CutBills, Seekers, Seeks
    <3>2. foundBeside' = OneMoreIf(foundBeside, \E p \in Asker \ {q} : Found(p))
      BY <1>2, <2>1 DEF OneMoreIf
    <3> QED
      BY <1>1, <1>2, <2>1, <3>1, <3>2, FoundOneMore
  <2>2. CASE ~(asker[q].cut /\ CouponValid)
    <3>1. FoundFrame
      BY <1>2, <1>4, <2>2 DEF FoundFrame, Seeks, OneMoreIf
    <3> QED
      BY <1>1, <3>1, FoundStays
  <2> QED
    BY <2>1, <2>2
<1>19. PrizeFrame
  BY <1>1, <1>2, <1>4 DEF PrizeFrame, AskState, panelHistory
<1>20. PrizeKept'
  BY <1>1, <1>19, PrizeStays
<1> QED
  BY <1>5, <1>6, <1>7, <1>8, <1>9, <1>10, <1>11, <1>12, <1>13, <1>14, <1>15, <1>16, <1>17, <1>18,
       <1>19, <1>20 DEF PanelInv, PanelBase, TaskInv, CouponInv

LEMMA InsertKeeps ==
    ASSUME PanelInv, NEW q \in Asker, NEW b \in Bill, Insert(q, b)
    PROVE  PanelInv'
<1> DEFINE r == [asker[q] EXCEPT !.at = IF asker[q].cut THEN "made" ELSE "judging", !.bill = b]
<1> USE PanelAssumption
<1>1. /\ PanelTypeOK /\ PanelShape /\ MarkInv /\ FailedTold /\ TaskBills /\ PayInv
      /\ CutTold /\ FoundKept /\ PrizeKept
  BY DEF PanelInv, PanelBase, TaskInv, CouponInv
<1>2. /\ UNCHANGED <<errand, coupon, prizes>>
      /\ UNCHANGED panelHistory
      /\ asker[q].at = "checked" /\ asker[q].bill = Unbilled /\ asker[q] \in AskState
      /\ bills[b].stage = "none"
      /\ bills' = [bills EXCEPT ![b] = [stage |-> "received", priced |-> TRUE, cut |-> asker[q].cut,
                                      advances |-> 0, for |-> asker[q].for]]
      /\ bills' \in [Bill -> BillState] /\ \A c \in Bill : c # b => bills'[c] = bills[c]
      /\ bills'[b] = [stage |-> "received", priced |-> TRUE, cut |-> asker[q].cut,
                    advances |-> 0, for |-> asker[q].for]
      /\ \A p \in Asker : asker[p].bill # b
      /\ \A t \in Pickup : errand[t].bill # b
  BY <1>1
    DEF Insert, AtStep, panelHistory, PanelTypeOK, PanelShape, AskFits, AskState, BillState,
        PayInv, LinkedMade
<1>3. r \in AskState /\ AskerGoes(q, r)
  BY <1>1, <1>2 DEF Insert, AtStep, Go, NoAsk, AskSteps, AskState, AskerGoes, PanelTypeOK
<1>4. /\ asker' \in [Asker -> AskState] /\ asker'[q].at = IF asker[q].cut THEN "made" ELSE "judging"
      /\ asker'[q].for = asker[q].for /\ asker'[q].bill = b
      /\ asker'[q].cut = asker[q].cut
      /\ \A p \in Asker : p # q => asker'[p] = asker[p]
  <2>1. /\ asker' \in [Asker -> AskState] /\ asker'[q] = r
        /\ \A p \in Asker : p # q => asker'[p] = asker[p]
    BY <1>1, <1>3, AskerAfter
  <2>2. asker[q] \in AskState
    BY <1>1 DEF PanelTypeOK, AskState
  <2> QED
    BY <2>1, <2>2 DEF NoAsk, AskState
<1>5. PanelTypeOK'
  BY <1>1, <1>2, <1>4 DEF panelHistory, Insert, PanelTypeOK, AskState, BillState
<1>6. ShapeFrame
  BY <1>1, <1>2, <1>4 DEF ShapeFrame
<1>7. AskFits(q)'
  BY <1>1, <1>2, <1>4, <1>6 DEF PanelShape, ShapeFrame, AskFits, Making, Billing, AskState
<1>8. PanelShape'
  BY <1>1, <1>2, <1>4, <1>6, <1>7, ShapeStays
<1>9. MarkFrame
  BY <1>1, <1>2, <1>4 DEF MarkFrame, Behind, Marking, Making, panelHistory
<1>10. MarkInv'
  BY <1>1, <1>9, MarkStays
<1>11. FailedTold'
  BY <1>1, <1>2, <1>4 DEF FailedTold, AskState, panelHistory
<1>12. TaskBills'
  <2>1. TaskMade(asker[q].for, q, b) \/ asker[q].for \notin Pickup
    BY <1>2, <1>4
      DEF TaskMade, Orders, Coming, StillToMake, Behind, Entered, Marking, Making, panelHistory
  <2>2. \A t \in Pickup : t # asker[q].for => TaskRests(t)
    BY <1>2, <1>4
      DEF TaskRests, Orders, Coming, StillToMake, Behind, Entered, Marking, Making, panelHistory
  <2>3. \A t \in Pickup : TaskMoves(t)
    BY <2>1, <2>2 DEF TaskMoves
  <2> QED
    BY <1>1, <1>2, <2>3, TasksMove DEF panelHistory
<1>13. PayInv'
  <2>1. \A p \in Asker, c \in Bill : Pays(p, c)' <=> IF c = b THEN p = q ELSE Pays(p, c)
    BY <1>2, <1>4 DEF Pays, Billing, Making
  <2>2. LinkedMade' /\ LinkedOne' /\ MadeUnlinked'
    BY <1>1, <1>2, <1>4 DEF PayInv, LinkedMade, LinkedOne, MadeUnlinked, Making
  <2>3. LockedLinked' /\ LockedOne'
    BY <1>1, <1>2, <1>4 DEF PayInv, LockedLinked, LockedOne
  <2>4. PayerOne' /\ UnpaidYet'
    BY <1>1, <1>2, <2>1 DEF PayInv, PayerOne, UnpaidYet
  <2>5. PricedFirst'
    BY <1>1, <1>2, <1>4, <2>1 DEF PayInv, PricedFirst
  <2> QED
    BY <2>2, <2>3, <2>4, <2>5 DEF PayInv
<1>14. CutTold'
  BY <1>1, <1>2, <1>4 DEF CutTold, panelHistory
<1>15. FoundKept'
  <2>1. CASE asker[q].cut
    <3>1. /\ q \in Seekers /\ CutBills' \subseteq CutBills \cup {b}
          /\ Seekers' \subseteq Seekers \ {q} /\ foundBeside' = foundBeside
      BY <1>2, <1>4, <2>1 DEF CutBills, Seekers, Seeks, panelHistory
    <3> QED
      BY <1>1, <1>2, <3>1, FoundBilled
  <2>2. CASE ~asker[q].cut
    <3>1. FoundFrame
      BY <1>2, <1>4, <2>2 DEF FoundFrame, Seeks, panelHistory
    <3> QED
      BY <1>1, <3>1, FoundStays
  <2> QED
    BY <2>1, <2>2
<1>16. PrizeFrame
  BY <1>1, <1>2, <1>4 DEF PrizeFrame, AskState, panelHistory
<1>17. PrizeKept'
  BY <1>1, <1>16, PrizeStays
<1> QED
  BY <1>5, <1>6, <1>7, <1>8, <1>9, <1>10, <1>11, <1>12, <1>13, <1>14, <1>15, <1>16,
       <1>17 DEF PanelInv, PanelBase, TaskInv, CouponInv

LEMMA RedeemKeeps ==
    ASSUME PanelInv, NEW q \in Asker, Redeem(q)
    PROVE  PanelInv'
<1> DEFINE r == [asker[q] EXCEPT !.at = IF asker[q].at = "made" THEN "judging" ELSE "paying"]
<1> USE PanelAssumption
<1>1. /\ PanelTypeOK /\ PanelShape /\ MarkInv /\ FailedTold /\ TaskBills /\ PayInv
      /\ CutTold /\ FoundKept /\ PrizeKept
  BY DEF PanelInv, PanelBase, TaskInv, CouponInv
<1>2. /\ UNCHANGED <<errand, bills, prizes>>
      /\ UNCHANGED panelHistory
      /\ asker[q].at \in {"made", "redeeming"} /\ asker[q].bill \in Bill /\ asker[q] \in AskState
      /\ Found(q)
      /\ coupon'.used = coupon.used \cup {asker[q].bill}
  BY <1>1
    DEF Redeem, Found, AtStep, panelHistory, PanelTypeOK, PanelShape, AskFits, Billing, Making,
        AskState
<1>3. r \in AskState /\ AskerGoes(q, r)
  BY <1>1, <1>2 DEF Redeem, AtStep, Go, NoAsk, AskSteps, AskState, AskerGoes, PanelTypeOK
<1>4. /\ asker' \in [Asker -> AskState]
      /\ asker'[q].at = IF asker[q].at = "made" THEN "judging" ELSE "paying"
      /\ asker'[q].for = asker[q].for /\ asker'[q].bill = asker[q].bill
      /\ asker'[q].cut = asker[q].cut
      /\ \A p \in Asker : p # q => asker'[p] = asker[p]
  <2>1. /\ asker' \in [Asker -> AskState] /\ asker'[q] = r
        /\ \A p \in Asker : p # q => asker'[p] = asker[p]
    BY <1>1, <1>3, AskerAfter
  <2>2. asker[q] \in AskState
    BY <1>1 DEF PanelTypeOK, AskState
  <2> QED
    BY <2>1, <2>2 DEF NoAsk, AskState
<1>5. PanelTypeOK'
  BY <1>1, <1>2, <1>4 DEF panelHistory, Redeem, AtStep, PanelTypeOK, AskState
<1>6. ShapeFrame
  BY <1>1, <1>2, <1>4 DEF ShapeFrame
<1>7. AskFits(q)'
  BY <1>1, <1>2, <1>4, <1>6 DEF PanelShape, ShapeFrame, AskFits, Making, Billing, AskState
<1>8. PanelShape'
  BY <1>1, <1>2, <1>4, <1>6, <1>7, ShapeStays
<1>9. MarkFrame
  BY <1>1, <1>2, <1>4 DEF MarkFrame, Behind, Marking, Making, panelHistory
<1>10. MarkInv'
  BY <1>1, <1>9, MarkStays
<1>11. FailedTold'
  BY <1>1, <1>2, <1>4 DEF FailedTold, AskState, panelHistory
<1>12. TaskFrame
  BY <1>1, <1>2, <1>4
    DEF TaskFrame, StillToMake, Behind, Entered, Marking, Making, panelHistory
<1>13. TaskBills'
  BY <1>1, <1>12, TaskStays
<1>14. PayFrame
  BY <1>1, <1>2, <1>4 DEF PayFrame, Billing, Making
<1>15. PayInv'
  BY <1>1, <1>14, PayStays
<1>16. CutFrame
  BY <1>1, <1>2, <1>4 DEF CutFrame, Making, panelHistory
<1>17. CutTold'
  BY <1>1, <1>16, CutStays
<1>18. FoundFrame
  BY <1>1, <1>2, <1>4 DEF FoundFrame, Seeks, panelHistory
<1>19. FoundKept'
  BY <1>1, <1>18, FoundStays
<1>20. PrizeFrame
  BY <1>1, <1>2, <1>4 DEF PrizeFrame, AskState, panelHistory
<1>21. PrizeKept'
  BY <1>1, <1>20, PrizeStays
<1> QED
  BY <1>5, <1>6, <1>7, <1>8, <1>9, <1>10, <1>11, <1>12, <1>13, <1>14, <1>15, <1>16, <1>17, <1>18,
       <1>19, <1>20, <1>21 DEF PanelInv, PanelBase, TaskInv, CouponInv

LEMMA JudgeKeeps ==
    ASSUME PanelInv, NEW q \in Asker, Judge(q)
    PROVE  PanelInv'
<1> DEFINE r == [asker[q] EXCEPT !.at = IF Deserved THEN "earning" ELSE AfterCreate(q)]
<1> USE PanelAssumption
<1>1. /\ PanelTypeOK /\ PanelShape /\ MarkInv /\ FailedTold /\ TaskBills /\ PayInv
      /\ CutTold /\ FoundKept /\ PrizeKept
  BY DEF PanelInv, PanelBase, TaskInv, CouponInv
<1>2. /\ UNCHANGED <<errand, bills, coupon, prizes, foundBeside, rewritten, spilt, unclear, shut>>
      /\ asker[q].at = "judging" /\ asker[q].bill \in Bill /\ asker[q] \in AskState
      /\ judgedBeside \in Nat /\ prizes \in Nat /\ judgedBeside' \in Nat
      /\ AfterCreate(q) = IF asker[q].for = Counter THEN "paying" ELSE "linking"
      /\ Deserved => prizes = 0
      /\ judgedBeside' = OneMoreIf(judgedBeside,
                                   Deserved /\ \E p \in Asker \ {q} : asker[p].at = "earning")
  BY <1>1
    DEF Judge, AfterCreate, Deserved, AtStep, OneMoreIf, PanelTypeOK, PanelShape, AskFits, Billing,
        Making, AskState
<1>3. r \in AskState /\ AskerGoes(q, r)
  BY <1>1, <1>2 DEF Judge, AtStep, Go, NoAsk, AskSteps, AskState, AskerGoes, PanelTypeOK
<1>4. /\ asker' \in [Asker -> AskState]
      /\ asker'[q].at = IF Deserved THEN "earning" ELSE AfterCreate(q)
      /\ asker'[q].for = asker[q].for /\ asker'[q].bill = asker[q].bill
      /\ asker'[q].cut = asker[q].cut
      /\ \A p \in Asker : p # q => asker'[p] = asker[p]
  <2>1. /\ asker' \in [Asker -> AskState] /\ asker'[q] = r
        /\ \A p \in Asker : p # q => asker'[p] = asker[p]
    BY <1>1, <1>3, AskerAfter
  <2>2. asker[q] \in AskState
    BY <1>1 DEF PanelTypeOK, AskState
  <2> QED
    BY <2>1, <2>2 DEF NoAsk, AskState
<1>5. PanelTypeOK'
  BY <1>1, <1>2, <1>4 DEF panelHistory, Judge, Deserved, PanelTypeOK, AskState
<1>6. ShapeFrame
  BY <1>1, <1>2, <1>4 DEF ShapeFrame
<1>7. AskFits(q)'
  BY <1>1, <1>2, <1>4, <1>6 DEF PanelShape, ShapeFrame, AskFits, Making, Billing, AskState
<1>8. PanelShape'
  BY <1>1, <1>2, <1>4, <1>6, <1>7, ShapeStays
<1>9. MarkFrame
  BY <1>1, <1>2, <1>4 DEF MarkFrame, Behind, Marking, Making, panelHistory
<1>10. MarkInv'
  BY <1>1, <1>9, MarkStays
<1>11. FailedTold'
  BY <1>1, <1>2, <1>4 DEF FailedTold, AskState, panelHistory
<1>12. TaskFrame
  BY <1>1, <1>2, <1>4
    DEF TaskFrame, StillToMake, Behind, Entered, Marking, Making, panelHistory
<1>13. TaskBills'
  BY <1>1, <1>12, TaskStays
<1>14. PayFrame
  BY <1>1, <1>2, <1>4 DEF PayFrame, Billing, Making
<1>15. PayInv'
  BY <1>1, <1>14, PayStays
<1>16. CutFrame
  BY <1>1, <1>2, <1>4 DEF CutFrame, Making, panelHistory
<1>17. CutTold'
  BY <1>1, <1>16, CutStays
<1>18. FoundFrame
  BY <1>1, <1>2, <1>4 DEF FoundFrame, Seeks, panelHistory
<1>19. FoundKept'
  BY <1>1, <1>18, FoundStays
<1>20. PrizeKept'
  <2> HIDE DEF r
  <2>1. CASE ~Deserved
    <3>1. PrizeFrame
      BY <1>2, <1>4, <2>1 DEF PrizeFrame, OneMoreIf
    <3> QED
      BY <1>1, <3>1, PrizeStays
  <2>2. CASE Deserved
    <3>1. Earners' \subseteq Earners \cup {q}
      BY <1>4 DEF Earners
    <3>2. /\ Cardinality(Earners') \in Nat /\ Cardinality(Earners) \in Nat
          /\ Cardinality(Earners') <= Cardinality(Earners) + 1
      BY <3>1, PanelFinite, OneMore
    <3>3. CASE \E p \in Asker \ {q} : asker[p].at = "earning"
      <4>1. judgedBeside' = judgedBeside + 1 /\ prizes' = prizes
        BY <1>2, <2>2, <3>3 DEF OneMoreIf
      <4> QED
        BY <1>1, <1>2, <3>2, <4>1 DEF PrizeKept
    <3>4. CASE ~\E p \in Asker \ {q} : asker[p].at = "earning"
      <4>1. Earners = {}
        BY <1>2, <3>4 DEF Earners
      <4>2. Cardinality(Earners) = 0 /\ judgedBeside' = judgedBeside /\ prizes' = 0
        BY <1>2, <2>2, <3>4, <4>1, FS_EmptySet DEF OneMoreIf
      <4> QED
        BY <1>2, <3>2, <4>2 DEF PrizeKept
    <3> QED
      BY <3>3, <3>4
  <2> QED
    BY <2>1, <2>2
<1> QED
  BY <1>5, <1>6, <1>7, <1>8, <1>9, <1>10, <1>11, <1>12, <1>13, <1>14, <1>15, <1>16, <1>17, <1>18,
       <1>19, <1>20 DEF PanelInv, PanelBase, TaskInv, CouponInv

LEMMA EarnKeeps ==
    ASSUME PanelInv, NEW q \in Asker, Earn(q)
    PROVE  PanelInv'
<1> DEFINE r == [asker[q] EXCEPT !.at = AfterCreate(q)]
<1> USE PanelAssumption
<1>1. /\ PanelTypeOK /\ PanelShape /\ MarkInv /\ FailedTold /\ TaskBills /\ PayInv
      /\ CutTold /\ FoundKept /\ PrizeKept
  BY DEF PanelInv, PanelBase, TaskInv, CouponInv
<1>2. /\ UNCHANGED <<errand, bills, coupon>>
      /\ UNCHANGED panelHistory
      /\ asker[q].at = "earning" /\ asker[q].bill \in Bill /\ asker[q] \in AskState
      /\ AfterCreate(q) = IF asker[q].for = Counter THEN "paying" ELSE "linking"
      /\ prizes' = prizes + 1 /\ prizes \in Nat
  BY <1>1
    DEF Earn, AfterCreate, AtStep, panelHistory, PanelTypeOK, PanelShape, AskFits, Billing,
        Making, AskState
<1>3. r \in AskState /\ AskerGoes(q, r)
  BY <1>1, <1>2 DEF Earn, AtStep, Go, NoAsk, AskSteps, AskState, AskerGoes, PanelTypeOK
<1>4. /\ asker' \in [Asker -> AskState] /\ asker'[q].at = AfterCreate(q)
      /\ asker'[q].for = asker[q].for /\ asker'[q].bill = asker[q].bill
      /\ asker'[q].cut = asker[q].cut
      /\ \A p \in Asker : p # q => asker'[p] = asker[p]
  <2>1. /\ asker' \in [Asker -> AskState] /\ asker'[q] = r
        /\ \A p \in Asker : p # q => asker'[p] = asker[p]
    BY <1>1, <1>3, AskerAfter
  <2>2. asker[q] \in AskState
    BY <1>1 DEF PanelTypeOK, AskState
  <2> QED
    BY <2>1, <2>2 DEF NoAsk, AskState
<1>5. PanelTypeOK'
  BY <1>1, <1>2, <1>4 DEF panelHistory, Earn, PanelTypeOK, AskState
<1>6. ShapeFrame
  BY <1>1, <1>2, <1>4 DEF ShapeFrame
<1>7. AskFits(q)'
  BY <1>1, <1>2, <1>4, <1>6 DEF PanelShape, ShapeFrame, AskFits, Making, Billing, AskState
<1>8. PanelShape'
  BY <1>1, <1>2, <1>4, <1>6, <1>7, ShapeStays
<1>9. MarkFrame
  BY <1>1, <1>2, <1>4 DEF MarkFrame, Behind, Marking, Making, panelHistory
<1>10. MarkInv'
  BY <1>1, <1>9, MarkStays
<1>11. FailedTold'
  BY <1>1, <1>2, <1>4 DEF FailedTold, AskState, panelHistory
<1>12. TaskFrame
  BY <1>1, <1>2, <1>4
    DEF TaskFrame, StillToMake, Behind, Entered, Marking, Making, panelHistory
<1>13. TaskBills'
  BY <1>1, <1>12, TaskStays
<1>14. PayFrame
  BY <1>1, <1>2, <1>4 DEF PayFrame, Billing, Making
<1>15. PayInv'
  BY <1>1, <1>14, PayStays
<1>16. CutFrame
  BY <1>1, <1>2, <1>4 DEF CutFrame, Making, panelHistory
<1>17. CutTold'
  BY <1>1, <1>16, CutStays
<1>18. FoundFrame
  BY <1>1, <1>2, <1>4 DEF FoundFrame, Seeks, panelHistory
<1>19. FoundKept'
  BY <1>1, <1>18, FoundStays
<1>20. PrizeKept'
  <2>1. q \in Earners /\ Earners' \subseteq Earners \ {q}
    BY <1>2, <1>4 DEF Earners
  <2>2. /\ Cardinality(Earners') \in Nat /\ Cardinality(Earners) \in Nat
        /\ Cardinality(Earners') + 1 <= Cardinality(Earners)
    BY <2>1, PanelFinite, OneLess
  <2>3. judgedBeside' = judgedBeside /\ judgedBeside \in Nat
    BY <1>1, <1>2 DEF PanelTypeOK, panelHistory
  <2> QED
    BY <1>1, <1>2, <2>2, <2>3 DEF PrizeKept
<1> QED
  BY <1>5, <1>6, <1>7, <1>8, <1>9, <1>10, <1>11, <1>12, <1>13, <1>14, <1>15, <1>16, <1>17, <1>18,
       <1>19, <1>20 DEF PanelInv, PanelBase, TaskInv, CouponInv

LEMMA FailKeeps ==
    ASSUME PanelInv, NEW q \in Asker, Fail(q)
    PROVE  PanelInv'
<1> DEFINE r == [asker[q] EXCEPT !.at = "failing"]
<1> USE PanelAssumption
<1>1. /\ PanelTypeOK /\ PanelShape /\ MarkInv /\ FailedTold /\ TaskBills /\ PayInv
      /\ CutTold /\ FoundKept /\ PrizeKept
  BY DEF PanelInv, PanelBase, TaskInv, CouponInv
<1>2. /\ UNCHANGED <<errand, bills, coupon, prizes, foundBeside, judgedBeside, rewritten, shut>>
      /\ asker[q].at \in {"creating", "checked", "made", "judging"} /\ asker[q] \in AskState
      /\ asker[q].at = "made" => asker[q].bill \in spilt'
      /\ spilt \subseteq spilt' /\ spilt' \subseteq Bill /\ unclear \subseteq unclear'
      /\ unclear' \subseteq Pickup
      /\ asker[q].bill \in Bill /\ asker[q].for \in Pickup => asker[q].for \in unclear'
  BY <1>1 DEF Fail, AtStep, PanelTypeOK, PanelShape, AskFits, Billing, Making, AskState
<1>3. r \in AskState /\ AskerGoes(q, r)
  BY <1>1, <1>2 DEF Fail, AtStep, Go, NoAsk, AskSteps, AskState, AskerGoes, PanelTypeOK
<1>4. /\ asker' \in [Asker -> AskState] /\ asker'[q].at = "failing"
      /\ asker'[q].for = asker[q].for /\ asker'[q].bill = asker[q].bill
      /\ asker'[q].cut = asker[q].cut
      /\ \A p \in Asker : p # q => asker'[p] = asker[p]
  <2>1. /\ asker' \in [Asker -> AskState] /\ asker'[q] = r
        /\ \A p \in Asker : p # q => asker'[p] = asker[p]
    BY <1>1, <1>3, AskerAfter
  <2>2. asker[q] \in AskState
    BY <1>1 DEF PanelTypeOK, AskState
  <2> QED
    BY <2>1, <2>2 DEF NoAsk, AskState
<1>5. PanelTypeOK'
  BY <1>1, <1>2, <1>4 DEF panelHistory, Fail, Hitch, PanelTypeOK, AskState
<1>6. ShapeFrame
  BY <1>1, <1>2, <1>4 DEF ShapeFrame
<1>7. AskFits(q)'
  BY <1>1, <1>2, <1>4, <1>6 DEF PanelShape, ShapeFrame, AskFits, Making, Billing, AskState
<1>8. PanelShape'
  BY <1>1, <1>2, <1>4, <1>6, <1>7, ShapeStays
<1>9. MarkFrame
  BY <1>1, <1>2, <1>4 DEF MarkFrame, Behind, Marking, Making, panelHistory
<1>10. MarkInv'
  BY <1>1, <1>9, MarkStays
<1>11. FailedTold'
  BY <1>1, <1>2, <1>4 DEF FailedTold, AskState, panelHistory
<1>12. TaskBills'
  <2>1. TaskFrame
    BY <1>2, <1>4 DEF TaskFrame, StillToMake, Behind, Entered, Marking, Making
  <2> QED
    BY <1>1, <2>1, TaskStays
<1>13. PayFrame
  BY <1>1, <1>2, <1>4 DEF PayFrame, Billing, Making
<1>14. PayInv'
  BY <1>1, <1>13, PayStays
<1>15. CutFrame
  BY <1>1, <1>2, <1>4 DEF CutFrame, Making, panelHistory
<1>16. CutTold'
  BY <1>1, <1>15, CutStays
<1>17. FoundFrame
  BY <1>1, <1>2, <1>4 DEF FoundFrame, Seeks, panelHistory
<1>18. FoundKept'
  BY <1>1, <1>17, FoundStays
<1>19. PrizeFrame
  BY <1>1, <1>2, <1>4 DEF PrizeFrame, AskState, panelHistory
<1>20. PrizeKept'
  BY <1>1, <1>19, PrizeStays
<1> QED
  BY <1>5, <1>6, <1>7, <1>8, <1>9, <1>10, <1>11, <1>12, <1>13, <1>14, <1>15, <1>16, <1>17, <1>18,
       <1>19, <1>20 DEF PanelInv, PanelBase, TaskInv, CouponInv

LEMMA UnmarkKeeps ==
    ASSUME PanelInv, NEW q \in Asker, Unmark(q)
    PROVE  PanelInv'
<1> DEFINE r == [at |-> "free", for |-> Counter, bill |-> Unbilled, cut |-> FALSE]
<1> USE PanelAssumption
<1>1. /\ PanelTypeOK /\ PanelShape /\ MarkInv /\ FailedTold /\ TaskBills /\ PayInv
      /\ CutTold /\ FoundKept /\ PrizeKept
  BY DEF PanelInv, PanelBase, TaskInv, CouponInv
<1>2. /\ UNCHANGED <<bills, coupon, prizes>>
      /\ UNCHANGED panelHistory
      /\ asker[q].at = "failing" /\ asker[q] \in AskState
      /\ errand' \in [Pickup -> ErrandState] /\ \A t \in Pickup : errand'[t].bill = errand[t].bill
      /\ \A t \in Pickup :
             IF t = asker[q].for THEN ~errand'[t].mark ELSE errand'[t].mark = errand[t].mark
  <2> DEFINE t == asker[q].for
             e == [errand[t] EXCEPT !.mark = FALSE]
  <2>1. /\ asker[q].at = "failing" /\ asker[q] \in AskState /\ errand \in [Pickup -> ErrandState]
        /\ UNCHANGED <<bills, coupon, prizes>> /\ UNCHANGED panelHistory
    BY <1>1 DEF Unmark, AtStep, panelHistory, PanelTypeOK, AskState, ErrandState
  <2>2. CASE t = Counter
    BY <2>1, <2>2 DEF Unmark
  <2>3. CASE t # Counter
    <3>1. t \in Pickup /\ errand[t] \in ErrandState
      BY <2>1, <2>3 DEF AskState
    <3>2. e \in ErrandState /\ ~e.mark /\ e.bill = errand[t].bill
      BY <3>1 DEF ErrandState
    <3>3. errand' = [errand EXCEPT ![t] = e]
      BY <2>3 DEF Unmark
    <3>4. /\ errand' \in [Pickup -> ErrandState] /\ errand'[t] = e
          /\ \A u \in Pickup : u # t => errand'[u] = errand[u]
      BY <1>1, <3>1, <3>2, <3>3, ErrandAfter
    <3> QED
      BY <2>1, <3>1, <3>2, <3>4
  <2> QED
    BY <2>2, <2>3
<1>3. r \in AskState /\ AskerGoes(q, r)
  BY <1>1, <1>2 DEF Unmark, AtStep, Go, NoAsk, AskSteps, AskState, AskerGoes, PanelTypeOK
<1>4. /\ asker' \in [Asker -> AskState] /\ asker'[q].at = "free"
      /\ asker'[q].for = Counter /\ asker'[q].bill = Unbilled
      /\ asker'[q].cut = FALSE
      /\ \A p \in Asker : p # q => asker'[p] = asker[p]
  <2>1. /\ asker' \in [Asker -> AskState] /\ asker'[q] = r
        /\ \A p \in Asker : p # q => asker'[p] = asker[p]
    BY <1>1, <1>3, AskerAfter
  <2>2. asker[q] \in AskState
    BY <1>1 DEF PanelTypeOK, AskState
  <2> QED
    BY <2>1, <2>2 DEF NoAsk, AskState
<1>5. PanelTypeOK'
  BY <1>1, <1>2, <1>4 DEF panelHistory, Unmark, PanelTypeOK, AskState, ErrandState
<1>6. ShapeFrame
  BY <1>1, <1>2, <1>4 DEF ShapeFrame
<1>7. AskFits(q)'
  BY <1>1, <1>2, <1>4, <1>6 DEF PanelShape, ShapeFrame, AskFits, Making, Billing, AskState
<1>8. PanelShape'
  BY <1>1, <1>2, <1>4, <1>6, <1>7, ShapeStays
<1>9. MarkInv'
  <2>1. \A p \in Asker, t \in Pickup : Behind(p, t) /\ p # q => Behind(p, t)'
    BY <1>2, <1>4 DEF Behind, Marking, Making
  <2>2. \A t \in Pickup : Behind(q, t) => t = asker[q].for
    BY DEF Behind
  <2> QED
    BY <1>1, <1>2, <2>1, <2>2 DEF MarkInv, panelHistory
<1>10. FailedTold'
  BY <1>1, <1>2, <1>4 DEF FailedTold, AskState, panelHistory
<1>11. \A t \in Pickup \ unclear : TaskMoves(t)
  <2>1. ASSUME NEW t \in Pickup \ unclear, t = asker[q].for
        PROVE  TaskLeft(t, q)
    <3>1. asker[q].bill = Unbilled
      BY <1>1, <1>2, <2>1 DEF FailedTold, AskState
    <3> QED
      BY <1>2, <1>4, <2>1, <3>1
        DEF TaskLeft, Orders, Coming, StillToMake, Behind, Marking, Making, panelHistory
  <2>2. \A t \in Pickup : t # asker[q].for => TaskRests(t)
    BY <1>2, <1>4
      DEF TaskRests, Orders, Coming, StillToMake, Behind, Entered, Marking, Making, panelHistory
  <2> QED
    BY <2>1, <2>2 DEF TaskMoves
<1>12. TaskBills'
  BY <1>1, <1>2, <1>11, TasksMove DEF panelHistory
<1>13. PayFrame
  BY <1>1, <1>2, <1>4 DEF PayFrame, Billing, Making
<1>14. PayInv'
  BY <1>1, <1>13, PayStays
<1>15. CutFrame
  BY <1>1, <1>2, <1>4 DEF CutFrame, Making, panelHistory
<1>16. CutTold'
  BY <1>1, <1>15, CutStays
<1>17. FoundFrame
  BY <1>1, <1>2, <1>4 DEF FoundFrame, Seeks, panelHistory
<1>18. FoundKept'
  BY <1>1, <1>17, FoundStays
<1>19. PrizeFrame
  BY <1>1, <1>2, <1>4 DEF PrizeFrame, AskState, panelHistory
<1>20. PrizeKept'
  BY <1>1, <1>19, PrizeStays
<1> QED
  BY <1>5, <1>6, <1>7, <1>8, <1>9, <1>10, <1>11, <1>12, <1>13, <1>14, <1>15, <1>16, <1>17, <1>18,
       <1>19, <1>20 DEF PanelInv, PanelBase, TaskInv, CouponInv

LEMMA LinkBillKeeps ==
    ASSUME PanelInv, NEW q \in Asker, LinkBill(q)
    PROVE  PanelInv'
<1> DEFINE r == [asker[q] EXCEPT !.at = "paying"]
<1> USE PanelAssumption
<1>1. /\ PanelTypeOK /\ PanelShape /\ MarkInv /\ FailedTold /\ TaskBills /\ PayInv
      /\ CutTold /\ FoundKept /\ PrizeKept
  BY DEF PanelInv, PanelBase, TaskInv, CouponInv
<1>2. /\ UNCHANGED <<bills, coupon, prizes>>
      /\ UNCHANGED panelHistory
      /\ asker[q].at = "linking" /\ asker[q] \in AskState
      /\ asker[q].for \in Pickup /\ asker[q].bill \in Bill
      /\ errand' \in [Pickup -> ErrandState] /\ ~errand'[asker[q].for].mark
      /\ errand'[asker[q].for].bill = asker[q].bill
      /\ \A t \in Pickup : t # asker[q].for => errand'[t] = errand[t]
      /\ \A p \in Asker : asker[p].at = "locked" => asker[p].for # asker[q].for
  <2>1. /\ asker[q].at = "linking" /\ asker[q] \in AskState
        /\ asker[q].for \in Pickup /\ asker[q].bill \in Bill
    BY <1>1 DEF LinkBill, AtStep, PanelTypeOK, PanelShape, AskFits, Billing, Making, AskState
  <2>2. \A p \in Asker : asker[p].at = "locked" => asker[p].for # asker[q].for
    BY DEF LinkBill, TaskLocked, AtStep
  <2> QED
    <3> DEFINE t == asker[q].for
               e == [errand[t] EXCEPT !.mark = FALSE, !.bill = asker[q].bill]
    <3>5. errand[t] \in ErrandState
      BY <1>1, <2>1 DEF PanelTypeOK, ErrandState
    <3>1. e \in ErrandState /\ ~e.mark /\ e.bill = asker[q].bill
      BY <2>1, <3>5 DEF ErrandState
    <3>2. errand' = [errand EXCEPT ![t] = e]
      BY DEF LinkBill
    <3>3. /\ errand' \in [Pickup -> ErrandState] /\ errand'[t] = e
          /\ \A u \in Pickup : u # t => errand'[u] = errand[u]
      BY <1>1, <2>1, <3>1, <3>2, ErrandAfter
    <3>4. UNCHANGED <<bills, coupon, prizes>> /\ UNCHANGED panelHistory
      BY DEF LinkBill, panelHistory
    <3> QED
      BY <2>1, <2>2, <3>1, <3>3, <3>4
<1>3. r \in AskState /\ AskerGoes(q, r)
  BY <1>1, <1>2 DEF LinkBill, AtStep, Go, NoAsk, AskSteps, AskState, AskerGoes, PanelTypeOK
<1>4. /\ asker' \in [Asker -> AskState] /\ asker'[q].at = "paying"
      /\ asker'[q].for = asker[q].for /\ asker'[q].bill = asker[q].bill
      /\ asker'[q].cut = asker[q].cut
      /\ \A p \in Asker : p # q => asker'[p] = asker[p]
  <2>1. /\ asker' \in [Asker -> AskState] /\ asker'[q] = r
        /\ \A p \in Asker : p # q => asker'[p] = asker[p]
    BY <1>1, <1>3, AskerAfter
  <2>2. asker[q] \in AskState
    BY <1>1 DEF PanelTypeOK, AskState
  <2> QED
    BY <2>1, <2>2 DEF NoAsk, AskState
<1>5. PanelTypeOK'
  BY <1>1, <1>2, <1>4 DEF panelHistory, LinkBill, PanelTypeOK, AskState, ErrandState
<1>6. ShapeFrame
  BY <1>1, <1>2, <1>4 DEF ShapeFrame
<1>7. AskFits(q)'
  BY <1>1, <1>2, <1>4, <1>6 DEF PanelShape, ShapeFrame, AskFits, Making, Billing, AskState
<1>8. PanelShape'
  BY <1>1, <1>2, <1>4, <1>6, <1>7, ShapeStays
<1>9. MarkInv'
  <2>1. \A p \in Asker, t \in Pickup : Behind(p, t) /\ p # q => Behind(p, t)'
    BY <1>2, <1>4 DEF Behind, Marking, Making
  <2>2. \A t \in Pickup : Behind(q, t) => t = asker[q].for
    BY DEF Behind
  <2> QED
    BY <1>1, <1>2, <2>1, <2>2 DEF MarkInv, panelHistory
<1>10. FailedTold'
  BY <1>1, <1>2, <1>4 DEF FailedTold, AskState, panelHistory
<1>11. TaskBills'
  <2>1. TaskFrame
    BY <1>2, <1>4 DEF TaskFrame, StillToMake, Behind, Entered, Marking, Making, panelHistory
  <2> QED
    BY <1>1, <2>1, TaskStays
<1>12. PayInv'
  <2>1. \A p \in Asker, b \in Bill : Pays(p, b)' <=> Pays(p, b)
    BY <1>2, <1>4 DEF Pays, Billing, Making
  <2>2. \A t \in Pickup : errand[t].bill # asker[q].bill
    BY <1>1, <1>2 DEF PayInv, MadeUnlinked, Making
  <2>3. LinkedMade' /\ LinkedOne'
    BY <1>1, <1>2, <2>2 DEF PayInv, LinkedMade, LinkedOne, PanelShape, AskFits
  <2>4. \A p \in Asker : Pays(p, asker[q].bill) => p = q
    BY <1>1, <1>2 DEF PayInv, PayerOne, Pays, Billing, Making
  <2>5. MadeUnlinked'
    BY <1>1, <1>2, <1>4, <2>4 DEF PayInv, MadeUnlinked, Pays, Billing, Making
  <2>6. LockedLinked' /\ LockedOne'
    BY <1>1, <1>2, <1>4 DEF PayInv, LockedLinked, LockedOne, PanelShape, AskFits, Billing
  <2>7. PayerOne' /\ UnpaidYet'
    BY <1>1, <1>2, <2>1 DEF PayInv, PayerOne, UnpaidYet
  <2>8. PricedFirst'
    BY <1>1, <1>2, <1>4 DEF PayInv, PricedFirst, Pays, Billing, Making
  <2> QED
    BY <2>3, <2>5, <2>6, <2>7, <2>8 DEF PayInv
<1>13. CutFrame
  BY <1>1, <1>2, <1>4 DEF CutFrame, Making, panelHistory
<1>14. CutTold'
  BY <1>1, <1>13, CutStays
<1>15. FoundFrame
  BY <1>1, <1>2, <1>4 DEF FoundFrame, Seeks, panelHistory
<1>16. FoundKept'
  BY <1>1, <1>15, FoundStays
<1>17. PrizeFrame
  BY <1>1, <1>2, <1>4 DEF PrizeFrame, AskState, panelHistory
<1>18. PrizeKept'
  BY <1>1, <1>17, PrizeStays
<1> QED
  BY <1>5, <1>6, <1>7, <1>8, <1>9, <1>10, <1>11, <1>12, <1>13, <1>14, <1>15, <1>16, <1>17,
       <1>18 DEF PanelInv, PanelBase, TaskInv, CouponInv

LEMMA TakeAdvanceKeeps ==
    ASSUME PanelInv, NEW q \in Asker, TakeAdvance(q)
    PROVE  PanelInv'
<1> DEFINE r == IF asker[q].for = Counter THEN NoAsk ELSE [asker[q] EXCEPT !.at = "closing"]
<1> USE PanelAssumption
<1>1. /\ PanelTypeOK /\ PanelShape /\ MarkInv /\ FailedTold /\ TaskBills /\ PayInv
      /\ CutTold /\ FoundKept /\ PrizeKept
  BY DEF PanelInv, PanelBase, TaskInv, CouponInv
<1>2. /\ UNCHANGED <<errand, coupon, prizes>>
      /\ UNCHANGED panelHistory
      /\ asker[q].at = "paying" /\ asker[q].bill \in Bill /\ asker[q] \in AskState
      /\ bills' \in [Bill -> BillState]
      /\ bills'[asker[q].bill].advances = bills[asker[q].bill].advances + 1
      /\ \A b \in Bill : /\ bills'[b].stage = bills[b].stage /\ bills'[b].for = bills[b].for
                       /\ bills'[b].priced = bills[b].priced /\ bills'[b].cut = bills[b].cut
      /\ \A b \in Bill : b # asker[q].bill => bills'[b] = bills[b]
  BY <1>1
    DEF TakeAdvance, AtStep, panelHistory, PanelTypeOK, PanelShape, AskFits, Billing, AskState,
        BillState
<1>3. r \in AskState /\ AskerGoes(q, r)
  BY <1>1, <1>2 DEF TakeAdvance, AtStep, Go, NoAsk, AskSteps, AskState, AskerGoes, PanelTypeOK
<1>4. /\ asker' \in [Asker -> AskState]
      /\ asker[q].for = Counter =>
            /\ asker'[q].at = "free" /\ asker'[q].for = Counter
            /\ asker'[q].bill = Unbilled /\ asker'[q].cut = FALSE
      /\ asker[q].for # Counter =>
            /\ asker'[q].at = "closing" /\ asker'[q].for = asker[q].for
            /\ asker'[q].bill = asker[q].bill /\ asker'[q].cut = asker[q].cut
      /\ \A p \in Asker : p # q => asker'[p] = asker[p]
  <2>1. /\ asker' \in [Asker -> AskState] /\ asker'[q] = r
        /\ \A p \in Asker : p # q => asker'[p] = asker[p]
    BY <1>1, <1>3, AskerAfter
  <2>2. asker[q] \in AskState
    BY <1>1 DEF PanelTypeOK, AskState
  <2>3. CASE asker[q].for = Counter
    BY <2>1, <2>2, <2>3 DEF NoAsk, AskState
  <2>4. CASE asker[q].for # Counter
    BY <2>1, <2>2, <2>4 DEF NoAsk, AskState
  <2> QED
    BY <2>1, <2>3, <2>4
<1>5. PanelTypeOK'
  BY <1>1, <1>2, <1>4 DEF panelHistory, TakeAdvance, PanelTypeOK, AskState, BillState
<1>6. ShapeFrame
  BY <1>1, <1>2, <1>4 DEF ShapeFrame
<1>7. AskFits(q)'
  BY <1>1, <1>2, <1>4, <1>6 DEF PanelShape, ShapeFrame, AskFits, Making, Billing, AskState
<1>8. PanelShape'
  BY <1>1, <1>2, <1>4, <1>6, <1>7, ShapeStays
<1>9. MarkFrame
  BY <1>1, <1>2, <1>4 DEF MarkFrame, Behind, Marking, Making, panelHistory
<1>10. MarkInv'
  BY <1>1, <1>9, MarkStays
<1>11. FailedTold'
  BY <1>1, <1>2, <1>4 DEF FailedTold, AskState, panelHistory
<1>12. TaskFrame
  BY <1>1, <1>2, <1>4
    DEF TaskFrame, StillToMake, Behind, Entered, Marking, Making, panelHistory
<1>13. TaskBills'
  BY <1>1, <1>12, TaskStays
<1>14. PayInv'
  <2>1. \A p \in Asker, b \in Bill : Pays(p, b)' => Pays(p, b) /\ p # q
    BY <1>2, <1>4 DEF Pays, NoAsk, Billing, Making
  <2>2. Pays(q, asker[q].bill) /\ bills[asker[q].bill].advances = 0 /\ bills[asker[q].bill].priced
    BY <1>1, <1>2 DEF Pays, Billing, PayInv, UnpaidYet, PricedFirst
  <2>3. \A p \in Asker, b \in Bill : Pays(p, b)' => b # asker[q].bill
    BY <1>1, <1>2, <2>1, <2>2 DEF PayInv, PayerOne
  <2>4. LinkedMade' /\ LinkedOne' /\ MadeUnlinked'
    BY <1>1, <1>2, <1>4 DEF PayInv, LinkedMade, LinkedOne, MadeUnlinked, Making, NoAsk
  <2>5. LockedLinked' /\ LockedOne'
    BY <1>1, <1>2, <1>4 DEF PayInv, LockedLinked, LockedOne, NoAsk
  <2>6. PayerOne'
    BY <1>1, <2>1 DEF PayInv, PayerOne
  <2>7. UnpaidYet'
    BY <1>1, <1>2, <2>1, <2>2, <2>3 DEF PayInv, UnpaidYet
  <2>8. PricedFirst'
    BY <1>1, <1>2, <1>4, <2>1, <2>2 DEF PayInv, PricedFirst
  <2> QED
    BY <2>4, <2>5, <2>6, <2>7, <2>8 DEF PayInv
<1>15. CutFrame
  BY <1>1, <1>2, <1>4 DEF CutFrame, Making, panelHistory
<1>16. CutTold'
  BY <1>1, <1>15, CutStays
<1>17. FoundFrame
  BY <1>1, <1>2, <1>4 DEF FoundFrame, Seeks, panelHistory
<1>18. FoundKept'
  BY <1>1, <1>17, FoundStays
<1>19. PrizeFrame
  BY <1>1, <1>2, <1>4 DEF PrizeFrame, AskState, panelHistory
<1>20. PrizeKept'
  BY <1>1, <1>19, PrizeStays
<1> QED
  BY <1>5, <1>6, <1>7, <1>8, <1>9, <1>10, <1>11, <1>12, <1>13, <1>14, <1>15, <1>16, <1>17, <1>18,
       <1>19, <1>20 DEF PanelInv, PanelBase, TaskInv, CouponInv

LEMMA CloseErrandKeeps ==
    ASSUME PanelInv, NEW q \in Asker, CloseErrand(q)
    PROVE  PanelInv'
<1> DEFINE r == IF errand[asker[q].for].open THEN [asker[q] EXCEPT !.at = "moving"] ELSE NoAsk
<1> USE PanelAssumption
<1>1. /\ PanelTypeOK /\ PanelShape /\ MarkInv /\ FailedTold /\ TaskBills /\ PayInv
      /\ CutTold /\ FoundKept /\ PrizeKept
  BY DEF PanelInv, PanelBase, TaskInv, CouponInv
<1>2. /\ UNCHANGED <<bills, coupon, prizes>>
      /\ UNCHANGED panelHistory
      /\ asker[q].at = "closing" /\ asker[q] \in AskState /\ asker[q].for \in Pickup
      /\ errand' \in [Pickup -> ErrandState]
      /\ \A t \in Pickup : errand'[t].bill = errand[t].bill /\ errand'[t].mark = errand[t].mark
  <2> DEFINE t == asker[q].for
             e == [errand[t] EXCEPT !.open = FALSE]
  <2>1. asker[q].at = "closing" /\ asker[q] \in AskState /\ t \in Pickup
    BY <1>1 DEF CloseErrand, AtStep, PanelTypeOK, PanelShape, AskFits, AskState
  <2>2. errand[t] \in ErrandState
    BY <1>1, <2>1 DEF PanelTypeOK, ErrandState
  <2>3. e \in ErrandState /\ e.mark = errand[t].mark /\ e.bill = errand[t].bill
    BY <2>2 DEF ErrandState
  <2>4. errand' = [errand EXCEPT ![t] = e]
    BY DEF CloseErrand
  <2>5. /\ errand' \in [Pickup -> ErrandState] /\ errand'[t] = e
        /\ \A u \in Pickup : u # t => errand'[u] = errand[u]
    BY <1>1, <2>1, <2>3, <2>4, ErrandAfter
  <2>6. UNCHANGED <<bills, coupon, prizes>> /\ UNCHANGED panelHistory
    BY DEF CloseErrand, panelHistory
  <2> QED
    BY <2>1, <2>3, <2>5, <2>6
<1>3. r \in AskState /\ AskerGoes(q, r)
  BY <1>1, <1>2 DEF CloseErrand, AtStep, Go, NoAsk, AskSteps, AskState, AskerGoes, PanelTypeOK
<1>4. /\ asker' \in [Asker -> AskState]
      /\ errand[asker[q].for].open =>
            /\ asker'[q].at = "moving" /\ asker'[q].for = asker[q].for
            /\ asker'[q].bill = asker[q].bill /\ asker'[q].cut = asker[q].cut
      /\ ~errand[asker[q].for].open =>
            /\ asker'[q].at = "free" /\ asker'[q].for = Counter
            /\ asker'[q].bill = Unbilled /\ asker'[q].cut = FALSE
      /\ \A p \in Asker : p # q => asker'[p] = asker[p]
  <2>1. /\ asker' \in [Asker -> AskState] /\ asker'[q] = r
        /\ \A p \in Asker : p # q => asker'[p] = asker[p]
    BY <1>1, <1>3, AskerAfter
  <2>2. asker[q] \in AskState
    BY <1>1 DEF PanelTypeOK, AskState
  <2>3. CASE errand[asker[q].for].open
    BY <2>1, <2>2, <2>3 DEF NoAsk, AskState
  <2>4. CASE ~errand[asker[q].for].open
    BY <2>1, <2>2, <2>4 DEF NoAsk, AskState
  <2> QED
    BY <2>1, <2>3, <2>4
<1>5. PanelTypeOK'
  BY <1>1, <1>2, <1>4 DEF panelHistory, CloseErrand, PanelTypeOK, AskState, ErrandState
<1>6. ShapeFrame
  BY <1>1, <1>2, <1>4 DEF ShapeFrame
<1>7. AskFits(q)'
  BY <1>1, <1>2, <1>4, <1>6 DEF PanelShape, ShapeFrame, AskFits, Making, Billing, AskState
<1>8. PanelShape'
  BY <1>1, <1>2, <1>4, <1>6, <1>7, ShapeStays
<1>9. MarkFrame
  BY <1>1, <1>2, <1>4 DEF MarkFrame, Behind, Marking, Making, panelHistory
<1>10. MarkInv'
  BY <1>1, <1>9, MarkStays
<1>11. FailedTold'
  BY <1>1, <1>2, <1>4 DEF FailedTold, AskState, panelHistory
<1>12. TaskFrame
  BY <1>1, <1>2, <1>4
    DEF TaskFrame, StillToMake, Behind, Entered, Marking, Making, panelHistory
<1>13. TaskBills'
  BY <1>1, <1>12, TaskStays
<1>14. PayFrame
  BY <1>1, <1>2, <1>4 DEF PayFrame, Billing, Making
<1>15. PayInv'
  BY <1>1, <1>14, PayStays
<1>16. CutFrame
  BY <1>1, <1>2, <1>4 DEF CutFrame, Making, panelHistory
<1>17. CutTold'
  BY <1>1, <1>16, CutStays
<1>18. FoundFrame
  BY <1>1, <1>2, <1>4 DEF FoundFrame, Seeks, panelHistory
<1>19. FoundKept'
  BY <1>1, <1>18, FoundStays
<1>20. PrizeFrame
  BY <1>1, <1>2, <1>4 DEF PrizeFrame, AskState, panelHistory
<1>21. PrizeKept'
  BY <1>1, <1>20, PrizeStays
<1> QED
  BY <1>5, <1>6, <1>7, <1>8, <1>9, <1>10, <1>11, <1>12, <1>13, <1>14, <1>15, <1>16, <1>17, <1>18,
       <1>19, <1>20, <1>21 DEF PanelInv, PanelBase, TaskInv, CouponInv

LEMMA MoveKeeps ==
    ASSUME PanelInv, NEW q \in Asker, Move(q)
    PROVE  PanelInv'
<1> DEFINE r == [at |-> "free", for |-> Counter, bill |-> Unbilled, cut |-> FALSE]
<1> USE PanelAssumption
<1>1. /\ PanelTypeOK /\ PanelShape /\ MarkInv /\ FailedTold /\ TaskBills /\ PayInv
      /\ CutTold /\ FoundKept /\ PrizeKept
  BY DEF PanelInv, PanelBase, TaskInv, CouponInv
<1>2. /\ UNCHANGED <<errand, coupon, prizes>>
      /\ UNCHANGED panelHistory
      /\ asker[q].at = "moving" /\ asker[q] \in AskState
      /\ bills' \in [Bill -> BillState]
      /\ \A b \in Bill : /\ bills[b].stage # "none" => bills'[b].stage # "none"
                       /\ bills'[b].for = bills[b].for /\ bills'[b].cut = bills[b].cut
                       /\ bills'[b].priced = bills[b].priced
                       /\ bills'[b].advances = bills[b].advances
  <2> DEFINE b == asker[q].bill
  <2>1. /\ UNCHANGED <<errand, coupon, prizes>> /\ UNCHANGED panelHistory
        /\ asker[q].at = "moving" /\ asker[q] \in AskState /\ b \in Bill
    BY <1>1 DEF Move, AtStep, panelHistory, PanelTypeOK, PanelShape, AskFits, AskState
  <2>2. PICK end \in {"cancelled", "picked"} : bills' = [bills EXCEPT ![b].stage = end]
    BY DEF Move, Collected
  <2> DEFINE o == [bills[b] EXCEPT !.stage = end]
  <2>3. bills[b] \in BillState
    BY <1>1, <2>1 DEF PanelTypeOK, BillState
  <2>4. /\ o \in BillState /\ o.stage # "none" /\ o.for = bills[b].for /\ o.cut = bills[b].cut
        /\ o.priced = bills[b].priced /\ o.advances = bills[b].advances
    BY <2>3 DEF BillState
  <2>5. bills' = [bills EXCEPT ![b] = o]
    BY <2>2
  <2>6. /\ bills' \in [Bill -> BillState] /\ bills'[b] = o
        /\ \A c \in Bill : c # b => bills'[c] = bills[c]
    BY <1>1, <2>1, <2>4, <2>5, BillAfter
  <2> QED
    BY <2>1, <2>4, <2>6
<1>3. r \in AskState /\ AskerGoes(q, r)
  BY <1>1, <1>2 DEF Move, Collected, AtStep, Go, NoAsk, AskSteps, AskState, AskerGoes, PanelTypeOK
<1>4. /\ asker' \in [Asker -> AskState] /\ asker'[q].at = "free"
      /\ asker'[q].for = Counter /\ asker'[q].bill = Unbilled
      /\ asker'[q].cut = FALSE
      /\ \A p \in Asker : p # q => asker'[p] = asker[p]
  <2>1. /\ asker' \in [Asker -> AskState] /\ asker'[q] = r
        /\ \A p \in Asker : p # q => asker'[p] = asker[p]
    BY <1>1, <1>3, AskerAfter
  <2>2. asker[q] \in AskState
    BY <1>1 DEF PanelTypeOK, AskState
  <2> QED
    BY <2>1, <2>2 DEF NoAsk, AskState
<1>5. PanelTypeOK'
  BY <1>1, <1>2, <1>4 DEF panelHistory, Move, PanelTypeOK, AskState, BillState
<1>6. ShapeFrame
  BY <1>1, <1>2, <1>4 DEF ShapeFrame
<1>7. AskFits(q)'
  BY <1>1, <1>2, <1>4, <1>6 DEF PanelShape, ShapeFrame, AskFits, Making, Billing, AskState
<1>8. PanelShape'
  BY <1>1, <1>2, <1>4, <1>6, <1>7, ShapeStays
<1>9. MarkFrame
  BY <1>1, <1>2, <1>4 DEF MarkFrame, Behind, Marking, Making, panelHistory
<1>10. MarkInv'
  BY <1>1, <1>9, MarkStays
<1>11. FailedTold'
  BY <1>1, <1>2, <1>4 DEF FailedTold, AskState, panelHistory
<1>12. TaskFrame
  BY <1>1, <1>2, <1>4
    DEF TaskFrame, StillToMake, Behind, Entered, Marking, Making, panelHistory
<1>13. TaskBills'
  BY <1>1, <1>12, TaskStays
<1>14. PayFrame
  BY <1>1, <1>2, <1>4 DEF PayFrame, Billing, Making
<1>15. PayInv'
  BY <1>1, <1>14, PayStays
<1>16. CutFrame
  BY <1>1, <1>2, <1>4 DEF CutFrame, Making, panelHistory
<1>17. CutTold'
  BY <1>1, <1>16, CutStays
<1>18. FoundFrame
  BY <1>1, <1>2, <1>4 DEF FoundFrame, Seeks, panelHistory
<1>19. FoundKept'
  BY <1>1, <1>18, FoundStays
<1>20. PrizeFrame
  BY <1>1, <1>2, <1>4 DEF PrizeFrame, AskState, panelHistory
<1>21. PrizeKept'
  BY <1>1, <1>20, PrizeStays
<1> QED
  BY <1>5, <1>6, <1>7, <1>8, <1>9, <1>10, <1>11, <1>12, <1>13, <1>14, <1>15, <1>16, <1>17, <1>18,
       <1>19, <1>20, <1>21 DEF PanelInv, PanelBase, TaskInv, CouponInv

LEMMA AskerDiesKeeps ==
    ASSUME PanelInv, NEW q \in Asker, AskerDies(q)
    PROVE  PanelInv'
<1> DEFINE r == [at |-> "free", for |-> Counter, bill |-> Unbilled, cut |-> FALSE]
<1> USE PanelAssumption
<1>1. /\ PanelTypeOK /\ PanelShape /\ MarkInv /\ FailedTold /\ TaskBills /\ PayInv
      /\ CutTold /\ FoundKept /\ PrizeKept
  BY DEF PanelInv, PanelBase, TaskInv, CouponInv
<1>2. /\ UNCHANGED <<errand, bills, coupon, prizes, foundBeside, judgedBeside, rewritten, unclear>>
      /\ asker[q].at # "free" /\ asker[q] \in AskState
      /\ spilt \subseteq spilt' /\ spilt' \subseteq Bill /\ shut \subseteq shut'
      /\ shut' \subseteq Pickup
      /\ asker[q].at \in {"made", "redeeming"} => asker[q].bill \in spilt'
      /\ asker[q].for \in Pickup /\ errand[asker[q].for].mark => asker[q].for \in shut'
  BY <1>1 DEF AskerDies, PanelTypeOK, PanelShape, AskFits, Billing, Making, AskState
<1>3. r \in AskState /\ AskerGoes(q, r)
  BY <1>1, <1>2 DEF AskerDies, AtStep, Go, NoAsk, AskSteps, AskState, AskerGoes, PanelTypeOK
<1>4. /\ asker' \in [Asker -> AskState] /\ asker'[q].at = "free"
      /\ asker'[q].for = Counter /\ asker'[q].bill = Unbilled
      /\ asker'[q].cut = FALSE
      /\ \A p \in Asker : p # q => asker'[p] = asker[p]
  <2>1. /\ asker' \in [Asker -> AskState] /\ asker'[q] = r
        /\ \A p \in Asker : p # q => asker'[p] = asker[p]
    BY <1>1, <1>3, AskerAfter
  <2>2. asker[q] \in AskState
    BY <1>1 DEF PanelTypeOK, AskState
  <2> QED
    BY <2>1, <2>2 DEF NoAsk, AskState
<1>5. PanelTypeOK'
  BY <1>1, <1>2, <1>4 DEF panelHistory, AskerDies, Hitch, PanelTypeOK, AskState
<1>6. ShapeFrame
  BY <1>1, <1>2, <1>4 DEF ShapeFrame
<1>7. AskFits(q)'
  BY <1>1, <1>2, <1>4, <1>6 DEF PanelShape, ShapeFrame, AskFits, Making, Billing, AskState
<1>8. PanelShape'
  BY <1>1, <1>2, <1>4, <1>6, <1>7, ShapeStays
<1>9. MarkInv'
  <2>1. \A p \in Asker, t \in Pickup : Behind(p, t) /\ p # q => Behind(p, t)'
    BY <1>2, <1>4 DEF Behind, Marking, Making
  <2>2. \A t \in Pickup : Behind(q, t) => t = asker[q].for
    BY DEF Behind
  <2> QED
    BY <1>1, <1>2, <2>1, <2>2 DEF MarkInv
<1>10. FailedTold'
  BY <1>1, <1>2, <1>4 DEF FailedTold, AskState, panelHistory
<1>11. TaskBills'
  <2>1. TaskFrame
    BY <1>2, <1>4 DEF TaskFrame, StillToMake, Behind, Entered, Marking, Making
  <2> QED
    BY <1>1, <2>1, TaskStays
<1>12. PayFrame
  BY <1>1, <1>2, <1>4 DEF PayFrame, Billing, Making
<1>13. PayInv'
  BY <1>1, <1>12, PayStays
<1>14. CutFrame
  BY <1>1, <1>2, <1>4 DEF CutFrame, Making, panelHistory
<1>15. CutTold'
  BY <1>1, <1>14, CutStays
<1>16. FoundFrame
  BY <1>1, <1>2, <1>4 DEF FoundFrame, Seeks, panelHistory
<1>17. FoundKept'
  BY <1>1, <1>16, FoundStays
<1>18. PrizeFrame
  BY <1>1, <1>2, <1>4 DEF PrizeFrame, AskState, panelHistory
<1>19. PrizeKept'
  BY <1>1, <1>18, PrizeStays
<1> QED
  BY <1>5, <1>6, <1>7, <1>8, <1>9, <1>10, <1>11, <1>12, <1>13, <1>14, <1>15, <1>16, <1>17, <1>18,
       <1>19 DEF PanelInv, PanelBase, TaskInv, CouponInv

LEMMA ButtonKeeps ==
    ASSUME PanelInv, NEW t \in Pickup, Button(t)
    PROVE  PanelInv'
<1> USE PanelAssumption
<1>1. /\ PanelTypeOK /\ PanelShape /\ MarkInv /\ FailedTold /\ TaskBills /\ PayInv
      /\ CutTold /\ FoundKept /\ PrizeKept
  BY DEF PanelInv, PanelBase, TaskInv, CouponInv
<1>2. /\ UNCHANGED <<coupon, prizes>>
      /\ UNCHANGED panelHistory
      /\ errand' \in [Pickup -> ErrandState] /\ bills' \in [Bill -> BillState]
      /\ \A u \in Pickup : errand'[u].bill = errand[u].bill /\ errand'[u].mark = errand[u].mark
      /\ \A b \in Bill : /\ bills[b].stage # "none" => bills'[b].stage # "none"
                       /\ bills'[b].for = bills[b].for /\ bills'[b].cut = bills[b].cut
                       /\ bills'[b].priced = bills[b].priced
                       /\ bills'[b].advances = bills[b].advances
  <2> DEFINE e == [errand[t] EXCEPT !.open = FALSE]
             b == errand[t].bill
             o == [bills[b] EXCEPT !.stage = IF @ = "cancelled" THEN @ ELSE "picked"]
  <2>1. errand[t] \in ErrandState
    BY <1>1 DEF PanelTypeOK, ErrandState
  <2>2. e \in ErrandState /\ e.mark = errand[t].mark /\ e.bill = errand[t].bill
    BY <2>1 DEF ErrandState
  <2>3. errand' = [errand EXCEPT ![t] = e]
    BY DEF Button
  <2>4. /\ errand' \in [Pickup -> ErrandState] /\ errand'[t] = e
        /\ \A u \in Pickup : u # t => errand'[u] = errand[u]
    BY <1>1, <2>2, <2>3, ErrandAfter
  <2>5. UNCHANGED <<coupon, prizes>> /\ UNCHANGED panelHistory
    BY DEF Button, panelHistory
  <2>6. CASE b = Unbilled
    <3>1. bills' = bills /\ bills \in [Bill -> BillState]
      BY <1>1, <2>6 DEF Button, PanelTypeOK, BillState
    <3> QED
      BY <2>2, <2>4, <2>5, <3>1
  <2>7. CASE b # Unbilled
    <3>1. b \in Bill /\ bills[b] \in BillState
      BY <1>1, <2>1, <2>7 DEF PanelTypeOK, ErrandState, BillState
    <3>2. /\ o \in BillState /\ o.stage # "none" /\ o.for = bills[b].for /\ o.cut = bills[b].cut
          /\ o.priced = bills[b].priced /\ o.advances = bills[b].advances
      BY <3>1 DEF BillState
    <3>3. bills' = [bills EXCEPT ![b] = o]
      BY <2>7 DEF Button, Collected
    <3>4. /\ bills' \in [Bill -> BillState] /\ bills'[b] = o
          /\ \A c \in Bill : c # b => bills'[c] = bills[c]
      BY <1>1, <3>1, <3>2, <3>3, BillAfter
    <3> QED
      BY <2>2, <2>4, <2>5, <3>2, <3>4
  <2> QED
    BY <2>6, <2>7
<1>4. asker' = asker
  BY DEF Button
<1>5. PanelTypeOK'
  BY <1>1, <1>2, <1>4 DEF panelHistory, Button, Hitch, PanelTypeOK, BillState, ErrandState
<1>6. PanelShape'
  BY <1>1, <1>2, <1>4 DEF PanelShape, AskFits
<1>7. MarkFrame
  BY <1>1, <1>2, <1>4 DEF MarkFrame, Behind, Marking, Making, panelHistory
<1>8. MarkInv'
  BY <1>1, <1>7, MarkStays
<1>9. FailedTold'
  BY <1>1, <1>2, <1>4 DEF FailedTold, AskState, panelHistory
<1>10. TaskFrame
  BY <1>1, <1>2, <1>4
    DEF TaskFrame, StillToMake, Behind, Entered, Marking, Making, panelHistory
<1>11. TaskBills'
  BY <1>1, <1>10, TaskStays
<1>12. PayFrame
  BY <1>1, <1>2, <1>4 DEF PayFrame, Billing, Making
<1>13. PayInv'
  BY <1>1, <1>12, PayStays
<1>14. CutFrame
  BY <1>1, <1>2, <1>4 DEF CutFrame, Making, panelHistory
<1>15. CutTold'
  BY <1>1, <1>14, CutStays
<1>16. FoundFrame
  BY <1>1, <1>2, <1>4 DEF FoundFrame, Seeks, panelHistory
<1>17. FoundKept'
  BY <1>1, <1>16, FoundStays
<1>18. PrizeFrame
  BY <1>1, <1>2, <1>4 DEF PrizeFrame, AskState, panelHistory
<1>19. PrizeKept'
  BY <1>1, <1>18, PrizeStays
<1> QED
  BY <1>5, <1>6, <1>7, <1>8, <1>9, <1>10, <1>11, <1>12, <1>13, <1>14, <1>15, <1>16, <1>17, <1>18,
       <1>19 DEF PanelInv, PanelBase, TaskInv, CouponInv

LEMMA NoteReplyKeeps ==
    ASSUME PanelInv, NEW t \in Pickup, NoteReply(t)
    PROVE  PanelInv'
<1> USE PanelAssumption
<1>1. /\ PanelTypeOK /\ PanelShape /\ MarkInv /\ FailedTold /\ TaskBills /\ PayInv
      /\ CutTold /\ FoundKept /\ PrizeKept
  BY DEF PanelInv, PanelBase, TaskInv, CouponInv
<1>2. /\ UNCHANGED <<bills, coupon, prizes, foundBeside, judgedBeside, spilt, unclear, shut>>
      /\ errand' \in [Pickup -> ErrandState] /\ ~errand'[t].mark
      /\ \A u \in Pickup : errand'[u].bill = errand[u].bill
      /\ \A u \in Pickup : u # t => errand'[u] = errand[u]
      /\ rewritten' \in [Pickup -> Nat] /\ rewritten'[t] = rewritten[t] + 1
      /\ \A u \in Pickup : u # t => rewritten'[u] = rewritten[u]
  <2> DEFINE e == [errand[t] EXCEPT !.mark = FALSE]
  <2>1. errand[t] \in ErrandState
    BY <1>1 DEF PanelTypeOK, ErrandState
  <2>2. e \in ErrandState /\ ~e.mark /\ e.bill = errand[t].bill
    BY <2>1 DEF ErrandState
  <2>3. errand' = [errand EXCEPT ![t] = e]
    BY DEF NoteReply
  <2>4. /\ errand' \in [Pickup -> ErrandState] /\ errand'[t] = e
        /\ \A u \in Pickup : u # t => errand'[u] = errand[u]
    BY <1>1, <2>2, <2>3, ErrandAfter
  <2>5. /\ rewritten' \in [Pickup -> Nat] /\ rewritten'[t] = rewritten[t] + 1
        /\ \A u \in Pickup : u # t => rewritten'[u] = rewritten[u]
    BY <1>1 DEF NoteReply, PanelTypeOK
  <2> QED
    BY <2>2, <2>4, <2>5 DEF NoteReply
<1>4. asker' = asker
  BY DEF NoteReply
<1>5. PanelTypeOK'
  BY <1>1, <1>2, <1>4 DEF NoteReply, Hitch, PanelTypeOK, ErrandState
<1>6. PanelShape'
  BY <1>1, <1>2, <1>4 DEF PanelShape, AskFits
<1>7. MarkFrame
  BY <1>1, <1>2, <1>4 DEF MarkFrame, Behind, Marking, Making
<1>8. MarkInv'
  BY <1>1, <1>7, MarkStays
<1>9. FailedTold'
  BY <1>1, <1>2, <1>4 DEF FailedTold, AskState
<1>10. \A u \in Pickup : TaskMoves(u)
  <2>1. TaskReplied(t)
    BY <1>2, <1>4 DEF TaskReplied, Orders, Coming, StillToMake, Behind
  <2>2. \A u \in Pickup : u # t => TaskRests(u)
    BY <1>2, <1>4 DEF TaskRests, Orders, Coming, StillToMake, Behind, Entered
  <2> QED
    BY <2>1, <2>2 DEF TaskMoves
<1>11. TaskBills'
  BY <1>1, <1>2, <1>10, TasksMove
<1>12. PayFrame
  BY <1>1, <1>2, <1>4 DEF PayFrame, Billing, Making
<1>13. PayInv'
  BY <1>1, <1>12, PayStays
<1>14. CutFrame
  BY <1>1, <1>2, <1>4 DEF CutFrame, Making
<1>15. CutTold'
  BY <1>1, <1>14, CutStays
<1>16. FoundFrame
  BY <1>1, <1>2, <1>4 DEF FoundFrame, Seeks
<1>17. FoundKept'
  BY <1>1, <1>16, FoundStays
<1>18. PrizeFrame
  BY <1>1, <1>2, <1>4 DEF PrizeFrame, AskState
<1>19. PrizeKept'
  BY <1>1, <1>18, PrizeStays
<1> QED
  BY <1>5, <1>6, <1>7, <1>8, <1>9, <1>10, <1>11, <1>12, <1>13, <1>14, <1>15, <1>16, <1>17, <1>18,
       <1>19 DEF PanelInv, PanelBase, TaskInv, CouponInv

LEMMA CancelBillKeeps ==
    ASSUME PanelInv, NEW b \in Bill, CancelBill(b)
    PROVE  PanelInv'
<1> USE PanelAssumption
<1>1. /\ PanelTypeOK /\ PanelShape /\ MarkInv /\ FailedTold /\ TaskBills /\ PayInv
      /\ CutTold /\ FoundKept /\ PrizeKept
  BY DEF PanelInv, PanelBase, TaskInv, CouponInv
<1>2. /\ UNCHANGED <<errand, coupon, prizes>>
      /\ UNCHANGED panelHistory
      /\ bills' \in [Bill -> BillState]
      /\ \A c \in Bill : /\ bills[c].stage # "none" => bills'[c].stage # "none"
                       /\ bills'[c].for = bills[c].for /\ bills'[c].cut = bills[c].cut
                       /\ bills'[c].priced = bills[c].priced
                       /\ bills'[c].advances = bills[c].advances
  BY <1>1 DEF CancelBill, panelHistory, PanelTypeOK, BillState
<1>4. asker' = asker
  BY DEF CancelBill
<1>5. PanelTypeOK'
  BY <1>1, <1>2, <1>4 DEF panelHistory, CancelBill, Hitch, PanelTypeOK, BillState
<1>6. PanelShape'
  BY <1>1, <1>2, <1>4 DEF PanelShape, AskFits
<1>7. MarkFrame
  BY <1>1, <1>2, <1>4 DEF MarkFrame, Behind, Marking, Making, panelHistory
<1>8. MarkInv'
  BY <1>1, <1>7, MarkStays
<1>9. FailedTold'
  BY <1>1, <1>2, <1>4 DEF FailedTold, AskState, panelHistory
<1>10. TaskFrame
  BY <1>1, <1>2, <1>4
    DEF TaskFrame, StillToMake, Behind, Entered, Marking, Making, panelHistory
<1>11. TaskBills'
  BY <1>1, <1>10, TaskStays
<1>12. PayFrame
  BY <1>1, <1>2, <1>4 DEF PayFrame, Billing, Making
<1>13. PayInv'
  BY <1>1, <1>12, PayStays
<1>14. CutFrame
  BY <1>1, <1>2, <1>4 DEF CutFrame, Making, panelHistory
<1>15. CutTold'
  BY <1>1, <1>14, CutStays
<1>16. FoundFrame
  BY <1>1, <1>2, <1>4 DEF FoundFrame, Seeks, panelHistory
<1>17. FoundKept'
  BY <1>1, <1>16, FoundStays
<1>18. PrizeFrame
  BY <1>1, <1>2, <1>4 DEF PrizeFrame, AskState, panelHistory
<1>19. PrizeKept'
  BY <1>1, <1>18, PrizeStays
<1> QED
  BY <1>5, <1>6, <1>7, <1>8, <1>9, <1>10, <1>11, <1>12, <1>13, <1>14, <1>15, <1>16, <1>17, <1>18,
       <1>19 DEF PanelInv, PanelBase, TaskInv, CouponInv

LEMMA TakeBackKeeps ==
    ASSUME PanelInv, TakeBack
    PROVE  PanelInv'
<1> USE PanelAssumption
<1>1. /\ PanelTypeOK /\ PanelShape /\ MarkInv /\ FailedTold /\ TaskBills /\ PayInv
      /\ CutTold /\ FoundKept /\ PrizeKept
  BY DEF PanelInv, PanelBase, TaskInv, CouponInv
<1>2. /\ UNCHANGED <<errand, bills, prizes>>
      /\ UNCHANGED panelHistory
      /\ coupon'.used = coupon.used
      /\ coupon' \in [active: BOOLEAN, used: SUBSET Bill]
  BY <1>1 DEF TakeBack, panelHistory, PanelTypeOK
<1>4. asker' = asker
  BY DEF TakeBack
<1>5. PanelTypeOK'
  <2>1. asks' = asks /\ hitches' \in 0 .. MaxHitches
    BY <1>1 DEF TakeBack, Hitch, PanelTypeOK
  <2> QED
    BY <1>1, <1>2, <1>4, <2>1 DEF PanelTypeOK, panelHistory
<1>6. PanelShape'
  BY <1>1, <1>2, <1>4 DEF PanelShape, AskFits
<1>7. MarkFrame
  BY <1>1, <1>2, <1>4 DEF MarkFrame, Behind, Marking, Making, panelHistory
<1>8. MarkInv'
  BY <1>1, <1>7, MarkStays
<1>9. FailedTold'
  BY <1>1, <1>2, <1>4 DEF FailedTold, AskState, panelHistory
<1>10. TaskFrame
  BY <1>1, <1>2, <1>4
    DEF TaskFrame, StillToMake, Behind, Entered, Marking, Making, panelHistory
<1>11. TaskBills'
  BY <1>1, <1>10, TaskStays
<1>12. PayFrame
  BY <1>1, <1>2, <1>4 DEF PayFrame, Billing, Making
<1>13. PayInv'
  BY <1>1, <1>12, PayStays
<1>14. CutFrame
  BY <1>1, <1>2, <1>4 DEF CutFrame, Making, panelHistory
<1>15. CutTold'
  BY <1>1, <1>14, CutStays
<1>16. FoundFrame
  BY <1>1, <1>2, <1>4 DEF FoundFrame, Seeks, panelHistory
<1>17. FoundKept'
  BY <1>1, <1>16, FoundStays
<1>18. PrizeFrame
  BY <1>1, <1>2, <1>4 DEF PrizeFrame, AskState, panelHistory
<1>19. PrizeKept'
  BY <1>1, <1>18, PrizeStays
<1> QED
  BY <1>5, <1>6, <1>7, <1>8, <1>9, <1>10, <1>11, <1>12, <1>13, <1>14, <1>15, <1>16, <1>17, <1>18,
       <1>19 DEF PanelInv, PanelBase, TaskInv, CouponInv

LEMMA PanelRests ==
    ASSUME PanelInv, UNCHANGED panelVars
    PROVE  PanelInv'
<1>1. PanelTypeOK' /\ PanelShape'
  BY DEF PanelInv, PanelBase, panelVars, PanelTypeOK, PanelShape, AskFits
<1>2. MarkInv' /\ TaskInv'
  BY DEF PanelInv, panelVars, MarkInv, Behind, TaskInv, FailedTold, TaskBills, Orders, Coming,
         StillToMake, Entered
<1>3. PayInv'
  BY DEF PanelInv, panelVars, PayInv, LinkedMade, LinkedOne, MadeUnlinked, LockedLinked, LockedOne,
         PricedFirst, PayerOne, UnpaidYet, Pays
<1>4. CouponInv'
  BY DEF PanelInv, panelVars, CouponInv, CutTold, FoundKept, PrizeKept, CutBills, Seekers,
         Seeks, Earners
<1> QED
  BY <1>1, <1>2, <1>3, <1>4 DEF PanelInv, PanelBase

LEMMA PanelStep ==
    ASSUME PanelInv, [PanelNext]_panelVars
    PROVE  PanelInv'
<1>1. ASSUME NEW q \in Asker, NEW deal \in BOOLEAN, AtCounter(q, deal)
      PROVE  PanelInv'
  BY <1>1, AtCounterKeeps
<1>2. ASSUME NEW q \in Asker, NEW deal \in BOOLEAN, NEW t \in Pickup,
             Mark(q, t, deal) \/ LockLinked(q, t, deal)
      PROVE  PanelInv'
  BY <1>2, MarkKeeps, LockLinkedKeeps
<1>3. ASSUME NEW q \in Asker,
             WriteBill(q) \/ CheckCoupon(q) \/ Redeem(q) \/ Judge(q) \/ Earn(q)
      PROVE  PanelInv'
  BY <1>3, WriteBillKeeps, CheckCouponKeeps, RedeemKeeps, JudgeKeeps, EarnKeeps
<1>4. ASSUME NEW q \in Asker, NEW b \in Bill, Insert(q, b)
      PROVE  PanelInv'
  BY <1>4, InsertKeeps
<1>5. ASSUME NEW q \in Asker, Fail(q) \/ Unmark(q) \/ LinkBill(q)
      PROVE  PanelInv'
  BY <1>5, FailKeeps, UnmarkKeeps, LinkBillKeeps
<1>6. ASSUME NEW q \in Asker, TakeAdvance(q) \/ CloseErrand(q) \/ Move(q) \/ AskerDies(q)
      PROVE  PanelInv'
  BY <1>6, TakeAdvanceKeeps, CloseErrandKeeps, MoveKeeps, AskerDiesKeeps
<1>7. ASSUME \/ \E t \in Pickup : Button(t) \/ NoteReply(t)
             \/ \E b \in Bill : CancelBill(b)
             \/ TakeBack
      PROVE  PanelInv'
  BY <1>7, ButtonKeeps, NoteReplyKeeps, CancelBillKeeps, TakeBackKeeps
<1>8. CASE UNCHANGED panelVars
  BY <1>8, PanelRests
<1> QED
  BY <1>1, <1>2, <1>3, <1>4, <1>5, <1>6, <1>7, <1>8 DEF PanelNext

LEMMA PanelBegins ==
    ASSUME PanelInit
    PROVE  PanelInv
<1> USE PanelAssumption DEF PanelInit
<1>1. /\ \A b \in Bill : ~bills[b].priced /\ ~bills[b].cut /\ bills[b].advances = 0
      /\ \A t \in Pickup : errand[t].bill = PickupBill[t] /\ ~errand[t].mark
      /\ \A q \in Asker : asker[q] = NoAsk
  OBVIOUS
<1>2. \A b \in Bill : /\ bills[b].for \in Pickup \cup {Counter}
                      /\ bills[b].for \in Pickup => PickupBill[bills[b].for] = b
  OBVIOUS
<1>3. \A t \in Pickup : PickupBill[t] \in Bill => bills[PickupBill[t]].stage = "assigned"
  OBVIOUS
<1>4. PanelTypeOK
  <2>1. errand \in [Pickup -> ErrandState]
    BY DEF ErrandState
  <2>2. bills \in [Bill -> BillState]
    BY <1>2 DEF BillState
  <2>3. asker \in [Asker -> AskState]
    BY DEF AskState, NoAsk, AskSteps
  <2>4. coupon \in [active: BOOLEAN, used: SUBSET Bill]
    OBVIOUS
  <2>5. prizes \in Nat /\ asks \in 0 .. MaxAsked /\ hitches \in 0 .. MaxHitches
    OBVIOUS
  <2>6. /\ {foundBeside, judgedBeside} \subseteq Nat /\ rewritten \in [Pickup -> Nat]
        /\ spilt \subseteq Bill /\ {unclear, shut} \subseteq SUBSET Pickup
    OBVIOUS
  <2> QED
    BY ONLY <2>1, <2>2, <2>3, <2>4, <2>5, <2>6 DEF PanelTypeOK, ErrandState, BillState, AskState
<1>5. PanelShape
  BY <1>1 DEF PanelShape, AskFits, NoAsk, Billing, Making
<1>6. MarkInv /\ TaskInv
  <2>1. MarkInv /\ FailedTold
    BY <1>1 DEF MarkInv, FailedTold, NoAsk
  <2>2. TaskBills
    <3> SUFFICES ASSUME NEW t \in Pickup
                 PROVE  Cardinality(Orders(t)) + Cardinality(Coming(t))
                            <= OneMoreIf(rewritten[t], Entered(t))
      BY DEF TaskBills
    <3>1. Coming(t) = {} /\ rewritten[t] = 0
      BY <1>1 DEF Coming, StillToMake, Behind, Marking, Making, NoAsk
    <3>2. CASE PickupBill[t] = Unbilled
      <4>1. Orders(t) = {}
        BY <1>2, <3>2 DEF Orders
      <4> QED
        BY <3>1, <4>1, FS_EmptySet DEF OneMoreIf
    <3>3. CASE PickupBill[t] # Unbilled
      <4>1. Orders(t) \subseteq {PickupBill[t]} /\ Entered(t)
        BY <1>1, <1>2, <3>3 DEF Orders, Entered
      <4>2. IsFiniteSet({PickupBill[t]}) /\ Cardinality({PickupBill[t]}) = 1
        BY FS_Singleton
      <4>3. Cardinality(Orders(t)) \in Nat /\ Cardinality(Orders(t)) <= 1
        BY <4>1, <4>2, Smaller
      <4> QED
        BY <3>1, <4>1, <4>3, FS_EmptySet DEF OneMoreIf
    <3> QED
      BY <3>2, <3>3
  <2> QED
    BY <2>1, <2>2 DEF TaskInv
<1>7. PayInv
  BY <1>1, <1>3 DEF PayInv, LinkedMade, LinkedOne, MadeUnlinked, LockedLinked, LockedOne,
                    PricedFirst, PayerOne, UnpaidYet, Pays, Billing, Making, NoAsk
<1>8. CouponInv
  <2>1. CutBills = {} /\ Seekers = {} /\ Earners = {} /\ CutTold
    BY <1>1 DEF CutBills, Seekers, Seeks, Earners, CutTold, NoAsk
  <2>2. Cardinality({}) = 0 /\ prizes = 0 /\ foundBeside = 0 /\ judgedBeside = 0
    BY FS_EmptySet
  <2> QED
    BY ONLY <2>1, <2>2 DEF CouponInv, FoundKept, PrizeKept
<1> QED
  BY <1>4, <1>5, <1>6, <1>7, <1>8 DEF PanelInv, PanelBase

LEMMA PanelAlways == PanelSpec => []PanelInv
<1>1. PanelInv /\ [PanelNext]_panelVars => PanelInv'
  BY PanelStep
<1> QED
  BY PanelBegins, <1>1, PTL DEF PanelSpec

LEMMA BilledOnce ==
    ASSUME PanelInv
    PROVE  PickupBilledOnce
<1>1. MarkInv /\ TaskBills /\ UnpaidYet /\ PanelTypeOK
  BY DEF PanelInv, PanelBase, TaskInv, PayInv
<1>2. ASSUME NEW t \in Pickup \ (unclear \cup shut)
      PROVE  Cardinality({b \in Bill : bills[b].for = t}) <= 1 + rewritten[t]
  <2>1. /\ rewritten[t] \in Nat /\ IsFiniteSet(Orders(t)) /\ IsFiniteSet(Coming(t))
        /\ Cardinality(Orders(t)) + Cardinality(Coming(t)) <= OneMoreIf(rewritten[t], Entered(t))
    BY <1>1, PanelFinite DEF PanelTypeOK, TaskBills
  <2>2. Cardinality(Orders(t)) \in Nat /\ Cardinality(Coming(t)) \in Nat
    BY <2>1, FS_CardinalityType
  <2>3. Cardinality(Orders(t)) <= 1 + rewritten[t]
    BY <2>1, <2>2 DEF OneMoreIf
  <2> QED
    BY <2>3 DEF Orders
<1>3. \A b \in Bill : bills[b].advances <= 1
  BY <1>1 DEF UnpaidYet
<1>4. \A t \in Pickup \ shut : errand[t].mark =>
    \E q \in Asker : asker[q].at # "free" /\ asker[q].for = t
  BY <1>1 DEF MarkInv, Behind, Marking, Making
<1> QED
  BY <1>2, <1>3, <1>4 DEF PickupBilledOnce

LEMMA SpentOnce ==
    ASSUME PanelInv
    PROVE  RewardSpentOnce
<1>1. FoundKept /\ PrizeKept /\ PanelTypeOK
  BY DEF PanelInv, PanelBase, CouponInv
<1>2. /\ Cardinality(CutBills) \in Nat /\ Cardinality(Seekers) \in Nat
      /\ Cardinality(Earners) \in Nat
      /\ foundBeside \in Nat /\ judgedBeside \in Nat /\ prizes \in Nat
  BY <1>1, PanelFinite, FS_CardinalityType DEF PanelTypeOK
<1>3. Cardinality(CutBills) <= 1 + foundBeside /\ prizes <= 1 + judgedBeside
  BY <1>1, <1>2 DEF FoundKept, PrizeKept
<1> QED
  BY <1>3 DEF RewardSpentOnce, CutBills

\* Requests, bills and tasks of the panel keep their types.
THEOREM PanelTyped == PanelSpec => []PanelTypeOK
<1>1. PanelInv => PanelTypeOK
  BY DEF PanelInv, PanelBase
<1> QED
  BY PanelAlways, <1>1, PTL

\* create_bill of the staff panel bills a pickup once and once more for each
\* staff reply that took its mark away, takes one advance for an order, and
\* gives a coupon and a reward once and once more for each request that judged
\* them beside another; pickups whose request died or was told of a failure
\* that was none, and bills whose redemption was never written, are left out.
THEOREM PanelKept == PanelSpec => []PanelHeld
<1>1. PanelInv => PanelHeld
  BY BilledOnce, SpentOnce DEF PanelHeld
<1> QED
  BY PanelAlways, <1>1, PTL

----------------------------------------------------------------------------
(* Numbers.                                                                *)

\* A finite set of numbers has a greatest.
LEMMA GreatestOfFinite ==
    ASSUME NEW n \in Nat, NEW S \in SUBSET (1..n), S # {}
    PROVE  \E m \in S : \A x \in S : x <= m
<1> DEFINE Above(m) == {y \in S : m < y}
           Aboves == {Above(m) : m \in S}
<1>1. IsFiniteSet(S)
  <2>1. IsFiniteSet(1..n) BY FS_Interval
  <2> QED BY <2>1, FS_Subset
<1>2. IsWellFoundedOn(StrictSubsetOrdering(S), SUBSET S)
  BY <1>1, FS_StrictSubsetOrderingWellFounded, FS_FiniteSubsetsOfFinite
<1>3. Aboves \subseteq SUBSET S /\ Aboves # {} OBVIOUS
<1>4. PICK A \in Aboves : \A B \in Aboves : <<B, A>> \notin StrictSubsetOrdering(S)
  BY <1>2, <1>3, WFMin
<1>5. PICK m \in S : A = Above(m) OBVIOUS
<1>6. Above(m) = {}
  <2> SUFFICES ASSUME NEW y \in Above(m) PROVE FALSE
    OBVIOUS
  <2>1. Above(y) \subseteq Above(m) /\ Above(y) # Above(m)
    <3>1. y \in S /\ m < y /\ S \subseteq Int OBVIOUS
    <3>2. y \in Above(m) /\ y \notin Above(y) BY <3>1
    <3>3. \A z \in S : y < z => m < z BY <3>1
    <3> QED BY <3>2, <3>3
  <2>2. Above(y) \in Aboves OBVIOUS
  <2>3. <<Above(y), Above(m)>> \in StrictSubsetOrdering(S)
    BY <2>1 DEF StrictSubsetOrdering
  <2> QED BY <1>4, <1>5, <2>2, <2>3
<1> QED BY <1>6

----------------------------------------------------------------------------
(* SelfOrder.                                                              *)

SelfSpec == SelfInit /\ [][SelfNext]_selfVars

DraftOf(n) == [list: List, number: 1..n]
RowOf(n)   == [list: List, draft: 0..n, since: SUBSET Nat, made: BOOLEAN, recent: BOOLEAN]
TapOf(n, m) == [at: {"idle", "recent", "create"}, list: List \cup {{}}, draft: 0..n,
                since: SUBSET Nat, row: 0..m]

(***************************************************************************)
(* The inductive invariant.  A draft waits under a code, then is with one  *)
(* request that took it, then on one row of the orders, and never back.  A *)
(* request only comes after orders that were made, and each of its list    *)
(* was, when the request compared, followed by an order of another list.   *)
(***************************************************************************)
Stored == {i \in DOMAIN web : web[i].made}
Drafted(q) == tap[q].draft # ByLink

TakenOut  == \A q \in Tap : Drafted(q) =>
                /\ tap[q].at = "recent"
                /\ \A c \in DOMAIN drafts : drafts[c].number # tap[q].draft
                /\ \A i \in DOMAIN web : web[i].draft # tap[q].draft
TakenOnce == \A p, q \in Tap : Drafted(p) /\ tap[p].draft = tap[q].draft => p = q
UsedUp    == \A i \in DOMAIN web : web[i].draft # ByLink =>
                \A c \in DOMAIN drafts : drafts[c].number # web[i].draft
Numbered  == \A c, d \in DOMAIN drafts : drafts[c].number = drafts[d].number => c = d
RowOnce   == \A i, j \in DOMAIN web : web[i].draft = web[j].draft /\ web[i].draft # ByLink => i = j
ListedTap == \A q \in Tap : tap[q].at = "recent" => tap[q].list \in List
RowBegun  == \A q \in Tap : tap[q].at = "create" => tap[q].row \in DOMAIN web
SinceMade == /\ \A q \in Tap : tap[q].since \subseteq Stored
             /\ \A j \in DOMAIN web : web[j].since \subseteq Stored
Foreseen  == \A i, j \in DOMAIN web :
                /\ web[i].list = web[j].list
                /\ web[i].recent /\ i \in web[j].since
                => \E k \in i + 1..j - 1 : web[k].made /\ web[k].list # web[i].list

DraftsInv == TakenOut /\ TakenOnce /\ UsedUp /\ Numbered /\ RowOnce
ListsInv  == ListedTap /\ RowBegun /\ SinceMade /\ Foreseen
SelfInv   == SelfTypeOK /\ DraftsInv /\ ListsInv

LEMMA SelfTypes ==
    ASSUME SelfTypeOK
    PROVE  /\ issued \in Nat /\ issued <= MaxDrafts /\ upsets \in 0..MaxUpsets
           /\ web \in Seq(RowOf(issued)) /\ Len(web) \in Nat /\ Len(web) <= MaxWebOrders
           /\ DOMAIN web = 1..Len(web) /\ \A i \in 1..Len(web) : web[i] \in RowOf(issued)
           /\ tap \in [Tap -> TapOf(issued, Len(web))]
           /\ DOMAIN drafts \subseteq Code /\ drafts \in [DOMAIN drafts -> DraftOf(issued)]
<1>1. web \in Seq(RowOf(issued)) /\ issued \in Nat /\ issued <= MaxDrafts
  BY SelfOrderAssumption DEF SelfTypeOK, RowOf
<1>2. /\ Len(web) \in Nat /\ DOMAIN web = 1..Len(web)
      /\ web \in [1..Len(web) -> RowOf(issued)]
  BY <1>1, LenProperties
<1> QED BY <1>1, <1>2 DEF SelfTypeOK, TapOf, DraftOf

\* The types back together.
LEMMA SelfTyped ==
    ASSUME issued \in 0..MaxDrafts, upsets \in 0..MaxUpsets, DOMAIN drafts \subseteq Code,
           web \in Seq(RowOf(issued)), Len(web) <= MaxWebOrders,
           tap \in [Tap -> TapOf(issued, Len(web))], drafts \in [DOMAIN drafts -> DraftOf(issued)]
    PROVE  SelfTypeOK
  BY DEF SelfTypeOK, RowOf, TapOf, DraftOf

\* What a request leaves when it ends.
LEMMA UntappedTyped ==
    ASSUME NEW n \in Nat, NEW m \in Nat
    PROVE  Untapped \in TapOf(n, m)
  BY DEF Untapped, TapOf, ByLink

\* A request that comes: by a link, or with the draft it took.
LEMMA ComesKeeps ==
    ASSUME SelfInv, NEW q \in Tap, NEW l \in List, NEW n, Comes(q, l, n),
           UNCHANGED <<issued, web, upsets>>,
           \/ n = ByLink /\ UNCHANGED drafts
           \/ \E c \in DOMAIN drafts : n = drafts[c].number /\ drafts' = AfterTake(c)
    PROVE  SelfInv'
<1> DEFINE t == [at |-> "recent", list |-> l, draft |-> n, row |-> 0, since |-> Stored]
<1>1. /\ issued \in Nat /\ issued <= MaxDrafts /\ upsets \in 0..MaxUpsets
      /\ web \in Seq(RowOf(issued)) /\ Len(web) \in Nat /\ Len(web) <= MaxWebOrders
      /\ DOMAIN web = 1..Len(web) /\ \A i \in 1..Len(web) : web[i] \in RowOf(issued)
      /\ tap \in [Tap -> TapOf(issued, Len(web))]
      /\ DOMAIN drafts \subseteq Code /\ drafts \in [DOMAIN drafts -> DraftOf(issued)]
  BY SelfTypes DEF SelfInv
<1>2. /\ drafts' \in [DOMAIN drafts' -> DraftOf(issued)] /\ DOMAIN drafts' \subseteq DOMAIN drafts
      /\ \A c \in DOMAIN drafts' : drafts'[c] = drafts[c]
      /\ n \in 0..issued
  <2>1. CASE n = ByLink /\ UNCHANGED drafts BY <1>1, <2>1 DEF ByLink
  <2>2. ASSUME NEW c \in DOMAIN drafts, n = drafts[c].number, drafts' = AfterTake(c)
        PROVE  /\ drafts' \in [DOMAIN drafts' -> DraftOf(issued)]
               /\ DOMAIN drafts' \subseteq DOMAIN drafts
               /\ \A d \in DOMAIN drafts' : drafts'[d] = drafts[d]
               /\ n \in 0..issued
    <3>1. n \in 0..issued BY <1>1, <2>2 DEF DraftOf
    <3> QED BY <1>1, <2>2, <3>1 DEF AfterTake, Without
  <2> QED BY <2>1, <2>2
<1>3. n # ByLink => /\ \A c \in DOMAIN drafts' : drafts'[c].number # n
                    /\ \A i \in DOMAIN web : web[i].draft # n
                    /\ \A p \in Tap : tap[p].draft # n
  <2> SUFFICES ASSUME n # ByLink, NEW c \in DOMAIN drafts,
                      n = drafts[c].number, drafts' = AfterTake(c)
               PROVE  /\ \A d \in DOMAIN drafts' : drafts'[d].number # n
                      /\ \A i \in DOMAIN web : web[i].draft # n
                      /\ \A p \in Tap : tap[p].draft # n
    OBVIOUS
  <2>1. \A d \in DOMAIN drafts' : drafts'[d].number # n
    BY DEF AfterTake, Without, SelfInv, DraftsInv, Numbered
  <2>2. \A i \in DOMAIN web : web[i].draft # n BY DEF SelfInv, DraftsInv, UsedUp
  <2>3. \A p \in Tap : tap[p].draft # n BY DEF SelfInv, DraftsInv, TakenOut, Drafted
  <2> QED BY <2>1, <2>2, <2>3
<1>4. t \in TapOf(issued, Len(web)) BY <1>1, <1>2 DEF TapOf, Stored
<1>5. tap' = [tap EXCEPT ![q] = t] BY DEF Comes, Stored
<1>6. t.at = "recent" /\ t.draft = n /\ t.list = l /\ t.since = Stored OBVIOUS
<1> HIDE DEF t
<1>7. /\ tap' \in [Tap -> TapOf(issued, Len(web))] /\ tap'[q] = t
      /\ \A p \in Tap : p # q => tap'[p] = tap[p]
  BY <1>1, <1>4, <1>5
<1>8. SelfTypeOK'
  <2>1. DOMAIN drafts' \subseteq Code BY <1>1, <1>2
  <2> QED BY <1>1, <1>2, <1>7, <2>1 DEF SelfTypeOK, TapOf, RowOf, DraftOf
<1>9. TakenOut' /\ TakenOnce'
  BY <1>2, <1>3, <1>6, <1>7 DEF SelfInv, DraftsInv, TakenOut, TakenOnce, Drafted
<1>10. UsedUp' /\ Numbered' /\ RowOnce'
  BY <1>2 DEF SelfInv, DraftsInv, UsedUp, Numbered, RowOnce
<1>11. ListsInv'
  <2>1. ListedTap' /\ RowBegun' BY <1>6, <1>7 DEF SelfInv, ListsInv, ListedTap, RowBegun
  <2>2. SinceMade' BY <1>6, <1>7 DEF SelfInv, ListsInv, SinceMade, Stored
  <2>3. Foreseen' BY DEF SelfInv, ListsInv, Foreseen
  <2> QED BY <2>1, <2>2, <2>3 DEF ListsInv
<1> QED BY <1>8, <1>9, <1>10, <1>11 DEF SelfInv, DraftsInv

\* What takes nothing back: requests that end, drafts that go, orders that are
\* made at last and orders that are no longer new or to be picked up.
LEMMA EndsKeeps ==
    ASSUME SelfInv, NEW E \in SUBSET Tap,
           tap' = [q \in Tap |-> IF q \in E THEN Untapped ELSE tap[q]],
           DOMAIN drafts' \subseteq DOMAIN drafts, drafts' \in [DOMAIN drafts' -> DraftOf(issued)],
           \A c \in DOMAIN drafts' : drafts'[c] = drafts[c],
           upsets' \in 0..MaxUpsets, UNCHANGED issued,
           web' \in Seq(RowOf(issued)), Len(web') = Len(web),
           \A i \in 1..Len(web) :
              /\ web'[i].list = web[i].list /\ web'[i].draft = web[i].draft
              /\ web'[i].since = web[i].since /\ (web[i].made => web'[i].made)
              /\ web'[i].recent => web[i].recent
    PROVE  SelfInv'
<1>1. /\ issued \in 0..MaxDrafts /\ Len(web) \in Nat /\ Len(web) <= MaxWebOrders
      /\ DOMAIN web = 1..Len(web) /\ DOMAIN web' = 1..Len(web)
      /\ tap \in [Tap -> TapOf(issued, Len(web))]
      /\ DOMAIN drafts \subseteq Code /\ issued \in Nat
  BY SelfTypes, LenProperties DEF SelfInv
<1>2. /\ tap' \in [Tap -> TapOf(issued, Len(web))]
      /\ \A q \in Tap : tap'[q] = Untapped \/ tap'[q] = tap[q]
  BY <1>1, UntappedTyped
<1>3. SelfTypeOK' BY <1>1, <1>2 DEF SelfTypeOK, TapOf, RowOf, DraftOf
<1>4. TakenOut' /\ TakenOnce'
  BY <1>1, <1>2 DEF SelfInv, DraftsInv, TakenOut, TakenOnce, Drafted, Untapped
<1>5. UsedUp' /\ Numbered' /\ RowOnce'
  BY <1>1 DEF SelfInv, DraftsInv, UsedUp, Numbered, RowOnce
<1>6. ListedTap' /\ RowBegun'
  BY <1>1, <1>2 DEF SelfInv, ListsInv, ListedTap, RowBegun, Untapped
<1>7. SinceMade'
  <2>1. Stored \subseteq Stored' BY <1>1 DEF Stored
  <2> QED BY <1>1, <1>2, <2>1 DEF SelfInv, ListsInv, SinceMade, Untapped
<1>8. Foreseen'
  <2> SUFFICES ASSUME NEW i \in 1..Len(web), NEW j \in 1..Len(web),
                      web'[i].list = web'[j].list, web'[i].recent, i \in web'[j].since
               PROVE  \E k \in i + 1..j - 1 : web'[k].made /\ web'[k].list # web'[i].list
    BY <1>1 DEF Foreseen
  <2>1. PICK k \in i + 1..j - 1 : web[k].made /\ web[k].list # web[i].list
    BY <1>1 DEF SelfInv, ListsInv, Foreseen
  <2>2. k \in 1..Len(web) BY <1>1
  <2> QED BY <2>1, <2>2
<1> QED BY <1>3, <1>4, <1>5, <1>6, <1>7, <1>8 DEF SelfInv, DraftsInv, ListsInv

\* The latest of the waiting orders decides: if it is another list, each
\* waiting order of this list is followed by it.
LEMMA RecentSees ==
    ASSUME SelfTypeOK, NEW l, ~Recent(l), NEW i \in Stored,
           web[i].list = l, web[i].recent
    PROVE  \E k \in i + 1..Len(web) : web[k].made /\ web[k].list # l
<1>1. Len(web) \in Nat /\ DOMAIN web = 1..Len(web) BY SelfTypes
<1>2. Waiting \in SUBSET (1..Len(web)) /\ i \in Waiting BY <1>1 DEF Waiting, Stored
<1>3. PICK m \in Waiting : \A x \in Waiting : x <= m
  BY <1>1, <1>2, GreatestOfFinite
<1>4. web[m].list # l /\ web[m].made BY <1>3 DEF Recent, Waiting
<1>5. i <= m /\ i # m BY <1>2, <1>3, <1>4
<1>6. m \in i + 1..Len(web) BY <1>1, <1>2, <1>5
<1> QED BY <1>4, <1>6

\* A request that finds no such order begins one: its draft goes to the row.
LEMMA BeginWebKeeps ==
    ASSUME SelfInv, NEW q \in Tap, LookRecent(q), ~Recent(tap[q].list)
    PROVE  SelfInv'
<1> DEFINE e == [list |-> tap[q].list, draft |-> tap[q].draft, since |-> tap[q].since,
                 made |-> FALSE, recent |-> TRUE]
           t == [at |-> "create", list |-> {}, draft |-> ByLink, since |-> {},
                 row |-> Len(web) + 1]
           n == Len(web)
<1>1. /\ issued \in Nat /\ issued <= MaxDrafts /\ upsets \in 0..MaxUpsets
      /\ web \in Seq(RowOf(issued)) /\ n \in Nat /\ DOMAIN web = 1..n
      /\ tap \in [Tap -> TapOf(issued, n)] /\ tap[q] \in TapOf(issued, n)
      /\ DOMAIN drafts \subseteq Code /\ drafts \in [DOMAIN drafts -> DraftOf(issued)]
  BY SelfTypes DEF SelfInv
<1>2. /\ web' = Append(web, e) /\ tap' = [tap EXCEPT ![q] = t] /\ tap[q].at = "recent"
      /\ n < MaxWebOrders /\ UNCHANGED <<drafts, issued, upsets>>
  BY DEF LookRecent
<1>3. /\ e \in RowOf(issued) /\ e.list = tap[q].list /\ e.draft = tap[q].draft
      /\ e.since = tap[q].since /\ ~e.made
  BY <1>1, <1>2 DEF RowOf, TapOf, SelfInv, ListsInv, ListedTap
<1>4. /\ t \in TapOf(issued, n + 1) /\ t.at = "create" /\ t.draft = ByLink
      /\ t.since = {} /\ t.row = n + 1
  <2>1. 0 \in 0..issued /\ n + 1 \in 0..n + 1 BY <1>1
  <2> QED BY <2>1 DEF TapOf, ByLink
<1> HIDE DEF e, t
<1>5. /\ web' \in Seq(RowOf(issued)) /\ Len(web') = n + 1 /\ DOMAIN web' = 1..n + 1
      /\ web'[n + 1] = e /\ \A i \in 1..n : web'[i] = web[i]
  BY <1>1, <1>2, <1>3, AppendProperties, LenProperties
<1>6. \A p \in Tap : tap[p] \in TapOf(issued, n + 1)
  BY <1>1 DEF TapOf
<1>7. /\ tap' \in [Tap -> TapOf(issued, n + 1)] /\ tap'[q] = t
      /\ \A p \in Tap : p # q => tap'[p] = tap[p]
  BY <1>1, <1>2, <1>4, <1>6
<1>8. \A i \in 1..n + 1 : i \in 1..n \/ i = n + 1 BY <1>1
<1>9. SelfTypeOK'
  <2>1. Len(web') <= MaxWebOrders BY <1>1, <1>2, <1>5, SelfOrderAssumption
  <2> QED BY <1>1, <1>2, <1>5, <1>7, <2>1 DEF SelfTypeOK, TapOf, RowOf, DraftOf
<1>10. TakenOut'
  <2> SUFFICES ASSUME NEW p \in Tap, tap'[p].draft # ByLink
               PROVE  /\ tap'[p].at = "recent"
                      /\ \A c \in DOMAIN drafts : drafts[c].number # tap'[p].draft
                      /\ \A i \in 1..n + 1 : web'[i].draft # tap'[p].draft
    BY <1>2, <1>5 DEF TakenOut, Drafted
  <2>1. p # q /\ tap'[p] = tap[p] BY <1>4, <1>7
  <2>2. e.draft # tap[p].draft
    BY <1>3, <2>1 DEF SelfInv, DraftsInv, TakenOnce, Drafted
  <2> QED BY <1>1, <1>5, <1>8, <2>1, <2>2 DEF SelfInv, DraftsInv, TakenOut, Drafted
<1>11. TakenOnce' BY <1>4, <1>7 DEF SelfInv, DraftsInv, TakenOnce, Drafted
<1>12. UsedUp' /\ Numbered' /\ RowOnce'
  <2>1. e.draft # ByLink => /\ \A c \in DOMAIN drafts : drafts[c].number # e.draft
                            /\ \A i \in 1..n : web[i].draft # e.draft
    BY <1>1, <1>3 DEF SelfInv, DraftsInv, TakenOut, Drafted
  <2>2. UsedUp' BY <1>1, <1>2, <1>5, <1>8, <2>1 DEF SelfInv, DraftsInv, UsedUp
  <2>3. Numbered' BY <1>2 DEF SelfInv, DraftsInv, Numbered
  <2>4. RowOnce' BY <1>1, <1>5, <1>8, <2>1 DEF SelfInv, DraftsInv, RowOnce
  <2> QED BY <2>2, <2>3, <2>4
<1>13. ListedTap' /\ RowBegun'
  BY <1>1, <1>4, <1>5, <1>7 DEF SelfInv, ListsInv, ListedTap, RowBegun
<1>14. SinceMade'
  <2>1. Stored \subseteq Stored' BY <1>1, <1>5 DEF Stored
  <2> QED BY <1>1, <1>3, <1>4, <1>5, <1>7, <1>8, <2>1 DEF SelfInv, ListsInv, SinceMade
<1>15. Foreseen'
  <2> SUFFICES ASSUME NEW i \in 1..n + 1, NEW j \in 1..n + 1,
                      web'[i].list = web'[j].list, web'[i].recent, i \in web'[j].since
               PROVE  \E k \in i + 1..j - 1 : web'[k].made /\ web'[k].list # web'[i].list
    BY <1>5 DEF Foreseen
  <2>1. web'[j].since \subseteq Stored
    BY <1>1, <1>3, <1>5, <1>8 DEF SelfInv, ListsInv, SinceMade
  <2>2. i \in Stored /\ i \in 1..n /\ web'[i] = web[i] BY <1>1, <1>5, <2>1 DEF Stored
  <2>3. CASE j = n + 1
    <3>1. web[i].list = tap[q].list /\ web[i].recent BY <1>3, <1>5, <2>2, <2>3
    <3>2. PICK k \in i + 1..n : web[k].made /\ web[k].list # tap[q].list
      BY <2>2, <3>1, RecentSees DEF SelfInv
    <3>3. k \in 1..n /\ k \in i + 1..j - 1 BY <1>1, <2>2, <2>3
    <3> QED BY <1>5, <2>2, <3>1, <3>2, <3>3
  <2>4. CASE j \in 1..n
    <3>1. web'[j] = web[j] BY <1>5, <2>4
    <3>2. PICK k \in i + 1..j - 1 : web[k].made /\ web[k].list # web[i].list
      BY <1>1, <2>2, <2>4, <3>1 DEF SelfInv, ListsInv, Foreseen
    <3>3. k \in 1..n BY <1>1, <2>2, <2>4
    <3> QED BY <1>5, <2>2, <3>2, <3>3
  <2> QED BY <1>8, <2>3, <2>4
<1> QED BY <1>9, <1>10, <1>11, <1>12, <1>13, <1>14, <1>15 DEF SelfInv, DraftsInv, ListsInv

\* A draft is saved under a code that has none, with a number of its own.
LEMMA SaveDraftKeeps ==
    ASSUME SelfInv, NEW l \in List, NEW c \in Code, SaveDraft(l, c)
    PROVE  SelfInv'
<1> DEFINE n == issued + 1
<1>1. /\ issued \in Nat /\ issued <= MaxDrafts /\ upsets \in 0..MaxUpsets
      /\ web \in Seq(RowOf(issued)) /\ Len(web) \in Nat /\ Len(web) <= MaxWebOrders
      /\ DOMAIN web = 1..Len(web) /\ \A i \in 1..Len(web) : web[i] \in RowOf(issued)
      /\ tap \in [Tap -> TapOf(issued, Len(web))]
      /\ DOMAIN drafts \subseteq Code /\ drafts \in [DOMAIN drafts -> DraftOf(issued)]
  BY SelfTypes DEF SelfInv
<1>2. /\ issued' = n /\ n \in Nat /\ n <= MaxDrafts /\ 0..issued \subseteq 0..n
      /\ c \notin DOMAIN drafts /\ UNCHANGED <<web, tap, upsets>>
  BY <1>1, SelfOrderAssumption DEF SaveDraft
<1>3. /\ DOMAIN drafts' = DOMAIN drafts \cup {c} /\ drafts'[c].number = n
      /\ drafts' \in [DOMAIN drafts' -> DraftOf(n)]
      /\ \A d \in DOMAIN drafts : drafts'[d] = drafts[d]
  BY <1>1, <1>2 DEF SaveDraft, DraftOf
<1>4. /\ \A d \in DOMAIN drafts : drafts[d].number # n
      /\ \A i \in DOMAIN web : web[i].draft # n
      /\ \A q \in Tap : tap[q].draft # n
  BY <1>1 DEF DraftOf, RowOf, TapOf
<1>5. SelfTypeOK'
  <2>1. \A i \in 1..Len(web) : web[i] \in RowOf(n) BY <1>1, <1>2 DEF RowOf
  <2>2. web \in Seq(RowOf(n)) BY <1>1, <2>1
  <2>3. tap \in [Tap -> TapOf(n, Len(web))] BY <1>1, <1>2 DEF TapOf
  <2> QED BY <1>1, <1>2, <1>3, <2>2, <2>3 DEF SelfTypeOK, TapOf, RowOf, DraftOf
<1>6. TakenOut' BY <1>2, <1>3, <1>4 DEF SelfInv, DraftsInv, TakenOut, Drafted
<1>7. TakenOnce' BY <1>2 DEF SelfInv, DraftsInv, TakenOnce, Drafted
<1>8. UsedUp' BY <1>2, <1>3, <1>4 DEF SelfInv, DraftsInv, UsedUp
<1>9. Numbered' BY <1>2, <1>3, <1>4 DEF SelfInv, DraftsInv, Numbered
<1>10. RowOnce' BY <1>2 DEF SelfInv, DraftsInv, RowOnce
<1>11. ListsInv'
  BY <1>2 DEF SelfInv, ListsInv, ListedTap, RowBegun, SinceMade, Stored, Foreseen
<1> QED BY <1>5, <1>6, <1>7, <1>8, <1>9, <1>10, <1>11 DEF SelfInv, DraftsInv

LEMMA SelfInvInductive == SelfInv /\ [SelfNext]_selfVars => SelfInv'
<1> SUFFICES ASSUME SelfInv, [SelfNext]_selfVars
             PROVE  SelfInv'
  OBVIOUS
<1>0. /\ issued \in Nat /\ upsets \in 0..MaxUpsets /\ MaxUpsets \in Nat
      /\ web \in Seq(RowOf(issued)) /\ Len(web) \in Nat /\ DOMAIN web = 1..Len(web)
      /\ \A i \in 1..Len(web) : web[i] \in RowOf(issued)
      /\ tap \in [Tap -> TapOf(issued, Len(web))]
      /\ drafts \in [DOMAIN drafts -> DraftOf(issued)]
  BY SelfTypes, SelfOrderAssumption DEF SelfInv
<1>a. ASSUME NEW E \in SUBSET Tap, tap' = [p \in Tap |-> IF p \in E THEN Untapped ELSE tap[p]],
             upsets' \in 0..MaxUpsets, UNCHANGED <<drafts, issued, web>>
      PROVE  SelfInv'
  BY <1>0, <1>a, EndsKeeps
<1>b. ASSUME web' \in Seq(RowOf(issued)), Len(web') = Len(web),
             \A i \in 1..Len(web) :
                /\ web'[i].list = web[i].list /\ web'[i].draft = web[i].draft
                /\ web'[i].since = web[i].since /\ (web[i].made => web'[i].made)
                /\ web'[i].recent => web[i].recent,
             UNCHANGED <<drafts, issued, upsets>>,
             NEW E \in SUBSET Tap, tap' = [p \in Tap |-> IF p \in E THEN Untapped ELSE tap[p]]
      PROVE  SelfInv'
  BY <1>0, <1>b, EndsKeeps
<1>1. ASSUME NEW q \in Tap, NEW l \in List, SubmitLink(q, l) PROVE SelfInv'
  BY <1>1, ComesKeeps DEF SubmitLink
<1>2. ASSUME NEW q \in Tap, NEW c \in Code, TakeCode(q, c) PROVE SelfInv'
  <2>1. c \in DOMAIN drafts /\ drafts[c].list \in List BY <1>0, <1>2 DEF TakeCode, DraftOf
  <2> QED BY <1>2, <2>1, ComesKeeps DEF TakeCode
<1>3. ASSUME NEW q \in Tap, LookRecent(q) PROVE SelfInv'
  <2>1. CASE Recent(tap[q].list)
    <3>1. tap' = [p \in Tap |-> IF p \in {q} THEN Untapped ELSE tap[p]]
      BY <1>0, <1>3, <2>1 DEF LookRecent
    <3>2. UNCHANGED <<web, drafts, issued, upsets>> BY <1>3, <2>1 DEF LookRecent
    <3>3. {q} \in SUBSET Tap OBVIOUS
    <3> QED BY <1>0, <1>a, <3>1, <3>2, <3>3
  <2>2. CASE ~Recent(tap[q].list) BY <1>3, <2>2, BeginWebKeeps
  <2> QED BY <2>1, <2>2
<1>4. ASSUME NEW q \in Tap, CreateWeb(q) PROVE SelfInv'
  <2> DEFINE i == tap[q].row
  <2>1. tap' = [p \in Tap |-> IF p \in {q} THEN Untapped ELSE tap[p]]
    BY <1>0, <1>4 DEF CreateWeb
  <2>2. /\ i \in 1..Len(web) /\ web' = [web EXCEPT ![i] = [web[i] EXCEPT !.made = TRUE]]
        /\ UNCHANGED <<drafts, issued, upsets>>
    BY <1>0, <1>4 DEF CreateWeb, SelfInv, ListsInv, RowBegun
  <2>3. [web[i] EXCEPT !.made = TRUE] \in RowOf(issued) BY <1>0, <2>2 DEF RowOf
  <2>4. /\ web' \in Seq(RowOf(issued)) /\ Len(web') = Len(web)
        /\ \A j \in 1..Len(web) :
              web'[j] = IF j = i THEN [web[i] EXCEPT !.made = TRUE] ELSE web[j]
    BY <1>0, <2>2, <2>3, ExceptSeq
  <2>5. \A j \in 1..Len(web) :
           /\ web'[j].list = web[j].list /\ web'[j].draft = web[j].draft
           /\ web'[j].since = web[j].since /\ (web[j].made => web'[j].made)
           /\ web'[j].recent => web[j].recent
    BY <1>0, <2>2, <2>4 DEF RowOf
  <2>6. {q} \in SUBSET Tap OBVIOUS
  <2> QED BY <1>b, <2>1, <2>2, <2>4, <2>5, <2>6
<1>5. ASSUME NEW q \in Tap, CreateFails(q) PROVE SelfInv'
  <2>1. tap' = [p \in Tap |-> IF p \in {q} THEN Untapped ELSE tap[p]]
    BY <1>0, <1>5 DEF CreateFails
  <2>2. upsets' \in 0..MaxUpsets /\ UNCHANGED <<drafts, issued, web>>
    BY <1>0, <1>5 DEF CreateFails, Upset
  <2>3. {q} \in SUBSET Tap OBVIOUS
  <2> QED BY <1>a, <2>1, <2>2, <2>3
<1>6. ASSUME NEW l \in List, NEW c \in Code, SaveDraft(l, c) PROVE SelfInv'
  BY <1>6, SaveDraftKeeps
<1>7. ASSUME NEW c \in Code, SweepDraft(c) PROVE SelfInv'
  <2>1. tap' = [p \in Tap |-> IF p \in {} THEN Untapped ELSE tap[p]]
    BY <1>0, <1>7 DEF SweepDraft
  <2>2. upsets' \in 0..MaxUpsets BY <1>0, <1>7 DEF SweepDraft, Upset
  <2>3. /\ drafts' \in [DOMAIN drafts' -> DraftOf(issued)] /\ DOMAIN drafts' \subseteq DOMAIN drafts
        /\ \A d \in DOMAIN drafts' : drafts'[d] = drafts[d]
    BY <1>0, <1>7 DEF SweepDraft, Without
  <2>4. {} \in SUBSET Tap /\ UNCHANGED <<issued, web>> BY <1>7 DEF SweepDraft
  <2> QED BY <1>0, <2>1, <2>2, <2>3, <2>4, EndsKeeps
<1>8. ASSUME RestartShop PROVE SelfInv'
  <2>1. tap' = [p \in Tap |-> IF p \in Tap THEN Untapped ELSE tap[p]] BY <1>8 DEF RestartShop
  <2>2. upsets' \in 0..MaxUpsets /\ UNCHANGED <<issued, web>>
    BY <1>0, <1>8 DEF RestartShop, Upset
  <2>3. /\ drafts' \in [DOMAIN drafts' -> DraftOf(issued)] /\ DOMAIN drafts' \subseteq DOMAIN drafts
        /\ \A d \in DOMAIN drafts' : drafts'[d] = drafts[d]
    BY <1>8 DEF RestartShop
  <2> QED BY <1>0, <2>1, <2>2, <2>3, EndsKeeps
<1>9. ASSUME NEW i \in DOMAIN web, MoveWeb(i) PROVE SelfInv'
  <2>1. /\ web' = [web EXCEPT ![i] = [web[i] EXCEPT !.recent = FALSE]]
        /\ UNCHANGED <<drafts, issued, tap, upsets>>
    BY <1>9 DEF MoveWeb
  <2>2. [web[i] EXCEPT !.recent = FALSE] \in RowOf(issued) BY <1>0 DEF RowOf
  <2>3. /\ web' \in Seq(RowOf(issued)) /\ Len(web') = Len(web)
        /\ \A j \in 1..Len(web) :
              web'[j] = IF j = i THEN [web[i] EXCEPT !.recent = FALSE] ELSE web[j]
    BY <1>0, <2>1, <2>2, ExceptSeq
  <2>4. \A j \in 1..Len(web) :
           /\ web'[j].list = web[j].list /\ web'[j].draft = web[j].draft
           /\ web'[j].since = web[j].since /\ (web[j].made => web'[j].made)
           /\ web'[j].recent => web[j].recent
    BY <1>0, <2>3 DEF RowOf
  <2>5. tap' = [p \in Tap |-> IF p \in {} THEN Untapped ELSE tap[p]] BY <1>0, <2>1
  <2>6. {} \in SUBSET Tap OBVIOUS
  <2> QED BY <1>b, <2>1, <2>3, <2>4, <2>5, <2>6
<1>10. ASSUME NEW i \in DOMAIN web, AgeWeb(i) PROVE SelfInv'
  <2>1. /\ web' = [j \in 1..Len(web) |->
                     IF j <= i THEN [web[j] EXCEPT !.recent = FALSE] ELSE web[j]]
        /\ UNCHANGED <<drafts, issued, tap, upsets>>
    BY <1>0, <1>10 DEF AgeWeb
  <2>2. /\ web' \in [1..Len(web) -> RowOf(issued)]
        /\ \A j \in 1..Len(web) :
              /\ web'[j].list = web[j].list /\ web'[j].draft = web[j].draft
              /\ web'[j].since = web[j].since /\ (web[j].made => web'[j].made)
              /\ web'[j].recent => web[j].recent
    BY <1>0, <2>1 DEF RowOf
  <2>3. web' \in Seq(RowOf(issued)) /\ Len(web') = Len(web) BY <1>0, <2>2
  <2>4. tap' = [p \in Tap |-> IF p \in {} THEN Untapped ELSE tap[p]] BY <1>0, <2>1
  <2>5. {} \in SUBSET Tap OBVIOUS
  <2> QED BY <1>b, <2>1, <2>2, <2>3, <2>4, <2>5
<1>11. ASSUME UNCHANGED selfVars PROVE SelfInv'
  BY <1>11 DEF selfVars, SelfInv, SelfTypeOK, DraftsInv, TakenOut, TakenOnce, UsedUp, Numbered,
     RowOnce, Drafted, ListsInv, ListedTap, RowBegun, SinceMade, Stored, Foreseen
<1> QED BY <1>1, <1>2, <1>3, <1>4, <1>5, <1>6, <1>7, <1>8, <1>9, <1>10, <1>11 DEF SelfNext

LEMMA SelfInitInv == SelfInit => SelfInv
  BY SelfOrderAssumption DEF SelfInit, SelfInv, SelfTypeOK, DraftsInv, TakenOut, TakenOnce,
     UsedUp, Numbered, RowOnce, Drafted, ListsInv, ListedTap, RowBegun, SinceMade, Stored,
     Foreseen, Untapped, ByLink

\* Web orders, drafts and requests keep their types.
THEOREM SelfOrderTyped == SelfSpec => []SelfTypeOK
<1>1. SelfInv => SelfTypeOK BY DEF SelfInv
<1> QED BY <1>1, SelfInitInv, SelfInvInductive, PTL DEF SelfSpec

\* A draft makes one order, and the same new order is made twice only by
\* requests that overlap or with another order begun in between.
THEOREM WebOrderedOnce == SelfSpec => []OneOrderPerList
<1>1. SelfInv => OneOrderPerList
  BY DEF SelfInv, DraftsInv, ListsInv, RowOnce, Foreseen, OneOrderPerList, OneOrderPerDraft,
     SameOrderAnswered
<1> QED BY <1>1, SelfInitInv, SelfInvInductive, PTL DEF SelfSpec

----------------------------------------------------------------------------
(* Referrals.                                                              *)

ReferralSpec == ReferralInit /\ [][ReferralNext]_referralVars

Bought == [status: {"open", "DELIVERED", "CANCELLED"}, coupon: Referrer \cup {Plain}]
TillState == [at: {"idle", "bill", "redeem", "deliver", "cancel", "reward", "insert", "notice",
                   "tell", "share", "code", "issue", "offer", "release"},
              i: 0..MaxBought, coupon: Referrer \cup {Plain}]

(***************************************************************************)
(* The inductive invariant.  A request past the bill is at an order there  *)
(* is; there is one reward at most; the request that holds the key of a    *)
(* message is alone with it, and the order's messages so far are excused,  *)
(* as they are while nobody has the key.                                   *)
(***************************************************************************)
OnOrder == \A q \in Till :
              /\ till[q].at \notin {"idle", "bill"} => till[q].i \in DOMAIN bought
              /\ till[q].at = "insert" => till[q].coupon # Plain
RewardOne == \A x, y \in rewards : x = y

Tells(q, i)  == till[q].at = "tell" /\ till[q].i = i
Shares(q, i) == till[q].at \in {"code", "issue", "offer", "release"} /\ till[q].i = i

NoticeKept ==
    \A i \in Index :
        /\ notices[i] <= 1 + resent[i]
        /\ i \notin noticing => notices[i] <= resent[i]
        /\ \A q \in Till : Tells(q, i) => i \in noticing /\ notices[i] <= resent[i]
        /\ \A p, q \in Till : Tells(p, i) /\ Tells(q, i) => p = q
OfferKept ==
    \A i \in Index :
        /\ offers[i] <= 1 + doubted[i]
        /\ i \notin sharing => offers[i] <= doubted[i]
        /\ \A q \in Till : Shares(q, i) => i \in sharing /\ offers[i] <= doubted[i]
        /\ \A p, q \in Till : Shares(p, i) /\ Shares(q, i) => p = q

ReferralInv == ReferralTypeOK /\ OnOrder /\ RewardOne /\ NoticeKept /\ OfferKept

LEMMA ReferralTypes ==
    ASSUME ReferralTypeOK
    PROVE  /\ bought \in Seq(Bought) /\ Len(bought) \in Nat /\ Len(bought) <= MaxBought
           /\ DOMAIN bought = 1..Len(bought) /\ DOMAIN bought \subseteq Index
           /\ \A i \in DOMAIN bought : bought[i] \in Bought
           /\ till \in [Till -> TillState] /\ Free0 \in TillState
           /\ MaxBought \in Nat /\ MaxSnags \in Nat
<1>1. bought \in Seq(Bought) /\ Len(bought) <= MaxBought BY DEF ReferralTypeOK, Bought
<1>2. /\ Len(bought) \in Nat /\ DOMAIN bought = 1..Len(bought)
      /\ bought \in [1..Len(bought) -> Bought]
  BY <1>1, LenProperties
<1>3. MaxBought \in Nat /\ MaxSnags \in Nat BY ReferralAssumption
<1>4. DOMAIN bought \subseteq Index BY <1>1, <1>2, <1>3 DEF Index
<1>5. till \in [Till -> TillState] BY DEF ReferralTypeOK, TillState
<1>6. Free0 \in TillState BY <1>3 DEF Free0, TillState
<1> QED BY <1>1, <1>2, <1>3, <1>4, <1>5, <1>6

\* The orders: bills and their coupons, deliveries and cancellations.
OrderStep(q) ==
    \/ \E c \in Referrer \cup {Plain} : JudgeBill(q, c)
    \/ \E i \in DOMAIN bought, step \in {"deliver", "cancel"} : LoadOrder(q, i, step)
    \/ CommitBill(q) \/ RedeemReferral(q) \/ CancelBought(q) \/ DeliverBought(q)

\* The hook: the reward, its notice, and the code.
RewardStep(q) == JudgeReward(q) \/ InsertReward(q)
NoticeStep(q) == ClaimNotice(q) \/ TellReferrer(q) \/ NoticeQueued(q) \/ NoticeRefused(q)
ShareStep(q)  == \/ ClaimShare(q) \/ FindCode(q) \/ IssueCode(q) \/ OfferCode(q) \/ OfferUnclear(q)
                 \/ OfferRefused(q) \/ OfferUnrecorded(q) \/ ReleaseShare(q)

\* One request changes its state, over orders that are only added to.
LEMMA TillMoves ==
    ASSUME ReferralTypeOK, OnOrder, NEW q \in Till, NEW t \in TillState,
           till' = [till EXCEPT ![q] = t],
           DOMAIN bought \subseteq DOMAIN bought',
           t.at \notin {"idle", "bill"} => t.i \in DOMAIN bought',
           t.at = "insert" => t.coupon # Plain
    PROVE  /\ till' \in [Till -> TillState] /\ OnOrder'
           /\ till'[q] = t /\ \A p \in Till : p # q => till'[p] = till[p]
  BY ReferralTypes DEF OnOrder

\* A message nobody sends now: its books stay as they are.
LEMMA NoticeStays ==
    ASSUME NoticeKept, UNCHANGED <<notices, resent, noticing>>,
           \A p \in Till, i \in Index : Tells(p, i)' => Tells(p, i)
    PROVE  NoticeKept'
  BY DEF NoticeKept

LEMMA OfferStays ==
    ASSUME OfferKept, UNCHANGED <<offers, doubted, sharing>>,
           \A p \in Till, i \in Index : Shares(p, i)' => Shares(p, i)
    PROVE  OfferKept'
  BY DEF OfferKept

\* The request goes to t, which is not about a message; orders are only added.
OrderMoves(q, t) ==
    /\ till' = [till EXCEPT ![q] = t]
    /\ t.at \notin {"insert", "tell", "code", "issue", "offer", "release"}
    /\ bought' \in Seq(Bought) /\ Len(bought') <= MaxBought /\ Len(bought) <= Len(bought')
    /\ t.at \notin {"idle", "bill"} => t.i \in 1..Len(bought')

LEMMA OrderStepKeeps ==
    ASSUME ReferralInv, NEW q \in Till, OrderStep(q)
    PROVE  ReferralInv'
<1> USE ReferralAssumption
<1> DEFINE n == Len(bought)
<1>1. /\ bought \in Seq(Bought) /\ n \in Nat /\ n <= MaxBought /\ DOMAIN bought = 1..n
      /\ DOMAIN bought \subseteq Index /\ \A i \in DOMAIN bought : bought[i] \in Bought
      /\ till \in [Till -> TillState] /\ Free0 \in TillState /\ ReferralTypeOK /\ OnOrder
      /\ RewardOne /\ NoticeKept /\ OfferKept
  BY ReferralTypes DEF ReferralInv
<1>2. UNCHANGED <<rewards, code, keys, messages, snags>>
  BY DEF OrderStep, JudgeBill, LoadOrder, CommitBill, RedeemReferral, CancelBought, DeliverBought
<1>3. ASSUME \E t \in TillState : OrderMoves(q, t) PROVE ReferralInv'
  <2>1. PICK t \in TillState : OrderMoves(q, t) BY <1>3
  <2>2. Len(bought') \in Nat /\ DOMAIN bought' = 1..Len(bought')
    BY <2>1, LenProperties DEF OrderMoves
  <2>3. DOMAIN bought \subseteq DOMAIN bought' BY <1>1, <2>1, <2>2 DEF OrderMoves
  <2>4. /\ till' \in [Till -> TillState] /\ OnOrder' /\ till'[q] = t
        /\ \A p \in Till : p # q => till'[p] = till[p]
    BY <1>1, <2>1, <2>2, <2>3, TillMoves DEF OrderMoves
  <2>5. ReferralTypeOK'
    BY <1>1, <1>2, <2>1, <2>4 DEF OrderMoves, ReferralTypeOK, Bought, TillState, keys, messages
  <2>6. NoticeKept' BY <1>1, <1>2, <2>1, <2>4, NoticeStays DEF OrderMoves, Tells, keys, messages
  <2>7. OfferKept' BY <1>1, <1>2, <2>1, <2>4, OfferStays DEF OrderMoves, Shares, keys, messages
  <2>8. RewardOne' BY <1>1, <1>2 DEF RewardOne
  <2> QED BY <2>4, <2>5, <2>6, <2>7, <2>8 DEF ReferralInv
<1> DEFINE Moved == \E t \in TillState : OrderMoves(q, t)
<1>4. ASSUME NEW c \in Referrer \cup {Plain}, JudgeBill(q, c) PROVE Moved
  <2>1. [at |-> "bill", i |-> 0, coupon |-> c] \in TillState BY <1>1, ReferralTypes DEF TillState
  <2>2. OrderMoves(q, [at |-> "bill", i |-> 0, coupon |-> c])
    BY <1>1, <1>4 DEF JudgeBill, OrderMoves
  <2> QED BY <2>1, <2>2
<1>5. ASSUME NEW i \in DOMAIN bought, NEW step \in {"deliver", "cancel"}, LoadOrder(q, i, step)
      PROVE  Moved
  <2>1. [at |-> step, i |-> i, coupon |-> Plain] \in TillState BY <1>1 DEF TillState, Index
  <2>2. OrderMoves(q, [at |-> step, i |-> i, coupon |-> Plain])
    BY <1>1, <1>5 DEF LoadOrder, OrderMoves
  <2> QED BY <2>1, <2>2
<1>6. ASSUME CommitBill(q) PROVE Moved
  <2> DEFINE t == [till[q] EXCEPT !.at = "redeem", !.i = n + 1]
             e == [status |-> "open", coupon |-> Plain]
  <2>1. till' = [till EXCEPT ![q] = t] /\ bought' = Append(bought, e) /\ n < MaxBought
    BY <1>1, <1>6 DEF CommitBill, TillState
  <2>2. n + 1 \in 0..MaxBought /\ n + 1 <= MaxBought /\ n <= n + 1 /\ n + 1 \in 1..n + 1
    BY <1>1, <2>1
  <2>3. e \in Bought BY DEF Bought
  <2>4. bought' \in Seq(Bought) /\ Len(bought') = n + 1 BY <1>1, <2>1, <2>3, AppendProperties
  <2> HIDE DEF n
  <2>5. t \in TillState /\ t.at = "redeem" /\ t.i = n + 1 BY <1>1, <2>2 DEF TillState
  <2> HIDE DEF t, e
  <2>6. OrderMoves(q, t) BY <2>1, <2>2, <2>4, <2>5 DEF OrderMoves, n
  <2> QED BY <2>5, <2>6
<1>7. ASSUME RedeemReferral(q) PROVE Moved
  <2> DEFINE i == till[q].i  b == [bought[i] EXCEPT !.coupon = till[q].coupon]
  <2>1. i \in 1..n /\ till' = [till EXCEPT ![q] = Free0] /\ bought' = [bought EXCEPT ![i] = b]
    BY <1>1, <1>7 DEF RedeemReferral, IsAt, Leaves, OnOrder
  <2>2. b \in Bought
    <3>1. bought[i] \in Bought /\ till[q] \in TillState BY <1>1, <2>1
    <3> HIDE DEF i
    <3> QED BY <3>1 DEF Bought, TillState
  <2>3. bought' \in Seq(Bought) /\ Len(bought') = n BY <1>1, <2>1, <2>2, ExceptSeq
  <2>4. Free0.at = "idle" BY DEF Free0
  <2>5. OrderMoves(q, Free0) BY <1>1, <2>1, <2>3, <2>4 DEF OrderMoves
  <2> QED BY <1>1, <2>5
<1>8. ASSUME CancelBought(q) PROVE Moved
  <2> DEFINE i == till[q].i  b == [bought[i] EXCEPT !.status = "CANCELLED"]
  <2>1. i \in 1..n /\ till' = [till EXCEPT ![q] = Free0] /\ bought' = [bought EXCEPT ![i] = b]
    BY <1>1, <1>8 DEF CancelBought, IsAt, Leaves, OnOrder
  <2>2. b \in Bought
    <3>1. bought[i] \in Bought BY <1>1, <2>1
    <3> HIDE DEF i
    <3> QED BY <3>1 DEF Bought
  <2>3. bought' \in Seq(Bought) /\ Len(bought') = n BY <1>1, <2>1, <2>2, ExceptSeq
  <2>4. Free0.at = "idle" BY DEF Free0
  <2>5. OrderMoves(q, Free0) BY <1>1, <2>1, <2>3, <2>4 DEF OrderMoves
  <2> QED BY <1>1, <2>5
<1>9. ASSUME DeliverBought(q) PROVE Moved
  <2> DEFINE i == till[q].i  b == [bought[i] EXCEPT !.status = "DELIVERED"]
             t == [till[q] EXCEPT !.at = "reward"]
  <2>1. /\ i \in 1..n /\ bought' = [bought EXCEPT ![i] = b]
        /\ till' = [till EXCEPT ![q] = t]
    BY <1>1, <1>9 DEF DeliverBought, IsAt, Goes, OnOrder
  <2>2. b \in Bought
    <3>1. bought[i] \in Bought BY <1>1, <2>1
    <3> HIDE DEF i
    <3> QED BY <3>1 DEF Bought
  <2>3. bought' \in Seq(Bought) /\ Len(bought') = n BY <1>1, <2>1, <2>2, ExceptSeq
  <2>4. t \in TillState /\ t.at = "reward" /\ t.i = i BY <1>1 DEF TillState
  <2> HIDE DEF t
  <2>5. OrderMoves(q, t) BY <1>1, <2>1, <2>3, <2>4 DEF OrderMoves
  <2> QED BY <2>4, <2>5
<1> HIDE DEF Moved
<1>10. Moved BY <1>4, <1>5, <1>6, <1>7, <1>8, <1>9 DEF OrderStep
<1> QED BY <1>3, <1>10 DEF Moved

\* Where a request of the hook goes from one step to another.
LEMMA Steps ==
    ASSUME ReferralTypeOK, OnOrder, NEW q \in Till, UNCHANGED bought
    PROVE  /\ \A step \in {"notice", "tell", "share", "code", "issue", "offer", "release"} :
                 Goes(q, step) /\ till[q].at \notin {"idle", "bill"} =>
                    /\ till' \in [Till -> TillState] /\ OnOrder'
                    /\ till'[q].at = step /\ till'[q].i = till[q].i
                    /\ \A p \in Till : p # q => till'[p] = till[p]
           /\ Leaves(q) =>
                 /\ till' \in [Till -> TillState] /\ OnOrder' /\ till'[q].at = "idle"
                 /\ \A p \in Till : p # q => till'[p] = till[p]
<1>1. /\ till \in [Till -> TillState] /\ Free0 \in TillState /\ Free0.at = "idle"
      /\ DOMAIN bought = DOMAIN bought'
  BY ReferralTypes DEF Free0
<1>2. ASSUME NEW step \in {"notice", "tell", "share", "code", "issue", "offer", "release"},
             Goes(q, step), till[q].at \notin {"idle", "bill"}
      PROVE  /\ till' \in [Till -> TillState] /\ OnOrder'
             /\ till'[q].at = step /\ till'[q].i = till[q].i
             /\ \A p \in Till : p # q => till'[p] = till[p]
  <2> DEFINE t == [till[q] EXCEPT !.at = step]
  <2>1. till' = [till EXCEPT ![q] = t] BY <1>2 DEF Goes
  <2>2. t \in TillState /\ t.at = step /\ t.i = till[q].i BY <1>1 DEF TillState
  <2>3. t.i \in DOMAIN bought' BY <1>1, <1>2, <2>2 DEF OnOrder
  <2> HIDE DEF t
  <2> QED BY <1>1, <2>1, <2>2, <2>3, TillMoves
<1>3. ASSUME Leaves(q)
      PROVE  /\ till' \in [Till -> TillState] /\ OnOrder' /\ till'[q].at = "idle"
             /\ \A p \in Till : p # q => till'[p] = till[p]
  BY <1>1, <1>3, TillMoves DEF Leaves
<1> QED BY <1>2, <1>3

LEMMA RewardStepKeeps ==
    ASSUME ReferralInv, NEW q \in Till, RewardStep(q)
    PROVE  ReferralInv'
<1> USE ReferralAssumption DEF messages, keys
<1>1. /\ till \in [Till -> TillState] /\ ReferralTypeOK /\ OnOrder
      /\ RewardOne /\ NoticeKept /\ OfferKept /\ DOMAIN bought \subseteq Index
      /\ \A i \in DOMAIN bought : bought[i] \in Bought
  BY ReferralTypes DEF ReferralInv
<1>2. /\ UNCHANGED <<bought, code, keys, messages, snags>> /\ till[q].at \in {"reward", "insert"}
  BY DEF RewardStep, JudgeReward, InsertReward, IsAt
<1>3. /\ till' \in [Till -> TillState] /\ OnOrder'
      /\ till'[q].at \in {"idle", "share", "insert", "notice"}
      /\ \A p \in Till : p # q => till'[p] = till[p]
  <2>1. CASE \/ Leaves(q) \/ Goes(q, "share") \/ Goes(q, "notice")
    BY <1>1, <1>2, <2>1, Steps
  <2>2. CASE /\ till' = [till EXCEPT ![q].at = "insert", ![q].coupon = bought[till[q].i].coupon]
             /\ bought[till[q].i].coupon # Plain
    <3> DEFINE t == [till[q] EXCEPT !.at = "insert", !.coupon = bought[till[q].i].coupon]
    <3>1. till[q].i \in DOMAIN bought BY <1>1, <1>2 DEF OnOrder
    <3>2. bought[till[q].i].coupon \in Referrer \cup {Plain} BY <1>1, <3>1 DEF Bought
    <3>3. till' = [till EXCEPT ![q] = t] BY <1>1, <2>2 DEF TillState
    <3>4. /\ t \in TillState /\ t.at = "insert" /\ t.i = till[q].i
          /\ t.coupon = bought[till[q].i].coupon
      BY <1>1, <3>2 DEF TillState
    <3> HIDE DEF t
    <3> QED BY <1>1, <1>2, <2>2, <3>1, <3>3, <3>4, TillMoves
  <2> QED BY <2>1, <2>2 DEF RewardStep, JudgeReward, InsertReward
<1>4. RewardOne'
  BY <1>1 DEF RewardStep, JudgeReward, InsertReward, MarkerTaken, RewardOne
<1>5. rewards' \subseteq Referrer \X Index
  <2>1. CASE JudgeReward(q) BY <1>1, <2>1 DEF JudgeReward, ReferralTypeOK
  <2>2. CASE InsertReward(q)
    <3>1. till[q].i \in Index BY <1>1, <2>2 DEF InsertReward, IsAt, OnOrder
    <3>2. till[q].coupon \in Referrer
      BY <1>1, <2>2 DEF InsertReward, IsAt, OnOrder, TillState
    <3> QED BY <1>1, <2>2, <3>1, <3>2 DEF InsertReward, ReferralTypeOK
  <2> QED BY <2>1, <2>2 DEF RewardStep
<1>6. ReferralTypeOK' BY <1>1, <1>2, <1>3, <1>5 DEF ReferralTypeOK, TillState
<1>7. NoticeKept' BY <1>1, <1>2, <1>3, NoticeStays DEF Tells
<1>8. OfferKept' BY <1>1, <1>2, <1>3, OfferStays DEF Shares
<1> QED BY <1>3, <1>4, <1>6, <1>7, <1>8 DEF ReferralInv

LEMMA NoticeStepKeeps ==
    ASSUME ReferralInv, NEW q \in Till, NoticeStep(q)
    PROVE  ReferralInv'
<1> USE ReferralAssumption
<1>1. /\ till \in [Till -> TillState] /\ ReferralTypeOK /\ OnOrder
      /\ RewardOne /\ NoticeKept /\ OfferKept /\ DOMAIN bought \subseteq Index
      /\ notices \in [Index -> Nat] /\ resent \in [Index -> Nat]
      /\ noticing \subseteq Index /\ snags \in 0..MaxSnags
  BY ReferralTypes DEF ReferralInv, ReferralTypeOK
<1>2. /\ UNCHANGED <<bought, rewards, code, sharing, offers, doubted>>
      /\ till[q].at \in {"notice", "tell"}
  BY DEF NoticeStep, ClaimNotice, TellReferrer, NoticeQueued, NoticeRefused, IsAt, keys, messages
<1>3. PICK i \in Index : i = till[q].i BY <1>1, <1>2 DEF OnOrder
<1>4. /\ till' \in [Till -> TillState] /\ OnOrder'
      /\ till'[q].at \in {"idle", "share", "tell"} /\ (till'[q].at = "tell" => till'[q].i = i)
      /\ \A p \in Till : p # q => till'[p] = till[p]
  <2>1. Leaves(q) \/ Goes(q, "share") \/ Goes(q, "tell")
    BY DEF NoticeStep, ClaimNotice, TellReferrer, NoticeQueued, NoticeRefused
  <2> QED BY <1>1, <1>2, <1>3, <2>1, Steps
<1>5. OfferKept' BY <1>1, <1>2, <1>4, OfferStays DEF Shares
<1>6. ASSUME notices' \in [Index -> Nat], resent' \in [Index -> Nat], noticing' \subseteq Index,
             snags' \in 0..MaxSnags, NoticeKept'
      PROVE  ReferralInv'
  <2>1. ReferralTypeOK' BY <1>1, <1>2, <1>4, <1>6 DEF ReferralTypeOK, TillState
  <2>2. RewardOne' BY <1>1, <1>2 DEF RewardOne
  <2> QED BY <1>4, <1>5, <1>6, <2>1, <2>2 DEF ReferralInv
<1>7. CASE ClaimNotice(q)
  <2>1. CASE Goes(q, "share") /\ UNCHANGED noticing
    <3>1. till'[q].at = "share" BY <1>1, <1>2, <2>1, Steps
    <3>2. NoticeKept'
      BY <1>1, <1>4, <1>7, <2>1, <3>1, NoticeStays DEF ClaimNotice, Tells, messages
    <3> QED BY <1>1, <1>6, <1>7, <2>1, <3>2 DEF ClaimNotice, messages
  <2>2. CASE i \notin noticing /\ noticing' = noticing \cup {i} /\ Goes(q, "tell")
    <3>1. \A p \in Till : ~Tells(p, i) BY <1>1, <1>3, <2>2 DEF NoticeKept
    <3>2. \A p \in Till, j \in Index : Tells(p, j)' => Tells(p, j) \/ (p = q /\ j = i)
      BY <1>4 DEF Tells
    <3>3. UNCHANGED <<notices, resent, snags>> BY <1>7 DEF ClaimNotice, messages
    <3>4. NoticeKept' BY <1>1, <1>3, <2>2, <3>1, <3>2, <3>3 DEF NoticeKept
    <3> QED BY <1>1, <1>3, <1>6, <2>2, <3>3, <3>4
  <2> QED BY <1>3, <1>7, <2>1, <2>2 DEF ClaimNotice
<1>8. ASSUME NEW a \in Nat, NEW b \in Nat, a <= 1 + b, Tells(q, i),
             notices' = [notices EXCEPT ![i] = @ + a], resent' = [resent EXCEPT ![i] = @ + b],
             till'[q].at # "tell", UNCHANGED noticing, snags' \in 0..MaxSnags
      PROVE  ReferralInv'
  <2>1. notices' \in [Index -> Nat] /\ resent' \in [Index -> Nat] BY <1>1, <1>3, <1>8
  <2>2. notices[i] <= resent[i] /\ i \in noticing BY <1>1, <1>3, <1>8 DEF NoticeKept
  <2>3. \A p \in Till : ~Tells(p, i)'
    <3> SUFFICES ASSUME NEW p \in Till, Tells(p, i)' PROVE FALSE
      OBVIOUS
    <3>1. p # q BY <1>8 DEF Tells
    <3>2. Tells(p, i) BY <1>4, <3>1 DEF Tells
    <3> QED BY <1>1, <1>8, <3>1, <3>2 DEF NoticeKept
  <2>4. \A p \in Till, j \in Index : Tells(p, j)' => Tells(p, j) BY <1>4, <1>8 DEF Tells
  <2>5. \A j \in Index : j # i => notices'[j] = notices[j] /\ resent'[j] = resent[j]
    BY <1>1, <1>8
  <2>6. notices'[i] <= 1 + resent'[i] BY <1>1, <1>3, <1>8, <2>2
  <2>7. NoticeKept'
    <3> SUFFICES ASSUME NEW j \in Index
                 PROVE  /\ notices'[j] <= 1 + resent'[j]
                        /\ j \notin noticing => notices'[j] <= resent'[j]
                        /\ \A p \in Till : Tells(p, j)' =>
                              j \in noticing /\ notices'[j] <= resent'[j]
                        /\ \A o, p \in Till : Tells(o, j)' /\ Tells(p, j)' => o = p
      BY <1>8 DEF NoticeKept
    <3>1. CASE j = i BY <2>2, <2>3, <2>6, <3>1
    <3>2. CASE j # i BY <1>1, <2>4, <2>5, <3>2 DEF NoticeKept
    <3> QED BY <3>1, <3>2
  <2> QED BY <1>1, <1>6, <1>8, <2>1, <2>7
<1>9. CASE TellReferrer(q)
  <2>1. till'[q].at = "share" BY <1>1, <1>2, <1>9, Steps DEF TellReferrer
  <2>2. resent' = [resent EXCEPT ![i] = @ + 0] BY <1>1, <1>3, <1>9 DEF TellReferrer
  <2>3. /\ notices' = [notices EXCEPT ![i] = @ + 1] /\ Tells(q, i) /\ UNCHANGED noticing
        /\ snags' \in 0..MaxSnags
    BY <1>1, <1>3, <1>9 DEF TellReferrer, IsAt, Tells, keys
  <2>4. till'[q].at # "tell" BY <2>1
  <2>5. 0 \in Nat /\ 1 \in Nat /\ 1 <= 1 + 0 OBVIOUS
  <2> QED BY <1>8, <2>2, <2>3, <2>4, <2>5
<1>10. CASE NoticeQueued(q)
  <2>1. till'[q].at = "idle" BY <1>1, <1>2, <1>10, Steps DEF NoticeQueued
  <2>2. PICK left \in {0, 1} : /\ notices' = [notices EXCEPT ![i] = @ + 1 + left]
                               /\ resent' = [resent EXCEPT ![i] = @ + left]
    BY <1>3, <1>10 DEF NoticeQueued
  <2>3. notices' = [notices EXCEPT ![i] = @ + (1 + left)]
    <3>1. notices[i] + 1 + left = notices[i] + (1 + left) BY <1>1, <2>2
    <3> QED BY <2>2, <3>1
  <2>4. snags' \in 0..MaxSnags BY <1>1, <1>10 DEF NoticeQueued, Snag
  <2>5. 1 + left \in Nat /\ left \in Nat /\ 1 + left <= 1 + left OBVIOUS
  <2>6. Tells(q, i) /\ UNCHANGED noticing BY <1>3, <1>10 DEF NoticeQueued, IsAt, Tells, keys
  <2> QED BY <1>8, <2>1, <2>2, <2>3, <2>4, <2>5, <2>6
<1>11. CASE NoticeRefused(q)
  <2>1. till'[q].at = "share" BY <1>1, <1>2, <1>11, Steps DEF NoticeRefused
  <2>2. snags' \in 0..MaxSnags BY <1>1, <1>11 DEF NoticeRefused, Snag
  <2>3. /\ noticing' = noticing \ {i} /\ UNCHANGED <<notices, resent>> /\ Tells(q, i)
    BY <1>3, <1>11 DEF NoticeRefused, messages, IsAt, Tells
  <2>4. \A p \in Till, j \in Index : Tells(p, j)' => Tells(p, j) /\ j # i
    BY <1>1, <1>3, <1>4, <2>1, <2>3 DEF NoticeKept, Tells
  <2>5. NoticeKept' BY <1>1, <1>3, <2>3, <2>4 DEF NoticeKept
  <2> QED BY <1>1, <1>6, <2>2, <2>3, <2>5
<1> QED BY <1>7, <1>9, <1>10, <1>11 DEF NoticeStep

LEMMA ShareStepKeeps ==
    ASSUME ReferralInv, NEW q \in Till, ShareStep(q)
    PROVE  ReferralInv'
<1> USE ReferralAssumption
<1> DEFINE Acts(a) == \/ ClaimShare(a) \/ FindCode(a) \/ IssueCode(a) \/ OfferCode(a)
                      \/ OfferUnclear(a) \/ OfferRefused(a) \/ OfferUnrecorded(a)
                      \/ ReleaseShare(a)
<1>1. /\ till \in [Till -> TillState] /\ ReferralTypeOK /\ OnOrder
      /\ RewardOne /\ NoticeKept /\ OfferKept /\ DOMAIN bought \subseteq Index
      /\ offers \in [Index -> Nat] /\ doubted \in [Index -> Nat]
      /\ sharing \subseteq Index /\ snags \in 0..MaxSnags /\ code \in {"none", "live", "expired"}
  BY ReferralTypes DEF ReferralInv, ReferralTypeOK
<1>2. /\ UNCHANGED <<bought, rewards, noticing, notices, resent>>
      /\ till[q].at \in {"share", "code", "issue", "offer", "release"}
      /\ code' \in {"none", "live", "expired"}
  BY <1>1 DEF ShareStep, ClaimShare, FindCode, IssueCode, OfferCode, OfferUnclear, OfferRefused,
     OfferUnrecorded, ReleaseShare, IsAt, keys, messages
<1>3. PICK i \in Index : i = till[q].i BY <1>1, <1>2 DEF OnOrder
<1>4. /\ till' \in [Till -> TillState] /\ OnOrder' /\ till'[q].at # "tell"
      /\ (till'[q].at # "idle" => till'[q].i = i)
      /\ \A p \in Till : p # q => till'[p] = till[p]
  <2>1. Leaves(q) \/ \E step \in {"code", "issue", "offer", "release"} : Goes(q, step)
    BY DEF ShareStep, ClaimShare, FindCode, IssueCode, OfferCode, OfferUnclear, OfferRefused,
       OfferUnrecorded, ReleaseShare, AfterTransient
  <2> QED BY <1>1, <1>2, <1>3, <2>1, Steps
<1>5. NoticeKept' BY <1>1, <1>2, <1>4, NoticeStays DEF Tells
<1>6. ASSUME offers' \in [Index -> Nat], doubted' \in [Index -> Nat], sharing' \subseteq Index,
             snags' \in 0..MaxSnags, OfferKept'
      PROVE  ReferralInv'
  <2>1. ReferralTypeOK' BY <1>1, <1>2, <1>4, <1>6 DEF ReferralTypeOK, TillState
  <2>2. RewardOne' BY <1>1, <1>2 DEF RewardOne
  <2> QED BY <1>4, <1>5, <1>6, <2>1, <2>2 DEF ReferralInv
\* A step that is not about the message itself.
<1>7. ASSUME UNCHANGED <<offers, doubted, sharing>>, snags' \in 0..MaxSnags,
             Shares(q, i) \/ till'[q].at = "idle"
      PROVE  ReferralInv'
  <2>1. \A p \in Till, j \in Index : Shares(p, j)' => Shares(p, j)
    BY <1>4, <1>7 DEF Shares
  <2>2. OfferKept' BY <1>1, <1>7, <2>1, OfferStays
  <2> QED BY <1>1, <1>6, <1>7, <2>2
<1>8. CASE ClaimShare(q)
  <2>1. CASE Leaves(q) /\ UNCHANGED sharing
    <3>1. till'[q].at = "idle" BY <1>1, <1>2, <2>1, Steps
    <3> QED BY <1>1, <1>7, <1>8, <2>1, <3>1 DEF ClaimShare, messages
  <2>2. CASE i \notin sharing /\ sharing' = sharing \cup {i} /\ Goes(q, "code")
    <3>1. \A p \in Till : ~Shares(p, i) BY <1>1, <2>2 DEF OfferKept
    <3>2. \A p \in Till, j \in Index : Shares(p, j)' => Shares(p, j) \/ (p = q /\ j = i)
      BY <1>4 DEF Shares
    <3>3. UNCHANGED <<offers, doubted, snags>> BY <1>8 DEF ClaimShare, messages
    <3>4. OfferKept' BY <1>1, <2>2, <3>1, <3>2, <3>3 DEF OfferKept
    <3> QED BY <1>1, <1>6, <2>2, <3>3, <3>4
  <2> QED BY <1>3, <1>8, <2>1, <2>2 DEF ClaimShare
<1>9. CASE FindCode(q) \/ IssueCode(q) \/ OfferRefused(q)
  <2>1. Shares(q, i) /\ UNCHANGED <<offers, doubted, sharing>>
    BY <1>3, <1>9 DEF FindCode, IssueCode, OfferRefused, IsAt, Shares, keys, messages
  <2>2. snags' \in 0..MaxSnags
    BY <1>1, <1>9 DEF FindCode, IssueCode, OfferRefused, Snag
  <2> QED BY <1>7, <2>1, <2>2
<1>10. ASSUME NEW a \in Nat, NEW b \in Nat, a <= 1 + b, Shares(q, i),
              offers' = [offers EXCEPT ![i] = @ + a], doubted' = [doubted EXCEPT ![i] = @ + b],
              till'[q].at = "idle" \/ a <= b, UNCHANGED sharing, snags' \in 0..MaxSnags
       PROVE  ReferralInv'
  <2>1. offers' \in [Index -> Nat] /\ doubted' \in [Index -> Nat] BY <1>1, <1>10
  <2>2. offers[i] <= doubted[i] /\ i \in sharing BY <1>1, <1>10 DEF OfferKept
  <2>3. \A p \in Till : Shares(p, i)' => p = q
    <3> SUFFICES ASSUME NEW p \in Till, Shares(p, i)', p # q PROVE FALSE
      OBVIOUS
    <3>1. Shares(p, i) BY <1>4 DEF Shares
    <3> QED BY <1>1, <1>10, <3>1 DEF OfferKept
  <2>4. \A p \in Till, j \in Index : Shares(p, j)' => Shares(p, j) BY <1>4, <1>10 DEF Shares
  <2>5. \A j \in Index : j # i => offers'[j] = offers[j] /\ doubted'[j] = doubted[j]
    BY <1>1, <1>10
  <2>6. /\ offers'[i] <= 1 + doubted'[i]
        /\ Shares(q, i)' => offers'[i] <= doubted'[i]
    BY <1>1, <1>10, <2>2 DEF Shares
  <2>7. OfferKept'
    <3> SUFFICES ASSUME NEW j \in Index
                 PROVE  /\ offers'[j] <= 1 + doubted'[j]
                        /\ j \notin sharing => offers'[j] <= doubted'[j]
                        /\ \A p \in Till : Shares(p, j)' =>
                              j \in sharing /\ offers'[j] <= doubted'[j]
                        /\ \A o, p \in Till : Shares(o, j)' /\ Shares(p, j)' => o = p
      BY <1>10 DEF OfferKept
    <3>1. CASE j = i BY <2>2, <2>3, <2>6, <3>1
    <3>2. CASE j # i BY <1>1, <2>4, <2>5, <3>2 DEF OfferKept
    <3> QED BY <3>1, <3>2
  <2> QED BY <1>1, <1>6, <1>10, <2>1, <2>7
<1>11. CASE OfferCode(q)
  <2>1. till'[q].at = "idle" BY <1>1, <1>2, <1>11, Steps DEF OfferCode
  <2>2. doubted' = [doubted EXCEPT ![i] = @ + 0] BY <1>1, <1>11 DEF OfferCode
  <2>3. /\ offers' = [offers EXCEPT ![i] = @ + 1] /\ Shares(q, i) /\ UNCHANGED sharing
        /\ snags' \in 0..MaxSnags
    BY <1>1, <1>3, <1>11 DEF OfferCode, IsAt, Shares, keys
  <2>4. 0 \in Nat /\ 1 \in Nat /\ 1 <= 1 + 0 OBVIOUS
  <2> QED BY <1>10, <2>1, <2>2, <2>3, <2>4
<1>12. CASE OfferUnclear(q)
  <2>1. till'[q].at = "idle" BY <1>1, <1>2, <1>12, Steps DEF OfferUnclear, AfterTransient
  <2>2. PICK left \in {0, 1} : offers' = [offers EXCEPT ![i] = @ + left]
    BY <1>3, <1>12 DEF OfferUnclear
  <2>3. doubted' = [doubted EXCEPT ![i] = @ + 0] BY <1>1, <1>12 DEF OfferUnclear
  <2>4. snags' \in 0..MaxSnags BY <1>1, <1>12 DEF OfferUnclear, Snag
  <2>5. Shares(q, i) /\ UNCHANGED sharing BY <1>3, <1>12 DEF OfferUnclear, IsAt, Shares, keys
  <2>6. left \in Nat /\ 0 \in Nat /\ left <= 1 + 0 OBVIOUS
  <2> QED BY <1>10, <2>1, <2>2, <2>3, <2>4, <2>5, <2>6
<1>13. CASE OfferUnrecorded(q)
  <2>1. /\ offers' = [offers EXCEPT ![i] = @ + 1] /\ doubted' = [doubted EXCEPT ![i] = @ + 1]
        /\ Shares(q, i) /\ UNCHANGED sharing /\ snags' \in 0..MaxSnags
    BY <1>1, <1>3, <1>13 DEF OfferUnrecorded, IsAt, Shares, Snag, keys
  <2>2. 1 \in Nat /\ 1 <= 1 + 1 /\ 1 <= 1 OBVIOUS
  <2> QED BY <1>10, <2>1, <2>2
<1>14. CASE ReleaseShare(q)
  <2>1. till'[q].at = "idle" BY <1>1, <1>2, <1>14, Steps DEF ReleaseShare
  <2>2. sharing' = sharing \ {i} /\ UNCHANGED <<offers, doubted, snags>> /\ Shares(q, i)
    BY <1>3, <1>14 DEF ReleaseShare, messages, IsAt, Shares
  <2>3. \A p \in Till, j \in Index : Shares(p, j)' => Shares(p, j) /\ j # i
    <3> SUFFICES ASSUME NEW p \in Till, NEW j \in Index, Shares(p, j)'
                 PROVE  Shares(p, j) /\ j # i
      OBVIOUS
    <3>1. p # q BY <2>1 DEF Shares
    <3>2. Shares(p, j) BY <1>4, <3>1 DEF Shares
    <3> QED BY <1>1, <2>2, <3>1, <3>2 DEF OfferKept
  <2>4. OfferKept' BY <1>1, <2>2, <2>3 DEF OfferKept
  <2> QED BY <1>1, <1>6, <2>2, <2>4
<1> QED BY <1>8, <1>9, <1>11, <1>12, <1>13, <1>14 DEF ShareStep

LEMMA ReferralInvInductive == ReferralInv /\ [ReferralNext]_referralVars => ReferralInv'
<1> SUFFICES ASSUME ReferralInv, [ReferralNext]_referralVars
             PROVE  ReferralInv'
  OBVIOUS
<1> USE ReferralAssumption
<1>1. ASSUME NEW q \in Till, OrderStep(q) PROVE ReferralInv' BY <1>1, OrderStepKeeps
<1>2. ASSUME NEW q \in Till, RewardStep(q) PROVE ReferralInv' BY <1>2, RewardStepKeeps
<1>3. ASSUME NEW q \in Till, NoticeStep(q) PROVE ReferralInv' BY <1>3, NoticeStepKeeps
<1>4. ASSUME NEW q \in Till, ShareStep(q) PROVE ReferralInv' BY <1>4, ShareStepKeeps
<1>5. ASSUME NEW q \in Till, TillDies(q) PROVE ReferralInv'
  <2>1. /\ ReferralTypeOK /\ OnOrder /\ RewardOne /\ NoticeKept /\ OfferKept
        /\ UNCHANGED <<bought, rewards, code, keys, messages>> /\ snags' \in 0..MaxSnags
    BY <1>5 DEF ReferralInv, ReferralTypeOK, TillDies, Snag
  <2>2. /\ till' \in [Till -> TillState] /\ OnOrder' /\ till'[q].at = "idle"
        /\ \A p \in Till : p # q => till'[p] = till[p]
    BY <1>5, <2>1, Steps DEF TillDies
  <2>3. ReferralTypeOK' BY <2>1, <2>2 DEF ReferralTypeOK, TillState, keys, messages
  <2>4. NoticeKept' BY <2>1, <2>2, NoticeStays DEF Tells, keys, messages
  <2>5. OfferKept' BY <2>1, <2>2, OfferStays DEF Shares, keys, messages
  <2>6. RewardOne' BY <2>1 DEF RewardOne
  <2> QED BY <2>2, <2>3, <2>4, <2>5, <2>6 DEF ReferralInv
<1>6. ASSUME CodeExpires \/ UNCHANGED referralVars PROVE ReferralInv'
  <2>1. /\ UNCHANGED <<bought, rewards, keys, till, messages, snags>>
        /\ code' \in {code, "expired"}
    BY <1>6 DEF CodeExpires, referralVars, keys, messages
  <2> QED BY <2>1 DEF ReferralInv, ReferralTypeOK, OnOrder, RewardOne, NoticeKept, OfferKept,
             Tells, Shares, keys, messages
<1> QED BY <1>1, <1>2, <1>3, <1>4, <1>5, <1>6
        DEF ReferralNext, OrderStep, RewardStep, NoticeStep, ShareStep

LEMMA ReferralInitInv == ReferralInit => ReferralInv
<1> SUFFICES ASSUME ReferralInit PROVE ReferralInv
  OBVIOUS
<1>1. ReferralTypeOK
  BY ReferralAssumption DEF ReferralInit, ReferralTypeOK, Free0, Index
<1>2. OnOrder /\ RewardOne BY DEF ReferralInit, OnOrder, RewardOne, Free0
<1>3. NoticeKept /\ OfferKept
  BY DEF ReferralInit, NoticeKept, OfferKept, Tells, Shares, Free0
<1> QED BY <1>1, <1>2, <1>3 DEF ReferralInv

\* The orders, rewards and requests of a referred customer keep their types.
THEOREM ReferralsTyped == ReferralSpec => []ReferralTypeOK
<1>1. ReferralInv => ReferralTypeOK BY DEF ReferralInv
<1> QED BY <1>1, ReferralInitInv, ReferralInvInductive, PTL DEF ReferralSpec

\* However many orders, deliveries, bills and deaths there are, a customer's
\* referral is rewarded once, and no message about it is sent again but after
\* one that was taken for unsent.
THEOREM ReferralRewardedOnce == ReferralSpec => []ReferralPaidOnce
<1>1. ReferralInv => ReferralPaidOnce
  <2> SUFFICES ASSUME ReferralInv PROVE Cardinality(rewards) <= 1
    BY DEF ReferralInv, NoticeKept, OfferKept, ReferralPaidOnce
  <2>1. CASE rewards = {} BY <2>1, FS_EmptySet
  <2>2. ASSUME NEW x \in rewards PROVE Cardinality(rewards) <= 1
    <3>1. rewards = {x} BY DEF ReferralInv, RewardOne
    <3> QED BY <3>1, FS_Singleton
  <2> QED BY <2>1, <2>2
<1> QED BY <1>1, ReferralInitInv, ReferralInvInductive, PTL DEF ReferralSpec
============================================================================
