----------------------------- MODULE StageTasks -----------------------------
(***************************************************************************)
(* An order moving through the shop and the tasks that tell the staff      *)
(* about it: update_status and the hook it runs after its commit           *)
(* (on_status_change in app/services/ops_agent.py), staff taps             *)
(* (_handle_task_button in app/services/bill_agent.py, confirm_pickup and  *)
(* complete_task in app/services/tasks.py), and the hourly planner.        *)
(***************************************************************************)
EXTENDS Naturals, Sequences

CONSTANTS
    Actor,      \* requests and jobs working on the order at once
    Processing, \* the order's stages, by its services (stages_for)
    MaxMoves,   \* bound on the requests and jobs
    MaxTasks    \* bound on the tasks

ASSUME StageAssumption ==
    /\ Processing \subseteq {"IN_WASH", "IN_IRON"}
    /\ MaxMoves \in Nat /\ MaxTasks \in Nat \ {0}

VARIABLES
    stage,    \* the order's status
    tasks,    \* its tasks, oldest first
    act,      \* what each actor is doing
    forgiven, \* history: a task went because of a failure, a hand or a late hook
    moves

stageVars == <<stage, tasks, act, forgiven, moves>>

----------------------------------------------------------------------------

\* _SEQUENCE, without IN_DRY, which only orders of an older version have.
Lifecycle == <<"RECEIVED", "PICKUP_ASSIGNED", "PICKED_UP", "IN_WASH", "IN_IRON",
               "READY", "OUT_FOR_DELIVERY", "DELIVERED">>
At(s) == CHOOSE i \in DOMAIN Lifecycle : Lifecycle[i] = s

Stage == {Lifecycle[i] : i \in DOMAIN Lifecycle}
Shelved == {"ON_HOLD", "CANCELLED"}
Work == {"wash", "iron"}
Kinds == {"pickup", "delivery"} \cup Work

StageTypeOK ==
    /\ stage \in Stage \cup Shelved
    /\ tasks \in Seq([kind : Kinds, open : BOOLEAN]) /\ Len(tasks) <= MaxTasks
    /\ act \in [Actor -> [at : {"idle", "complete", "advance", "commit", "resume", "close", "open",
                                "deliver", "plan"},
                          task : 0 .. MaxTasks, old : Stage \cup Shelved, to : Seq(Stage \cup Shelved)]]
    /\ forgiven \in BOOLEAN /\ moves \in 0 .. MaxMoves

Free == [at |-> "idle", task |-> 0, old |-> "RECEIVED", to |-> <<>>]

\* on_order_created: a counter bill due soon, one due later, a home pickup.
StageInit ==
    /\ \/ stage = "RECEIVED" /\ tasks \in {<<>>, <<[kind |-> "wash", open |-> TRUE]>>}
       \/ stage = "PICKUP_ASSIGNED" /\ tasks = <<[kind |-> "pickup", open |-> TRUE]>>
    /\ act = [a \in Actor |-> Free]
    /\ forgiven = FALSE /\ moves = 0

OpenOf(kinds) == {i \in DOMAIN tasks : tasks[i].open /\ tasks[i].kind \in kinds}

CanMove(old, new) ==
    /\ old # new /\ old \notin {"DELIVERED", "CANCELLED"}
    /\ \/ new \in Shelved \/ old = "ON_HOLD"
       \/ At(new) > At(old)

(* service_stages: BEFORE, next_after, task_matches and task_kind *)
Before == {"RECEIVED", "PICKED_UP"}
Matching(s) == IF s = "IN_WASH" THEN {"wash"} ELSE IF s = "IN_IRON" THEN {"iron"} ELSE Work
After(s) ==
    CASE s \in Before /\ "IN_WASH" \in Processing -> "IN_WASH"
      [] s \in Before \cup {"IN_WASH"} /\ "IN_IRON" \in Processing -> "IN_IRON"
      [] OTHER -> "READY"
FirstKind == IF Processing = {"IN_IRON"} THEN "iron" ELSE "wash"

\* _DONE_ON: the tasks a status puts behind the order.
DoneOn(s) ==
    CASE s \in {"PICKED_UP", "IN_WASH"} -> {"pickup"}
      [] s = "IN_IRON" -> {"pickup", "wash"}
      [] s \in {"READY", "OUT_FOR_DELIVERY"} -> {"pickup"} \cup Work
      [] s = "DELIVERED" -> Kinds
      [] OTHER -> {}

----------------------------------------------------------------------------

Starts(a) == act[a].at = "idle" /\ moves < MaxMoves /\ moves' = moves + 1
Is(a, r) == act' = [act EXCEPT ![a] = r]
Proceeds(a, p) == act' = [act EXCEPT ![a].at = p]

\* One task more, unless an open one of these kinds exists; the partial
\* unique index decides between two.
Created(kind, unless) ==
    IF OpenOf(unless \cup {kind}) # {} THEN UNCHANGED tasks
    ELSE Len(tasks) < MaxTasks /\ tasks' = Append(tasks, [kind |-> kind, open |-> TRUE])

Shut(ids) == tasks' = [i \in DOMAIN tasks |-> [tasks[i] EXCEPT !.open = @ /\ i \notin ids]]

\* A manager picks a status for the order he loaded.
Choose(a, new) ==
    /\ Starts(a)
    /\ Is(a, [Free EXCEPT !.at = "commit", !.old = stage, !.to = <<new>>])
    /\ UNCHANGED <<stage, tasks, forgiven>>

\* The next stage on a washer's menu, refused from an old card.
TapStage(a, i) ==
    /\ Starts(a) /\ i \in OpenOf(Matching(stage))
    /\ stage \in Before \cup {"IN_WASH", "IN_IRON"}
    /\ Is(a, [Free EXCEPT !.at = "commit", !.old = stage, !.to = <<After(stage)>>])
    /\ UNCHANGED <<stage, tasks, forgiven>>

\* Done on a pickup or on processing work: the task first, then the order.
TapDone(a, i) ==
    /\ Starts(a) /\ i \in OpenOf({"pickup"} \cup Work)
    /\ Is(a, [Free EXCEPT !.at = "complete", !.old = stage, !.task = i])
    /\ UNCHANGED <<stage, tasks, forgiven>>

\* A delivery has two milestones; the task is closed by the second's hook.
TapDelivery(a, i) ==
    /\ Starts(a) /\ i \in OpenOf({"delivery"})
    /\ \E step \in {<<"READY", "OUT_FOR_DELIVERY">>, <<"OUT_FOR_DELIVERY", "DELIVERED">>} :
          /\ stage = step[1]
          /\ Is(a, [Free EXCEPT !.at = "commit", !.old = stage, !.to = <<step[2]>>])
    /\ UNCHANGED <<stage, tasks, forgiven>>

\* complete_task locks the row: the second of two taps ends here.
Complete(a) ==
    LET i == act[a].task IN
    /\ act[a].at = "complete"
    /\ IF tasks[i].open THEN Shut({i}) /\ Proceeds(a, "advance")
                        ELSE Is(a, Free) /\ UNCHANGED tasks
    /\ UNCHANGED <<stage, forgiven, moves>>

\* Where a finished task takes an order that is at s.
Path(kind, s) ==
    LET own == IF kind = "wash" THEN "IN_WASH" ELSE "IN_IRON" IN
    CASE kind = "pickup" /\ s = "RECEIVED" -> <<"PICKUP_ASSIGNED", "PICKED_UP">>
      [] kind = "pickup" /\ s = "PICKUP_ASSIGNED" -> <<"PICKED_UP">>
      [] kind = "wash" /\ s \in Before /\ own \in Processing -> <<own, After(own)>>
      [] kind = "iron" /\ s \in Before /\ own \in Processing -> <<After(own)>>
      [] kind \in Work /\ s \in Before /\ own \notin Processing -> <<After(s)>>
      [] kind \in Work /\ s = own -> <<After(own)>>
      [] OTHER -> <<>>

\* A pickup moves the order as it was loaded before, on_task_done reads it now.
Advance(a) ==
    LET kind == tasks[act[a].task].kind
        seen == IF kind = "pickup" THEN act[a].old ELSE stage
        path == Path(kind, seen)
    IN
    /\ act[a].at = "advance"
    /\ Is(a, IF path = <<>> THEN Free ELSE [Free EXCEPT !.at = "commit", !.old = seen, !.to = path])
    /\ UNCHANGED <<stage, tasks, forgiven, moves>>

\* update_status, by the status in hand.
Commit(a) ==
    LET r == act[a] IN
    /\ r.at = "commit"
    /\ IF CanMove(r.old, Head(r.to))
       THEN stage' = Head(r.to) /\ Proceeds(a, IF r.old = "ON_HOLD" THEN "resume" ELSE "close")
       ELSE Is(a, Free) /\ UNCHANGED stage
    /\ UNCHANGED <<tasks, forgiven, moves>>

\* _resume_tasks: back from a hold, the work of the stage again.
Resume(a) ==
    LET new == Head(act[a].to) IN
    /\ act[a].at = "resume"
    /\ CASE new = "PICKUP_ASSIGNED" -> Created("pickup", {})
         [] new \in {"READY", "OUT_FOR_DELIVERY"} -> Created("delivery", {})
         [] new = "IN_IRON" -> Created("iron", {})
         [] new \in Before -> Created(FirstKind, Work)
         [] new = "IN_WASH" -> Created("wash", Work)
         [] OTHER -> UNCHANGED tasks
    /\ Proceeds(a, "close")
    /\ UNCHANGED <<stage, forgiven, moves>>

\* What is behind the order is completed; on a hold everything is cancelled.
\* A hook that runs when the order has moved on may take another stage's task.
Close(a) ==
    LET new  == Head(act[a].to)
        gone == OpenOf(IF new \in Shelved THEN Kinds ELSE DoneOn(new))
    IN
    /\ act[a].at = "close"
    /\ Shut(gone)
    /\ forgiven' = (forgiven \/ (gone # {} /\ stage # new))
    /\ Proceeds(a, "open")
    /\ UNCHANGED <<stage, moves>>

\* Mutant: no ironing while other processing work is open.
IroningCrowdedOut == Created("iron", Work)

\* _ensure_stage_task looks for open work of this stage only.
Ironing == Created("iron", {})

\* The hook is over: an order made ready is offered for delivery once more,
\* and then comes the next status of the path.
AfterHook(a) ==
    LET r == act[a] IN
    Is(a, IF Head(r.to) = "READY" THEN [r EXCEPT !.at = "deliver"]
          ELSE IF Len(r.to) = 1 THEN Free
          ELSE [r EXCEPT !.at = "commit", !.old = Head(r.to), !.to = Tail(r.to)])

\* The next task.
Assign(a) ==
    LET new == Head(act[a].to) IN
    /\ act[a].at = "open"
    /\ CASE new = "PICKED_UP" -> Created(FirstKind, Work)
         [] new = "IN_IRON"   -> Ironing
         [] new = "READY"     -> Created("delivery", {})
         [] OTHER             -> UNCHANGED tasks
    /\ AfterHook(a)
    /\ UNCHANGED <<stage, forgiven, moves>>

Deliver(a) ==
    /\ act[a].at = "deliver"
    /\ Created("delivery", {})
    /\ Is(a, Free)
    /\ UNCHANGED <<stage, forgiven, moves>>

\* An exception in the hook is logged, and update_status goes on.
HookFails(a) ==
    /\ act[a].at \in {"resume", "close", "open"}
    /\ AfterHook(a)
    /\ forgiven' = (forgiven \/ Head(act[a].to) # "READY")
    /\ UNCHANGED <<stage, tasks, moves>>

\* A crash, or an exception after the hook: the rest never happens.
Abandons(a) ==
    /\ act[a].at \in {"advance", "resume", "close", "open", "deliver"}
    /\ Is(a, Free) /\ forgiven' = TRUE
    /\ UNCHANGED <<stage, tasks, moves>>

\* Cancelled on the dashboard, or a pickup or delivery done on the panel,
\* which leaves the order where it is.
ByHand(i) ==
    /\ i \in OpenOf(Kinds) /\ Shut({i}) /\ forgiven' = TRUE
    /\ UNCHANGED <<stage, act, moves>>

\* plan_due_wash_tasks: the orders due soon are read first, and their tasks
\* created one after the other.
Plan(a) ==
    /\ Starts(a) /\ stage \in Before \cup {"IN_WASH"} /\ OpenOf(Work) = {}
    /\ Is(a, [Free EXCEPT !.at = "plan"])
    /\ UNCHANGED <<stage, tasks, forgiven>>

PlanCreates(a) ==
    /\ act[a].at = "plan"
    /\ Created(FirstKind, {})
    /\ Is(a, Free)
    /\ UNCHANGED <<stage, forgiven, moves>>

StageNext ==
    \/ \E a \in Actor :
          \/ \E new \in Stage \cup Shelved : Choose(a, new)
          \/ \E i \in DOMAIN tasks : TapStage(a, i) \/ TapDone(a, i) \/ TapDelivery(a, i)
          \/ Complete(a) \/ Advance(a) \/ Commit(a) \/ Resume(a) \/ Close(a) \/ Assign(a)
          \/ Deliver(a) \/ HookFails(a)
          \/ Abandons(a) \/ Plan(a) \/ PlanCreates(a)
    \/ \E i \in DOMAIN tasks : ByHand(i)

StageSpec == StageInit /\ [][StageNext]_stageVars

----------------------------------------------------------------------------

\* Nobody's order is forgotten: when nothing is under way, an order that was
\* picked up, is at the iron or is ready is on somebody's list, unless a
\* failure, a hand or a hook overtaken by another move took its task.
WorkListed ==
    (\A a \in Actor : act[a].at = "idle") /\ ~forgiven =>
        /\ stage = "PICKED_UP" => OpenOf(Work) # {}
        /\ stage = "IN_IRON" => OpenOf({"iron"}) # {}
        /\ stage = "READY" => OpenOf({"delivery"}) # {}
=============================================================================
