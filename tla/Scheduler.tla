----------------------------- MODULE Scheduler -----------------------------
(***************************************************************************)
(* The one scheduler of several workers (SchedulerLeader in                *)
(* app/services/scheduler_leader.py, start and shutdown in                 *)
(* app/services/scheduler.py) and the reminders it sends: the key of each  *)
(* is claimed in sent_events before it goes out (_claim, _unclaim).        *)
(***************************************************************************)
EXTENDS Naturals, FiniteSets

CONSTANTS
    Worker,       \* the web workers
    Reminder,     \* claim keys: a day's poster prompt, an order's payment reminder
    Manner,       \* how each goes: "queued", "unqueued" (enqueue_on_fail off) or "prompt"
    NoOne,        \* the lock is free
    Ghost,        \* the lock is held by a session no worker has any more
    MaxFires,     \* bound on the times a reminder's job fires
    MaxBad        \* bound on lost sessions, failed starts, failed sends and crashes

ASSUME SchedulerAssumption ==
    /\ NoOne \notin Worker /\ Ghost \notin Worker /\ NoOne # Ghost
    /\ Manner \in [Reminder -> {"queued", "unqueued", "prompt"}]
    /\ MaxFires \in Nat /\ MaxBad \in Nat

VARIABLES
    holder,    \* the advisory lock's session
    term,      \* each worker's place in its election loop
    jobs,      \* each worker's _scheduler: none, started, or failed while starting
    tick,      \* each worker's job for each reminder
    keys,      \* sent_events
    severed,   \* workers whose lock session broke since they got it
    messages,  \* history: messages that went out or into the queue, per reminder
    again,     \* history: of these, the ones a failure will let go out again
    fires, bad

schedVars == <<holder, term, jobs, tick, keys, severed, messages, again, fires, bad>>

----------------------------------------------------------------------------

SchedTypeOK ==
    /\ holder \in Worker \cup {NoOne, Ghost}
    /\ term \in [Worker -> {"waiting", "elected", "leading", "leaving", "down"}]
    /\ jobs \in [Worker -> {"none", "running", "dead"}]
    /\ tick \in [Worker -> [Reminder -> {"none", "due", "sending", "failed"}]]
    /\ keys \subseteq Reminder /\ severed \subseteq Worker
    /\ messages \in [Reminder -> Nat] /\ again \in [Reminder -> Nat]
    /\ fires \in 0 .. MaxFires /\ bad \in 0 .. MaxBad

SchedInit ==
    /\ holder = NoOne
    /\ term = [w \in Worker |-> "waiting"]
    /\ jobs = [w \in Worker |-> "none"]
    /\ tick = [w \in Worker |-> [k \in Reminder |-> "none"]]
    /\ keys = {} /\ severed = {}
    /\ messages = [k \in Reminder |-> 0] /\ again = [k \in Reminder |-> 0]
    /\ fires = 0 /\ bad = 0

MoreBad == bad < MaxBad /\ bad' = bad + 1

Stage(w, p) == term' = [term EXCEPT ![w] = p]

\* PostgreSQL drops a session's lock when it sees the session gone: at once or later.
Breaks(w) == IF holder = w THEN holder' \in {NoOne, Ghost} ELSE UNCHANGED holder

\* The jobs end where they are; a message on its way may go out all the same.
JobsEnd(w) ==
    /\ \E gone \in SUBSET {k \in Reminder : tick[w][k] = "sending"} :
          messages' = [k \in Reminder |-> IF k \in gone THEN messages[k] + 1 ELSE messages[k]]
    /\ tick' = [tick EXCEPT ![w] = [k \in Reminder |-> "none"]]

\* shutdown(): the executor cancels the jobs at their next await.  A scheduler
\* that never started raises, and stays.
Halts(w) ==
    /\ jobs' = [jobs EXCEPT ![w] = IF @ = "running" THEN "none" ELSE @]
    /\ JobsEnd(w)

----------------------------------------------------------------------------
(* Election *)

Elect(w) ==
    /\ term[w] = "waiting" /\ holder = NoOne
    /\ holder' = w /\ severed' = severed \ {w}
    /\ Stage(w, "elected")
    /\ UNCHANGED <<jobs, tick, keys, messages, again, fires, bad>>

\* start(), which returns early when there is a scheduler already.
Begin(w) ==
    /\ term[w] = "elected"
    /\ jobs' = [jobs EXCEPT ![w] = IF @ = "none" THEN "running" ELSE @]
    /\ Stage(w, "leading")
    /\ UNCHANGED <<holder, tick, keys, severed, messages, again, fires, bad>>

\* start() raises half way.
BeginFails(w) ==
    /\ MoreBad /\ term[w] = "elected" /\ jobs[w] = "none"
    /\ jobs' = [jobs EXCEPT ![w] = "dead"]
    /\ Stage(w, "leaving")
    /\ UNCHANGED <<holder, tick, keys, severed, messages, again, fires>>

Sever(w) ==
    /\ MoreBad /\ holder = w
    /\ Breaks(w) /\ severed' = severed \cup {w}
    /\ UNCHANGED <<term, jobs, tick, keys, messages, again, fires>>

LetGo ==
    /\ holder = Ghost /\ holder' = NoOne
    /\ UNCHANGED <<term, jobs, tick, keys, severed, messages, again, fires, bad>>

\* The ping fails or names another backend, or a live one answers too late.
Leave(w) ==
    /\ term[w] = "leading"
    /\ IF w \in severed THEN UNCHANGED bad ELSE MoreBad
    /\ Halts(w)
    /\ Stage(w, "leaving")
    /\ UNCHANGED <<holder, keys, severed, again, fires>>

\* Mutant: a session whose unlock failed goes back to the pool with the lock.
UnlockPooled(w) ==
    /\ term[w] = "leaving"
    /\ IF w \in severed THEN UNCHANGED holder ELSE holder' \in {NoOne, w}
    /\ Stage(w, "waiting")
    /\ UNCHANGED <<jobs, tick, keys, severed, messages, again, fires, bad>>

\* pg_advisory_unlock; when that fails the session is invalidated.
Unlock(w) ==
    /\ term[w] = "leaving"
    /\ IF w \in severed THEN UNCHANGED holder ELSE holder' \in {NoOne, Ghost}
    /\ Stage(w, "waiting")
    /\ UNCHANGED <<jobs, tick, keys, severed, messages, again, fires, bad>>

WorkerDies(w) ==
    /\ MoreBad /\ term[w] # "down"
    /\ Breaks(w) /\ severed' = severed \cup {w}
    /\ JobsEnd(w) /\ jobs' = [jobs EXCEPT ![w] = "none"]
    /\ Stage(w, "down")
    /\ UNCHANGED <<keys, again, fires>>

WorkerBack(w) ==
    /\ term[w] = "down"
    /\ Stage(w, "waiting")
    /\ UNCHANGED <<holder, jobs, tick, keys, severed, messages, again, fires, bad>>

----------------------------------------------------------------------------
(* Reminders *)

JobAt(w, k, p) == tick' = [tick EXCEPT ![w][k] = p]

Fire(w, k) ==
    /\ jobs[w] = "running" /\ tick[w][k] = "none"
    /\ fires < MaxFires /\ fires' = fires + 1
    /\ JobAt(w, k, "due")
    /\ UNCHANGED <<holder, term, jobs, keys, severed, messages, again, bad>>

\* Mutant: the key is written without looking.
FirstToBlind(k) == keys' = keys \cup {k}

\* The primary key of sent_events lets one insert through.
FirstTo(k) == k \notin keys /\ keys' = keys \cup {k}

Try(w, k) ==
    /\ tick[w][k] = "due"
    /\ \/ FirstTo(k) /\ JobAt(w, k, "sending")
       \/ k \in keys /\ JobAt(w, k, "none") /\ UNCHANGED keys
    /\ UNCHANGED <<holder, term, jobs, severed, messages, again, fires, bad>>

Sends(w, k) ==
    /\ tick[w][k] = "sending"
    /\ messages' = [messages EXCEPT ![k] = @ + 1]
    /\ JobAt(w, k, "none")
    /\ UNCHANGED <<holder, term, jobs, keys, severed, again, fires, bad>>

\* A permanent refusal: the claim is to be given back.
Bounces(w, k) ==
    /\ MoreBad /\ tick[w][k] = "sending"
    /\ JobAt(w, k, "failed")
    /\ UNCHANGED <<holder, term, jobs, keys, severed, messages, again, fires>>

\* A transient failure, after the message was accepted or before.  "queued"
\* leaves it to the queue and keeps the claim; "unqueued" gives the claim
\* back; the poster prompt does both.
Falters(w, k, accepted) ==
    LET queued == Manner[k] # "unqueued"
        frees  == Manner[k] # "queued"
    IN
    /\ MoreBad /\ tick[w][k] = "sending"
    /\ messages' = [messages EXCEPT ![k] = @ + (IF accepted THEN 1 ELSE 0) + (IF queued THEN 1 ELSE 0)]
    /\ again' = [again EXCEPT ![k] = @ + (IF accepted THEN 1 ELSE 0) + (IF queued /\ frees THEN 1 ELSE 0)]
    /\ JobAt(w, k, IF frees THEN "failed" ELSE "none")
    /\ UNCHANGED <<holder, term, jobs, keys, severed, fires>>

\* _unclaim, whose own failure is logged only.
GiveBack(w, k) ==
    /\ tick[w][k] = "failed"
    /\ keys' \in {keys, keys \ {k}}
    /\ JobAt(w, k, "none")
    /\ UNCHANGED <<holder, term, jobs, severed, messages, again, fires, bad>>

\* What the workers and the database do by themselves.
Electing ==
    \/ LetGo
    \/ \E w \in Worker :
          Elect(w) \/ Begin(w) \/ Unlock(w) \/ WorkerBack(w) \/ (w \in severed /\ Leave(w))

SchedNext ==
    \/ LetGo
    \/ \E w \in Worker :
          \/ Elect(w) \/ Begin(w) \/ BeginFails(w) \/ Sever(w) \/ Leave(w) \/ Unlock(w)
          \/ WorkerDies(w) \/ WorkerBack(w)
          \/ \E k \in Reminder :
                \/ Fire(w, k) \/ Try(w, k) \/ Sends(w, k) \/ Bounces(w, k) \/ GiveBack(w, k)
                \/ \E accepted \in BOOLEAN : Falters(w, k, accepted)

\* The election loop polls, pings, and the service manager restarts a worker.
SchedFairness == WF_schedVars(Electing)

SchedSpec == SchedInit /\ [][SchedNext]_schedVars /\ SchedFairness

----------------------------------------------------------------------------

\* Jobs run in one worker at a time, except in a worker whose lock session
\* broke and that has not noticed yet: a leader never gives the lock away
\* while its jobs run.
OneScheduler ==
    \A w \in Worker : jobs[w] = "running" => holder = w \/ w \in severed

\* However many schedulers run, fire again, die or are cancelled half way, a
\* reminder goes out a second time only after a failure that hid an accepted
\* message or gave back the claim of a queued one.
RemindedOnce == \A k \in Reminder : messages[k] <= 1 + again[k]

\* "Automatic failover": when a leader's session breaks, some worker gets the
\* lock and runs the jobs, unless an earlier start of it failed, for then it
\* has the lock and believes it leads.
FailsOver ==
    \A w \in Worker :
        w \in severed ~> (\E v \in Worker : holder = v /\ jobs[v] \in {"running", "dead"})
=============================================================================
