--------------------------- MODULE CustomerThread ---------------------------
(***************************************************************************)
(* One customer's WhatsApp thread and everybody who may answer in it: the  *)
(* webhook handler of each inbound message (_handle_message and            *)
(* _send_customer_agent_reply in app/routers/webhook.py, build_ai_reply in *)
(* app/services/ai_agent.py), the minutely job that takes a waiting turn   *)
(* over from a human (app/services/human_handoff.py), the outbound queue,  *)
(* which sends later what failed for the moment (drain_outbound_queue in   *)
(* app/services/whatsapp.py), and the owner, who writes from the phone or  *)
(* the Inbox, pauses the thread and switches the agent off.                *)
(*                                                                         *)
(* A handler and the job load the customer row once and keep it over every *)
(* await (expire_on_commit=False): agent_paused is as old as their start.  *)
(* The kill switch, the messages and the human's clock are read anew.      *)
(*                                                                         *)
(* A row's created_at is the start of its transaction: a reply that took   *)
(* the model seconds may come before rows that were committed meanwhile.   *)
(* The other rows come of short transactions and are the newest.           *)
(***************************************************************************)
EXTENDS Naturals, Sequences, SequencesExt, FiniteSetsExt

CONSTANTS
    MaxInbound,   \* bound on the customer's messages
    MaxHuman,     \* bound on the humans' replies
    MaxTrouble    \* bound on switches, pauses, notices, failures, crashes and days

ASSUME ThreadAssumption == MaxInbound \in Nat /\ MaxHuman \in Nat /\ MaxTrouble \in Nat

Inbound == 1 .. MaxInbound

VARIABLES
    log,         \* the customer's conversations rows, in created_at order
    humanAge,    \* age of the latest human reply: in the grace period, after it, over a day
    enabled,     \* the setting agent_enabled
    pause,       \* customers.agent_paused and agent_paused_at
    handler,     \* the handler of each inbound message
    job,         \* the handoff job
    claimed,     \* sent_events keys human-handoff:<customer>:<message>
    outbound,    \* replies in outbound_queue; spoken: a human has written since
    trouble,     \* of the bound MaxTrouble, so far
    manual,      \* history: the owner has paused and has not resumed
    overlapped,  \* history: messages the job and their own handler worked on together
    late,        \* history: messages whose handler's reply the queue has sent
    dropped      \* history: turns whose reply a crash lost or the queue gave up

threadVars == <<log, humanAge, enabled, pause, handler, job, claimed, outbound, trouble,
                manual, overlapped, late, dropped>>

----------------------------------------------------------------------------

Humans == {"human", "manager"}

\* agent_paused, with agent_paused_at null, younger or older than agent_pause_hours.
Pause == {[on |-> FALSE, at |-> "null"]} \cup [on : BOOLEAN, at : {"null", "recent", "expired"}]

Idle == [at |-> "idle"]

Queued == [by : {"handler", "job"}, of : Inbound, spoken : BOOLEAN]

ThreadTypeOK ==
    /\ log \in Seq([by : {"customer", "ai", "bot"} \cup Humans, of : 0 .. MaxInbound])
    /\ humanAge \in {"none", "fresh", "cool", "old"}
    /\ enabled \in BOOLEAN
    /\ pause \in Pause
    /\ \A m \in Inbound :
          /\ handler[m].at \in {"new", "read", "compose", "sending", "held", "done"}
          /\ handler[m].loaded \in Pause
    /\ job = Idle \/ job \in [at : {"listed", "composing", "sending"},
                              of : 0 .. MaxInbound, loaded : Pause, began : Nat]
    /\ claimed \subseteq Inbound
    /\ outbound \subseteq Queued
    /\ trouble \in 0 .. MaxTrouble
    /\ manual \in BOOLEAN
    /\ overlapped \subseteq Inbound /\ late \subseteq Inbound /\ dropped \subseteq Inbound

Running == [on |-> FALSE, at |-> "null"]

ThreadInit ==
    /\ log = <<>>
    /\ humanAge = "none"
    /\ enabled = TRUE
    /\ pause = Running
    /\ handler = [m \in Inbound |-> [at |-> "new", loaded |-> Running]]
    /\ job = Idle
    /\ claimed = {} /\ outbound = {}
    /\ trouble = 0
    /\ manual = FALSE
    /\ overlapped = {} /\ late = {} /\ dropped = {}

Arrived == Cardinality({m \in Inbound : handler[m].at # "new"})

\* Messages whose handler is at work.
Busy == {m \in Inbound : handler[m].at \in {"read", "compose", "sending"}}

\* The newest row is an outbound one by nobody in who: this turn is handled.
HandledExceptBy(who) == log # <<>> /\ Last(log).by \notin {"customer"} \cup who

\* Both the grace period of the webhook and the job's timer.
HumanWaiting == humanAge = "fresh"

Trouble == trouble < MaxTrouble /\ trouble' = trouble + 1

Fresh(phase) == [at |-> phase, loaded |-> Running]

\* A handler that has ended, or waits for the job, holds no row.
Step(m, phase) ==
    handler' = [handler EXCEPT ![m] = IF phase \in {"held", "done"} THEN Fresh(phase)
                                                                  ELSE [@ EXCEPT !.at = phase]]

Owner   == <<humanAge, enabled, manual>>
Records == <<claimed, dropped, late, overlapped>>

----------------------------------------------------------------------------
(* The webhook handler of an inbound message. *)

\* The row is committed; the handler keeps the customer it has loaded.
Arrive(m) ==
    /\ m = Arrived + 1
    /\ handler' = [handler EXCEPT ![m] = [at |-> "read", loaded |-> pause]]
    /\ log' = Append(log, [by |-> "customer", of |-> m])
    /\ UNCHANGED <<Owner, pause, job, Records, outbound, trouble>>

\* A bad rating is thanked and stops the AI, whoever had paused the thread
\* before; only a column that differs from the loaded row is written.
BadRating(m) ==
    LET h == handler[m] IN
    /\ h.at = "read"
    /\ pause' = [on |-> pause.on \/ ~h.loaded.on, at |-> "recent"]
    /\ log' = Append(log, [by |-> "bot", of |-> m])
    /\ Step(m, "done")
    /\ UNCHANGED <<Owner, job, Records, outbound, trouble>>

\* After the classifier: spam ends here, a human's grace period holds the
\* message, an expired pause is lifted, and the kill switch is read.
Gate(m) ==
    LET h == handler[m] IN
    /\ h.at = "read"
    /\ \/ Step(m, "done") /\ UNCHANGED pause
       \/ HumanWaiting /\ Step(m, "held") /\ UNCHANGED pause
       \/ /\ ~HumanWaiting /\ h.loaded.on /\ h.loaded.at # "expired"
          /\ Step(m, "done") /\ UNCHANGED pause
       \/ /\ ~HumanWaiting /\ h.loaded.on /\ h.loaded.at = "expired"
          /\ pause' = Running
          /\ handler' = [handler EXCEPT ![m] = Fresh(IF enabled THEN "compose" ELSE "done")]
       \/ /\ ~HumanWaiting /\ ~h.loaded.on
          /\ Step(m, IF enabled THEN "compose" ELSE "done") /\ UNCHANGED pause
    /\ UNCHANGED <<log, Owner, job, Records, outbound, trouble>>

\* build_ai_reply, several seconds long, and the checks up to the send.  A
\* batched message, a cooldown or a newer message ends the turn; the last look
\* is at the switch, the loaded pause and the human's clock.  A complaint
\* pauses the thread and is acknowledged all the same.
Compose(m) ==
    LET h == handler[m]
        open == enabled /\ ~HumanWaiting IN
    /\ h.at = "compose"
    /\ \/ Step(m, "done") /\ UNCHANGED pause
       \/ Step(m, IF open /\ ~h.loaded.on THEN "sending" ELSE "done") /\ UNCHANGED pause
       \/ /\ pause' = [on |-> TRUE, at |-> "recent"]
          /\ Step(m, IF open /\ Arrived = m THEN "sending" ELSE "done")
    /\ UNCHANGED <<log, Owner, job, Records, outbound, trouble>>

\* The reply becomes row p of the log.
Reply(m, p) == log' = InsertAt(log, p, [by |-> "ai", of |-> m])

\* Behind the message it answers, and those before it.
After(m, p) ==
    p \in 1 .. Len(log) + 1 /\ \A i \in p .. Len(log) : log[i].by = "customer" => log[i].of > m

\* A transient failure leaves the reply, and no row, with outbound_queue.
Enqueue(by, m) == Trouble /\ outbound' = outbound \cup {[by |-> by, of |-> m, spoken |-> FALSE]}

\* The send is logged, fails for the moment or fails for good.
Send(m) ==
    /\ handler[m].at = "sending"
    /\ Step(m, "done")
    /\ \/ \E p \in 1 .. Len(log) + 1 : After(m, p) /\ Reply(m, p) /\ UNCHANGED <<outbound, trouble>>
       \/ Enqueue("handler", m) /\ UNCHANGED log
       \/ UNCHANGED <<log, outbound, trouble>>
    /\ UNCHANGED <<Owner, pause, job, Records>>

HandlerStep(m) == BadRating(m) \/ Gate(m) \/ Compose(m) \/ Send(m)

----------------------------------------------------------------------------
(* The handoff job, once a minute and never twice at a time. *)

\* run_human_handoff: customers a human answered within the day, grace over.
\* The transaction that will write the reply's row begins here.
JobLists ==
    /\ job = Idle /\ humanAge = "cool" /\ Arrived > 0
    /\ job' = [at |-> "listed", of |-> 0, loaded |-> pause, began |-> Len(log)]
    /\ UNCHANGED <<log, Owner, pause, handler, Records, outbound, trouble>>

StillOpen(m) ==
    /\ Arrived = m
    /\ ~HandledExceptBy(Humans)
    /\ ~job.loaded.on
    /\ enabled

\* Mutant: no look at the last outbound message before the claim.
ClaimsUnlooked ==
    LET m == Arrived IN
    /\ job.at = "listed"
    /\ IF ~HumanWaiting /\ m \notin claimed
          THEN /\ claimed' = claimed \cup {m}
               /\ overlapped' = overlapped \cup ({m} \cap Busy)
               /\ job' = [job EXCEPT !.at = "composing", !.of = m]
          ELSE job' = Idle /\ UNCHANGED <<claimed, overlapped>>
    /\ UNCHANGED <<log, Owner, pause, handler, late, dropped, outbound, trouble>>

\* _reply_one up to the model: a phone reply after the message is taken for
\* the takeover itself, any other row, a notice too, for its answer.  The key
\* is claimed, and given back if the second look finds the turn closed.
JobClaims ==
    LET m == Arrived IN
    /\ job.at = "listed"
    /\ IF ~HumanWaiting /\ ~HandledExceptBy({"human"}) /\ m \notin claimed /\ StillOpen(m)
          THEN /\ claimed' = claimed \cup {m}
               /\ overlapped' = overlapped \cup ({m} \cap Busy)
               /\ job' = [job EXCEPT !.at = "composing", !.of = m]
          ELSE job' = Idle /\ UNCHANGED <<claimed, overlapped>>
    /\ UNCHANGED <<log, Owner, pause, handler, late, dropped, outbound, trouble>>

\* Mutant: a turn given up keeps its key.
ReleaseNothing == job' = Idle /\ UNCHANGED claimed

Release == job' = Idle /\ claimed' = claimed \ {job.of}

\* The model may stay silent, or see a complaint and pause the thread, which
\* the last look then respects.
JobComposes ==
    /\ job.at = "composing"
    /\ \/ Trouble /\ Release /\ UNCHANGED pause
       \/ /\ IF StillOpen(job.of) /\ ~HumanWaiting
                THEN job' = [job EXCEPT !.at = "sending"] /\ UNCHANGED claimed
                ELSE Release
          /\ UNCHANGED <<pause, trouble>>
       \/ Release /\ pause' = [on |-> TRUE, at |-> "recent"] /\ UNCHANGED trouble
    /\ UNCHANGED <<log, Owner, handler, late, dropped, overlapped, outbound>>

\* A transient failure leaves the key taken; a permanent one gives it back.
JobSends ==
    /\ job.at = "sending"
    /\ \/ /\ \E p \in job.began + 1 .. Len(log) + 1 : Reply(job.of, p)
          /\ job' = Idle /\ UNCHANGED <<claimed, outbound, trouble>>
       \/ Trouble /\ Release /\ UNCHANGED <<log, outbound>>
       \/ Enqueue("job", job.of) /\ job' = Idle /\ UNCHANGED <<log, claimed>>
    /\ UNCHANGED <<Owner, pause, handler, late, dropped, overlapped>>

JobStep == JobLists \/ JobClaims \/ JobComposes \/ JobSends

----------------------------------------------------------------------------
(* The outbound queue, drained every minute. *)

\* The drain sends a reply of the AI only while the AI may speak and no human
\* has since it was queued; otherwise, and after too many attempts, too long a
\* time or a refusal, the row is dead.
Drain(q) ==
    LET allowed == ~pause.on /\ enabled /\ ~HumanWaiting /\ ~q.spoken IN
    /\ outbound' = outbound \ {q}
    /\ \/ /\ allowed
          /\ log' = Append(log, [by |-> "ai", of |-> q.of])
          /\ late' = late \cup {m \in {q.of} : q.by = "handler"}
          /\ UNCHANGED <<dropped, trouble>>
       \/ /\ IF allowed THEN Trouble ELSE UNCHANGED trouble
          /\ dropped' = dropped \cup {q.of}
          /\ UNCHANGED <<log, late>>
    /\ UNCHANGED <<Owner, pause, handler, job, claimed, overlapped>>

DrainStep == \E q \in outbound : Drain(q)

----------------------------------------------------------------------------
(* People, clocks and crashes. *)

\* From the phone (_handle_waha_manual_outbound) or the dashboard's Inbox.
HumanWrites(by) ==
    /\ Cardinality({i \in DOMAIN log : log[i].by \in Humans}) < MaxHuman
    /\ log' = Append(log, [by |-> by, of |-> 0])
    /\ humanAge' = "fresh"
    /\ outbound' = {[q EXCEPT !.spoken = TRUE] : q \in outbound}
    /\ UNCHANGED <<enabled, manual, pause, handler, job, Records, trouble>>

\* Whatever else the program sends the customer: a status, a reminder, a campaign.
Notice ==
    /\ Trouble
    /\ log' = Append(log, [by |-> "bot", of |-> 0])
    /\ UNCHANGED <<Owner, pause, handler, job, Records, outbound>>

\* toggle_agent: a manual pause carries no time.
Toggle(on) ==
    /\ Trouble
    /\ pause' = [on |-> on, at |-> "null"] /\ pause' # pause
    /\ manual' = on
    /\ UNCHANGED <<log, humanAge, enabled, handler, job, Records, outbound>>

SwitchAgent ==
    /\ Trouble
    /\ enabled' = ~enabled
    /\ UNCHANGED <<log, humanAge, manual, pause, handler, job, Records, outbound>>

PauseAges ==
    /\ Trouble
    /\ pause.at = "recent" /\ pause' = [pause EXCEPT !.at = "expired"]
    /\ UNCHANGED <<log, Owner, handler, job, Records, outbound>>

GraceElapses ==
    /\ humanAge = "fresh" /\ humanAge' = "cool"
    /\ UNCHANGED <<log, enabled, manual, pause, handler, job, Records, outbound, trouble>>

DayPasses ==
    /\ Trouble
    /\ humanAge = "cool" /\ humanAge' = "old"
    /\ UNCHANGED <<log, enabled, manual, pause, handler, job, Records, outbound>>

\* The process dies: what it was answering is stored, so the replayed event
\* is a duplicate and answers nothing; a claim stays.
Crash ==
    /\ Trouble
    /\ handler' = [m \in Inbound |-> IF m \in Busy THEN Fresh("done") ELSE handler[m]]
    /\ job' = Idle
    /\ dropped' = dropped \cup Busy \cup {m \in claimed : job # Idle /\ job.of = m}
    /\ UNCHANGED <<log, Owner, pause, claimed, late, overlapped, outbound>>

ThreadNext ==
    \/ \E m \in Inbound : Arrive(m) \/ HandlerStep(m)
    \/ JobStep \/ DrainStep
    \/ \E by \in Humans : HumanWrites(by)
    \/ \E on \in BOOLEAN : Toggle(on)
    \/ Notice \/ SwitchAgent \/ PauseAges \/ GraceElapses \/ DayPasses \/ Crash

\* The scheduler fires both jobs every minute, the handlers are tasks of a
\* running loop, and time passes.  Nobody has to write, and a day need not end.
ThreadFairness ==
    /\ \A m \in Inbound : WF_threadVars(HandlerStep(m))
    /\ WF_threadVars(JobStep) /\ WF_threadVars(DrainStep)
    /\ WF_threadVars(GraceElapses)

ThreadSpec == ThreadInit /\ [][ThreadNext]_threadVars /\ ThreadFairness

----------------------------------------------------------------------------

AiRow(i, m) == log[i].by = "ai" /\ log[i].of = m

\* "One thing said, one answer": a message has two logged answers of the AI only
\* when the human wrote from the phone after the first, which reopens the turn,
\* when the handoff job and the message's own handler were composing together, or
\* when the handler's answer came late, from the outbound queue, where the job's
\* look at the log does not see it; and never a third.
AnsweredOnce ==
    \A m \in Inbound : \A i, j \in DOMAIN log :
        i < j /\ AiRow(i, m) /\ AiRow(j, m) =>
            /\ \A k \in DOMAIN log : AiRow(k, m) => k \in {i, j}
            /\ \/ m \in overlapped \cup late
               \/ \E k \in DOMAIN log : k > i /\ log[k].by = "human"

\* A message held for the human is answered by the AI once the grace period
\* is over, at once or through the outbound queue, unless a newer message takes
\* its place, the program sends anything but a phone reply after it (the job
\* takes an automated notice for the answer), the owner stops the AI, a day
\* passes, or its reply was lost with a crash or given up by the queue.
HeldIsAnswered ==
    \A m \in Inbound :
        handler[m].at = "held" ~>
            \/ \E i \in DOMAIN log : AiRow(i, m)
            \/ Arrived > m \/ m \in dropped
            \/ HandledExceptBy({"human"})
            \/ pause.on \/ ~enabled \/ humanAge = "old"

\* toggle_agent: a manual pause lasts until the owner resumes.
ManualPauseHolds == manual => pause.on
=============================================================================
