---------------------------- MODULE Escalations -----------------------------
(***************************************************************************)
(* Cases passed to the owner: raise_escalation stores a case and alerts    *)
(* the admins, and the hourly remind_overdue_escalations alerts them once  *)
(* more when it is still open after the SLA.  Nothing closes a case.  The  *)
(* job keeps its rows locked, and its marks unwritten, in one session: any *)
(* commit inside a send writes the marks and frees the rows, and a send    *)
(* that fails rolls the session back when it queues the message.  A queued *)
(* message is with the queue's drain, which delivers it or gives it up.    *)
(***************************************************************************)
EXTENDS Integers, FiniteSets

CONSTANTS
    Case,
    Chief,           \* alert_recipients
    OnStaff,         \* those with a staff row: a message to them is stored and committed
    Rounder,         \* schedulers whose hourly job may be running
    NoCase,
    MaxFailures      \* failed sends, and deaths of a job

ASSUME EscalationAssumption ==
    /\ OnStaff \subseteq Chief /\ NoCase \notin Case
    /\ IsFiniteSet(Rounder) /\ MaxFailures \in Nat

VARIABLES
    stored,          \* escalations rows
    toAlert,         \* whom the request that raised a case has yet to alert
    told,            \* cases a message of which was sent to an admin
    parked,          \* messages of outbound_queue: case, admin, and which of the two
    overdue,         \* older than the SLA
    reminded,        \* owner_reminded_at is set
    rounds,          \* local state of the jobs and their sessions
    copies,          \* history: reminders sent or queued, by case and admin
    excused,         \* history: marks discarded, rows taken from a job that had let
                     \* them go, and messages queued besides the one sent
    swallowed,       \* history: cases a reminder of which nobody kept, or the drain gave up
    failures         \* how many failures there were

escalationVars == <<stored, toAlert, told, parked, overdue, reminded, rounds, copies, excused,
                    swallowed, failures>>

Parked == Case \X Chief \X {"alert", "reminder"}

OffDuty == [at |-> "idle", todo |-> {}, locked |-> {}, cur |-> NoCase, left |-> {},
            ok |-> FALSE, marks |-> {}, expired |-> FALSE]

\* Every variable has its type; only what is stored falls due, and no row is
\* locked by two sessions.
EscalationTypeOK ==
    /\ {stored, told, overdue, reminded, swallowed} \subseteq SUBSET Case
    /\ toAlert \in [Case -> SUBSET Chief] /\ parked \subseteq Parked
    /\ rounds \in [Rounder ->
         [at: {"idle", "rows"}, todo: SUBSET Case, locked: SUBSET Case, cur: Case \cup {NoCase},
          left: SUBSET Chief, ok: BOOLEAN, marks: SUBSET Case, expired: BOOLEAN]]
    /\ copies \in [Case \X Chief -> Nat] /\ excused \in [Case -> Nat]
    /\ failures \in 0..MaxFailures
    /\ reminded \subseteq overdue /\ overdue \subseteq stored
    /\ \A i, j \in Rounder : i # j => rounds[i].locked \cap rounds[j].locked = {}

EscalationInit ==
    /\ stored = {} /\ told = {} /\ parked = {} /\ overdue = {} /\ reminded = {} /\ swallowed = {}
    /\ toAlert = [c \in Case |-> {}] /\ rounds = [j \in Rounder |-> OffDuty]
    /\ copies = [x \in Case \X Chief |-> 0] /\ excused = [c \in Case |-> 0] /\ failures = 0

reminding == <<reminded, rounds, copies, excused, swallowed>>
raising   == <<stored, toAlert, overdue>>

Failure == failures < MaxFailures /\ failures' = failures + 1

----------------------------------------------------------------------------
(* raise_escalation.                                                       *)

RaiseCase(c) ==
    /\ c \notin stored
    /\ stored' = stored \cup {c}
    /\ toAlert' = [toAlert EXCEPT ![c] = Chief]
    /\ UNCHANGED <<told, parked, overdue, failures, reminding>>

\* The raising request is done with an admin.
Attempted(c, r) == r \in toAlert[c] /\ toAlert' = [toAlert EXCEPT ![c] = @ \ {r}]

AlertChief(c, r) ==
    /\ Attempted(c, r)
    /\ told' = told \cup {c}
    /\ UNCHANGED <<stored, parked, overdue, failures, reminding>>

\* Queued by _queue_alert after every SendError, also a permanent one, besides
\* what send_message queued itself.
AlertQueued(c, r) ==
    /\ Failure
    /\ Attempted(c, r)
    /\ parked' = parked \cup {<<c, r, "alert">>}
    /\ UNCHANGED <<stored, told, overdue, reminding>>

\* _queue_alert swallows its own failure, and any other exception of a send is
\* logged: nobody keeps the message.
AlertLost(c, r) ==
    /\ Failure
    /\ Attempted(c, r)
    /\ UNCHANGED <<stored, told, parked, overdue, reminding>>

RaiserDies(c) ==
    /\ toAlert[c] # {}
    /\ toAlert' = [toAlert EXCEPT ![c] = {}]
    /\ UNCHANGED <<stored, told, parked, overdue, failures, reminding>>

GoesOverdue(c) ==
    /\ c \in stored \ overdue
    /\ overdue' = overdue \cup {c}
    /\ UNCHANGED <<stored, toAlert, told, parked, failures, reminding>>

----------------------------------------------------------------------------
(* The drain of OutboundQueue, as far as these messages go.                *)

QueueDelivers(m) ==
    /\ parked' = parked \ {m}
    /\ told' = told \cup {m[1]}
    /\ UNCHANGED <<stored, toAlert, overdue, failures, reminding>>

\* A permanent refusal, the last attempt failed, or the row went stale: dead,
\* and nobody looks at the case again on its account.
QueueGivesUp(m) ==
    /\ parked' = parked \ {m}
    /\ swallowed' = IF m[3] = "reminder" THEN swallowed \cup {m[1]} ELSE swallowed
    /\ UNCHANGED <<stored, toAlert, told, overdue, reminded, rounds, copies, excused, failures>>

RowEnds == \E m \in parked : QueueDelivers(m) \/ QueueGivesUp(m)

----------------------------------------------------------------------------
(* remind_overdue_escalations.                                             *)

\* Mutant of Free: skip_locked is gone, and so is the lock.
FreeOfLocks(j) == Case
Free(j) == Case \ UNION {rounds[i].locked : i \in Rounder \ {j}}

\* Mutant of Due: every overdue case, also one already reminded of.
DueStill == overdue
Due      == overdue \ reminded

\* Cases a job has not written off yet, although its session let the rows go.
HeldLoosely == UNION {rounds[i].todo \cup rounds[i].marks \cup ({rounds[i].cur} \ {NoCase}) :
                         i \in {k \in Rounder : rounds[k].locked = {}}}
Excuse(cs) == [c \in Case |-> excused[c] + IF c \in cs THEN 1 ELSE 0]

\* FOR UPDATE SKIP LOCKED.
SelectOverdue(j) ==
    LET found == Due \cap Free(j) IN
    /\ rounds[j].at = "idle" /\ found # {}
    /\ excused' = Excuse(found \cap HeldLoosely)
    /\ rounds' = [rounds EXCEPT ![j] = [OffDuty EXCEPT !.at = "rows", !.todo = found,
                                                       !.locked = found]]
    /\ UNCHANGED <<raising, told, parked, reminded, copies, swallowed, failures>>

\* The next case of the rows, oldest first: any, for the model.
TurnToCase(j, c) ==
    /\ rounds[j].at = "rows" /\ rounds[j].cur = NoCase /\ ~rounds[j].expired
    /\ c \in rounds[j].todo
    /\ rounds' = [rounds EXCEPT ![j].cur = c, ![j].todo = @ \ {c}, ![j].left = Chief,
                                ![j].ok = FALSE]
    /\ UNCHANGED <<raising, told, parked, reminded, copies, excused, swallowed, failures>>

\* The next admin of the case a job is at.
NextChief(j, r) == rounds[j].cur # NoCase /\ r \in rounds[j].left
Copied(j, r, n) == copies' = [copies EXCEPT ![<<rounds[j].cur, r>>] = @ + n]

\* Storing the message commits the session.
Remind(j, r) ==
    LET s == rounds[j] IN
    /\ NextChief(j, r)
    /\ Copied(j, r, 1)
    /\ told' = told \cup {s.cur}
    /\ IF r \in OnStaff
       THEN /\ reminded' = reminded \cup s.marks
            /\ rounds' = [rounds EXCEPT ![j] = [s EXCEPT !.left = @ \ {r}, !.ok = TRUE,
                                                         !.marks = {}, !.locked = {}]]
       ELSE /\ rounds' = [rounds EXCEPT ![j] = [s EXCEPT !.left = @ \ {r}, !.ok = TRUE]]
            /\ UNCHANGED reminded
    /\ UNCHANGED <<raising, parked, excused, swallowed, failures>>

\* The roll-back before the queue row: marks and locks are gone, and every row
\* of the job is expired.
RolledBack(s, r) == [s EXCEPT !.left = @ \ {r}, !.ok = TRUE, !.marks = {}, !.locked = {},
                              !.expired = TRUE]

\* A permanent failure queues one row; a transient one queues two, and the
\* message may have left already.
RemindFails(j, r) ==
    LET s == rounds[j] IN
    /\ Failure
    /\ NextChief(j, r)
    /\ \E n \in 1..3 :
          /\ Copied(j, r, n)
          /\ excused' = [Excuse(s.marks) EXCEPT ![s.cur] = @ + n - 1]
    /\ parked' = parked \cup {<<s.cur, r, "reminder">>}
    /\ rounds' = [rounds EXCEPT ![j] = RolledBack(s, r)]
    /\ UNCHANGED <<raising, told, reminded, swallowed>>

\* As above, with _queue_alert failing too: what send_message queued itself
\* failed as well, and the case counts as reminded of.
RemindLost(j, r) ==
    LET s == rounds[j] IN
    /\ Failure
    /\ NextChief(j, r)
    /\ excused' = Excuse(s.marks)
    /\ swallowed' = swallowed \cup {s.cur}
    /\ rounds' = [rounds EXCEPT ![j] = RolledBack(s, r)]
    /\ UNCHANGED <<raising, told, parked, reminded, copies>>

\* The gateway took the message and the commit of its row failed: the session
\* is rolled back as above, and the case does not count as reminded of.
RemindUnrecorded(j, r) ==
    LET s == rounds[j] IN
    /\ Failure
    /\ NextChief(j, r) /\ r \in OnStaff
    /\ Copied(j, r, 1)
    /\ told' = told \cup {s.cur}
    /\ excused' = Excuse(s.marks \cup {s.cur})
    /\ rounds' = [rounds EXCEPT ![j] = [RolledBack(s, r) EXCEPT !.ok = s.ok]]
    /\ UNCHANGED <<raising, parked, reminded, swallowed>>

\* Any other exception of a send is logged, and the next admin tried.
RemindBroken(j, r) ==
    /\ Failure
    /\ NextChief(j, r)
    /\ rounds' = [rounds EXCEPT ![j].left = @ \ {r}]
    /\ UNCHANGED <<raising, told, parked, reminded, copies, excused, swallowed>>

\* Mutant of Handled: tried is as good as sent.
Tried(s)   == TRUE
Handled(s) == s.ok

\* owner_reminded_at is set on the session's row.
MarkCase(j) ==
    LET s == rounds[j] IN
    /\ s.cur # NoCase /\ s.left = {}
    /\ rounds' = [rounds EXCEPT ![j].cur = NoCase,
                                ![j].marks = IF Handled(s) THEN @ \cup {s.cur} ELSE @]
    /\ UNCHANGED <<raising, told, parked, reminded, copies, excused, swallowed, failures>>

\* The commit at the end.
EndRound(j) ==
    LET s == rounds[j] IN
    /\ s.at = "rows" /\ s.cur = NoCase /\ s.todo = {}
    /\ reminded' = reminded \cup s.marks
    /\ rounds' = [rounds EXCEPT ![j] = OffDuty]
    /\ UNCHANGED <<raising, told, parked, copies, excused, swallowed, failures>>

\* Whatever ends the job before its commit discards its marks.
Discarded(j) ==
    /\ excused' = Excuse(rounds[j].marks \cup ({rounds[j].cur} \ {NoCase}))
    /\ rounds' = [rounds EXCEPT ![j] = OffDuty]

\* Reading an expired row raises in an async session, and ends the job.
RoundBreaks(j) ==
    /\ rounds[j].cur = NoCase /\ rounds[j].expired /\ rounds[j].todo # {}
    /\ Discarded(j)
    /\ UNCHANGED <<raising, told, parked, reminded, copies, swallowed, failures>>

RoundDies(j) ==
    /\ Failure
    /\ rounds[j].at = "rows"
    /\ Discarded(j)
    /\ UNCHANGED <<raising, told, parked, reminded, copies, swallowed>>

RoundNext(j) ==
    \/ SelectOverdue(j) \/ \E c \in Case : TurnToCase(j, c)
    \/ \E r \in Chief : Remind(j, r)
    \/ MarkCase(j) \/ EndRound(j) \/ RoundBreaks(j)

EscalationNext ==
    \/ \E c \in Case :
          \/ RaiseCase(c) \/ RaiserDies(c) \/ GoesOverdue(c)
          \/ \E r \in Chief : AlertChief(c, r) \/ AlertQueued(c, r) \/ AlertLost(c, r)
    \/ RowEnds
    \/ \E j \in Rounder :
          \/ RoundNext(j) \/ RoundDies(j)
          \/ \E r \in Chief : \/ RemindFails(j, r) \/ RemindLost(j, r)
                              \/ RemindUnrecorded(j, r) \/ RemindBroken(j, r)

\* Time passes, the job runs every hour on some scheduler, and the drain ends
\* every row (QueuedRowEnds).
Rounds ==
    \/ \E c \in Case : GoesOverdue(c)
    \/ RowEnds
    \/ \E j \in Rounder : RoundNext(j)

----------------------------------------------------------------------------
\* Each admin is reminded of a case once: every further copy answers to a
\* failed send, a death, or a commit inside a send that freed the row while
\* another scheduler's job was looking ("Send one second owner alert").
RemindedOfOnce == \A c \in Case, r \in Chief : copies[<<c, r>>] <= 1 + excused[c]

\* The cases that are stored reach an admin, by the alert or by the reminder that
\* makes up for it, unless the reminder itself was queued and given up, or not
\* kept at all: alerts that are lost or given up, dying requests and jobs,
\* roll-backs and broken rounds only delay it.
OwnerHears == stored # {} ~> stored \subseteq told \cup swallowed
=============================================================================
