# KwikKlin in TLA+

A model of the parts of the KwikKlin laundry dashboard in which things can go
wrong between two commits: messages that leave the shop and messages that
reach it, the conversations behind them, one order on its way from pickup to
payment, the money and the credits that go through the books, and what the
shop sends of its own accord.  The modules are translated from the Python code
under `src/app`; `PROJECT.json` maps every definition to its lines.

Contents: [inventory](#inventory), [the modules](#the-modules),
[the runs](#the-runs), [fairness](#fairness), [the proofs](#the-proofs),
[what the checks found](#what-the-checks-found),
[what is not modelled](#what-is-not-modelled), [what is left](#what-is-left).

## Inventory

The program is one FastAPI process per worker (several workers may run), one
PostgreSQL database, an in-process scheduler that only the holder of an
advisory lock may run, a WhatsApp gateway (WAHA), Razorpay, and language
models.  The components talk through function calls inside a request, through
rows of the shared database between requests, and through HTTP to the outside.
Sessions have the default isolation (READ COMMITTED) and
`expire_on_commit=False` (`database.py`): what a request loaded stays as it was
until it is read again, over every await.  Most of what follows is about values
that have grown stale that way, and about what a crash leaves between two
commits.

| Component | State | Operations | Hard behaviour | What makes it correct |
|---|---|---|---|---|
| Outbound gateway and queue (`services/whatsapp.py`, `waha.py`) | `outbound_queue` rows, `sent_events` claims | `send_message`, `_enqueue_outbound`, `drain_outbound_queue` | overlapping drains, stale snapshots, crashes, lost answers | one gateway call per attempt; no message twice; every row ends |
| Webhook journal (`routers/webhook.py`) | `webhook_events`, `conversations` | receive (WAHA, Meta, DotPe), `_handle_inbound_message`, `_mark_event`, `retry_stuck_webhook_events` | provider retries, replays of live requests, crashes, poison events | a message is answered at most once; "processed" means stored, for a sender whose number can be read; retries are bounded; every event settles |
| One order (`services/order_service.py`, `delivery.py`, `routers/orders.py`) | `orders` row, `payments` | `update_status`, `deliver`, `hold`, `release`, `edit_order`, `record_payment`, adjustments, bill at pickup | requests that decide on a row loaded earlier; a JSON column written as a whole | paid = ledger; payment rule; lines tell what was delivered; the bill adds up; the state machine |
| Collection and payment links (`staff_panel.collect_payment`, `order_payment_gateway.py`, `orders.delete_order`) | `payments`, `orders` | collect a sheet, pay a link, type a payment, edit, cancel, delete | a commit per bill, retries, an unlocked ceiling, a webhook repeated | a sheet and a link are booked once and in whole |
| Cash handover (`staff_panel.hand_over_cash`) | `cash_handovers`, `payments` | hand over, confirm, rename | a payment that commits behind a window already read | a cash payment is in one handover |
| Credits (`credits.py`, `control.py`) | tenant's credits, `credit_ledger` | recharge, approve, spend, nightly expiry | absolute writes over concurrent spends | no credits out of nothing |
| AI budget (`quota.py`, `llm_client.py`) | reservations, `llm_usage` | reserve, call, fall back, record | calls side by side, two sums read one after the other, timeouts, lost records | the month's budget is a ceiling |
| Subscription (`billing.py`) | `billing_events`, `tenants` | webhook, nightly sweep | journaled before acted on; events out of order, or with one key | who has paid is served |
| Stage tasks (`services/tasks.py`, `ops_agent.py`) | `tasks` | hooks after a status change, taps, planner | hooks that run late | no order without somebody's task |
| Campaigns (`marketing.py`, `outbound_policy.py`) | campaign, recipients, slots | approve, queue, work, brake | a worker resumed beside a living one, lost answers | once to each, stoppable, within budget |
| Pickup bills, coupons and rewards (`staff_panel.create_bill`, `services/rewards.py`) | tasks, orders, redemptions | bill a pickup, redeem, reward | double Save, commits after the order's, a mark others overwrite | one order per pickup, one use per coupon |
| Web orders (`self_order.py`) | `_DRAFTS`, orders | park, take out, place | a double tap; the draft is in memory | one order per draft and per list |
| Referrals (`referrals.py`) | rewards, codes, claims | reward, notice, share code | hooks of overlapping deliveries | one reward per customer |
| Customer's thread (`webhook.py`, `human_handoff.py`) | `conversations`, the pause | reply, hold, take over, pause | handler, job, queue and owner answer side by side | one answer per message; a held message is answered |
| Pickups booked in chat (`ai_agent.py`) | `ai_pending_intake`, orders | summarise, confirm, book | a corrected summary still on screen | booked as confirmed, one at a time |
| Staff dictation (`bill_agent.py`) | `_PENDING` | draft, correct, confirm, carry out | double "haan", a failure that puts the draft back | one order per slip |
| Scheduler and its claims (`scheduler_leader.py`, `scheduler.py`) | advisory lock, jobs, `sent_events` | stand, lead, lose, claim, send, give back | two leaders after a lost session | one scheduler; one copy of a reminder |
| Leads and follow-ups (`leads.py`, `engage.py`) | `leads`, claims | ladder, nudges | rows loaded at the start of a paced tick | each rung once, limits kept |
| Escalations (`escalation.py`) | `escalations` | raise, alert, remind | sends that commit or roll back the job's own session | one reminder; the owner hears |
| Everything else: auth, settings, audit, backup, rate card, receipts, website, dashboards, Google and social integrations | - | sequential requests, pure functions, I/O | - | - |

`PROJECT.json` lists the components one by one with their status, and the
hazards of each at the line where they bite.

## The modules

| Module | Content | Checked in | Proved in |
|---|---|---|---|
| `OutboundQueue` | `send_message`, the queue, the drain | `MCSends`, `MCOutboundQueue` | `SendProofs` |
| `Escalations` | cases, alerts, the hourly reminder | `MCSends` | `SendProofs` |
| `WebhookJournal` | the journal, processing, the retry job | `MCIntake`, `MCWebhookJournal` | `IntakeProofs` |
| `Nudges` | the lead ladder and the follow-ups | `MCIntake` | `IntakeProofs` |
| `OrderLifecycle` | one order under concurrent requests | `MCOrderLifecycle` | `OrderLifecycleProofs` |
| `PaymentLedger` | abstract: what the payments table promises | as `LedgerKept` in `MCOffice` | `MoneyProofs` |
| `Collections` | staff's sheets, payment links, deletion of a bill | `MCOffice` | `MoneyProofs` |
| `CashHandover` | the evening's cash | `MCOffice` | `MoneyProofs` |
| `Credits` | prepaid credits | `MCOffice` | `MoneyProofs` |
| `AiQuota` | the month's budget and the day's cap | `MCOffice` | `MoneyProofs` |
| `Subscription` | provider's events and the nightly sweep | `MCOffice` | `MoneyProofs` |
| `StageTasks` | tasks that follow an order's stages | `MCOffice` | `ShopProofs` |
| `Campaigns` | one campaign and its workers | `MCOffice` | `ShopProofs` |
| `PanelBills` | pickups billed at the panel, coupons, rewards | `MCOffice` | `ShopProofs` |
| `SelfOrder` | orders placed on the web page | `MCOffice` | `ShopProofs` |
| `Referrals` | the referral reward and the share code | `MCOffice` | `ShopProofs` |
| `CustomerThread` | everybody who may answer a customer | `MCDesk` | `DeskProofs` |
| `PickupBooking` | a pickup agreed in the chat | `MCDesk` | `DeskProofs` |
| `StaffDesk` | what staff dictate and confirm | `MCDesk` | `DeskProofs` |
| `Scheduler` | election of the leader, claimed reminders | `MCDesk` | `DeskProofs` |
| `SetSums` | lemmas: sums over finite sets | - | itself |

Common conventions.  One action is one commit or one call to the outside;
between two actions anybody else may act.  A crash takes a process's local
variables and leaves the database.  Variables named "history" in a comment
record what happened for the properties and are read by no guard.  Counters
that the code leaves unbounded are cut by a named bound (`MaxCrashes`,
`MaxTrouble`, `MaxCommits`, ...).  A definition called "Mutant of X" stands
before X and is used only to check that a property notices that bug.

**Composition.**  `MCSends`, `MCIntake`, `MCOffice` and `MCDesk` put several
modules together.  The parts of one of them share no row: a step of one reads
nothing the others write.  Their product would multiply the states and show
nothing more, so a variable `part`, fixed in the initial state, says which
module moves.  What parts do share is modelled inside the module that needs
it: a failed send is an outcome every sender meets, a claim in `sent_events`
is a set of keys in each module that claims.  Each composition has its theorem
(`SendsHold`, `IntakeHolds`, `OfficeHolds`, `DeskHolds`): what is proved of the
parts holds of the specification that TLC explores.

### OutboundQueue

`caller[m]` is the first `send_message` call of message m; `status`,
`attempts`, `error`, `born`, `due`, `aged` are the columns of its
`outbound_queue` row (times as ranks or as "has passed"); `claims` is the part
of `sent_events` the drain uses; `pc`, `todo`, `cur`, `expired`, `answer` are
the local variables of each running drain, `todo` being the snapshot of the
rows' values taken before the first commit.  A drain goes `SelectRows`, then
per row `TakeRow`, `RejectUntenanted` or `ExpireStale` or `Gate` (and
`SuppressAi`), `Claim` (and `SuppressDuplicate`), `CallGateway`, `Settle`, as
the body of the loop in `drain_outbound_queue` does.

A call ends in one of `Answers`: delivered, refused for good (quota, policy,
consent, a 4xx), a transient failure, another exception; with `Ambiguous` also
"timeout" and "unrecorded", which reached the recipient although the caller
sees a failure.  The legacy Meta and DotPe transport, which `send_message`
no longer reaches, the texts, and the policy and quota checks inside
`send_message` are abstracted into these outcomes.

### WebhookJournal

`body[e]` is the envelope (source, how the tenant is found, message), the rest
of the first group are columns of `webhook_events`; `stored` is the set of
`wa_message_id`s in `conversations`.  Workers are the requests and the
executions of the retry job; both run `Store` (or `StoreDuplicate`), `Reply`,
`Finish`.  `Reply` is the whole chain of gates, model and send: what it decides
is `CustomerThread`'s business, here it is only gone through.  A retry job
works through the rows it selected, in order, with the attempt counts it read.
`arrival` is the order of `received_at`; `old` says that five minutes have
passed.  `MarkEvent` may fail, as `_mark_event` swallows its own exceptions.
A body's sender may have no readable number: the handler then returns in
silence and the event is closed with nothing stored (`SenderUnread`), which is
why `ProcessedMeansStored` speaks of readable senders.

Delivery-status bodies and WAHA acks have no message and change no journal
state but the mark; they are left out, as is the owner's Google-post flow.

### OrderLifecycle

`row` is the order's row, `copy[s]` the row as the session of request s last
read it.  `Save` is the ORM's unit of work: the columns that the request
changed in its copy are written, the others keep what the row has by now.
Status, delivery, hold and edit requests work on the copy.  Payments,
adjustments and the pickup bill take the row lock and read again, so their
actions work on `row`.  `items` is one JSON column: clothes given and held,
and adjustment lines.  One kind of clothes stands for all lines.

`stale` collects the columns on which some request acted although they had
changed under it; properties that the code keeps only without such a conflict
say so with it, and the violation runs show what happens with one.

Five endpoints that change the status under narrower conditions (picked up,
washing, ironing, ready, task done) call `update_status` and are instances of
`ChangeStatus`.  The status-history row is written in the same commit as the
status and carries no decision.  `EditBill` with `rebuild` is the dashboard's
edit screen, which posts lines without counts and ids (`static/app.js`).

### Money: PaymentLedger, Collections, CashHandover, Credits, AiQuota, Subscription

`PaymentLedger` says what every report that reads `payments` relies on: rows
are only added, one at a time, with a reference nobody has; `amount_paid`
moves along; a bill that is deleted takes its rows with it.  `Collections` is
the code below it.  A sheet (`r`) is a request the phone keeps sending until
it is answered: `desk` looks for its `client_ref`, reads the dues unlocked,
splits the money, and pays bill by bill, a commit each, under that bill's
lock.  A link is created for a due, paid once, and its webhook is repeated
until answered.  A payment typed on the dashboard, in WhatsApp or as an advance
(`PayByHand`) has no reference and no ceiling: "Overpayment is ALLOWED" is the
owner's rule (`order_service.record_payment`).  `cut`, `forgot`, `raced`,
`excused` are histories that name the ways a sheet is cut short or overtaken
and a bill paid above its total; each names one code path, and the properties
except exactly those.

`CashHandover` keeps the clock in it: both `received_at` and the window's end
are the start time of a transaction, which may wait for a lock before it reads
or commits; the first window of a person starts `LookBack` (30 days in the
code) before it is read.  `Credits` has one atomic statement (`Spend`) and many
that read, compute and write back (`clerk`, `sweep`); `inside` counts what was
drawn in between.  `AiQuota` distinguishes what the provider charged (`billed`)
from what is recorded (`spent`, `rows`) and reserved.  A call is weighed by two
statements, the sum of the usage (`Weigh`) and later that of the reservations
(`Admit`); the advisory lock keeps other calls from weighing in between, not
from recording a usage and releasing its reservation, which `check` follows and
`slipped` counts.  The estimate (`Cost`) leaves out the history and the tools'
schemas, so an answer may cost more (`Price`; `above` is the difference), and a
call that got no answer may have been charged (`hidden`). `Subscription`
journals an event in one commit and acts on it in the next; both it and the
sweep write only the columns that differ from the tenant they loaded.  An event
without an id of its own has its payment's as key (`KeyOf`), and one that leads
to no shop is journaled and left at that (`Named`).

### Conversations: CustomerThread, PickupBooking, StaffDesk, Scheduler

`CustomerThread` has the thread's rows (`log`), the pause, and for each inbound
message its handler with the pause it loaded; `job` is the minutely hand-over
job with its list, claim, second look and send.  A reply that fails for the
moment goes to `outbound` without a row of the log, and the drain sends it
later, as long as the AI may speak and no human has (`Drain`; `late` is the
history).  A `Notice` stands for whatever else the program sends the customer;
the job takes it for the answer.  The log is ordered by `created_at`, the start
of a row's transaction, so a reply of the job may come to stand before rows
committed while it was composed.  Texts and model are choices.
`PickupBooking` and `StaffDesk` handle messages of one sender side by side:
each has in `replying[m]` or `handling[m]` what it loaded, and the one slot
they share (`pending`, the sender's entry in `_PENDING`).  `Scheduler` has the
lock's holder, each worker's place in the election (`term`), its jobs, and the
claims of the reminders those jobs send.

### What the shop starts itself: Escalations, Nudges, Campaigns, PanelBills, StageTasks, SelfOrder, Referrals

Each has the rows and, per request or job, what it loaded and where it is.
`Escalations` models the session its job shares with its sends: `locked` rows
and unwritten `marks` are committed by a stored message and rolled back by a
failed one.  Every failed alert is queued (`parked`), a permanent refusal too,
and the drain delivers it or gives it up: a case is `told` only by a message
that left.  `Nudges` and `Campaigns` claim a key before each send and work
from rows loaded at the start of the tick; in `Campaigns` the gateway may take
a message and its answer be lost (`lost`), whereupon the message is queued or
tried again.  `PanelBills` keeps the billing mark in the pickup's task, the
order, its coupon and its advance as the separate commits they are; the mark's
column is also where `note_reply` writes what a staff member answers
(`rewritten`).  `StageTasks` runs a status change and its hook as two steps of
one request, so that hooks can come late.  `SelfOrder` and `Referrals` separate
the look from the write; the web orders of `SelfOrder` are ordered by
`created_at`, the start of the transaction that makes them, and its drafts are
numbered, since a code may be given out again once its draft is gone.

## The runs

| Run | Expect | Shows |
|---|---|---|
| `outbound` | pass | queue: type, `AttemptCalledOnce`, `DeliveredAtMostOnce`, `DuplicateSuppressionSpares`, `QueuedRowEnds` (liveness), when the gateway's failures are honest; escalations: type, `RemindedOfOnce`, `OwnerHears` (liveness) |
| `outbound_ambiguous` | violation | `DeliveredAtMostOnce` fails when an answer is lost |
| `webhook` | pass | journal: type, `AnsweredOnce`, `ProcessedMeansStored`, `ReplaysBounded`, `JournalSettles` (liveness); nudges: type, `NudgesHeld` |
| `webhook_waha` | violation | `ReplayStores`: a replayed WAHA event is closed without its message |
| `orders` | pass | type, `PaidIsReceived`, `PaidRuleHolds`, `LinesTellDelivery`, `BillAddsUp`, `MovesAreLegal` |
| `orders_terminal` | violation | `TerminalIsFinal` |
| `orders_paid` | violation | `PaymentRule` |
| `orders_lines` | violation | `DeliveredLinesAgree` |
| `office` | pass | the ten parts of `MCOffice`: type, `CollectionsHeld` and the refinement `LedgerKept`, `CashCountedOnce`, `CreditsNotConjured`, `BudgetHeld`, `PaidIsServed`, `WorkListed`, `CampaignHeld`, `PanelHeld`, `OneOrderPerList`, `ReferralPaidOnce` |
| `credits_expiry` | violation | `ExpiryTakesUnused`: a used lot is taken again from a later one |
| `desk` | pass | the four parts of `MCDesk`: type, `AnsweredOnce`, `BookingsHeld`, `OneOrderPerSlip`, `RemindedOnce`, `HeldIsAnswered` and `FailsOver` (liveness) |
| `desk_pause` | violation | `ManualPauseHolds`: a manual pause is lifted |

Bounds, and why they are enough.

* `outbound`: two messages (one gated as an AI message, the other without a
  tenant in its payload, so every branch of the loop is taken), two drains,
  two attempts, batches of one, one crash.  Two drains are what a change of
  leadership produces.  Two attempts are the least that distinguish "the
  claim of this attempt" from "a claim of this message" and reach the limit
  from a retry.  A batch of one makes `LIMIT` cut.  In escalations: two cases,
  since a roll-back matters to the next case of a round; one admin, who is on
  the staff, as such a send commits; two jobs and one failure, a queued alert
  among them, which the drain may give up at no further cost.
* `webhook`: two bodies carrying the same message, over every source and
  route, with a readable or an unreadable sender; one live request at a time
  against two retry jobs; two attempts; one fault, which is a crash or a failed
  mark.  In nudges: two ticks, two messages,
  one shift of standing or death; two rungs of the ladder's four, which is
  what it takes to skip one.
* `orders`: two requests, two clothes (so that a part can be given), totals 0,
  2 or none, payments of 2, one adjustment of 1, five commits.  Five are
  needed: a pickup bill made after clothes were already given takes five
  commits to show in a delivered order.  Amounts are chosen so that
  unpaid, part paid, paid and overpaid all occur.
* `office`: two of whatever acts side by side in each part (requests, sheets
  with a retry in flight, staff, workers, customers), one trouble, snag or
  upset, and as many rows as it takes to tell the first from the second: two
  bills of 1 and 2 rupees, of which one sheet settles the older, and payments
  of 2 typed by hand, which exceed the smaller; two cash payments and a
  rename, with a look-back of one tick of the two that the clock has, so that
  a payment can be older than it; three lots and two uses; three AI calls on
  two models, whose estimates are 2 and 1 and whose answers cost 1 or 3 and 1,
  with a budget of 4; five billing events in three days: a payment told of
  twice, once without a word of the shop, one that failed first under the same
  key, and a mandate with an id of its own; three moves of an order; three
  orders for two pickups and the counter, and two hitches, so that a staff
  reply meets a failure or another reply.  A page has two recipients instead
  of 50, a worker re-reads the campaign after each recipient instead of 25:
  both only have to come round.  The campaign has one request of the owner's at
  a time, and the self-orders one code that is given out once; that more
  requests keep `CampaignHeld`, and codes given out again `OneOrderPerList`, is
  left to the theorems `CampaignKept` and `WebOrderedOnce`.
* `desk`: two customer messages, one human reply and one trouble (which is one
  notice, one queued reply, one pause or one crash); four messages and two
  summaries in a pickup (a summary, its correction and two confirmations); four
  dictations, two at once, with two drafts; two workers, two reminders fired
  three times, two bad events (a lost session and a crash).

The safety properties of every part marked with a proof module are proved for
all values of these constants; there the bounds only limit what TLC sees.
Symmetry is used where requests are alike and no liveness is checked: requests
in `orders`, and in `office` two permutations (`Alike`), each moving the like
members of all parts together.

`CHECK_DEADLOCK FALSE` stands where a finished instance has nothing to do:
all messages ended, all events settled, all bounds used up.

## Fairness

Fairness is asked only of what the program itself does again and again, and of
time.  Callers, customers, staff, crashes and providers owe nothing.

* Queue (`OutboundQueue!FairSpec`, and in `MCSends` within its part): weak
  fairness of each drain's next step and of backoffs elapsing.  The durability
  job runs every five minutes on whoever leads (`scheduler._durability_tick`),
  every await in a drain has a timeout, and time passes.
* Escalations: weak fairness of `Rounds`: the hourly job's next step, the SLA
  running out, and the drain ending each queued alert one way or the other,
  which `QueuedRowEnds` shows of the queue.
* Journal (`WebhookJournal!FairSpec`): a started request, each retry job, and
  ageing, for the same reasons; delivery by a provider has none.
* Thread (`ThreadFairness`): a handler that has started, the minutely job, the
  minutely drain, and the grace period's end.
* Scheduler (`SchedFairness`): `Electing`, which is the poll for the lock, the
  ping that notices a lost session, and the service manager that restarts a
  dead worker.
* `OrderLifecycle` and the parts of `MCOffice` have no liveness property:
  nobody is obliged to finish an order, and a dead request is not repeated.

## The proofs

TLC checks a small instance; the theorems hold for every value of the constants
that meets the assumptions named in the modules (`OutboundAssumption`,
`JournalAssumption`, `OrderAssumption`, and so on): limits are numbers, what is
counted or summed over is finite, a marker is not one of the things it marks,
amounts are positive where the code checks it. TLC evaluates them on every run.
A theorem whose property holds only without some event says so in the
property, with a history variable that names the event, never as a hypothesis;
the one exception is `AtMostOnce` (and what follows from it,
`SendsDeliverOnce`).

The shape is the same everywhere.  A property such as "the gateway is called
once per attempt" is not inductive: one must also know what every process that
is half way through has seen, and that it still holds or is accounted for.
The named conjuncts of each invariant say that, one lemma shows that each group
of actions preserves it, and the theorem combines them.  Two techniques
recur.

* *Counting.*  A bound such as "one more copy per failure" is proved as "what
  has happened, and what those under way may still do, is covered by what is
  accounted for", with the cardinality of the set of those under way, or a sum
  over them.
* *Sums over finite sets.*  `SetSums` shows that the fold which the modules sum
  with (`MapThenSumSet`) is a sum: nothing for the empty set, and one term more
  for each further element, whatever the order.  The library's induction
  theorems take an operator as a parameter, which the provers cannot
  instantiate; the lemmas argue by a least counterexample on the cardinality
  instead, which needs only the library's facts about finite sets and numbers.

**SendProofs.**  *Queue:* `TypeCorrect`, `AttemptsOnce`, `AtMostOnce`,
`DuplicatesSpared`.  `AttemptCalledOnce` needs to know that a drain about to
call owns the claim of its ticket alone.  `ClaimInv` says so, and more: the
claims of a message are an initial segment of its attempts (`ClaimsClosed`), a
queued row stands at the segment's end or one before it (`RowBacked`), whatever
is in a snapshot lies inside it (`PendingBacked`), and the holder of a claim is
alone and holds the last one (`HolderInv`).  `AtMostOnce` needs `DeliveryInv`:
once a message is delivered, every way back to the gateway - its row, every
snapshot, every drain - runs into a claim that is taken (`Spent`).  The theorem
assumes `~Ambiguous`, and the run `outbound_ambiguous` shows why.
`DuplicatesSpared` (`SparedInv`): without a crash, a claim that is taken is
held by a drain that will settle the row, or the row has left it behind, so the
loser's "duplicate" is overwritten.  *Escalations:* `EscalationsTyped`,
`RemindersAccounted`.  `RoundsInv` keeps locks, marks and the job's list
together; `Accounted` counts, for each case and admin, the copies plus the jobs
that still owe one (`Owing`) against one plus what is excused.  `SendsHold`
and, for `AtMostOnce` with its hypothesis, `SendsDeliverOnce` carry these to
`MCSends`.

**IntakeProofs.**  *Journal:* `TypeCorrect`, `AnswerAtMostOnce`,
`ProcessedIsStored` and `PoisonBounded`.  The first two safety properties rest
on `ReplyInv`: a worker that replies has stored its message, which is not yet
answered, and no two workers reply to the same message.  `PoisonBounded`
counts: each replay of an event is paid for by a counted attempt, a fault or a
retry job still working on it (`ReplaysPaid`), and the replays that the jobs'
snapshots already promise stay within the bound (`ReplaysPromised`); a snapshot
that promises one more leaves room for it because a job cannot both hold the
event and be at work on it.  *Nudges:* `NudgesSentOnce` - a key sent or about
to be sent is claimed by one tick (`KeysHeld`), a rung is claimed only after
the one before went out (`LadderKept`), and the ticks under way leave each
other room below the limit (`LimitKept`).  `IntakeHolds` carries all of this to
`MCIntake`.

**OrderLifecycleProofs.**  `TypeCorrect`, `PaidFollowsLedger`, `PaidRule`,
`LinesTruthful`, `MovesLegal` and `BillAccounted`.  Every action but loading
and refusing is `Work` of the shop floor or a money step (`NextIsStep`);
`SaveTyped` and the lemmas after it say what `Save` does to each column.  The
conditional properties are inductive together with `TypeOK` once two facts are
known: `stale` only grows (`StaleGrows`), and work on a copy whose status and
clothes were current is work on the row (`FreshWork`, `FreshWorkTells`).  The
attempt to prove `LinesTellDelivery` showed that a pickup bill made after
clothes had been given breaks it, five commits deep; `redone` covers that case
and the run `orders` goes that deep since.  `BillAccounted` needs the
adjustments that a row's lines have to be among those given (`ExtrasGiven`) and
sums over them.

**DeskProofs.**  *Scheduler:* `SchedulerTyped`, `SchedulerAlone` (jobs run only
under the lock or in a worker whose session broke unnoticed), `ReminderOnce`: a
worker that is sending has its key in `sent_events` and is alone in that
(`ReminderInv`), whoever leads; the claims make the overlap harmless, not the
lock.  *Pickup:* `PickupTyped`, `PickupConfirmed`: whatever a handler may still
book from lies in the sight its message had when written (`HaanInSight`,
`BookInSight`), and two that found no open pickup are `raced`.  *Staff:*
`DeskTyped`, `SlipBookedOnce`: a draft is in one place - shown, being claimed
by one message, or carried out (`DraftInOnePlace`) - and so is a slip's latest
draft unless it is contested (`SlipInOnePlace`).  *Thread:* `ThreadTyped`,
`MessageAnsweredOnce`: an answer is still owed by whoever may compose it or has
it in the queue; while both the handler and the job owe one the log has none
(`NoneYet`), while either does it has one at the most (`OneYet`), and a message
the job takes on after its handler had ended was reopened by a human if it had
an answer (`Reopened`) - all but the messages whose handler's reply came from
the queue.  `DeskHolds` carries all of this to the composed specification
that TLC explores.

**ShopProofs.**  *Stage tasks:* `OrderOnList` - as long as nothing was
forgotten, an order that waits for somebody's hand has its task open, or a
request is on its way with the task it waits for, with a status about to be
committed, or with the hook that opens the next task (`Listed`, by cases on
that request in `OnTheWay`).  *Campaigns:* `CampaignKept` - a worker past its
claim is the only one at its customer, whom no copy has reached, and a message
in the queue has reached its customer only as often as an answer was lost
(`OfferInv`); after a brake that found nobody unaware every worker comes to the
gate before it turns to another customer (`BrakeInv`); and while nothing has
lapsed, one worker runs at a time, over rows that are still queued, and knows
what was spent (`BudgetInv`).  The search for this invariant found the model's
exception for the brake too narrow: an approval that has committed but not yet
queued its recipients when another of the owner's requests pulls the brake may
find nobody to queue and close the campaign as "failed" over "cancelled", so
`Unaware` counts an approval under way until it ends.  *Pickup bills:*
`PanelKept` - the mark of a pickup is set for one request (`MarkInv`), what was
ordered for a pickup and what is about to be is at most one more than the
replies that overwrote its mark (`TaskInv`), an order has one request that may
still take its advance (`PayInv`), and the discounted bills with those who
found the coupon valid, like the rewards with those about to earn one, are at
most one more than were judged beside another (`CouponInv`).  It rests on the partial
unique index `uq_tasks_open_order_kind`
(`alembic/versions/p2_task_open_dedup.py`): an order has one open pickup task,
now an assumption of the module.  *SelfOrder:* `WebOrderedOnce` - a draft waits
under one code, then is with the one request that took it, then on one row, and
never back (`DraftsInv`), so that its code may be given out again; and a
request comes only after orders that were made, of which each of its list was,
when it compared, followed by one of another list (`ListsInv`).  *Referrals:*
`ReferralRewardedOnce` - the unique key leaves one reward (`RewardOne`), and
each claim has one request behind it that may still send (`NoticeKept`,
`OfferKept`).

**OfficeProofs.**  `OfficeParts`: seen from each of its ten parts, `MCOffice`
does what that part's specification does, or leaves its variables alone.  From
it and the theorems of `MoneyProofs` and `ShopProofs`, `OfficeTyped` and
`OfficeHolds`: every safety property of the run `office` and the refinement
`LedgerKept` hold of the composition.

**MoneyProofs.**  *Collections:* `LedgerImplemented` maps every step to a step
of `PaymentLedger` or a stutter, from `RowsInv`: references in the book are
unique and belong to the request that has not finished, and a deletion under
the bill's lock sees all its rows.  `CollectionsHold` adds `SheetsInv` (a sheet
at work has posted what its split has left behind, and only one request is at
work on it), `LinksInv`, and `DuesInv` (a request that nobody overtook, a hand
payment included, knows the dues it splits on, so that what it posts fits).
*CashHandover:* `CashCounted` - a handover's window starts where the last one
ended (`WindowsFollow`), counts what lies in it (`WindowsCount`), and what no
window counted is ahead of the next, `late`, or older than the first one's
look-back (`NoneMissed`).  *Subscription:* `PaidShopServed` - whoever has
loaded the tenant and will write it is seen by `beside`, and whoever acts on an
event has journaled it (`HandledKnown`). *AiQuota:* `QuotaHeld` - spent, plus
what the calls under way may cost by their estimates, stays within the budget
but for what passed an estimate or slipped (`WithinBudget`, a sum over calls).
It holds after `Admit` because the usage that the call has seen, the
reservations that stand and those gone since account for all that was recorded
meanwhile (`SeenOrStanding`).  *Credits:* `CreditsCovered` - a balance that a
clerk or the sweep has read is covered by the ledger and by what was drawn
since (`ReadsCovered`, `SweepCovered`), and the sweep's cuts fit in the balance
it read (`CutsFit`).

**Only model-checked.**  The liveness properties (`QueuedRowEnds`,
`OwnerHears`, `JournalSettles`, `HeldIsAnswered`, `FailsOver`): liveness under
fairness and ENABLED are out of the prover's reach.  The five properties that
`orders_terminal`, `orders_paid`, `orders_lines`, `desk_pause` and
`webhook_waha` refute, `ExpiryTakesUnused`, and `DeliveredAtMostOnce` under
`Ambiguous`, are false of the code.  Every other property of the runs, all
their safety invariants and `LedgerKept` and `MovesAreLegal`, is a theorem.
Induction over data is out of reach as well, for the reason above; nothing here
needs it beyond the sums.

## What the checks found

Seven disagreements between the code and what it says of itself, each with a
run that finds the shortest case:

* A send whose answer is lost is delivered twice (`outbound_ambiguous`),
  against "a message is never sent twice" of `docs/ARCHITECTURE-DETAILED.md`.
* A WAHA event whose processing failed is never really replayed
  (`webhook_waha`), against "no message is ever lost to a crash" of
  `models/event.py`.
* A status request that loaded the order before it was delivered or cancelled
  moves it out of that terminal status (`orders_terminal`).
* An edit of the bill racing a payment leaves a wrong payment status
  (`orders_paid`).
* An order can be DELIVERED while its lines say clothes are left
  (`orders_lines`).
* The owner's manual pause, "PERMANENT until the owner presses Resume", is
  lifted by a handler that loaded the customer before it (`desk_pause`).
* Expiry takes a lot that was used up a second time, out of credits bought
  later (`credits_expiry`).

While modelling and proving, the following came up.  The models contain them,
and where a property has an exception, it is one of these.

*Messages.*  A crash between claim and call dead-letters a message unsent; a
crash between storing a message and replying leaves it unanswered, and so does
one after the hand-over job's claim.  A human's message from the phone after
the AI's answer reopens the turn, and the job answers once more; "this must win
even if an LLM reply was already being generated" (`webhook.py:1829`) does not
hold for a pause, which is read before.  `_queue_alert` queues a failed alert
that `send_message` has queued already, and reports success when the queue
failed.  A roll-back inside a send expires the rows of the hourly reminder job,
which then fails at the next case with the marks of the earlier ones gone, so
that those are reminded again.  A reminder the gateway refuses for good is
queued too, counts as sent, and is dead-lettered at its first attempt: nobody
hears of that case again.  A customer's reply that fails for the moment leaves
no row in the thread, so the hand-over job answers as well and the queue
delivers the first reply afterwards; and an automated notice after a held
message is taken for its answer.  A Meta or DotPe sender whose number cannot be
normalised is dropped without a trace but the processed event.

*Orders and bookings.*  Two confirmations of a pickup handled together can
stack two orders; a crash after `ai_pending_intake` is cleared loses one.  A
correction that is being read while its slip is booked parks a draft of a bill
that exists.  The billing mark of a pickup outlives a request that dies, and
the pickup cannot be billed any more; an exception after `create_order`'s own
commit gives the mark back, and a retry makes a second order; so does a staff
member's reply to the task while it is being billed, which is written over the
mark.  A coupon is redeemed in a commit after the order's.  Web orders are
compared with the latest recent order only.  Hooks that run late close tasks of
a later stage, and a crash between a status and its hook leaves an order
without a task.

*Money.*  Deleting the bill whose row carries `client_ref` lets the sheet post
again; a crash between the commits of a collection leaves money unposted, and
the retry is told "duplicate".  Handovers go by the name of the member of
staff, so two of one name, or a rename, count a payment twice or not at all;
the first one leaves out what is older than 30 days, as is meant. Recharge,
approval and expiry write the balance absolutely and give back what was spent
in between.  The daily cap of AI calls counts recorded calls only, and the
budget is read in two statements while others record and release: a call that
moves from the reservations to the usage in between is in neither sum. A
payment event is journaled before it is acted on, so that a crash in between
turns the provider's retry into a duplicate; the sweep can lock a shop whose
payment arrives while it runs.  Events without an id of their own go by their
payment's, so that a capture after a failed attempt of one payment is answered
as a duplicate and neither extends the subscription nor gets a receipt.

*Campaigns, leads, referrals.*  The hourly tick resumes a campaign whose worker
is still pacing: the loser of a claim writes "skipped" over "sent", and the
month's budget is overspent.  A message whose answer was lost is queued and
offered again.  The brake is lost to a worker that writes a
status it read before.  A crash after the claim leaves a lead stuck until the
purge of `sent_events`.  A reward whose notice failed ends the hook before the
share code is offered.

## What is not modelled

The components marked `not_modelled` in `PROJECT.json`, with the reason there:
pure computation, text, I/O, administration, or what the database itself
guarantees.  The map covers about a seventh of the implementation's lines, and
that is by kind, not by accident: most of the rest are the routers' pages,
lists and reports, which read in one transaction and render; tools of the AI
agent that only read; prompts, templates and texts; rate cards and costing;
the static site; migrations, scripts and evaluations.  A model of those would
restate them.

Within the modelled parts: wording and languages, what the AI decides, numbers
of an order, the expected delivery date, notifications that follow a commit and
that nothing waits for, delivery ticks, the purge of `sent_events`, and the
database's own guarantees (unique keys, row locks, atomic commits), which the
actions take as given.  `StageTasks` assumes that there are active staff to
give a task to and leaves out `IN_DRY`, which only orders of an older version
have. `Credits` is one tenant's balance of one kind.  The in-process job
library is taken to run a job again when its time comes.

## What is left

In the proofs: abstract specifications of the queue (a row ends once, as sent
or dead) and of the journal, as `PaymentLedger` is one of the collections, with
the refinements proved step by step; action properties of the claims (a key in
`sent_events` is never given back by someone who did not set it).  In the
model: the retention of `sent_events` beside the claims that rely on it, and
the staff's invites and sessions.

