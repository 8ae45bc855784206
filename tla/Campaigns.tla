----------------------------- MODULE Campaigns -----------------------------
(***************************************************************************)
(* One marketing campaign: its approval, the workers that send it, and the *)
(* owner's brake.  marketing.py send_campaign is started by the approval   *)
(* and again by every hourly tick while the campaign is approved or        *)
(* sending, so workers overlap as soon as a campaign takes more than an    *)
(* hour.  An action is one commit, one read or one call outside.           *)
(***************************************************************************)
EXTENDS Integers, FiniteSets

CONSTANTS
    Customer,
    Sender,          \* the tasks that run send_campaign
    Owner,           \* requests of the owner: approvals and brakes
    Nobody,
    MonthBudget,     \* the smaller of the owner's budget and the plan's cap
    DailyCap,        \* promotional messages a day, for the whole shop
    PageSize,        \* 50 in the code
    Resync,          \* 25 in the code
    MaxNews          \* deaths, lost answers, opt-outs, receipts and turns of the clock

ASSUME CampaignAssumption ==
    /\ Nobody \notin Customer /\ IsFiniteSet(Customer)
    /\ {MonthBudget, DailyCap, MaxNews} \subseteq Nat /\ {PageSize, Resync} \subseteq Nat \ {0}

VARIABLES
    campaign,        \* Campaign.status
    rec,             \* CampaignRecipient.status, "none" before the queueing
    ticketed,        \* rows that hold the wa_message_id of an accepted message
    claimed,         \* the campaign-send keys in sent_events
    willing,         \* customers who have not opted out
    recent,          \* customers whose last_marketing_at is within the gap
    slots,           \* OutboundThrottle.daily_count
    quiet,           \* quiet hours
    waiting,         \* messages a transient failure left in outbound_queue
    sender, owner,   \* local state of the workers and the requests
    reached,         \* history: copies of the campaign each customer got
    lost,            \* history: those of them that the gateway reported as failed
    braked,          \* history: the brake was pulled
    gaps,            \* history: who, at the brake, was past every look at it
    turnedTo,        \* history: customers a worker turned to after the brake
    news,            \* how many of those there were
    lapsed           \* history: workers overlapped, one died with a message sent
                     \* and not recorded, or a sent message was reported failed

campaignVars == <<campaign, rec, ticketed, claimed, willing, recent, slots, quiet, waiting,
                  sender, owner, reached, lost, braked, gaps, turnedTo, lapsed, news>>

Statuses == {"suggested", "approved", "sending", "sent", "failed", "cancelled"}
\* Mutant of SentRows: a delivered message no longer counts.
OnlySent == {"sent"}
\* Delivered stands for read and replied too: all of them count as sent.
SentRows == {"sent", "delivered"}
SendSteps == {"idle", "loaded", "counting", "paging", "gate", "claim", "reserve", "paced",
              "release", "settle"}

Resting == [at |-> "idle", seen |-> "none", page |-> {}, cur |-> Nobody, spent |-> 0,
            sent |-> 0, out |-> "none"]

CampaignTypeOK ==
    /\ campaign \in Statuses
    /\ rec \in [Customer -> {"none", "queued", "skipped", "failed", "sent", "delivered"}]
    /\ {ticketed, claimed, willing, recent, waiting, turnedTo} \subseteq SUBSET Customer
    /\ slots \in 0..DailyCap /\ {quiet, braked, lapsed} \subseteq BOOLEAN
    /\ sender \in [Sender ->
         [at: SendSteps, seen: Statuses \cup {"none"}, page: SUBSET Customer,
          cur: Customer \cup {Nobody}, spent: Nat, sent: Nat,
          out: {"none", "accepted", "refused", "queued"}]]
    /\ owner \in [Owner -> {"idle", "approving", "queueing", "empty"}]
    /\ {reached, lost} \subseteq [Customer -> Nat]
    /\ gaps \subseteq Sender \cup Owner /\ news \in 0..MaxNews

CampaignInit ==
    /\ campaign = "suggested" /\ rec = [c \in Customer |-> "none"]
    /\ ticketed = {} /\ claimed = {} /\ willing = Customer /\ recent = {} /\ waiting = {}
    /\ slots = 0 /\ quiet = FALSE
    /\ sender = [w \in Sender |-> Resting] /\ owner = [o \in Owner |-> "idle"]
    /\ reached = [c \in Customer |-> 0] /\ lost = reached /\ gaps = {} /\ turnedTo = {}
    /\ braked = FALSE /\ lapsed = FALSE /\ news = 0

shop    == <<willing, recent, slots, quiet, waiting>>
campaignHistory == <<reached, lost, braked, gaps, turnedTo, lapsed, news>>

----------------------------------------------------------------------------
(* The owner: approve_latest_suggestion, and approve_campaign and          *)
(* cancel_campaign of the dashboard.                                       *)

\* An approval is for a suggestion; a scheduled campaign is approved when due.
Look(o) ==
    /\ owner[o] = "idle" /\ campaign = "suggested"
    /\ owner' = [owner EXCEPT ![o] = "approving"]
    /\ UNCHANGED <<campaign, rec, ticketed, claimed, sender, shop, campaignHistory>>

ApproveCampaign(o) ==
    /\ owner[o] = "approving"
    /\ campaign' = "approved"
    /\ owner' = [owner EXCEPT ![o] = "queueing"]
    /\ UNCHANGED <<rec, ticketed, claimed, sender, shop, campaignHistory>>

Eligible(c) == c \in willing /\ c \notin recent

\* queue_campaign; a second one breaks on uq_campaign_customer.
Queue(o) ==
    /\ owner[o] = "queueing"
    /\ IF \E c \in Customer : rec[c] # "none"
       THEN owner' = [owner EXCEPT ![o] = "idle"] /\ UNCHANGED rec
       ELSE /\ rec' = [c \in Customer |-> IF Eligible(c) THEN "queued" ELSE "skipped"]
            /\ owner' = [owner EXCEPT ![o] = IF \E c \in Customer : Eligible(c) THEN "idle"
                                             ELSE "empty"]
    /\ UNCHANGED <<campaign, ticketed, claimed, sender, shop, campaignHistory>>

\* Nobody is eligible: the dashboard closes the campaign, WhatsApp starts a worker.
CloseEmpty(o) ==
    /\ owner[o] = "empty"
    /\ campaign' \in {campaign, "failed"}
    /\ owner' = [owner EXCEPT ![o] = "idle"]
    /\ UNCHANGED <<rec, ticketed, claimed, sender, shop, campaignHistory>>

\* Those who may still write the status without having read it after the brake:
\* a worker between its load and its first commit, or with no row left to check;
\* an approval before its commit, or one that may find nobody to queue.
Unaware ==
    {w \in Sender : \/ sender[w].at = "loaded"
                    \/ /\ sender[w].at \notin {"idle", "gate"}
                       /\ sender[w].page \subseteq {sender[w].cur}}
    \cup {o \in Owner : owner[o] # "idle"}

\* "campaign nahi", and the dashboard's cancel, which asks for no status.
Brake(o) ==
    /\ owner[o] = "idle"
    /\ campaign' = "cancelled"
    /\ braked' = TRUE /\ gaps' = gaps \cup Unaware
    /\ UNCHANGED <<rec, ticketed, claimed, sender, owner, shop, reached, lost, turnedTo,
                   lapsed, news>>

----------------------------------------------------------------------------
(* A worker: send_campaign.                                                *)

\* The task of the approval or of the tick loads the campaign.
Start(w) ==
    /\ sender[w].at = "idle" /\ campaign \in {"approved", "sending"} /\ ~quiet
    /\ sender' = [sender EXCEPT ![w].at = "loaded", ![w].seen = campaign]
    /\ lapsed' = (lapsed \/ \E v \in Sender : sender[v].at # "idle")
    /\ UNCHANGED <<campaign, rec, ticketed, claimed, owner, shop, reached, lost, braked, gaps,
                   turnedTo, news>>

\* The session writes a column only when its value changes.
WriteStatus(w, value) == campaign' = IF sender[w].seen = value THEN campaign ELSE value

Begin(w) ==
    /\ sender[w].at = "loaded"
    /\ WriteStatus(w, "sending")
    /\ sender' = [sender EXCEPT ![w].at = "counting", ![w].seen = "sending"]
    /\ UNCHANGED <<rec, ticketed, claimed, owner, shop, campaignHistory>>

MonthSendCount == Cardinality({c \in Customer : rec[c] \in SentRows})

Count(w) ==
    /\ sender[w].at = "counting"
    /\ sender' = [sender EXCEPT ![w].at = "paging", ![w].spent = MonthSendCount]
    /\ UNCHANGED <<campaign, rec, ticketed, claimed, owner, shop, campaignHistory>>

Queued == {c \in Customer : rec[c] = "queued"}

Page(w) ==
    /\ sender[w].at = "paging" /\ Queued # {}
    /\ \E page \in SUBSET Queued :
          /\ \/ page = Queued /\ Cardinality(page) <= PageSize
             \/ Cardinality(page) = PageSize
          /\ sender' = [sender EXCEPT ![w].at = "gate", ![w].page = page]
    /\ UNCHANGED <<campaign, rec, ticketed, claimed, owner, shop, campaignHistory>>

\* No row is queued any more: sent if this worker sent anything, else failed.
Finish(w) ==
    /\ sender[w].at = "paging" /\ Queued = {}
    /\ WriteStatus(w, IF sender[w].sent > 0 THEN "sent" ELSE "failed")
    /\ sender' = [sender EXCEPT ![w] = Resting]
    /\ UNCHANGED <<rec, ticketed, claimed, owner, shop, campaignHistory>>

\* The brake and the clock are looked at before each recipient.
Stop(w) ==
    /\ sender[w].at = "gate" /\ (campaign = "cancelled" \/ quiet)
    /\ sender' = [sender EXCEPT ![w] = Resting]
    /\ UNCHANGED <<campaign, rec, ticketed, claimed, owner, shop, campaignHistory>>

\* A worker with c behind it, as it goes to the next row or the next page.
NextRow(s, c) ==
    [s EXCEPT !.page = @ \ {c}, !.cur = Nobody, !.out = "none",
              !.at = IF s.page \ {c} = {} THEN "paging" ELSE "gate"]

\* The month's count, read again after every Resync messages of this worker.
Spent(w) == IF sender[w].sent > 0 /\ sender[w].sent % Resync = 0 THEN MonthSendCount
            ELSE sender[w].spent

\* Mutant of MayTurn: the brake is looked at when the worker starts, not after.
MayTurnOn(w) == sender[w].at = "gate" /\ ~quiet
MayTurn(w)   == sender[w].at = "gate" /\ ~quiet /\ campaign # "cancelled"

\* The budget and the customer are looked at once more before the claim.
Turn(w, c) ==
    /\ MayTurn(w) /\ c \in sender[w].page
    /\ turnedTo' = IF braked THEN turnedTo \cup {c} ELSE turnedTo
    /\ LET s == [sender[w] EXCEPT !.seen = campaign, !.spent = Spent(w)] IN
       IF s.spent >= MonthBudget \/ ~Eligible(c)
       THEN /\ rec' = [rec EXCEPT ![c] = "skipped"]
            /\ sender' = [sender EXCEPT ![w] = NextRow(s, c)]
       ELSE /\ sender' = [sender EXCEPT ![w] = [s EXCEPT !.at = "claim", !.cur = c]]
            /\ UNCHANGED rec
    /\ UNCHANGED <<campaign, ticketed, claimed, owner, shop, reached, lost, braked, gaps,
                   lapsed, news>>

\* Mutant of Taken: the key is inserted, but not unique.
NeverTaken(w) == FALSE
Taken(w) == sender[w].cur \in claimed

\* The loser of a claim writes the row, whatever the winner has made of it.
Claim(w) ==
    LET s == sender[w] IN
    /\ s.at = "claim"
    /\ claimed' = claimed \cup {s.cur}
    /\ IF Taken(w)
       THEN /\ rec' = [rec EXCEPT ![s.cur] = "skipped"]
            /\ sender' = [sender EXCEPT ![w] = NextRow(s, s.cur)]
       ELSE /\ sender' = [sender EXCEPT ![w].at = "reserve"]
            /\ UNCHANGED rec
    /\ UNCHANGED <<campaign, ticketed, owner, shop, campaignHistory>>

Permitted(c) == Eligible(c) /\ ~quiet

\* enforce_outbound_policy takes a slot of the day under the throttle's row lock.
Reserve(w) ==
    LET c == sender[w].cur IN
    /\ sender[w].at = "reserve"
    /\ IF Permitted(c) /\ slots < DailyCap
       THEN /\ slots' = slots + 1
            /\ sender' = [sender EXCEPT ![w].at = "paced"]
       ELSE /\ sender' = [sender EXCEPT ![w].at = "release", ![w].out = "refused"]
            /\ UNCHANGED slots
    /\ UNCHANGED <<campaign, rec, ticketed, claimed, owner, willing, recent, quiet, waiting,
                   campaignHistory>>

News == news < MaxNews /\ news' = news + 1

Reaches(c) == reached' = [reached EXCEPT ![c] = @ + 1]

\* The gateway takes the message, its answer times out: a network error.
AnswerLost(c) == News /\ Reaches(c) /\ lost' = [lost EXCEPT ![c] = @ + 1]

\* After the pause the policy asks again; then the gateway answers.  A transient
\* failure queues a text for the drain; an image is not queued.
Offer(w) ==
    LET c == sender[w].cur IN
    /\ sender[w].at = "paced"
    /\ \/ /\ Permitted(c) /\ Reaches(c)
          /\ sender' = [sender EXCEPT ![w].at = "settle", ![w].out = "accepted"]
          /\ UNCHANGED <<waiting, lost, news>>
       \/ /\ Permitted(c)
          /\ waiting' \in {waiting, waiting \cup {c}}
          /\ AnswerLost(c) \/ UNCHANGED <<reached, lost, news>>
          /\ sender' = [sender EXCEPT ![w].at = "settle", ![w].out = "queued"]
       \/ /\ sender' = [sender EXCEPT ![w].at = "release", ![w].out = "refused"]
          /\ UNCHANGED <<reached, waiting, lost, news>>
    /\ UNCHANGED <<campaign, rec, ticketed, claimed, owner, willing, recent, slots, quiet, braked,
                   gaps, turnedTo, lapsed>>

\* A refusal for good gives the claim back; a transient failure keeps it.
GiveBack(w) ==
    /\ sender[w].at = "release"
    /\ claimed' = claimed \ {sender[w].cur}
    /\ sender' = [sender EXCEPT ![w].at = "settle"]
    /\ UNCHANGED <<campaign, rec, ticketed, owner, shop, campaignHistory>>

Settle(w) ==
    LET s == sender[w]  n == IF s.out = "accepted" THEN 1 ELSE 0 IN
    /\ s.at = "settle"
    /\ rec' = [rec EXCEPT ![s.cur] = IF s.out = "accepted" THEN "sent" ELSE "failed"]
    /\ ticketed' = IF s.out = "accepted" THEN ticketed \cup {s.cur} ELSE ticketed
    /\ recent' = IF s.out = "accepted" THEN recent \cup {s.cur} ELSE recent
    /\ sender' = [sender EXCEPT ![w] =
           NextRow([s EXCEPT !.sent = @ + n, !.spent = @ + n], s.cur)]
    /\ UNCHANGED <<campaign, claimed, owner, willing, slots, quiet, waiting, campaignHistory>>

\* The process goes down, or an exception ends the task.
SenderDies(w) ==
    /\ News
    /\ sender[w].at # "idle"
    /\ sender' = [sender EXCEPT ![w] = Resting]
    /\ lapsed' = (lapsed \/ sender[w].out = "accepted")
    /\ UNCHANGED <<campaign, rec, ticketed, claimed, owner, shop, reached, lost, braked, gaps,
                   turnedTo>>

----------------------------------------------------------------------------
(* The rest of the shop.                                                   *)

\* The drain sends a waiting message under the same policy, with a slot of its
\* own: taken by the gateway, refused by it, or to be tried again, be it that
\* nothing left or that the answer was lost.
Drain(c) ==
    /\ c \in waiting /\ Permitted(c) /\ slots < DailyCap
    /\ slots' = slots + 1
    /\ \/ waiting' = waiting \ {c} /\ Reaches(c) /\ UNCHANGED <<lost, news>>
       \/ waiting' \in {waiting, waiting \ {c}} /\ UNCHANGED <<reached, lost, news>>
       \/ AnswerLost(c) /\ UNCHANGED waiting
    /\ UNCHANGED <<campaign, rec, ticketed, claimed, willing, recent, quiet, sender, owner,
                   braked, gaps, turnedTo, lapsed>>

\* A refusal by the policy, a day or five attempts end a waiting message.
GiveUp(c) ==
    /\ c \in waiting
    /\ waiting' = waiting \ {c}
    /\ UNCHANGED <<campaign, rec, ticketed, claimed, willing, recent, slots, quiet, sender, owner,
                   campaignHistory>>

\* track_status_update: a receipt moves a row unless the row stands higher.
Rank == [s \in {"none", "queued", "skipped", "sent", "failed", "delivered"} |->
            CASE s \in {"sent", "failed"} -> 1 [] s = "delivered" -> 2 [] OTHER -> 0]

Ticked(c, s) ==
    /\ News
    /\ c \in ticketed /\ Rank[s] >= Rank[rec[c]]
    /\ rec' = [rec EXCEPT ![c] = s]
    /\ lapsed' = (lapsed \/ s = "failed")
    /\ UNCHANGED <<campaign, ticketed, claimed, sender, owner, shop, reached, lost, braked, gaps,
                   turnedTo>>

OptOut(c) ==
    /\ News
    /\ willing' = willing \ {c}
    /\ UNCHANGED <<campaign, rec, ticketed, claimed, recent, slots, quiet, waiting, sender, owner,
                   reached, lost, braked, gaps, turnedTo, lapsed>>

Clock ==
    /\ News
    /\ quiet' = ~quiet
    /\ UNCHANGED <<campaign, rec, ticketed, claimed, willing, recent, slots, waiting, sender,
                   owner, reached, lost, braked, gaps, turnedTo, lapsed>>

CampaignNext ==
    \/ \E o \in Owner : Look(o) \/ ApproveCampaign(o) \/ Queue(o) \/ CloseEmpty(o) \/ Brake(o)
    \/ \E w \in Sender :
          \/ Start(w) \/ Begin(w) \/ Count(w) \/ Page(w) \/ Finish(w) \/ Stop(w)
          \/ \E c \in Customer : Turn(w, c)
          \/ Claim(w) \/ Reserve(w) \/ Offer(w) \/ GiveBack(w) \/ Settle(w) \/ SenderDies(w)
    \/ \E c \in Customer :
          \/ Drain(c) \/ GiveUp(c) \/ OptOut(c)
          \/ \E s \in {"delivered", "failed"} : Ticked(c, s)
    \/ Clock

CampaignSpec == CampaignInit /\ [][CampaignNext]_campaignVars

----------------------------------------------------------------------------
\* No customer gets one campaign twice, however many workers resume it, die in
\* it or take rows of a page that others have already dealt with: a second copy
\* stands for a message the gateway took and reported as failed, no other.
OfferedOnce == \A c \in Customer : reached[c] <= 1 + lost[c]

\* "jo bache the unko nahi jayega": after the brake the campaign stays cancelled
\* and no worker turns to another customer, unless at that moment somebody was
\* about to write a status it had read before.
BrakeHolds == braked /\ gaps = {} => campaign = "cancelled" /\ turnedTo = {}

\* The month's budget is overspent only by workers side by side, or by a message
\* whose row does not tell that it was sent.
OverspentByOverlap == Cardinality(ticketed) > MonthBudget => lapsed

\* A campaign stays what was approved: once to each, stoppable, within its budget.
CampaignHeld == OfferedOnce /\ BrakeHolds /\ OverspentByOverlap
=============================================================================
