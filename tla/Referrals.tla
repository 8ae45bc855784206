----------------------------- MODULE Referrals ------------------------------
(***************************************************************************)
(* Referral rewards.  A new customer's bill may carry a referrer's coupon; *)
(* when an order is delivered, referrals.py on_order_delivered pays the    *)
(* referrer once for that customer and then offers the customer a code of  *)
(* his own.  Requests overlap: each judges, reads or loads in one step and *)
(* writes in a later one.                                                  *)
(***************************************************************************)
EXTENDS Integers, Sequences, FiniteSets

CONSTANTS
    Till,            \* requests: bills being made, orders being moved
    Referrer,
    Plain,           \* no referral coupon on the order
    MaxBought,       \* bound on the customer's orders
    MaxSnags         \* lost answers, failed sends and deaths

ASSUME ReferralAssumption == Plain \notin Referrer /\ {MaxBought, MaxSnags} \subseteq Nat

VARIABLES
    bought,          \* the customer's orders, by created_at: status, redeemed coupon
    rewards,         \* customer_rewards with this customer's marker
    code,            \* the customer's own code: none yet, valid, or past its date
    sharing,         \* referral-share keys in sent_events, by order
    noticing,        \* referral-reward-notice keys
    till,            \* local state of the requests
    offers, notices, \* history: messages that reached the customer and the referrer
    doubted,         \* history: offers that reached and were taken for unsent
    resent,          \* history: notices that were queued although they may have left
    snags            \* how many of those there were

referralVars == <<bought, rewards, code, sharing, noticing, till, offers, notices, doubted, resent,
                  snags>>

Index == 1..MaxBought
Free0 == [at |-> "idle", i |-> 0, coupon |-> Plain]

ReferralTypeOK ==
    /\ bought \in Seq([status: {"open", "DELIVERED", "CANCELLED"}, coupon: Referrer \cup {Plain}])
    /\ Len(bought) <= MaxBought
    /\ rewards \subseteq Referrer \X Index /\ code \in {"none", "live", "expired"}
    /\ sharing \subseteq Index /\ noticing \subseteq Index
    /\ till \in [Till ->
         [at: {"idle", "bill", "redeem", "deliver", "cancel", "reward", "insert", "notice", "tell",
               "share", "code", "issue", "offer", "release"},
          i: 0..MaxBought, coupon: Referrer \cup {Plain}]]
    /\ {offers, notices, doubted, resent} \subseteq [Index -> Nat] /\ snags \in 0..MaxSnags

ReferralInit ==
    /\ bought = <<>> /\ rewards = {} /\ code = "none" /\ sharing = {} /\ noticing = {}
    /\ till = [q \in Till |-> Free0] /\ snags = 0
    /\ offers = [i \in Index |-> 0] /\ notices = [i \in Index |-> 0]
    /\ doubted = [i \in Index |-> 0] /\ resent = [i \in Index |-> 0]

keys     == <<sharing, noticing>>
messages == <<offers, notices, doubted, resent>>

IsAt(q, step) == till[q].at = step
Goes(q, step) == till' = [till EXCEPT ![q].at = step]
Leaves(q) == till' = [till EXCEPT ![q] = Free0]

Snag == snags < MaxSnags /\ snags' = snags + 1

----------------------------------------------------------------------------
(* The customer's orders.                                                  *)

\* validate_coupon: a referral code is for a first order, and once a customer.
Valid(c) == \A i \in DOMAIN bought : bought[i].status = "CANCELLED" /\ bought[i].coupon # c

JudgeBill(q, c) ==
    /\ IsAt(q, "idle") /\ (c # Plain => Valid(c))
    /\ till' = [till EXCEPT ![q] = [at |-> "bill", i |-> 0, coupon |-> c]]
    /\ UNCHANGED <<bought, rewards, code, keys, messages, snags>>

\* create_order commits the order, and redeem_coupon the redemption after it.
CommitBill(q) ==
    /\ IsAt(q, "bill") /\ Len(bought) < MaxBought
    /\ bought' = Append(bought, [status |-> "open", coupon |-> Plain])
    /\ till' = [till EXCEPT ![q].at = "redeem", ![q].i = Len(bought) + 1]
    /\ UNCHANGED <<rewards, code, keys, messages, snags>>

RedeemReferral(q) ==
    /\ IsAt(q, "redeem")
    /\ bought' = [bought EXCEPT ![till[q].i].coupon = till[q].coupon]
    /\ Leaves(q)
    /\ UNCHANGED <<rewards, code, keys, messages, snags>>

\* update_status judges the status it loaded, and commits over the row.
LoadOrder(q, i, step) ==
    /\ IsAt(q, "idle") /\ bought[i].status = "open"
    /\ till' = [till EXCEPT ![q] = [at |-> step, i |-> i, coupon |-> Plain]]
    /\ UNCHANGED <<bought, rewards, code, keys, messages, snags>>

CancelBought(q) ==
    /\ IsAt(q, "cancel")
    /\ bought' = [bought EXCEPT ![till[q].i].status = "CANCELLED"]
    /\ Leaves(q)
    /\ UNCHANGED <<rewards, code, keys, messages, snags>>

\* The delivery is committed before the hook runs.
DeliverBought(q) ==
    /\ IsAt(q, "deliver")
    /\ bought' = [bought EXCEPT ![till[q].i].status = "DELIVERED"]
    /\ Goes(q, "reward")
    /\ UNCHANGED <<rewards, code, keys, messages, snags>>

----------------------------------------------------------------------------
(* _reward_referrer_after_delivery.                                        *)

Prior(i) == \E j \in 1..i - 1 : bought[j].status # "CANCELLED"

\* A redeemed referral coupon, no earlier order, no reward of this referrer yet.
JudgeReward(q) ==
    LET i == till[q].i  r == bought[i].coupon IN
    /\ IsAt(q, "reward")
    /\ IF r # Plain /\ ~Prior(i) /\ ~\E x \in rewards : x[1] = r
       THEN till' = [till EXCEPT ![q].at = "insert", ![q].coupon = r]
       ELSE Goes(q, "share")
    /\ UNCHANGED <<bought, rewards, code, keys, messages, snags>>

\* Mutant of MarkerTaken: the marker has no unique index.
MarkerFree  == FALSE
MarkerTaken == rewards # {}

\* uq_customer_rewards_referral_marker.  A refused insert rolls the session back,
\* and the order it expired cannot be read for the rest of the hook.
InsertReward(q) ==
    /\ IsAt(q, "insert")
    /\ IF MarkerTaken
       THEN Leaves(q) /\ UNCHANGED rewards
       ELSE rewards' = rewards \cup {<<till[q].coupon, till[q].i>>} /\ Goes(q, "notice")
    /\ UNCHANGED <<bought, code, keys, messages, snags>>

\* The referrer may not be told now, or another request claimed the notice.
ClaimNotice(q) ==
    /\ IsAt(q, "notice")
    /\ \/ Goes(q, "share") /\ UNCHANGED noticing
       \/ /\ till[q].i \notin noticing
          /\ noticing' = noticing \cup {till[q].i}
          /\ Goes(q, "tell")
    /\ UNCHANGED <<bought, rewards, code, sharing, messages, snags>>

TellReferrer(q) ==
    /\ IsAt(q, "tell")
    /\ notices' = [notices EXCEPT ![till[q].i] = @ + 1]
    /\ Goes(q, "share")
    /\ UNCHANGED <<bought, rewards, code, keys, offers, doubted, resent, snags>>

\* A transient failure: send_message rolls back and queues the notice, which may
\* have left already; the claim stays, and reading the referrer ends the hook.
NoticeQueued(q) ==
    /\ Snag
    /\ IsAt(q, "tell")
    /\ \E left \in {0, 1} :
          /\ notices' = [notices EXCEPT ![till[q].i] = @ + 1 + left]
          /\ resent' = [resent EXCEPT ![till[q].i] = @ + left]
    /\ Leaves(q)
    /\ UNCHANGED <<bought, rewards, code, keys, offers, doubted>>

NoticeRefused(q) ==
    /\ Snag
    /\ IsAt(q, "tell")
    /\ noticing' = noticing \ {till[q].i}
    /\ Goes(q, "share")
    /\ UNCHANGED <<bought, rewards, code, sharing, messages>>

----------------------------------------------------------------------------
(* _issue_share_code_after_delivery.                                       *)

ClaimShare(q) ==
    /\ IsAt(q, "share")
    /\ \/ Leaves(q) /\ UNCHANGED sharing
       \/ /\ till[q].i \notin sharing
          /\ sharing' = sharing \cup {till[q].i}
          /\ Goes(q, "code")
    /\ UNCHANGED <<bought, rewards, code, noticing, messages, snags>>

\* _get_or_create_referral_code: a code that has expired is passed over here.
FindCode(q) ==
    /\ IsAt(q, "code")
    /\ Goes(q, IF code = "live" THEN "offer" ELSE "issue")
    /\ UNCHANGED <<bought, rewards, code, keys, messages, snags>>

\* uq_campaign_referral_owner allows a customer one code, of whatever date: the
\* refused insert expires the customer, and reading it afterwards raises.
IssueCode(q) ==
    /\ IsAt(q, "issue")
    /\ IF code = "none" THEN code' = "live" /\ Goes(q, "offer")
       ELSE Goes(q, "release") /\ UNCHANGED code
    /\ UNCHANGED <<bought, rewards, keys, messages, snags>>

OfferCode(q) ==
    /\ IsAt(q, "offer")
    /\ offers' = [offers EXCEPT ![till[q].i] = @ + 1]
    /\ Leaves(q)
    /\ UNCHANGED <<bought, rewards, code, keys, notices, doubted, resent, snags>>

\* Mutant of AfterTransient: every failure gives the claim back.
AfterAny(q) == Goes(q, "release")
AfterTransient(q) == Leaves(q)

\* A transient failure keeps the claim: the offer may have left.
OfferUnclear(q) ==
    /\ Snag
    /\ IsAt(q, "offer")
    /\ \E left \in {0, 1} : offers' = [offers EXCEPT ![till[q].i] = @ + left]
    /\ AfterTransient(q)
    /\ UNCHANGED <<bought, rewards, code, keys, notices, doubted, resent>>

OfferRefused(q) ==
    /\ Snag
    /\ IsAt(q, "offer")
    /\ Goes(q, "release")
    /\ UNCHANGED <<bought, rewards, code, keys, messages>>

\* The offer left but its row cannot be stored: not a SendError.
OfferUnrecorded(q) ==
    /\ Snag
    /\ IsAt(q, "offer")
    /\ offers' = [offers EXCEPT ![till[q].i] = @ + 1]
    /\ doubted' = [doubted EXCEPT ![till[q].i] = @ + 1]
    /\ Goes(q, "release")
    /\ UNCHANGED <<bought, rewards, code, keys, notices, resent>>

ReleaseShare(q) ==
    /\ IsAt(q, "release")
    /\ sharing' = sharing \ {till[q].i}
    /\ Leaves(q)
    /\ UNCHANGED <<bought, rewards, code, noticing, messages, snags>>

----------------------------------------------------------------------------
\* Nothing runs a hook again that died with its process.
TillDies(q) ==
    /\ Snag
    /\ till[q].at # "idle"
    /\ Leaves(q)
    /\ UNCHANGED <<bought, rewards, code, keys, messages>>

CodeExpires ==
    /\ code = "live"
    /\ code' = "expired"
    /\ UNCHANGED <<bought, rewards, keys, till, messages, snags>>

ReferralNext ==
    \/ CodeExpires
    \/ \E q \in Till :
          \/ \E c \in Referrer \cup {Plain} : JudgeBill(q, c)
          \/ \E i \in DOMAIN bought, step \in {"deliver", "cancel"} : LoadOrder(q, i, step)
          \/ CommitBill(q) \/ RedeemReferral(q) \/ CancelBought(q) \/ DeliverBought(q)
          \/ JudgeReward(q) \/ InsertReward(q)
          \/ ClaimNotice(q) \/ TellReferrer(q) \/ NoticeQueued(q) \/ NoticeRefused(q)
          \/ ClaimShare(q) \/ FindCode(q) \/ IssueCode(q)
          \/ OfferCode(q) \/ OfferUnclear(q) \/ OfferRefused(q) \/ OfferUnrecorded(q)
          \/ ReleaseShare(q) \/ TillDies(q)

----------------------------------------------------------------------------
\* A customer earns one reward for one referrer, whichever of the orders is
\* delivered or delivered twice, and the referrer hears of it once; an order
\* offers its code once.  A second message follows only one that was taken for
\* unsent.
ReferralPaidOnce ==
    /\ Cardinality(rewards) <= 1
    /\ \A i \in Index : /\ notices[i] <= 1 + resent[i]
                        /\ offers[i] <= 1 + doubted[i]
=============================================================================
