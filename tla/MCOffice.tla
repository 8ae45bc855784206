------------------------------ MODULE MCOffice ------------------------------
(***************************************************************************)
(* The office's books for TLC: bills and their payments, the cash counted  *)
(* between staff, the credits and the AI budget of a tenant, its           *)
(* subscription, the tasks an order's stages call for, a marketing         *)
(* campaign, the bills of pickups with their rewards, the orders customers *)
(* place themselves, and the rewards of referrals.  A step of one reads no *)
(* row of the others, so each is explored from its own initial state       *)
(* instead of in their product: part says which one moves.                 *)
(***************************************************************************)
EXTENDS Collections, CashHandover, Credits, AiQuota, Subscription, StageTasks, Campaigns,
        PanelBills, SelfOrder, Referrals, TLC

CONSTANTS r1, r2, a, b, A, B, q1, q2, smart, cheap, e1, e2, e3, f1, p1, p2,
          c1, c2, w1, w2, t1, t2, b1, b2, b3, d1, g1

VARIABLE part

\* Bills of 1 and 2 rupees; one sheet settles the older bill first, the other does not.
Bills  == 1 :> 1 @@ 2 :> 2
Bodies == r1 :> [order |-> 2, amount |-> 2, settle |-> TRUE]
       @@ r2 :> [order |-> 2, amount |-> 2, settle |-> FALSE]

Names == a :> A @@ b :> B

\* A call to the better model is estimated at twice the other's.
Costs == smart :> 2 @@ cheap :> 1

\* An answer of the better model may cost more than that, with a long conversation before it.
AnswerPrices == smart :> {1, 3} @@ cheap :> {1}

\* Two payments: one told of twice, once without a word of the shop, and one
\* that failed first; and a mandate.
EventKinds    == e1 :> "paid" @@ g1 :> "paid" @@ e2 :> "paid" @@ e3 :> "started" @@ f1 :> "failed"
EventEntities == e1 :> p1 @@ g1 :> p1 @@ e2 :> p2 @@ e3 :> d1 @@ f1 :> p2
EventUntil    == e1 :> 2 @@ g1 :> 0 @@ e2 :> 0 @@ e3 :> 0 @@ f1 :> 0

\* One pickup comes with an order, the other with a customer only.
Errands == t1 :> b1 @@ t2 :> Unbilled

\* Requests are alike in every part, and so are the two members of staff with
\* their names, customers, workers, and orders nobody has made yet.  No part
\* uses two families that one permutation moves, so two generators do.
Alike == Permutations({e1}) \cup
    {q1 :> q2 @@ q2 :> q1 @@ c1 :> c2 @@ c2 :> c1,
     a :> b @@ b :> a @@ A :> B @@ B :> A @@ w1 :> w2 @@ w2 :> w1 @@ b2 :> b3 @@ b3 :> b2}

booksVars  == <<collectVars, cashVars, creditVars, quotaVars, billVars, stageVars>>
growthVars == <<campaignVars, panelVars, selfVars, referralVars>>
vars       == <<booksVars, growthVars, part>>

Init ==
    /\ part \in {"collections", "cash", "credits", "quota", "billing", "stages",
                 "campaign", "panel", "selforder", "referrals"}
    /\ CollectInit /\ CashInit /\ CreditInit /\ QuotaInit /\ SubInit /\ StageInit
    /\ CampaignInit /\ PanelInit /\ SelfInit /\ ReferralInit
    /\ part # "stages" => stage = "PICKUP_ASSIGNED"

BooksNext ==
    \/ /\ part = "collections" /\ CollectNext
       /\ UNCHANGED <<cashVars, creditVars, quotaVars, billVars, stageVars>>
    \/ /\ part = "cash" /\ CashNext
       /\ UNCHANGED <<collectVars, creditVars, quotaVars, billVars, stageVars>>
    \/ /\ part = "credits" /\ CreditNext
       /\ UNCHANGED <<collectVars, cashVars, quotaVars, billVars, stageVars>>
    \/ /\ part = "quota" /\ QuotaNext
       /\ UNCHANGED <<collectVars, cashVars, creditVars, billVars, stageVars>>
    \/ /\ part = "billing" /\ SubNext
       /\ UNCHANGED <<collectVars, cashVars, creditVars, quotaVars, stageVars>>
    \/ /\ part = "stages" /\ StageNext
       /\ UNCHANGED <<collectVars, cashVars, creditVars, quotaVars, billVars>>

GrowthNext ==
    \/ /\ part = "campaign" /\ CampaignNext
       /\ UNCHANGED <<panelVars, selfVars, referralVars>>
    \/ /\ part = "panel" /\ PanelNext
       /\ UNCHANGED <<campaignVars, selfVars, referralVars>>
    \/ /\ part = "selforder" /\ SelfNext
       /\ UNCHANGED <<campaignVars, panelVars, referralVars>>
    \/ /\ part = "referrals" /\ ReferralNext
       /\ UNCHANGED <<campaignVars, panelVars, selfVars>>

Next ==
    \/ BooksNext /\ UNCHANGED <<growthVars, part>>
    \/ GrowthNext /\ UNCHANGED <<booksVars, part>>

Spec == Init /\ [][Next]_vars

\* Every variable has its type; those of a part that does not move keep their first values.
TypeOK ==
    /\ part = "collections" => CollectTypeOK
    /\ part = "cash" => CashTypeOK
    /\ part = "credits" => CreditTypeOK
    /\ part = "quota" => QuotaTypeOK
    /\ part = "billing" => SubTypeOK
    /\ part = "stages" => StageTypeOK
    /\ part = "campaign" => CampaignTypeOK
    /\ part = "panel" => PanelTypeOK
    /\ part = "selforder" => SelfTypeOK
    /\ part = "referrals" => ReferralTypeOK
=============================================================================
