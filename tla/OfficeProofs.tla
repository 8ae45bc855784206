--------------------------- MODULE OfficeProofs ----------------------------
(***************************************************************************)
(* What MCOffice keeps, for every value of its constants, from what        *)
(* MoneyProofs and ShopProofs show of its parts.                           *)
(***************************************************************************)
EXTENDS MCOffice, MoneyProofs, ShopProofs

(***************************************************************************)
(* The office.  Each part's variables start as that part's specification   *)
(* has them, and a step of another part leaves them alone.                 *)
(***************************************************************************)
LEMMA OfficeBegins ==
    Init => /\ CollectInit /\ CashInit /\ CreditInit /\ QuotaInit /\ SubInit /\ StageInit
            /\ CampaignInit /\ PanelInit /\ SelfInit /\ ReferralInit
  BY Zenon DEF Init

LEMMA BooksSteps ==
    [Next]_vars =>
        /\ [CollectNext]_collectVars /\ [CashNext]_cashVars /\ [CreditNext]_creditVars
        /\ [QuotaNext]_quotaVars /\ [SubNext]_billVars /\ [StageNext]_stageVars
<1> SUFFICES ASSUME [Next]_vars
             PROVE  /\ [CollectNext]_collectVars /\ [CashNext]_cashVars
                    /\ [CreditNext]_creditVars /\ [QuotaNext]_quotaVars
                    /\ [SubNext]_billVars /\ [StageNext]_stageVars
  OBVIOUS
<1>1. BooksNext \/ booksVars' = booksVars
  BY Zenon DEF Next, vars
<1>2. CASE BooksNext
  BY <1>2, Zenon DEF BooksNext
<1>3. CASE booksVars' = booksVars
  BY <1>3, Zenon DEF booksVars
<1> QED BY <1>1, <1>2, <1>3

LEMMA GrowthSteps ==
    [Next]_vars =>
        /\ [CampaignNext]_campaignVars /\ [PanelNext]_panelVars
        /\ [SelfNext]_selfVars /\ [ReferralNext]_referralVars
<1> SUFFICES ASSUME [Next]_vars
             PROVE  /\ [CampaignNext]_campaignVars /\ [PanelNext]_panelVars
                    /\ [SelfNext]_selfVars /\ [ReferralNext]_referralVars
  OBVIOUS
<1>1. GrowthNext \/ growthVars' = growthVars
  BY Zenon DEF Next, vars
<1>2. CASE GrowthNext
  BY <1>2, Zenon DEF GrowthNext
<1>3. CASE growthVars' = growthVars
  BY <1>3, Zenon DEF growthVars
<1> QED BY <1>1, <1>2, <1>3

\* Seen from each part, the office does what the part does.
LEMMA OfficeParts ==
    Spec => /\ CollectSpec /\ CashSpec /\ CreditSpec /\ QuotaSpec /\ SubSpec /\ StageSpec
            /\ CampaignSpec /\ PanelSpec /\ SelfSpec /\ ReferralSpec
  BY OfficeBegins, BooksSteps, GrowthSteps, PTL
     DEF Spec, CollectSpec, CashSpec, CreditSpec, QuotaSpec, SubSpec, StageSpec,
         CampaignSpec, PanelSpec, SelfSpec, ReferralSpec

\* Every part of the office keeps its types (TypeOK).
THEOREM OfficeTyped == Spec => []TypeOK
<1>1. /\ CollectTypeOK /\ CashTypeOK /\ CreditTypeOK /\ QuotaTypeOK /\ SubTypeOK
      /\ StageTypeOK /\ CampaignTypeOK /\ PanelTypeOK /\ SelfTypeOK /\ ReferralTypeOK
      => TypeOK
  BY Zenon DEF TypeOK
<1> QED
  BY OfficeParts, <1>1, CollectionsTyped, CashTyped, CreditsTyped, QuotaTyped,
     SubscriptionTyped, StagesTyped, CampaignTyped, PanelTyped, SelfOrderTyped,
     ReferralsTyped, PTL

\* The office as a whole: everything the parts promise of the shop's money and
\* work holds together, in every state, whichever part moves; and the payments
\* of its bills only ever grow as the ledger allows.
THEOREM OfficeHolds ==
    Spec => /\ [](/\ CollectionsHeld /\ CashCountedOnce /\ CreditsNotConjured /\ BudgetHeld
                  /\ PaidIsServed /\ WorkListed /\ CampaignHeld /\ PanelHeld
                  /\ OneOrderPerList /\ ReferralPaidOnce)
            /\ LedgerKept
  BY OfficeParts, CollectionsHold, CashCounted, CreditsCovered, QuotaHeld, PaidShopServed,
     OrderOnList, CampaignKept, PanelKept, WebOrderedOnce, ReferralRewardedOnce,
     LedgerImplemented, PTL
============================================================================
