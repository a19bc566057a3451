------------------------------- MODULE Guards -------------------------------
(***************************************************************************)
(* The pure decisions and arithmetic of billing/guards.rs, with the tier   *)
(* table of billing/app_hosting.rs they are applied to.  Money is counted  *)
(* in microcents (hundredths of a cent) as in the source.                  *)
(***************************************************************************)
EXTENDS Integers

OVERAGE_UPLIFT_NUM == 110
OVERAGE_UPLIFT_DEN == 100
OVERAGE_SANITY_CEILING_CENTS == 200000
MONTHLY_CREDIT_GRANT_MICROCENTS == 50000

\* AppHostingTier::parse: the plan strings that name an app-hosting tier.
StarterPlans    == {"app_starter", "starter"}
ProPlans        == {"app_pro", "pro"}
CompliancePlans == {"app_compliance", "compliance"}
AppTierPlans    == StarterPlans \cup ProPlans \cup CompliancePlans

IsAppTier(plan) == plan \in AppTierPlans

\* Managed-AI credit of a plan; grandfathered plans get the legacy grant.
CreditGrant(plan) ==
  CASE plan \in StarterPlans    -> 100000
    [] plan \in ProPlans        -> 250000
    [] plan \in CompliancePlans -> 500000
    [] OTHER                    -> MONTHLY_CREDIT_GRANT_MICROCENTS

PositivePart(n) == IF n > 0 THEN n ELSE 0

\* The part of a cost that the credit does not cover.
BedrockOverage(cost, credit) ==
  LET covered == IF cost < PositivePart(credit) THEN cost ELSE PositivePart(credit)
  IN  PositivePart(cost - covered)

\* cost * 110 / 100 in a wide integer, so it never overflows on the way.
WithOverageUplift(cost) ==
  IF cost <= 0 THEN 0 ELSE (cost * OVERAGE_UPLIFT_NUM) \div OVERAGE_UPLIFT_DEN

MicrocentsToCentsCeil(microcents) ==
  IF microcents <= 0 THEN 0 ELSE (microcents + 99) \div 100

WithinSanityCeiling(cents) == cents <= OVERAGE_SANITY_CEILING_CENTS

\* What a period costs beyond its credit, in the cents put on the invoice item.
OverageCents(cost, plan) ==
  MicrocentsToCentsCeil(WithOverageUplift(BedrockOverage(cost, CreditGrant(plan))))

-----------------------------------------------------------------------------
\* The circuit breaker of the shared Bedrock backend.
BlockingStatuses == {"past_due", "unpaid", "canceled", "incomplete_expired"}

GateReason(stripeEnabled, balance, status) ==
  IF ~stripeEnabled                 THEN "BillingDisabled"
  ELSE IF status \in BlockingStatuses THEN "BillingPastDue"
  ELSE IF balance <= 0                THEN "CreditsExhausted"
  ELSE "Ok"

AllowSharedBedrock(stripeEnabled, balance, status) ==
  GateReason(stripeEnabled, balance, status) \in {"BillingDisabled", "Ok"}
=============================================================================
