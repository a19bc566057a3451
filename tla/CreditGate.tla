----------------------------- MODULE CreditGate -----------------------------
(* The managed-AI credit of one tenant and the circuit breaker on it        *)
(* (routes/sync.rs, billing/guards.rs). Each harness of the tenant spends   *)
(* on the shared backend while its last balance query allowed it; at the    *)
(* end of a sync interval it reports what it spent and asks again. The      *)
(* usage rows a report leaves behind are those of OverageBilling.           *)
EXTENDS Guards, FiniteSetsExt

CONSTANTS
  Harness,         \* the tenant's harnesses
  Byok,            \* those that report with is_byok
  Rate,            \* most a harness spends in one sync interval
  Grant,           \* the credit of the tenant's plan
  MaxPeriods,      \* bound on credit resets
  MaxChanges,      \* bound on changes of the subscription status
  FaultBudget      \* bound on failing statements and handlers cut short

VARIABLES
  balance, status, \* tenants.credit_balance_microcents, stripe_subscription_status
  pc,              \* each harness, and the handler of its report
  allowed,         \* allow_shared_bedrock in its last answer
  spent,           \* what it spent in the interval; its report carries it
  used, deducted, lost, \* history: shared spending the current credit is for,
                   \* what reports took from it and what they failed to take
  late,            \* history: what each spent since the gate last closed
  periods, changes, faults

vars == <<balance, status, pc, allowed, spent, used, deducted, lost, late,
          periods, changes, faults>>
bounds == <<periods, changes, faults>>

Statuses == {"active", "past_due", "canceled"}

Init ==
  /\ balance = Grant /\ status = "active"
  /\ pc = [h \in Harness |-> "poll"]
  /\ allowed = [h \in Harness |-> FALSE]
  /\ spent = [h \in Harness |-> 0]
  /\ used = 0 /\ deducted = 0 /\ lost = 0
  /\ late = [h \in Harness |-> 0]
  /\ periods = 0 /\ changes = 0 /\ faults = 0

Goto(h, label) == pc' = [pc EXCEPT ![h] = label]

-----------------------------------------------------------------------------
(* The harness: a balance query opens an interval, a report closes it.      *)

\* Mutant: a balance of zero still counts as credit.
AllowAtZero(b, s) == s \notin BlockingStatuses /\ b >= 0
\* Mutant: a blocking status is overlooked while credit remains.
AllowByBalance(b, s) == b > 0

\* shared_bedrock_decision, on a platform with Stripe.
Allow(b, s) == AllowSharedBedrock(TRUE, b, s)

GetBalance(h) ==
  /\ pc[h] = "poll"
  /\ allowed' = [allowed EXCEPT ![h] = Allow(balance, status)]
  /\ Goto(h, "run")
  /\ UNCHANGED <<balance, status, spent, used, deducted, lost, late, bounds>>

GateOpen == AllowSharedBedrock(TRUE, balance, status)

\* One unit on the shared backend, or with the harness's own key.
Spend(h) ==
  /\ pc[h] = "run" /\ spent[h] < Rate
  /\ spent' = [spent EXCEPT ![h] = @ + 1]
  /\ \/ h \in Byok /\ UNCHANGED <<used, late>>
     \/ /\ h \notin Byok /\ allowed[h]
        /\ used' = used + 1
        /\ late' = IF GateOpen THEN late ELSE [late EXCEPT ![h] = @ + 1]
  /\ UNCHANGED <<balance, status, pc, allowed, deducted, lost, bounds>>

SendReport(h) ==
  /\ pc[h] = "run" /\ Goto(h, "report")
  /\ UNCHANGED <<balance, status, allowed, spent, used, deducted, lost, late, bounds>>

-----------------------------------------------------------------------------
(* receive_activity, one step for the statements before the deduction. The   *)
(* handler may be cut short and a statement may fail; the answer is the same *)
(* and the harness goes on.                                                  *)

\* shared_cost_total
SharedCost(h) == IF h \in Byok THEN 0 ELSE spent[h]

Unreported == MapThenSumSet(LAMBDA h : IF h \in Byok THEN 0 ELSE spent[h], Harness)

\* A history of the gate: it starts anew when the gate opens.
SinceClosed == late' = IF GateOpen' /\ ~GateOpen THEN [h \in Harness |-> 0] ELSE late

\* The activity row cannot be written, or no harness is found for the report.
ReportLost(h) ==
  /\ faults < FaultBudget /\ faults' = faults + 1
  /\ lost' = lost + SharedCost(h)
  /\ spent' = [spent EXCEPT ![h] = 0] /\ Goto(h, "poll")
  /\ UNCHANGED <<balance, deducted>>

StoreReport(h) ==
  /\ pc[h] = "report"
  /\ \/ Goto(h, "deduct") /\ UNCHANGED <<balance, spent, deducted, lost, faults>>
     \/ ReportLost(h)
  /\ UNCHANGED <<status, allowed, used, late, periods, changes>>

\* GREATEST(0, credit_balance_microcents - cost)
Take(b, cost) == PositivePart(b - cost)

Deduct(h) ==
  /\ pc[h] = "deduct"
  /\ \/ /\ balance' = Take(balance, SharedCost(h))
        /\ deducted' = deducted + SharedCost(h)
        /\ spent' = [spent EXCEPT ![h] = 0] /\ Goto(h, "poll")
        /\ UNCHANGED <<lost, faults>>
     \/ ReportLost(h)
  /\ UNCHANGED <<status, allowed, used, late, periods, changes>>

-----------------------------------------------------------------------------
(* The webhook handlers, as far as the gate sees them.                       *)

\* invoice.paid: past_due is cleared and the credit set, with no rollover.
CreditReset ==
  /\ periods < MaxPeriods /\ periods' = periods + 1
  /\ balance' = Grant
  /\ status' = IF status = "past_due" THEN "active" ELSE status
  /\ used' = Unreported /\ deducted' = 0 /\ lost' = 0
  /\ SinceClosed
  /\ UNCHANGED <<pc, allowed, spent, changes, faults>>

\* payment_failed, subscription.updated and subscription.deleted set it.
StatusChange ==
  /\ changes < MaxChanges /\ changes' = changes + 1
  /\ \E s \in Statuses : status' = s
  /\ UNCHANGED balance /\ SinceClosed
  /\ UNCHANGED <<pc, allowed, spent, used, deducted, lost, periods, faults>>

Next ==
  \/ \E h \in Harness :
       GetBalance(h) \/ Spend(h) \/ SendReport(h) \/ StoreReport(h) \/ Deduct(h)
  \/ CreditReset \/ StatusChange

Spec == Init /\ [][Next]_vars

-----------------------------------------------------------------------------
(* Properties.                                                               *)

(* Every variable has its type. *)
TypeOK ==
  /\ balance \in Nat /\ status \in Statuses
  /\ pc \in [Harness -> {"poll", "run", "report", "deduct"}]
  /\ allowed \in [Harness -> BOOLEAN]
  /\ spent \in [Harness -> 0..Rate]
  /\ used \in Nat /\ deducted \in Nat /\ lost \in Nat
  /\ late \in [Harness -> Nat]
  /\ periods \in 0..MaxPeriods /\ changes \in 0..MaxChanges /\ faults \in 0..FaultBudget

(* However reports and resets interleave, the balance is the credit less     *)
(* what reports took from it since the reset, and never below zero, although *)
(* each deduction is cut off at zero on its own (receive_activity).          *)
BalanceIsCreditLessUsage == balance = PositivePart(Grant - deducted)

(* After the gate has closed, for whatever reason, a harness spends at most  *)
(* what is left of its running interval: the circuit breaker bounds each     *)
(* harness by one sync interval (guards.rs, get_balance).                    *)
LateSpendingIsBounded == \A h \in Harness : late[h] <= Rate

(* "The worst-case overrun is bounded by one sync interval" (receive_activity): *)
(* the tenant overruns its credit by at most what all its harnesses spend in *)
(* one, and the reports that were lost. Between the balance and the spending *)
(* stand the reports still under way, and several harnesses read one balance. *)
OverrunIsBounded ==
  used <= Grant + Cardinality(Harness \ Byok) * Rate + lost

=============================================================================
