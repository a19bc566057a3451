--------------------------- MODULE OverageBilling ---------------------------
(***************************************************************************)
(* Period close of one tenant: Stripe delivers invoice.paid at least once, *)
(* any number of request handlers run stripe_webhook -> handle_invoice_paid*)
(* -> bill_period_close_overage concurrently, and every await in them is a *)
(* step of its own.  Harness activity reports insert usage rows meanwhile, *)
(* and checkouts record the subscription the invoices are of.              *)
(*                                                                         *)
(* An invoice.paid event and its invoice are identified with each other:   *)
(* Stripe sends one such event per invoice and redelivers it under one id. *)
(***************************************************************************)
EXTENDS Guards, FiniteSets, FiniteSetsExt

CONSTANTS
  Subscriptions,   \* subscriptions the tenant checks out
  Invoices,        \* their invoices
  SubOf,           \* the subscription of an invoice
  Rows,            \* llm_usage_records rows the tenant will ever have
  Workers,         \* request handlers that can run at the same time
  Harnesses,       \* the tenant's harness instances
  HarnessOf,       \* the harness a usage row was reported for
  Cost,            \* cost_microcents of a row
  Byok,            \* rows reported with is_byok = true
  Plans,           \* plan strings the tenant may hold
  EgressIncluded,  \* ticks of egress inside the tier's allowance
  MaxFaults,       \* bound: failed statements, failed calls and crashes
  MaxClock         \* bound: ticks of the clock

ASSUME RowAssumption ==
  /\ HarnessOf \in [Rows -> Harnesses]
  /\ Cost \in [Rows -> Nat]
  /\ Byok \subseteq Rows

ASSUME SubscriptionAssumption == SubOf \in [Invoices -> Subscriptions]

ASSUME BoundAssumption ==
  /\ EgressIncluded \in Nat
  /\ MaxFaults \in Nat
  /\ MaxClock \in Nat

VARIABLES
  \* the database
  logged,     \* invoices whose event is in stripe_webhook_events
  row,        \* state of each llm_usage_records row
  gone,       \* harnesses whose harness_instances row was deleted
  plan,       \* tenants.plan
  grantedAt,  \* tenants.credits_granted_at, in ticks
  subId,      \* tenants.stripe_subscription_id
  \* Stripe
  issued,     \* invoices Stripe has been paid for
  acked,      \* invoices whose event was answered 2xx
  item,       \* the Bedrock invoice item under each invoice's idempotency key
  egressItem, \* the window of the egress invoice item ({} when there is none)
  signed,     \* subscriptions whose checkout.session.completed was handled
  \* the request handlers
  pc, inv, tier, since, hold,
  \* the environment
  clock, faults,
  \* history, read by no action
  settled,    \* rows for which Stripe answered "accepted" under an invoice
  closed,     \* rows closed without a charge, inside the credit
  exposed,    \* rows whose mark was lost, or that two handlers held at once
  refreshed,  \* what refreshed the credit after each invoice was paid
  trouble     \* what has happened so far: a fault, two handlers overlapping

dbVars      == <<logged, row, gone, plan, grantedAt, subId>>
stripeVars  == <<issued, acked, item, egressItem, signed>>
handlerVars == <<pc, inv, tier, since, hold>>
envVars     == <<clock, faults>>
histVars    == <<settled, closed, exposed, refreshed, trouble>>
vars == <<dbVars, stripeVars, handlerVars, envVars, histVars>>

None   == "none"
NoItem == [rows |-> {}, tier |-> None]
Charge == [rows : SUBSET Rows, tier : Plans]

Steps == {"idle", "dedup", "log", "tenant", "select", "submit", "mark",
          "close", "egress", "reset", "ack"}

TypeOK ==
  /\ logged \subseteq Invoices
  /\ row \in [Rows -> {"absent", "unbilled", "billed", "deleted"}]
  /\ gone \subseteq Harnesses
  /\ plan \in Plans
  /\ grantedAt \in 0..MaxClock
  /\ subId \in Subscriptions \cup {None}
  /\ issued \subseteq Invoices
  /\ acked \subseteq Invoices
  /\ item \in [Invoices -> Charge \cup {NoItem}]
  /\ egressItem \in [Invoices -> SUBSET (1..MaxClock)]
  /\ signed \subseteq Subscriptions
  /\ pc \in [Workers -> Steps]
  /\ inv \in [Workers -> Invoices \cup {None}]
  /\ tier \in [Workers -> Plans \cup {None}]
  /\ since \in [Workers -> 0..MaxClock]
  /\ hold \in [Workers -> SUBSET Rows]
  /\ clock \in 0..MaxClock
  /\ faults \in 0..MaxFaults
  /\ settled \in [Invoices -> SUBSET Rows]
  /\ closed \subseteq Rows
  /\ exposed \subseteq Rows
  /\ refreshed \in [Invoices -> {"no", "reset", "checkout", "superseded"}]
  /\ trouble \subseteq {"fault", "overlap"}

Init ==
  /\ logged = {}
  /\ row = [r \in Rows |-> "absent"]
  /\ gone = {}
  /\ plan \in Plans
  /\ grantedAt = 0
  /\ subId = None
  /\ issued = {}
  /\ acked = {}
  /\ item = [i \in Invoices |-> NoItem]
  /\ egressItem = [i \in Invoices |-> {}]
  /\ signed = {}
  /\ pc = [w \in Workers |-> "idle"]
  /\ inv = [w \in Workers |-> None]
  /\ tier = [w \in Workers |-> None]
  /\ since = [w \in Workers |-> 0]
  /\ hold = [w \in Workers |-> {}]
  /\ clock = 0
  /\ faults = 0
  /\ settled = [i \in Invoices |-> {}]
  /\ closed = {}
  /\ exposed = {}
  /\ refreshed = [i \in Invoices |-> "no"]
  /\ trouble = {}
-----------------------------------------------------------------------------
(***************************************************************************)
(* Money.                                                                  *)
(***************************************************************************)
TotalCost(S) == MapThenSumSet(LAMBDA r : Cost[r], S)

ChargeCents(c) == OverageCents(TotalCost(c.rows), c.tier)

\* Mutant: the "billed = FALSE" filter is dropped.
AllRows == {r \in Rows : row[r] \in {"unbilled", "billed"}}

\* The SELECT of the closing period.  llm_provider_mode is 'shared_bedrock'
\* on every harness: it is that column's default and no statement changes it.
UnbilledRows == {r \in Rows : row[r] = "unbilled"}

\* Rows some handler selected and has not yet finished with.
HeldByOthers(w) == UNION {hold[v] : v \in Workers \ {w}}

Goto(w, step) == pc' = [pc EXCEPT ![w] = step]

\* The request is over and its local variables with it.
Finish(w) ==
  /\ Goto(w, "idle")
  /\ inv' = [inv EXCEPT ![w] = None]
  /\ tier' = [tier EXCEPT ![w] = None]
  /\ since' = [since EXCEPT ![w] = 0]
  /\ hold' = [hold EXCEPT ![w] = {}]

AlreadyProcessed(i) == i \in logged

Fault ==
  /\ faults < MaxFaults
  /\ faults' = faults + 1
  /\ trouble' = trouble \cup {"fault"}

NoFault == UNCHANGED <<faults, trouble>>
-----------------------------------------------------------------------------
(***************************************************************************)
(* The environment.                                                        *)
(***************************************************************************)
IssueInvoice(i) ==
  /\ i \notin issued
  /\ issued' = issued \cup {i}
  /\ UNCHANGED <<dbVars, acked, item, egressItem, signed, handlerVars, envVars, histVars>>

\* receive_activity inserts a usage row, whatever report.is_byok says.
ReportUsage(r) ==
  /\ row[r] = "absent"
  /\ HarnessOf[r] \notin gone
  /\ row' = [row EXCEPT ![r] = "unbilled"]
  /\ UNCHANGED <<logged, gone, plan, grantedAt, subId, stripeVars, handlerVars, envVars, histVars>>

\* harness_delete removes the harness row; its usage rows go with it (CASCADE).
DeleteHarness(h) ==
  /\ h \notin gone
  /\ gone' = gone \cup {h}
  /\ row' = [r \in Rows |->
               IF HarnessOf[r] = h /\ row[r] # "absent" THEN "deleted" ELSE row[r]]
  /\ UNCHANGED <<logged, plan, grantedAt, subId, stripeVars, handlerVars, envVars, histVars>>

\* upgrade_plan of the admin API.
ChangePlan(p) ==
  /\ p # plan
  /\ plan' = p
  /\ UNCHANGED <<logged, row, gone, grantedAt, subId, stripeVars, handlerVars, envVars, histVars>>

\* The UPDATE of handle_checkout_completed, whose plan may be the one there is.
ActivateSubscription(s, p) == subId' = s /\ plan' = p /\ grantedAt' = clock

\* checkout.session.completed of s, here the one statement that matters to the
\* invoices.  A request that is cut short may or may not be delivered again.
CheckoutCompleted(s, p) ==
  /\ s \notin signed
  /\ \/ /\ ActivateSubscription(s, p)
        /\ signed' = signed \cup {s}
        /\ NoFault
     \/ /\ ActivateSubscription(s, p) \/ UNCHANGED <<subId, plan, grantedAt>>
        /\ signed' \in {signed, signed \cup {s}}
        /\ Fault
  /\ refreshed' = [i \in Invoices |->
       IF i \in issued /\ SubOf[i] = s /\ subId' = s /\ refreshed[i] = "no"
       THEN "checkout" ELSE refreshed[i]]
  /\ UNCHANGED <<logged, row, gone, issued, acked, item, egressItem, handlerVars, clock,
                 settled, closed, exposed>>

Tick ==
  /\ clock < MaxClock
  /\ clock' = clock + 1
  /\ UNCHANGED <<dbVars, stripeVars, handlerVars, faults, histVars>>
-----------------------------------------------------------------------------
(***************************************************************************)
(* stripe_webhook.                                                         *)
(***************************************************************************)
Deliver(w, i) ==
  /\ pc[w] = "idle"
  /\ i \in issued
  /\ inv' = [inv EXCEPT ![w] = i]
  /\ Goto(w, "dedup")
  /\ trouble' = IF \E v \in Workers : pc[v] # "idle"
                THEN trouble \cup {"overlap"} ELSE trouble
  /\ UNCHANGED <<dbVars, stripeVars, tier, since, hold, envVars,
                 settled, closed, exposed, refreshed>>

\* SELECT EXISTS ... unwrap_or(false), then the early 200 for a known event.
CheckProcessed(w) ==
  /\ pc[w] = "dedup"
  /\ \/ /\ AlreadyProcessed(inv[w])
        /\ Finish(w)
        /\ acked' = acked \cup {inv[w]}
        /\ NoFault
     \/ /\ ~AlreadyProcessed(inv[w])
        /\ Goto(w, "log")
        /\ UNCHANGED <<acked, inv, tier, since, hold>>
        /\ NoFault
     \/ /\ Fault
        /\ Goto(w, "log")
        /\ UNCHANGED <<acked, inv, tier, since, hold>>
  /\ UNCHANGED <<dbVars, issued, item, egressItem, signed, clock,
                 settled, closed, exposed, refreshed>>

\* INSERT ... ON CONFLICT DO NOTHING; its result is not looked at.
LogEvent(w) ==
  /\ pc[w] = "log"
  /\ Goto(w, "tenant")
  /\ \/ logged' = logged \cup {inv[w]} /\ NoFault
     \/ UNCHANGED logged /\ Fault
  /\ UNCHANGED <<row, gone, plan, grantedAt, subId, stripeVars, inv, tier, since, hold, clock,
                 settled, closed, exposed, refreshed>>

Respond(w) ==
  /\ pc[w] = "ack"
  /\ Finish(w)
  /\ acked' = acked \cup {inv[w]}
  /\ UNCHANGED <<dbVars, issued, item, egressItem, signed, envVars, histVars>>
-----------------------------------------------------------------------------
(***************************************************************************)
(* bill_period_close_overage.                                              *)
(***************************************************************************)
\* WHERE stripe_subscription_id = the invoice's.
Matches(i) == subId = SubOf[i]

\* The tenant row, if there is one: only app-hosting tiers are billed; a failed
\* query is "no row".
ReadTenant(w) ==
  /\ pc[w] = "tenant"
  /\ \/ /\ Matches(inv[w]) /\ IsAppTier(plan)
        /\ tier' = [tier EXCEPT ![w] = plan]
        /\ since' = [since EXCEPT ![w] = grantedAt]
        /\ Goto(w, "select")
        /\ NoFault
     \/ /\ ~(Matches(inv[w]) /\ IsAppTier(plan))
        /\ Goto(w, "reset")
        /\ UNCHANGED <<tier, since>>
        /\ NoFault
     \/ /\ Fault
        /\ Goto(w, "reset")
        /\ UNCHANGED <<tier, since>>
  /\ UNCHANGED <<dbVars, stripeVars, inv, hold, clock, settled, closed, exposed, refreshed>>

\* Mutant: the ceiling is compared before the uplift.
NextForSelectionNoUplift(S, t) ==
  LET overage == BedrockOverage(TotalCost(S), CreditGrant(t))
  IN  IF OverageCents(TotalCost(S), t) > 0
      THEN IF WithinSanityCeiling(MicrocentsToCentsCeil(overage)) THEN "submit" ELSE "egress"
      ELSE IF S # {} THEN "close" ELSE "egress"

\* Mutant: a held period answers the webhook at once and skips the reset.
NextForSelectionHeldReturns(S, t) ==
  LET cents == OverageCents(TotalCost(S), t)
  IN  IF cents > 0
      THEN IF WithinSanityCeiling(cents) THEN "submit" ELSE "ack"
      ELSE IF S # {} THEN "close" ELSE "egress"

\* What becomes of the selected rows S: charge them, hold the period back, or
\* close it inside the credit.
NextForSelection(S, t) ==
  LET cents == OverageCents(TotalCost(S), t)
  IN  IF cents > 0
      THEN IF WithinSanityCeiling(cents) THEN "submit" ELSE "egress"
      ELSE IF S # {} THEN "close" ELSE "egress"

SelectRows(w) ==
  /\ pc[w] = "select"
  /\ \/ LET next == NextForSelection(UnbilledRows, tier[w])
        IN  /\ Goto(w, next)
            /\ hold' = [hold EXCEPT ![w] = IF next = "egress" THEN {} ELSE UnbilledRows]
            /\ exposed' = exposed \cup (hold'[w] \cap HeldByOthers(w))
            /\ NoFault
     \/ /\ Fault
        /\ Goto(w, "egress")
        /\ UNCHANGED <<hold, exposed>>
  /\ UNCHANGED <<dbVars, stripeVars, inv, tier, since, clock, settled, closed, refreshed>>

\* Stripe's side of an idempotency key (external): the first request under a
\* key creates the item, an equal one returns it, a different one is refused.
StripeAccepts(i, c) == item[i] = NoItem \/ ChargeCents(item[i]) = ChargeCents(c)

CreateItem(i, c) ==
  /\ StripeAccepts(i, c)
  /\ item' = [item EXCEPT ![i] = IF @ = NoItem THEN c ELSE @]
  /\ settled' = [settled EXCEPT ![i] = @ \cup c.rows]

SubmitOverage(w) ==
  LET i == inv[w]
      c == [rows |-> hold[w], tier |-> tier[w]]
  IN  /\ pc[w] = "submit"
      /\ \/ /\ CreateItem(i, c)                    \* accepted
            /\ Goto(w, "mark")
            /\ UNCHANGED <<hold, exposed>>
            /\ NoFault
         \/ /\ CreateItem(i, c)                    \* accepted, the answer is lost
            /\ Goto(w, "egress")
            /\ hold' = [hold EXCEPT ![w] = {}]
            /\ exposed' = exposed \cup hold[w]
            /\ Fault
         \/ /\ ~StripeAccepts(i, c)                \* refused: key reused for another amount
            /\ Goto(w, "egress")
            /\ hold' = [hold EXCEPT ![w] = {}]
            /\ UNCHANGED <<item, settled, exposed>>
            /\ NoFault
         \/ /\ Fault                               \* failed before it reached Stripe
            /\ Goto(w, "egress")
            /\ hold' = [hold EXCEPT ![w] = {}]
            /\ UNCHANGED <<item, settled, exposed>>
      /\ UNCHANGED <<dbVars, issued, acked, egressItem, signed, inv, tier, since, clock, closed, refreshed>>

\* Mutant: the update is by tenant and sweeps up rows that arrived meanwhile.
MarkBilledSweep(S) == row' = [r \in Rows |-> IF row[r] = "unbilled" THEN "billed" ELSE row[r]]

\* Mutant: the row is given a status the schema does not have.
MarkBilledAsCharged(S) == row' = [r \in Rows |-> IF r \in S THEN "charged" ELSE row[r]]

\* UPDATE ... SET billed = TRUE WHERE id = ANY(ids): only the selected rows.
MarkBilled(S) == row' = [r \in Rows |-> IF r \in S /\ row[r] = "unbilled"
                                        THEN "billed" ELSE row[r]]

MarkRows(w) ==
  /\ pc[w] = "mark"
  /\ Goto(w, "egress")
  /\ hold' = [hold EXCEPT ![w] = {}]
  /\ \/ /\ MarkBilled(hold[w])
        /\ UNCHANGED exposed
        /\ NoFault
     \/ /\ UNCHANGED row
        /\ exposed' = exposed \cup hold[w]
        /\ Fault
  /\ UNCHANGED <<logged, gone, plan, grantedAt, subId, stripeVars, inv, tier, since, clock,
                 settled, closed, refreshed>>

ClosePeriod(w) ==
  /\ pc[w] = "close"
  /\ Goto(w, "egress")
  /\ hold' = [hold EXCEPT ![w] = {}]
  /\ \/ /\ MarkBilled(hold[w])
        /\ closed' = closed \cup hold[w]
        /\ NoFault
     \/ /\ UNCHANGED <<row, closed>>
        /\ Fault
  /\ UNCHANGED <<logged, gone, plan, grantedAt, subId, stripeVars, inv, tier, since, clock,
                 settled, exposed, refreshed>>

\* Egress over [credits_granted_at, now]; the key is its only deduplication.
EgressWindow(w) == (since[w] + 1)..clock
EgressOver(T)   == PositivePart(Cardinality(T) - EgressIncluded)

BillEgress(w) ==
  LET i == inv[w]
      T == EgressWindow(w)
      accepted == egressItem[i] = {} \/ EgressOver(egressItem[i]) = EgressOver(T)
      create == egressItem' = [egressItem EXCEPT ![i] = IF @ = {} THEN T ELSE @]
  IN  /\ pc[w] = "egress"
      /\ Goto(w, "reset")
      /\ \/ EgressOver(T) = 0 /\ UNCHANGED egressItem /\ NoFault
         \/ EgressOver(T) > 0 /\ accepted /\ create /\ NoFault
         \/ EgressOver(T) > 0 /\ ~accepted /\ UNCHANGED egressItem /\ NoFault
         \/ UNCHANGED egressItem /\ Fault
      /\ UNCHANGED <<dbVars, issued, acked, item, signed, inv, tier, since, hold, clock,
                     settled, closed, exposed, refreshed>>

\* handle_invoice_paid's closing UPDATE: the new period's credit, if the tenant
\* row has the invoice's subscription at that moment.
ResetCredit(w) ==
  LET i == inv[w] IN
  /\ pc[w] = "reset"
  /\ Goto(w, "ack")
  /\ \/ /\ Matches(i)
        /\ grantedAt' = clock
        /\ refreshed' = [refreshed EXCEPT ![i] = "reset"]
        /\ NoFault
     \/ /\ ~Matches(i)
        /\ refreshed' = [refreshed EXCEPT ![i] =
             IF SubOf[i] \in signed /\ @ = "no" THEN "superseded" ELSE @]
        /\ UNCHANGED grantedAt
        /\ NoFault
     \/ UNCHANGED <<grantedAt, refreshed>> /\ Fault
  /\ UNCHANGED <<logged, row, gone, plan, subId, stripeVars, inv, tier, since, hold, clock,
                 settled, closed, exposed>>

\* The process dies or the 180 s TimeoutLayer drops the handler between two awaits.
Crash(w) ==
  /\ pc[w] # "idle"
  /\ Fault
  /\ Finish(w)
  /\ exposed' = IF pc[w] = "mark" THEN exposed \cup hold[w] ELSE exposed
  /\ UNCHANGED <<dbVars, stripeVars, clock, settled, closed, refreshed>>
-----------------------------------------------------------------------------
Handler(w) ==
  \/ CheckProcessed(w) \/ LogEvent(w) \/ ReadTenant(w) \/ SelectRows(w)
  \/ SubmitOverage(w)  \/ MarkRows(w) \/ ClosePeriod(w) \/ BillEgress(w)
  \/ ResetCredit(w)    \/ Respond(w)

Next ==
  \/ \E i \in Invoices : IssueInvoice(i)
  \/ \E r \in Rows : ReportUsage(r)
  \/ \E h \in Harnesses : DeleteHarness(h)
  \/ \E p \in Plans : ChangePlan(p)
  \/ \E s \in Subscriptions, p \in Plans : CheckoutCompleted(s, p)
  \/ Tick
  \/ \E w \in Workers, i \in Invoices : Deliver(w, i)
  \/ \E w \in Workers : Handler(w) \/ Crash(w)

Spec == Init /\ [][Next]_vars

\* A started handler keeps running, and Stripe repeats an event until it is
\* answered 2xx, that of the checkout a subscription comes from among them.
FairSpec ==
  /\ Spec
  /\ \A w \in Workers : WF_vars(Handler(w))
  /\ \A s \in Subscriptions : WF_vars(\E p \in Plans : CheckoutCompleted(s, p))
  /\ \A i \in Invoices : SF_vars(i \notin acked /\ \E w \in Workers : Deliver(w, i))
-----------------------------------------------------------------------------
(***************************************************************************)
(* Properties.                                                             *)
(***************************************************************************)

\* Whatever faults and overlaps occur, an invoice item is for a positive amount
\* under the sanity ceiling: submit_overage_invoice_item is never reached with
\* a held amount, also not through a selection that another handler changed.
ChargesWithinCeiling ==
  \A i \in Invoices :
    item[i] # NoItem => /\ ChargeCents(item[i]) > 0
                        /\ WithinSanityCeiling(ChargeCents(item[i]))

\* A row is billed only if Stripe accepted a charge that counted it, or it was
\* in a period inside the credit: rows that arrive while a charge is being
\* submitted are not swept up by the mark (strict submit -> mark ordering).
BilledIsSettled ==
  \A r \in Rows :
    row[r] = "billed" => r \in closed \/ \E i \in Invoices : r \in settled[i]

\* A row is charged on two invoices only if its mark was lost after an accepted
\* charge, or two handlers held it at the same time.  Redelivery, retries and
\* late reports alone never charge a row twice.
ChargedTwiceOnlyIfExposed ==
  \A r \in Rows \ exposed : \A i, j \in Invoices :
    r \in settled[i] /\ r \in settled[j] => i = j

\* Every paid invoice is followed by fresh credit in the end (fault-free): by
\* its own reset, or, when it was handled before its subscription was recorded
\* and its UPDATE matched no row, by the checkout that records it.  The one
\* exception is an invoice that finds another checkout's subscription in the
\* place of its own (handle_invoice_paid, handle_checkout_completed).
PaidInvoiceRefreshesCredit ==
  \A i \in Invoices : i \in issued ~> refreshed[i] # "no"

-----------------------------------------------------------------------------
(***************************************************************************)
(* The inductive invariant behind the safety properties.                   *)
(***************************************************************************)

\* A handler at work has an invoice, and the tier it read once it has read it.
BusyInv ==
  \A w \in Workers :
    /\ pc[w] # "idle" => inv[w] \in Invoices
    /\ pc[w] \in {"select", "submit", "mark", "close"} => tier[w] \in Plans
    /\ pc[w] \notin {"submit", "mark", "close"} => hold[w] = {}

Chargeable(c) == ChargeCents(c) > 0 /\ WithinSanityCeiling(ChargeCents(c))

\* What is about to be submitted passed the guards.
SubmitInv ==
  \A w \in Workers : pc[w] = "submit" => Chargeable([rows |-> hold[w], tier |-> tier[w]])

\* A handler about to mark rows has had their charge accepted.
MarkInv == \A w \in Workers : pc[w] = "mark" => hold[w] \subseteq settled[inv[w]]

\* Rows in a handler's hands were inserted; an unexposed one is in one pair of
\* hands, and charged under that handler's invoice only, and only when marking.
HoldInv ==
  \A w \in Workers : \A r \in hold[w] :
    /\ row[r] # "absent"
    /\ r \notin exposed =>
         /\ \A v \in Workers : r \in hold[v] => v = w
         /\ \A i \in Invoices : r \in settled[i] => pc[w] = "mark" /\ i = inv[w]

\* An unexposed row whose charge was accepted is billed, deleted, or about to
\* be marked: it can not be selected again.
SettledInv ==
  \A i \in Invoices : \A r \in settled[i] \ exposed :
    \/ row[r] \in {"billed", "deleted"}
    \/ \E w \in Workers : pc[w] = "mark" /\ inv[w] = i /\ r \in hold[w]

IInv ==
  /\ TypeOK
  /\ BusyInv
  /\ SubmitInv
  /\ MarkInv
  /\ HoldInv
  /\ SettledInv
  /\ ChargesWithinCeiling
  /\ BilledIsSettled
  /\ ChargedTwiceOnlyIfExposed
=============================================================================
