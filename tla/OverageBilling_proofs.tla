------------------------ MODULE OverageBilling_proofs ------------------------
(***************************************************************************)
(* Safety of OverageBilling for every set of invoices, rows and handlers   *)
(* and every bound on faults.                                              *)
(***************************************************************************)
EXTENDS OverageBilling, TLAPS

(***************************************************************************)
(* Type correctness.                                                       *)
(***************************************************************************)
LEMMA FaultTypes ==
  ASSUME TypeOK, Fault \/ NoFault
  PROVE  faults' \in 0..MaxFaults /\ trouble' \subseteq {"fault", "overlap"}
<1>1. faults' \in 0..MaxFaults
  BY BoundAssumption DEF TypeOK, Fault, NoFault
<1>2. trouble' \subseteq {"fault", "overlap"}
  BY Zenon DEF TypeOK, Fault, NoFault
<1>3. QED
  BY <1>1, <1>2

LEMMA EnvironmentTypes ==
  ASSUME TypeOK,
         \/ \E i \in Invoices : IssueInvoice(i)
         \/ \E r \in Rows : ReportUsage(r)
         \/ \E h \in Harnesses : DeleteHarness(h)
         \/ \E p \in Plans : ChangePlan(p)
         \/ \E s \in Subscriptions, p \in Plans : CheckoutCompleted(s, p)
         \/ Tick
  PROVE  TypeOK'
<1>1. CASE \E i \in Invoices : IssueInvoice(i)
  BY <1>1 DEF TypeOK, IssueInvoice, dbVars, handlerVars, envVars, histVars
<1>2. CASE \E r \in Rows : ReportUsage(r)
  BY <1>2 DEF TypeOK, ReportUsage, stripeVars, handlerVars, envVars, histVars
<1>3. CASE \E h \in Harnesses : DeleteHarness(h)
  BY <1>3 DEF TypeOK, DeleteHarness, stripeVars, handlerVars, envVars, histVars
<1>4. CASE \E p \in Plans : ChangePlan(p)
  BY <1>4 DEF TypeOK, ChangePlan, stripeVars, handlerVars, envVars, histVars
<1>5. CASE Tick
  <2>1. clock' \in 0..MaxClock
    BY <1>5, BoundAssumption DEF TypeOK, Tick
  <2>2. QED
    BY <1>5, <2>1 DEF TypeOK, Tick, dbVars, stripeVars, handlerVars, histVars
<1>6. CASE \E s \in Subscriptions, p \in Plans : CheckoutCompleted(s, p)
  <2>1. PICK s \in Subscriptions, p \in Plans : CheckoutCompleted(s, p)
    BY <1>6
  <2>2. faults' \in 0..MaxFaults /\ trouble' \subseteq {"fault", "overlap"}
    BY <2>1, FaultTypes DEF CheckoutCompleted
  <2>3. /\ subId' \in Subscriptions \cup {None} /\ plan' \in Plans /\ grantedAt' \in 0..MaxClock
        /\ signed' \subseteq Subscriptions
    BY <2>1 DEF TypeOK, CheckoutCompleted, ActivateSubscription
  <2>4. refreshed' \in [Invoices -> {"no", "reset", "checkout", "superseded"}]
    BY <2>1 DEF TypeOK, CheckoutCompleted
  <2>5. QED
    BY <2>1, <2>2, <2>3, <2>4 DEF TypeOK, CheckoutCompleted, handlerVars
<1>7. QED
  BY <1>1, <1>2, <1>3, <1>4, <1>5, <1>6

LEMMA FinishTypes ==
  ASSUME TypeOK, NEW w \in Workers, Finish(w)
  PROVE  /\ pc' \in [Workers -> Steps]
         /\ inv' \in [Workers -> Invoices \cup {None}]
         /\ tier' \in [Workers -> Plans \cup {None}]
         /\ since' \in [Workers -> 0..MaxClock]
         /\ hold' \in [Workers -> SUBSET Rows]
<1>1. 0 \in 0..MaxClock
  BY BoundAssumption
<1>2. QED
  BY <1>1 DEF TypeOK, Finish, Goto, Steps

LEMMA HandlerTypes ==
  ASSUME TypeOK, BusyInv, NEW w \in Workers, Handler(w) \/ Crash(w)
  PROVE  TypeOK'
<1> USE DEF TypeOK, Goto, Steps
<1>1. CASE CheckProcessed(w)
  <2>1. faults' \in 0..MaxFaults /\ trouble' \subseteq {"fault", "overlap"}
    BY <1>1, FaultTypes DEF CheckProcessed
  <2>2. acked' \subseteq Invoices
    BY <1>1 DEF CheckProcessed, BusyInv
  <2>3. /\ pc' \in [Workers -> Steps]
        /\ inv' \in [Workers -> Invoices \cup {None}]
        /\ tier' \in [Workers -> Plans \cup {None}]
        /\ since' \in [Workers -> 0..MaxClock]
        /\ hold' \in [Workers -> SUBSET Rows]
    BY <1>1, FinishTypes DEF CheckProcessed
  <2>4. QED
    BY <1>1, <2>1, <2>2, <2>3 DEF CheckProcessed, dbVars
<1>2. CASE LogEvent(w)
  <2>1. faults' \in 0..MaxFaults /\ trouble' \subseteq {"fault", "overlap"}
    BY <1>2, FaultTypes DEF LogEvent
  <2>2. logged' \subseteq Invoices
    BY <1>2 DEF LogEvent, BusyInv
  <2>3. QED
    BY <1>2, <2>1, <2>2 DEF LogEvent, stripeVars
<1>3. CASE ReadTenant(w)
  <2>1. faults' \in 0..MaxFaults /\ trouble' \subseteq {"fault", "overlap"}
    BY <1>3, FaultTypes DEF ReadTenant
  <2>2. QED
    BY <1>3, <2>1 DEF ReadTenant, dbVars, stripeVars
<1>4. CASE SelectRows(w)
  <2>1. faults' \in 0..MaxFaults /\ trouble' \subseteq {"fault", "overlap"}
    BY <1>4, FaultTypes DEF SelectRows
  <2>2. pc' \in [Workers -> Steps]
    BY <1>4 DEF SelectRows, NextForSelection
  <2>3. hold' \in [Workers -> SUBSET Rows] /\ exposed' \subseteq Rows
    BY <1>4 DEF SelectRows, UnbilledRows
  <2>4. QED
    BY <1>4, <2>1, <2>2, <2>3 DEF SelectRows, dbVars, stripeVars
<1>5. CASE SubmitOverage(w)
  <2>1. faults' \in 0..MaxFaults /\ trouble' \subseteq {"fault", "overlap"}
    BY <1>5, FaultTypes DEF SubmitOverage
  <2>2. [rows |-> hold[w], tier |-> tier[w]] \in Charge /\ inv[w] \in Invoices
    BY <1>5 DEF SubmitOverage, BusyInv, Charge
  <2>3. item' \in [Invoices -> Charge \cup {NoItem}] /\ settled' \in [Invoices -> SUBSET Rows]
    BY <1>5, <2>2 DEF SubmitOverage, CreateItem
  <2>4. pc' \in [Workers -> Steps] /\ hold' \in [Workers -> SUBSET Rows] /\ exposed' \subseteq Rows
    BY <1>5 DEF SubmitOverage
  <2>5. QED
    BY <1>5, <2>1, <2>3, <2>4 DEF SubmitOverage, dbVars
<1>6. CASE MarkRows(w)
  <2>1. faults' \in 0..MaxFaults /\ trouble' \subseteq {"fault", "overlap"}
    BY <1>6, FaultTypes DEF MarkRows
  <2>2. row' \in [Rows -> {"absent", "unbilled", "billed", "deleted"}]
    BY <1>6 DEF MarkRows, MarkBilled
  <2>3. QED
    BY <1>6, <2>1, <2>2 DEF MarkRows, stripeVars
<1>7. CASE ClosePeriod(w)
  <2>1. faults' \in 0..MaxFaults /\ trouble' \subseteq {"fault", "overlap"}
    BY <1>7, FaultTypes DEF ClosePeriod
  <2>2. row' \in [Rows -> {"absent", "unbilled", "billed", "deleted"}]
    BY <1>7 DEF ClosePeriod, MarkBilled
  <2>3. QED
    BY <1>7, <2>1, <2>2 DEF ClosePeriod, stripeVars
<1>8. CASE BillEgress(w)
  <2>1. faults' \in 0..MaxFaults /\ trouble' \subseteq {"fault", "overlap"}
    BY <1>8, FaultTypes DEF BillEgress
  <2>2. inv[w] \in Invoices /\ EgressWindow(w) \subseteq 1..MaxClock
    BY <1>8, BoundAssumption DEF BillEgress, BusyInv, EgressWindow
  <2>3. egressItem' \in [Invoices -> SUBSET (1..MaxClock)]
    BY <1>8, <2>2 DEF BillEgress
  <2>4. QED
    BY <1>8, <2>1, <2>3 DEF BillEgress, dbVars
<1>9. CASE ResetCredit(w)
  <2>1. faults' \in 0..MaxFaults /\ trouble' \subseteq {"fault", "overlap"}
    BY <1>9, FaultTypes DEF ResetCredit
  <2>2. /\ refreshed' \in [Invoices -> {"no", "reset", "checkout", "superseded"}]
        /\ grantedAt' \in 0..MaxClock
    BY <1>9 DEF ResetCredit, BusyInv
  <2>3. QED
    BY <1>9, <2>1, <2>2 DEF ResetCredit, stripeVars
<1>10. CASE Respond(w)
  <2>1. acked' \subseteq Invoices
    BY <1>10 DEF Respond, BusyInv
  <2>2. /\ pc' \in [Workers -> Steps]
        /\ inv' \in [Workers -> Invoices \cup {None}]
        /\ tier' \in [Workers -> Plans \cup {None}]
        /\ since' \in [Workers -> 0..MaxClock]
        /\ hold' \in [Workers -> SUBSET Rows]
    BY <1>10, FinishTypes DEF Respond
  <2>3. QED
    BY <1>10, <2>1, <2>2 DEF Respond, dbVars, envVars, histVars
<1>11. CASE Crash(w)
  <2>1. faults' \in 0..MaxFaults /\ trouble' \subseteq {"fault", "overlap"}
    BY <1>11, FaultTypes DEF Crash
  <2>2. /\ pc' \in [Workers -> Steps]
        /\ inv' \in [Workers -> Invoices \cup {None}]
        /\ tier' \in [Workers -> Plans \cup {None}]
        /\ since' \in [Workers -> 0..MaxClock]
        /\ hold' \in [Workers -> SUBSET Rows]
    BY <1>11, FinishTypes DEF Crash
  <2>3. exposed' \subseteq Rows
    BY <1>11 DEF Crash
  <2>4. QED
    BY <1>11, <2>1, <2>2, <2>3 DEF Crash, dbVars, stripeVars
<1>12. QED
  BY <1>1, <1>2, <1>3, <1>4, <1>5, <1>6, <1>7, <1>8, <1>9, <1>10, <1>11 DEF Handler

LEMMA DeliverTypes ==
  ASSUME TypeOK, NEW w \in Workers, NEW i \in Invoices, Deliver(w, i)
  PROVE  TypeOK'
BY DEF TypeOK, Deliver, Goto, Steps, dbVars, stripeVars, envVars

-----------------------------------------------------------------------------
(***************************************************************************)
(* The inductive invariant.  SafeInv is IInv without the types.            *)
(***************************************************************************)
SafeInv ==
  /\ BusyInv /\ SubmitInv /\ MarkInv /\ HoldInv /\ SettledInv
  /\ ChargesWithinCeiling /\ BilledIsSettled /\ ChargedTwiceOnlyIfExposed

core == <<row, item, pc, inv, tier, hold, settled, closed, exposed>>

LEMMA InitSafe == ASSUME Init PROVE SafeInv
BY DEF Init, SafeInv, BusyInv, SubmitInv, MarkInv, HoldInv, SettledInv,
       ChargesWithinCeiling, BilledIsSettled, ChargedTwiceOnlyIfExposed

LEMMA CoreUnchanged == ASSUME SafeInv, UNCHANGED core PROVE SafeInv'
BY DEF core, SafeInv, BusyInv, SubmitInv, Chargeable, ChargeCents, MarkInv, HoldInv,
       SettledInv, ChargesWithinCeiling, BilledIsSettled, ChargedTwiceOnlyIfExposed

\* A handler moves to a step in which it holds no rows.  Rows it held may have
\* been billed on the way; if they were to be marked, each was or is exposed.
LEMMA LetGo ==
  ASSUME TypeOK, SafeInv, NEW w \in Workers,
         NEW s \in Steps \ {"submit", "mark", "close"},
         pc' = [pc EXCEPT ![w] = s],
         hold' = [hold EXCEPT ![w] = {}],
         \A v \in Workers \ {w} : inv'[v] = inv[v] /\ tier'[v] = tier[v],
         s # "idle" => inv'[w] \in Invoices,
         s = "select" => tier'[w] \in Plans,
         UNCHANGED <<item, settled>>,
         exposed \subseteq exposed', closed \subseteq closed',
         \A r \in Rows : row'[r] = row[r] \/ (r \in hold[w] /\ row'[r] = "billed"),
         pc[w] = "mark" =>
           \A r \in hold[w] : r \in exposed' \/ row'[r] \in {"billed", "deleted"},
         \A r \in hold[w] : row'[r] = row[r] \/ r \in closed' \/ pc[w] = "mark"
  PROVE  SafeInv'
<1>0. \A v \in Workers : /\ pc'[v] = IF v = w THEN s ELSE pc[v]
                         /\ hold'[v] = IF v = w THEN {} ELSE hold[v]
                         /\ hold[v] \subseteq Rows
  BY DEF TypeOK
<1>1. BusyInv'
  BY <1>0 DEF SafeInv, BusyInv
<1>2. SubmitInv'
  <2>1. \A v \in Workers : pc'[v] = "submit" =>
          pc[v] = "submit" /\ hold'[v] = hold[v] /\ tier'[v] = tier[v]
    BY <1>0
  <2>2. QED
    BY <2>1 DEF SafeInv, SubmitInv, Chargeable, ChargeCents
<1>3. MarkInv'
  BY <1>0 DEF SafeInv, MarkInv
<1>4. HoldInv'
  BY <1>0 DEF SafeInv, HoldInv
<1>5. SettledInv'
  <2> SUFFICES ASSUME NEW i \in Invoices, NEW r \in settled[i] \ exposed'
               PROVE  \/ row'[r] \in {"billed", "deleted"}
                      \/ \E v \in Workers : pc'[v] = "mark" /\ inv'[v] = i /\ r \in hold'[v]
    BY DEF SettledInv
  <2>1. r \in Rows /\ r \notin exposed
    BY DEF TypeOK
  <2>2. CASE row[r] \in {"billed", "deleted"}
    BY <2>1, <2>2
  <2>3. CASE \E v \in Workers : pc[v] = "mark" /\ inv[v] = i /\ r \in hold[v]
    <3>1. PICK v \in Workers : pc[v] = "mark" /\ inv[v] = i /\ r \in hold[v]
      BY <2>3
    <3>2. CASE v = w
      BY <3>1, <3>2
    <3>3. CASE v # w
      BY <1>0, <3>1, <3>3
    <3>4. QED
      BY <3>2, <3>3
  <2>4. QED
    BY <2>1, <2>2, <2>3 DEF SafeInv, SettledInv
<1>6. ChargesWithinCeiling'
  BY DEF SafeInv, ChargesWithinCeiling, ChargeCents
<1>7. BilledIsSettled'
  <2> SUFFICES ASSUME NEW r \in Rows, row'[r] = "billed"
               PROVE  r \in closed' \/ \E i \in Invoices : r \in settled[i]
    BY DEF BilledIsSettled
  <2>1. CASE row[r] = "billed"
    BY <2>1 DEF SafeInv, BilledIsSettled
  <2>2. CASE row[r] # "billed"
    <3>1. r \in hold[w] /\ (r \in closed' \/ pc[w] = "mark")
      BY <2>2
    <3>2. pc[w] = "mark" => inv[w] \in Invoices /\ r \in settled[inv[w]]
      BY <3>1 DEF SafeInv, MarkInv, BusyInv
    <3>3. QED
      BY <3>1, <3>2
  <2>3. QED
    BY <2>1, <2>2
<1>8. ChargedTwiceOnlyIfExposed'
  BY DEF SafeInv, ChargedTwiceOnlyIfExposed
<1>9. QED
  BY <1>1, <1>2, <1>3, <1>4, <1>5, <1>6, <1>7, <1>8 DEF SafeInv

LEMMA ReportSafe ==
  ASSUME TypeOK, SafeInv, NEW q \in Rows, ReportUsage(q)
  PROVE  SafeInv'
<1>1. /\ row[q] = "absent"
      /\ \A r \in Rows : row'[r] = IF r = q THEN "unbilled" ELSE row[r]
      /\ UNCHANGED <<item, pc, inv, tier, hold, settled, closed, exposed>>
  BY DEF ReportUsage, TypeOK, stripeVars, handlerVars, histVars
<1>2. \A w \in Workers : q \notin hold[w]
  BY <1>1 DEF SafeInv, HoldInv
<1>3. BusyInv' /\ MarkInv' /\ ChargedTwiceOnlyIfExposed'
  BY <1>1 DEF SafeInv, BusyInv, MarkInv, ChargedTwiceOnlyIfExposed
<1>4. SubmitInv' /\ ChargesWithinCeiling'
  BY <1>1 DEF SafeInv, SubmitInv, ChargesWithinCeiling, Chargeable, ChargeCents
<1>5. HoldInv'
  BY <1>1, <1>2 DEF SafeInv, HoldInv, TypeOK
<1>6. SettledInv'
  BY <1>1, <1>2 DEF SafeInv, SettledInv, TypeOK
<1>7. BilledIsSettled'
  BY <1>1 DEF SafeInv, BilledIsSettled
<1>8. QED
  BY <1>3, <1>4, <1>5, <1>6, <1>7 DEF SafeInv

LEMMA DeleteSafe ==
  ASSUME TypeOK, SafeInv, NEW h \in Harnesses, DeleteHarness(h)
  PROVE  SafeInv'
<1>1. /\ \A r \in Rows : row'[r] = row[r] \/ (row'[r] = "deleted" /\ row[r] # "absent")
      /\ UNCHANGED <<item, pc, inv, tier, hold, settled, closed, exposed>>
  BY DEF DeleteHarness, TypeOK, stripeVars, handlerVars, histVars
<1>2. BusyInv' /\ MarkInv' /\ ChargedTwiceOnlyIfExposed'
  BY <1>1 DEF SafeInv, BusyInv, MarkInv, ChargedTwiceOnlyIfExposed
<1>3. SubmitInv' /\ ChargesWithinCeiling'
  BY <1>1 DEF SafeInv, SubmitInv, ChargesWithinCeiling, Chargeable, ChargeCents
<1>4. HoldInv'
  BY <1>1 DEF SafeInv, HoldInv, TypeOK
<1>5. SettledInv'
  BY <1>1 DEF SafeInv, SettledInv, TypeOK
<1>6. BilledIsSettled'
  BY <1>1 DEF SafeInv, BilledIsSettled
<1>7. QED
  BY <1>2, <1>3, <1>4, <1>5, <1>6 DEF SafeInv

LEMMA DeliverSafe ==
  ASSUME TypeOK, SafeInv, NEW w \in Workers, NEW i \in Invoices, Deliver(w, i)
  PROVE  SafeInv'
<1>1. hold[w] = {} /\ hold' = [hold EXCEPT ![w] = {}]
  BY DEF Deliver, SafeInv, BusyInv, TypeOK
<1>2. inv'[w] = i /\ \A v \in Workers \ {w} : inv'[v] = inv[v] /\ tier'[v] = tier[v]
  BY DEF Deliver, TypeOK
<1>3. /\ pc' = [pc EXCEPT ![w] = "dedup"]
      /\ pc[w] # "mark"
      /\ UNCHANGED <<row, item, settled, closed, exposed>>
  BY DEF Deliver, Goto, dbVars, stripeVars
<1>4. "dedup" \in Steps \ {"submit", "mark", "close"}
  BY DEF Steps
<1>5. QED
  BY <1>1, <1>2, <1>3, <1>4, LetGo

\* The charge under an invoice's key: a new item is for what was submitted, an
\* existing one stays.
LEMMA ItemsStayChargeable ==
  ASSUME TypeOK, SafeInv, NEW w \in Workers, pc[w] = "submit",
         CreateItem(inv[w], [rows |-> hold[w], tier |-> tier[w]])
  PROVE  ChargesWithinCeiling'
<1> DEFINE c == [rows |-> hold[w], tier |-> tier[w]]
<1>1. Chargeable(c)
  BY DEF SafeInv, SubmitInv
<1>2. \A i \in Invoices : item'[i] = item[i] \/ item'[i] = c
  BY DEF CreateItem, TypeOK
<1>3. QED
  BY <1>1, <1>2 DEF SafeInv, ChargesWithinCeiling, Chargeable, ChargeCents

LEMMA SelectSafe ==
  ASSUME TypeOK, SafeInv, NEW w \in Workers, SelectRows(w)
  PROVE  SafeInv'
<1> DEFINE next == NextForSelection(UnbilledRows, tier[w])
<1>0. /\ pc[w] = "select" /\ hold[w] = {} /\ tier[w] \in Plans /\ inv[w] \in Invoices
      /\ UNCHANGED <<row, item, inv, tier, settled, closed>>
  BY DEF SelectRows, SafeInv, BusyInv, dbVars, stripeVars
<1>1. CASE pc' = [pc EXCEPT ![w] = "egress"] /\ exposed \subseteq exposed'
           /\ hold' = [hold EXCEPT ![w] = {}]
  <2>1. "egress" \in Steps \ {"submit", "mark", "close"}
    BY DEF Steps
  <2>2. QED
    BY <1>0, <1>1, <2>1, LetGo
<1>2. CASE /\ next \in {"submit", "close"}
           /\ pc' = [pc EXCEPT ![w] = next]
           /\ hold' = [hold EXCEPT ![w] = UnbilledRows]
           /\ exposed' = exposed \cup (UnbilledRows \cap HeldByOthers(w))
  <2>1. \A v \in Workers : /\ pc'[v] = IF v = w THEN next ELSE pc[v]
                           /\ hold'[v] = IF v = w THEN UnbilledRows ELSE hold[v]
                           /\ hold[v] \subseteq Rows
    BY <1>2 DEF TypeOK
  <2>2. /\ exposed \subseteq exposed' /\ UnbilledRows \subseteq Rows
        /\ \A r \in UnbilledRows : row[r] = "unbilled"
    BY <1>2 DEF UnbilledRows
  <2>3. \A r \in UnbilledRows \ exposed' : \A v \in Workers \ {w} : r \notin hold[v]
    BY <1>2 DEF HeldByOthers
  <2>4. \A r \in UnbilledRows \ exposed' : \A i \in Invoices : r \notin settled[i]
    BY <1>0, <2>2, <2>3 DEF SafeInv, SettledInv
  <2>5. BusyInv'
    BY <1>0, <1>2, <2>1 DEF SafeInv, BusyInv
  <2>6. SubmitInv'
    <3>1. next = "submit" => Chargeable([rows |-> UnbilledRows, tier |-> tier[w]])
      BY DEF NextForSelection, Chargeable, ChargeCents
    <3>2. \A v \in Workers : pc'[v] = "submit" =>
            Chargeable([rows |-> hold'[v], tier |-> tier[v]])
      BY <2>1, <3>1 DEF SafeInv, SubmitInv
    <3>3. QED
      BY <1>0, <3>2 DEF SubmitInv, Chargeable, ChargeCents
  <2>7. MarkInv'
    BY <1>0, <1>2, <2>1 DEF SafeInv, MarkInv
  <2>8. HoldInv'
    BY <1>0, <2>1, <2>2, <2>3, <2>4 DEF SafeInv, HoldInv
  <2>9. SettledInv'
    BY <1>0, <2>1, <2>2 DEF SafeInv, SettledInv
  <2>10. ChargesWithinCeiling' /\ BilledIsSettled'
    BY <1>0 DEF SafeInv, ChargesWithinCeiling, ChargeCents, BilledIsSettled
  <2>11. ChargedTwiceOnlyIfExposed'
    BY <1>0, <2>2 DEF SafeInv, ChargedTwiceOnlyIfExposed
  <2>12. QED
    BY <2>5, <2>6, <2>7, <2>8, <2>9, <2>10, <2>11 DEF SafeInv
<1>3. QED
  <2>1. next \in {"submit", "close", "egress"}
    BY DEF NextForSelection
  <2>2. CASE next = "egress"
    BY <1>0, <1>1, <2>2 DEF SelectRows, Goto, TypeOK
  <2>3. CASE next # "egress"
    BY <1>0, <1>1, <1>2, <2>1, <2>3 DEF SelectRows, Goto, TypeOK
  <2>4. QED
    BY <2>2, <2>3

LEMMA SubmitSafe ==
  ASSUME TypeOK, SafeInv, NEW w \in Workers, SubmitOverage(w)
  PROVE  SafeInv'
<1> DEFINE i == inv[w]
           c == [rows |-> hold[w], tier |-> tier[w]]
<1>0. /\ pc[w] = "submit" /\ i \in Invoices /\ hold[w] \subseteq Rows
      /\ UNCHANGED <<row, inv, tier, closed>>
      /\ exposed \subseteq exposed'
  BY DEF SubmitOverage, SafeInv, BusyInv, TypeOK, dbVars
<1>1. CASE /\ pc' = [pc EXCEPT ![w] = "egress"]
           /\ hold' = [hold EXCEPT ![w] = {}]
           /\ UNCHANGED <<item, settled>>
  <2>1. "egress" \in Steps \ {"submit", "mark", "close"}
    BY DEF Steps
  <2>2. QED
    BY <1>0, <1>1, <2>1, LetGo
<1>2. CASE /\ CreateItem(i, c)
           /\ \/ /\ pc' = [pc EXCEPT ![w] = "mark"]
                 /\ UNCHANGED <<hold, exposed>>
              \/ /\ pc' = [pc EXCEPT ![w] = "egress"]
                 /\ hold' = [hold EXCEPT ![w] = {}]
                 /\ exposed' = exposed \cup hold[w]
  <2>1. \A j \in Invoices : settled'[j] = IF j = i THEN settled[i] \cup hold[w] ELSE settled[j]
    BY <1>2 DEF CreateItem, TypeOK
  <2>2. \A v \in Workers : /\ pc'[v] = IF v = w THEN pc'[w] ELSE pc[v]
                           /\ v # w => hold'[v] = hold[v]
                           /\ hold'[w] = IF pc'[w] = "mark" THEN hold[w] ELSE {}
                           /\ hold[v] \subseteq Rows
    BY <1>2 DEF TypeOK
  <2>3. pc'[w] = "mark" \/ (pc'[w] = "egress" /\ hold[w] \subseteq exposed')
    BY <1>2 DEF TypeOK
  <2>4. \A r \in hold[w] \ exposed' : /\ pc'[w] = "mark"
                                      /\ \A j \in Invoices : r \notin settled[j]
    BY <1>0, <2>3 DEF SafeInv, HoldInv
  <2>5. BusyInv'
    BY <1>0, <2>2, <2>3 DEF SafeInv, BusyInv
  <2>6. SubmitInv'
    <3>1. \A v \in Workers : pc'[v] = "submit" =>
            v # w /\ pc[v] = "submit" /\ hold'[v] = hold[v] /\ tier'[v] = tier[v]
      BY <1>0, <2>2, <2>3
    <3>2. QED
      BY <3>1 DEF SafeInv, SubmitInv, Chargeable, ChargeCents
  <2>7. MarkInv'
    BY <1>0, <2>1, <2>2 DEF SafeInv, MarkInv, BusyInv
  <2>8. HoldInv'
    <3> SUFFICES ASSUME NEW v \in Workers, NEW r \in hold'[v]
                 PROVE  /\ row[r] # "absent"
                        /\ r \notin exposed' =>
                             /\ \A u \in Workers : r \in hold'[u] => u = v
                             /\ \A j \in Invoices : r \in settled'[j] =>
                                  pc'[v] = "mark" /\ j = inv[v]
      BY <1>0 DEF HoldInv
    <3>1. r \in hold[v] /\ \A u \in Workers : r \in hold'[u] => r \in hold[u]
      BY <2>2
    <3>2. /\ row[r] # "absent"
          /\ r \notin exposed' => \A u \in Workers : r \in hold[u] => u = v
      BY <1>0, <3>1 DEF SafeInv, HoldInv
    <3>3. ASSUME r \notin exposed', NEW j \in Invoices, r \in settled'[j]
          PROVE  pc'[v] = "mark" /\ j = inv[v]
      <4>1. CASE v = w
        BY <1>0, <2>1, <2>4, <3>1, <3>3, <4>1
      <4>2. CASE v # w
        <5>1. r \notin hold[w]
          BY <3>1, <3>2, <3>3, <4>2
        <5>2. r \in settled[j]
          BY <2>1, <3>3, <5>1
        <5>3. QED
          BY <1>0, <2>2, <3>1, <3>3, <4>2, <5>2 DEF SafeInv, HoldInv
      <4>3. QED
        BY <4>1, <4>2
    <3>4. QED
      BY <3>1, <3>2, <3>3
  <2>9. SettledInv'
    <3> SUFFICES ASSUME NEW j \in Invoices, NEW r \in settled'[j] \ exposed'
                 PROVE  \/ row[r] \in {"billed", "deleted"}
                        \/ \E v \in Workers : pc'[v] = "mark" /\ inv[v] = j /\ r \in hold'[v]
      BY <1>0 DEF SettledInv
    <3>1. CASE r \in hold[w] /\ j = i
      BY <2>2, <2>4, <3>1
    <3>2. CASE r \in settled[j]
      <4>1. r \notin exposed
        BY <1>0
      <4>2. CASE \E v \in Workers : pc[v] = "mark" /\ inv[v] = j /\ r \in hold[v]
        <5>1. PICK v \in Workers : pc[v] = "mark" /\ inv[v] = j /\ r \in hold[v]
          BY <4>2
        <5>2. QED
          BY <1>0, <2>2, <5>1
      <4>3. QED
        BY <3>2, <4>1, <4>2 DEF SafeInv, SettledInv
    <3>3. QED
      BY <2>1, <3>1, <3>2
  <2>10. ChargesWithinCeiling'
    BY <1>0, <1>2, ItemsStayChargeable
  <2>11. BilledIsSettled'
    BY <1>0, <2>1 DEF SafeInv, BilledIsSettled
  <2>12. ChargedTwiceOnlyIfExposed'
    BY <1>0, <2>1, <2>4 DEF SafeInv, ChargedTwiceOnlyIfExposed
  <2>13. QED
    BY <2>5, <2>6, <2>7, <2>8, <2>9, <2>10, <2>11, <2>12 DEF SafeInv
<1>3. QED
  BY <1>1, <1>2 DEF SubmitOverage, Goto

\* Every other step of a handler leaves it without rows in its hands.
LEMMA OtherHandlerSafe ==
  ASSUME TypeOK, SafeInv, NEW w \in Workers,
         \/ CheckProcessed(w) \/ LogEvent(w) \/ ReadTenant(w) \/ MarkRows(w)
         \/ ClosePeriod(w) \/ BillEgress(w) \/ ResetCredit(w) \/ Respond(w) \/ Crash(w)
  PROVE  SafeInv'
<1> USE DEF Goto
<1>0. /\ pc[w] # "idle" => inv[w] \in Invoices
      /\ pc[w] \notin {"submit", "mark", "close"} => hold[w] = {}
      /\ hold[w] = {} => hold = [hold EXCEPT ![w] = {}]
      /\ {"idle", "log", "tenant", "select", "egress", "reset", "ack"}
           \subseteq Steps \ {"submit", "mark", "close"}
  BY DEF SafeInv, BusyInv, TypeOK, Steps
<1>1. CASE CheckProcessed(w)
  <2>1. /\ \/ pc' = [pc EXCEPT ![w] = "idle"]
           \/ pc' = [pc EXCEPT ![w] = "log"] /\ inv' = inv
        /\ hold' = [hold EXCEPT ![w] = {}]
        /\ pc[w] = "dedup"
        /\ \A v \in Workers \ {w} : inv'[v] = inv[v] /\ tier'[v] = tier[v]
        /\ UNCHANGED <<row, item, settled, closed, exposed>>
    BY <1>0, <1>1 DEF CheckProcessed, Finish, TypeOK, dbVars
  <2>2. QED
    BY <1>0, <2>1, LetGo
<1>2. CASE LogEvent(w)
  <2>1. /\ pc' = [pc EXCEPT ![w] = "tenant"] /\ pc[w] = "log"
        /\ hold' = [hold EXCEPT ![w] = {}]
        /\ UNCHANGED <<row, item, inv, tier, settled, closed, exposed>>
    BY <1>0, <1>2 DEF LogEvent, stripeVars
  <2>2. QED
    BY <1>0, <2>1, LetGo
<1>3. CASE ReadTenant(w)
  <2>1. /\ \/ pc' = [pc EXCEPT ![w] = "select"] /\ tier'[w] \in Plans
           \/ pc' = [pc EXCEPT ![w] = "reset"]
        /\ pc[w] = "tenant"
        /\ hold' = [hold EXCEPT ![w] = {}]
        /\ \A v \in Workers \ {w} : tier'[v] = tier[v]
        /\ UNCHANGED <<row, item, inv, settled, closed, exposed>>
    BY <1>0, <1>3 DEF ReadTenant, TypeOK, dbVars, stripeVars
  <2>2. QED
    BY <1>0, <2>1, LetGo
<1>4. CASE MarkRows(w)
  <2>1. /\ pc' = [pc EXCEPT ![w] = "egress"] /\ pc[w] = "mark"
        /\ hold' = [hold EXCEPT ![w] = {}]
        /\ UNCHANGED <<item, inv, tier, settled, closed>>
        /\ exposed \subseteq exposed'
    BY <1>4 DEF MarkRows, stripeVars
  <2>2. \A r \in Rows : row'[r] = row[r] \/ (r \in hold[w] /\ row'[r] = "billed")
    BY <1>4 DEF MarkRows, MarkBilled, TypeOK
  <2>3. \A r \in hold[w] : r \in exposed' \/ row'[r] \in {"billed", "deleted"}
    BY <1>4 DEF MarkRows, MarkBilled, TypeOK, SafeInv, HoldInv
  <2>4. QED
    BY <1>0, <2>1, <2>2, <2>3, LetGo
<1>5. CASE ClosePeriod(w)
  <2>1. /\ pc' = [pc EXCEPT ![w] = "egress"] /\ pc[w] = "close"
        /\ hold' = [hold EXCEPT ![w] = {}]
        /\ UNCHANGED <<item, inv, tier, settled, exposed>>
        /\ closed \subseteq closed'
    BY <1>5 DEF ClosePeriod, stripeVars
  <2>2. \A r \in Rows : row'[r] = row[r] \/ (r \in hold[w] /\ row'[r] = "billed" /\ r \in closed')
    BY <1>5 DEF ClosePeriod, MarkBilled, TypeOK
  <2>3. hold[w] \subseteq Rows
    BY DEF TypeOK
  <2>4. QED
    BY <1>0, <2>1, <2>2, <2>3, LetGo
<1>6. CASE BillEgress(w) \/ ResetCredit(w)
  <2>1. /\ \/ pc' = [pc EXCEPT ![w] = "reset"]
           \/ pc' = [pc EXCEPT ![w] = "ack"]
        /\ pc[w] \in {"egress", "reset"}
        /\ hold' = [hold EXCEPT ![w] = {}]
        /\ UNCHANGED <<row, item, inv, tier, settled, closed, exposed>>
    BY <1>0, <1>6 DEF BillEgress, ResetCredit, dbVars, stripeVars
  <2>2. QED
    BY <1>0, <2>1, LetGo
<1>7. CASE Respond(w) \/ Crash(w)
  <2>1. /\ pc' = [pc EXCEPT ![w] = "idle"]
        /\ hold' = [hold EXCEPT ![w] = {}]
        /\ \A v \in Workers \ {w} : inv'[v] = inv[v] /\ tier'[v] = tier[v]
        /\ UNCHANGED <<row, item, settled, closed>>
        /\ exposed \subseteq exposed'
        /\ pc[w] = "mark" => hold[w] \subseteq exposed'
    BY <1>7 DEF Respond, Crash, Finish, TypeOK, dbVars, stripeVars, histVars
  <2>2. QED
    BY <1>0, <2>1, LetGo
<1>8. QED
  BY <1>1, <1>2, <1>3, <1>4, <1>5, <1>6, <1>7

-----------------------------------------------------------------------------
(***************************************************************************)
(* The theorems.                                                           *)
(***************************************************************************)
LEMMA InitTypes == ASSUME Init PROVE TypeOK
BY BoundAssumption
   DEF Init, TypeOK, Steps, NoItem

LEMMA NextKeepsIInv == ASSUME TypeOK, SafeInv, [Next]_vars PROVE TypeOK' /\ SafeInv'
<1>1. CASE UNCHANGED vars
  <2>1. TypeOK'
    BY <1>1 DEF TypeOK, vars, dbVars, stripeVars, handlerVars, envVars, histVars
  <2>2. UNCHANGED core
    BY <1>1 DEF vars, dbVars, stripeVars, handlerVars, envVars, histVars, core
  <2>3. QED
    BY <2>1, <2>2, CoreUnchanged
<1>2. CASE \E r \in Rows : ReportUsage(r)
  BY <1>2, EnvironmentTypes, ReportSafe
<1>3. CASE \E h \in Harnesses : DeleteHarness(h)
  BY <1>3, EnvironmentTypes, DeleteSafe
<1>4. CASE \/ \E i \in Invoices : IssueInvoice(i)
           \/ \E p \in Plans : ChangePlan(p)
           \/ \E s \in Subscriptions, p \in Plans : CheckoutCompleted(s, p)
           \/ Tick
  <2>1. UNCHANGED core
    BY <1>4 DEF IssueInvoice, ChangePlan, CheckoutCompleted, Tick, dbVars, stripeVars, handlerVars,
                histVars, core
  <2>2. QED
    BY <1>4, <2>1, CoreUnchanged, EnvironmentTypes
<1>5. CASE \E w \in Workers, i \in Invoices : Deliver(w, i)
  BY <1>5, DeliverTypes, DeliverSafe
<1>6. CASE \E w \in Workers : Handler(w) \/ Crash(w)
  <2>1. PICK w \in Workers : Handler(w) \/ Crash(w)
    BY <1>6
  <2>2. TypeOK'
    BY <2>1, HandlerTypes DEF SafeInv
  <2>3. SafeInv'
    BY <2>1, SelectSafe, SubmitSafe, OtherHandlerSafe DEF Handler
  <2>4. QED
    BY <2>2, <2>3
<1>7. QED
  BY <1>1, <1>2, <1>3, <1>4, <1>5, <1>6 DEF Next

\* IInv is an inductive invariant of the specification.
THEOREM Inductive == Spec => []IInv
<1>1. Init => TypeOK /\ SafeInv
  BY InitTypes, InitSafe
<1>2. TypeOK /\ SafeInv /\ [Next]_vars => (TypeOK /\ SafeInv)'
  BY NextKeepsIInv
<1>3. TypeOK /\ SafeInv => IInv
  BY DEF SafeInv, IInv
<1>4. QED
  BY <1>1, <1>2, <1>3, PTL DEF Spec

\* The variables always hold values of their types.
THEOREM TypeCorrect == Spec => []TypeOK
<1>1. IInv => TypeOK
  BY DEF IInv
<1>2. QED
  BY <1>1, Inductive, PTL

\* Only charges that passed both guards ever reach Stripe, for any number of
\* handlers, faults and plan changes.
THEOREM ChargesStayWithinCeiling == Spec => []ChargesWithinCeiling
<1>1. IInv => ChargesWithinCeiling
  BY DEF IInv
<1>2. QED
  BY <1>1, Inductive, PTL

\* The mark never runs ahead of the charge: a billed row was charged for or
\* closed inside the credit.
THEOREM BilledRowsAreSettled == Spec => []BilledIsSettled
<1>1. IInv => BilledIsSettled
  BY DEF IInv
<1>2. QED
  BY <1>1, Inductive, PTL

\* The only ways to charge a row on two invoices are a lost mark and two
\* handlers that hold the row at the same time.
THEOREM DoubleChargeNeedsExposure == Spec => []ChargedTwiceOnlyIfExposed
<1>1. IInv => ChargedTwiceOnlyIfExposed
  BY DEF IInv
<1>2. QED
  BY <1>1, Inductive, PTL
=============================================================================
