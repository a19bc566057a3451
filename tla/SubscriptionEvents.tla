------------------------- MODULE SubscriptionEvents -------------------------
(* The subscriptions of one tenant and its harness (routes/webhooks.rs).     *)
(* Stripe's events arrive in any order and handlers overlap; a checkout      *)
(* provisions the harness on ECS, whose poller (routes/ui.rs) reports later, *)
(* a deletion stops it. How one event is deduplicated and what invoice.paid  *)
(* bills is OverageBilling's.                                                *)
EXTENDS Integers, FiniteSets

CONSTANTS
  Sub,             \* subscriptions the customer checks out; also names the ECS
                   \* task that the handler of its checkout launches
  None,            \* no subscription, no task
  Handler,         \* concurrent deliveries
  MaxEvents,       \* bound on the events Stripe issues
  FaultBudget      \* bound on failing statements and calls, timeouts, crashes

ASSUME SubAssumption == IsFiniteSet(Sub) /\ None \notin Sub
ASSUME BoundAssumption == MaxEvents \in Nat /\ FaultBudget \in Nat

VARIABLES
  st, issued, pending, \* Stripe: status of each subscription, events issued,
                       \* events not yet delivered
  subId, status,   \* tenants: stripe_subscription_id, stripe_subscription_status
  row, task,       \* harness_instances: status, container_id
  up, polling,     \* ECS tasks running; tasks a poller watches
  pc, ev,          \* each handler: place, event
  mine, phantom,   \* the task it is to stop; its INSERT of the harness failed
  writer, trouble, \* history: subscription whose event status goes back to; events
                   \* out of order, overlaps and faults so far
  missed, excused, \* history: tasks up when a cancellation found no running
                   \* harness; tasks that overlaps, faults or a poller may lose
  faults

stripe == <<st, issued, pending>>
tenant == <<subId, status>>
harness == <<row, task, up, polling>>
hvars == <<pc, ev, mine, phantom>>
history == <<writer, trouble, missed, excused>>
vars == <<stripe, tenant, harness, hvars, history, faults>>

Kinds == {"checkout", "updated", "deleted", "paid", "failed"}
SubStatus == {"none", "active", "past_due", "canceled"}
RowStatus == {"none", "pending", "provisioning", "running", "stopped", "error"}
Event == [n : 1..MaxEvents, kind : Kinds, sub : Sub, status : SubStatus]

Init ==
  /\ st = [s \in Sub |-> "none"] /\ issued = 0 /\ pending = {}
  /\ subId = None /\ status = "none"
  /\ row = "none" /\ task = None /\ up = {} /\ polling = {}
  /\ pc = [h \in Handler |-> "idle"] /\ ev = [h \in Handler |-> None]
  /\ mine = [h \in Handler |-> None] /\ phantom = [h \in Handler |-> FALSE]
  /\ writer = None /\ trouble = FALSE /\ missed = {} /\ excused = {}
  /\ faults = 0

-----------------------------------------------------------------------------
(* Stripe: what happens to a subscription, and the events it issues.         *)

Issue(s, kinds, new) ==
  LET k == Cardinality(DOMAIN kinds) IN
  /\ issued + k <= MaxEvents /\ issued' = issued + k
  /\ st' = [st EXCEPT ![s] = new]
  /\ pending' = pending \cup
       {[n |-> issued + i, kind |-> kinds[i], sub |-> s, status |-> new] : i \in DOMAIN kinds}

Stripe(s) ==
  /\ \/ st[s] = "none" /\ Issue(s, <<"updated", "paid", "checkout">>, "active")
     \/ st[s] = "active" /\ Issue(s, <<"failed", "updated">>, "past_due")
     \/ st[s] = "past_due" /\ Issue(s, <<"updated", "paid">>, "active")
     \/ st[s] \in {"active", "past_due"} /\ Issue(s, <<"deleted">>, "canceled")
     \* the last invoice of a canceled subscription, or a renewal
     \/ st[s] \in {"active", "canceled"} /\ Issue(s, <<"paid">>, st[s])
  /\ UNCHANGED <<tenant, harness, hvars, history, faults>>

-----------------------------------------------------------------------------
(* stripe_webhook: one handler per delivery.                                 *)

Busy(h) == pc[h] # "idle"
Others(h) == {g \in Handler \ {h} : Busy(g)}

\* A checkout that overlaps another, or a deletion, may lose its task.
Steering == {"checkout", "deleted"}
Overlapping(h, e) ==
  LET under_way == {ev[g] : g \in Others(h)} IN
  IF e.kind \in Steering /\ \E f \in under_way : f.kind \in Steering
  THEN {f.sub : f \in {f \in under_way \cup {e} : f.kind = "checkout"}}
  ELSE {}

Deliver(h) ==
  /\ pc[h] = "idle"
  /\ \E e \in pending :
       /\ pending' = pending \ {e} /\ ev' = [ev EXCEPT ![h] = e]
       /\ pc' = [pc EXCEPT ![h] = e.kind]
       /\ trouble' = (trouble \/ Others(h) # {} \/ \E f \in pending : f.n < e.n)
       /\ excused' = excused \cup Overlapping(h, e)
  /\ UNCHANGED <<st, issued, tenant, harness, mine, phantom, writer, missed, faults>>

\* A handler that is through, or gives up, forgets what it held.
Leave(h) ==
  /\ pc' = [pc EXCEPT ![h] = "idle"] /\ ev' = [ev EXCEPT ![h] = None]
  /\ mine' = [mine EXCEPT ![h] = None] /\ phantom' = [phantom EXCEPT ![h] = FALSE]

Goto(h, place) == pc' = [pc EXCEPT ![h] = place] /\ UNCHANGED <<ev, mine, phantom>>

Fine == UNCHANGED <<faults, trouble, excused>>

\* A statement or call fails; the code ignores it. The task of a checkout may
\* be lost by it.
Fault(tasks) ==
  /\ faults < FaultBudget /\ faults' = faults + 1
  /\ trouble' = TRUE /\ excused' = excused \cup tasks

\* An UPDATE of the tenant whose failure is ignored.
SetStatus(s, id, new) ==
  \/ /\ Fine /\ subId' = id /\ status' = new
     /\ writer' = IF new = status /\ id = subId THEN writer ELSE s
  \/ Fault({}) /\ UNCHANGED <<tenant, writer>>

\* customer.subscription.updated finds the tenant by the subscription's id or
\* by the metadata the checkout gave it, and copies the status.
SubscriptionUpdated(h) ==
  LET e == ev[h] IN
  /\ pc[h] = "updated"
  /\ \/ Fine /\ status' = e.status /\ writer' = e.sub /\ UNCHANGED subId
     \/ Fault({}) /\ UNCHANGED <<tenant, writer>>
  /\ Leave(h)
  /\ UNCHANGED <<stripe, harness, missed>>

\* Mutant: a payment makes any subscription active.
PaidStatusAlways(s) == "active"

PaidStatus(s) == IF s = "past_due" THEN "active" ELSE s

\* invoice.paid and invoice.payment_failed, by the subscription's id alone. A
\* payment only takes back a past_due, whichever subscription it came from.
Invoice(h) ==
  LET e == ev[h] IN
  /\ pc[h] \in {"paid", "failed"}
  /\ \/ e.sub = subId /\ pc[h] = "paid" /\ SetStatus(writer, subId, PaidStatus(status))
     \/ e.sub = subId /\ pc[h] = "failed" /\ SetStatus(e.sub, subId, "past_due")
     \/ e.sub # subId /\ Fine /\ UNCHANGED <<tenant, writer>>
  /\ Leave(h)
  /\ UNCHANGED <<stripe, harness, missed>>

-----------------------------------------------------------------------------
(* customer.subscription.deleted.                                            *)

FindTenant(h) ==
  /\ pc[h] = "deleted"
  /\ \/ ev[h].sub = subId /\ Fine /\ Goto(h, "cancel")
     \/ ev[h].sub # subId /\ Fine /\ Leave(h)
     \/ Fault({}) /\ Leave(h)
  /\ UNCHANGED <<stripe, tenant, harness, writer, missed>>

Cancel(h) ==
  /\ pc[h] = "cancel" /\ SetStatus(ev[h].sub, subId, "canceled") /\ Goto(h, "select")
  /\ UNCHANGED <<stripe, harness, missed>>

\* Mutant: the wrong harnesses are selected for stopping.
SelectedProvisioning == row = "provisioning"

Selected == row = "running"

\* Only a running harness is stopped; a failing SELECT finds none.
SelectHarness(h) ==
  /\ pc[h] = "select"
  /\ \/ Selected /\ Fine /\ Goto(h, "read")
     \/ ~Selected /\ Fine /\ Leave(h)
     \/ Fault(up) /\ Leave(h)
  /\ missed' = IF row = "running" THEN missed
               ELSE missed \cup up \cup {ev[g].sub : g \in {g \in Handler : pc[g] = "launch"}}
  /\ UNCHANGED <<stripe, tenant, harness, writer>>

\* stop_harness: the container, the call whose failure is only logged, the row.
ReadTask(h) ==
  /\ pc[h] = "read"
  /\ \/ task # None /\ Fine
        /\ mine' = [mine EXCEPT ![h] = task]
        /\ pc' = [pc EXCEPT ![h] = "stop"] /\ UNCHANGED <<ev, phantom>>
     \/ task = None /\ Fine /\ Leave(h)
     \/ Fault(up) /\ Leave(h)
  /\ UNCHANGED <<stripe, tenant, harness, writer, missed>>

StopTask(h) ==
  /\ pc[h] = "stop"
  /\ \/ Fine /\ up' = up \ {mine[h]}
     \/ Fault({mine[h]}) /\ up' \in {up, up \ {mine[h]}}
  /\ Goto(h, "mark")
  /\ UNCHANGED <<stripe, tenant, row, task, polling, writer, missed>>

\* Mutant: the harness takes the status of the subscription.
StoppedAsSubscription == "canceled"

Stopped == "stopped"

MarkStopped(h) ==
  /\ pc[h] = "mark" /\ Leave(h)
  /\ \/ Fine /\ row' = Stopped
     \/ Fault({}) /\ UNCHANGED row
  /\ UNCHANGED <<stripe, tenant, task, up, polling, writer, missed>>

-----------------------------------------------------------------------------
(* checkout.session.completed, for a plan that hosts a harness.              *)

Activate(h) ==
  /\ pc[h] = "checkout" /\ SetStatus(ev[h].sub, ev[h].sub, "active") /\ Goto(h, "existing")
  /\ UNCHANGED <<stripe, harness, missed>>

\* Mutant: a harness on its way does not count as existing.
AliveRunning == {"running"}

Alive == {"running", "provisioning"}

\* provision_harness_for_tenant looks for the tenant's latest harness; a
\* failing SELECT looks like none. Without the tenant's slug it gives up. A
\* poller left from a harness that is not alive will still report on the row.
LookForHarness(h) ==
  /\ pc[h] = "existing"
  /\ \/ row \in Alive /\ Fine /\ Leave(h)
     \/ /\ row \notin Alive /\ Goto(h, IF row = "none" THEN "insert" ELSE "reuse")
        /\ excused' = IF polling = {} THEN excused ELSE excused \cup {ev[h].sub}
        /\ UNCHANGED <<faults, trouble>>
     \/ Fault({ev[h].sub} \cup up) /\ Goto(h, "insert")
     \/ row \notin Alive /\ Fault({}) /\ Leave(h)
  /\ UNCHANGED <<stripe, tenant, harness, writer, missed>>

\* The row, whose subdomain is unique; the handler goes on without one.
ClaimRow(h) ==
  /\ pc[h] \in {"insert", "reuse"} /\ pc' = [pc EXCEPT ![h] = "provision"]
  /\ LET fits == pc[h] = "reuse" \/ row = "none" IN
     \/ /\ Fine /\ row' = IF fits THEN "pending" ELSE row
        /\ phantom' = [phantom EXCEPT ![h] = ~fits]
     \/ /\ Fault({ev[h].sub}) /\ UNCHANGED row
        /\ phantom' = [phantom EXCEPT ![h] = pc[h] = "insert"]
  /\ UNCHANGED <<stripe, tenant, task, up, polling, ev, mine, writer, missed>>

\* An UPDATE of the harness row, if there is one; its failure is ignored.
SetRow(h, new) ==
  \/ Fine /\ row' = IF phantom[h] THEN row ELSE new
  \/ Fault({ev[h].sub}) /\ UNCHANGED row

MarkProvisioning(h) ==
  /\ pc[h] = "provision" /\ SetRow(h, "provisioning") /\ Goto(h, "launch")
  /\ UNCHANGED <<stripe, tenant, task, up, polling, writer, missed>>

Launch(h) ==
  /\ pc[h] = "launch"
  /\ \/ Fine /\ up' = up \cup {ev[h].sub} /\ Goto(h, "record")
     \/ Fault({ev[h].sub}) /\ up' \in {up, up \cup {ev[h].sub}} /\ Goto(h, "error")
  /\ UNCHANGED <<stripe, tenant, row, task, polling, writer, missed>>

RecordTask(h) ==
  LET t == ev[h].sub IN
  /\ pc[h] = "record" /\ Leave(h)
  /\ \/ Fine /\ task' = IF phantom[h] THEN task ELSE t
     \/ Fault({t}) /\ UNCHANGED task
  /\ polling' = IF phantom[h] THEN polling ELSE polling \cup {t}
  /\ UNCHANGED <<stripe, tenant, row, up, writer, missed>>

MarkError(h) ==
  /\ pc[h] = "error" /\ SetRow(h, "error") /\ Leave(h)
  /\ UNCHANGED <<stripe, tenant, task, up, polling, writer, missed>>

\* spawn_ecs_status_poller: the task runs, fails, or is not seen running in
\* time; the UPDATE that says so may fail.
Poll(t) ==
  /\ t \in polling /\ polling' = polling \ {t}
  /\ \/ t \in up /\ Fine /\ row' = "running" /\ UNCHANGED up
     \/ Fine /\ row' = "error" /\ up' = up \ {t}
     \/ /\ row' = "error" /\ excused' = excused \cup {t}
        /\ UNCHANGED <<up, trouble, faults>>
     \/ Fault({t}) /\ up' \in {up, up \ {t}} /\ UNCHANGED row
  /\ UNCHANGED <<stripe, tenant, task, hvars, writer, missed>>

Handle(h) ==
  \/ Deliver(h) \/ SubscriptionUpdated(h) \/ Invoice(h)
  \/ FindTenant(h) \/ Cancel(h) \/ SelectHarness(h) \/ ReadTask(h) \/ StopTask(h) \/ MarkStopped(h)
  \/ Activate(h) \/ LookForHarness(h) \/ ClaimRow(h) \/ MarkProvisioning(h) \/ Launch(h)
  \/ RecordTask(h) \/ MarkError(h)

-----------------------------------------------------------------------------
\* The timeout layer drops a handler between two awaits.
Timeout(h) ==
  /\ Busy(h) /\ Leave(h) /\ Fault({ev[h].sub} \cup up)
  /\ UNCHANGED <<stripe, tenant, harness, writer, missed>>

\* The platform goes down with its handlers and pollers.
Crash ==
  /\ polling # {} \/ \E h \in Handler : Busy(h)
  /\ Fault(up \cup {ev[h].sub : h \in {g \in Handler : Busy(g)}})
  /\ polling' = {}
  /\ pc' = [h \in Handler |-> "idle"] /\ ev' = [h \in Handler |-> None]
  /\ mine' = [h \in Handler |-> None] /\ phantom' = [h \in Handler |-> FALSE]
  /\ UNCHANGED <<stripe, tenant, row, task, up, writer, missed>>

Next ==
  \/ \E s \in Sub : Stripe(s) \/ Poll(s)
  \/ \E h \in Handler : Handle(h) \/ Timeout(h)
  \/ Crash

Spec == Init /\ [][Next]_vars

-----------------------------------------------------------------------------
(* Properties.                                                               *)

(* Every variable has its type. *)
TypeOK ==
  /\ st \in [Sub -> SubStatus] /\ issued \in 0..MaxEvents /\ pending \subseteq Event
  /\ subId \in Sub \cup {None} /\ status \in SubStatus
  /\ row \in RowStatus /\ task \in Sub \cup {None}
  /\ up \subseteq Sub /\ polling \subseteq Sub
  /\ pc \in [Handler -> Kinds \cup {"idle", "cancel", "select", "read", "stop", "mark", "existing",
                                    "insert", "reuse", "provision", "launch", "record", "error"}]
  /\ ev \in [Handler -> Event \cup {None}]
  /\ mine \in [Handler -> Sub \cup {None}] /\ phantom \in [Handler -> BOOLEAN]
  /\ writer \in Sub \cup {None} /\ trouble \in BOOLEAN
  /\ missed \subseteq Sub /\ excused \subseteq Sub /\ faults \in 0..FaultBudget

Quiet == pending = {} /\ \A h \in Handler : ~Busy(h)

(* Once every event was handled, one after the other and in order, the       *)
(* tenant's status is that of its subscription at Stripe, over any history   *)
(* of failed and late payments, cancellations and further checkouts. The one *)
(* exception is an update of another subscription of the tenant, which the   *)
(* metadata leads to the same row (handle_subscription_updated); a payment   *)
(* may then bring even a canceled subscription back to active.               *)
StatusFollowsSubscription ==
  Quiet /\ ~trouble /\ subId # None /\ writer = subId => status = st[subId]

(* A task that runs is the one the harness row names, or about to be: none   *)
(* is lost unless its checkout overlapped another or a deletion, a call      *)
(* failed, its poller gave up on it, or an earlier task's poller was still   *)
(* there to report on the row (provision_harness_for_tenant).                *)
NoTaskIsLost ==
  \A t \in up \ excused :
    t = task \/ \E h \in Handler : pc[h] = "record" /\ ev[h].sub = t

(* When a subscription is canceled its harness does not run on, except one   *)
(* whose row did not say running then, which nothing stops any more: it was  *)
(* still being provisioned, or its poller had given up and said error        *)
(* (handle_subscription_deleted).                                            *)
CanceledHarnessIsDown ==
  Quiet /\ ~trouble /\ status = "canceled" /\ writer = subId => up \subseteq missed \cup excused

=============================================================================
