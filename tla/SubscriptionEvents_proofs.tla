---------------------- MODULE SubscriptionEvents_proofs ----------------------
(* Safety of SubscriptionEvents for every set of subscriptions and handlers   *)
(* and any number of events and faults.                                       *)
EXTENDS SubscriptionEvents, FiniteSetTheorems, WellFoundedInduction, TLAPS

-----------------------------------------------------------------------------
(* The inductive invariant.                                                  *)

CheckoutPlaces == {"checkout", "existing", "insert", "reuse", "provision", "launch", "record", "error"}
DeletionPlaces == {"deleted", "cancel", "select", "read", "stop", "mark"}

(* A handler's place tells what it handles. *)
PlaceFits(h) ==
  /\ pc[h] = "idle" \/ ev[h] \in Event
  /\ pc[h] \in CheckoutPlaces => ev[h].kind = "checkout"
  /\ pc[h] \in DeletionPlaces => ev[h].kind = "deleted"
  /\ pc[h] \in {"updated", "paid", "failed"} => ev[h].kind = pc[h]
  /\ pc[h] = "stop" => mine[h] # None
PlacesFit == \A h \in Handler : PlaceFits(h)

(* Checkouts that overlap each other or a deletion are excused.              *)
OverlapsExcused ==
  \A g, h \in Handler :
    g # h /\ pc[g] \in CheckoutPlaces /\ pc[h] \in CheckoutPlaces \cup DeletionPlaces =>
      ev[g].sub \in excused

(* Until the row is there nothing works on it.                               *)
Touching == {"read", "stop", "mark", "reuse"}
Claimed == {"provision", "launch", "record", "error"}
RowFits(h) ==
  /\ phantom[h] => pc[h] \in Claimed /\ ev[h].sub \in excused
  /\ pc[h] = "insert" => row = "none" \/ ev[h].sub \in excused
  /\ row = "none" => pc[h] \notin Touching /\ (pc[h] \in Claimed => phantom[h])
RowBefore ==
  /\ \A h \in Handler : RowFits(h)
  /\ row = "none" => polling = {}

(* The handler that launched it is about to record the task.                 *)
Recording(t) == \E h \in Handler : pc[h] = "record" /\ ev[h].sub = t
Settled == \A t \in up \ excused : Recording(t)

(* Past its look for a harness, a checkout has found none that runs.         *)
Launching == {"insert", "reuse", "provision", "launch", "record"}
Alone(h) ==
  /\ pc[h] \in Launching \cup {"error", "mark"} => Settled
  /\ pc[h] = "stop" => \A t \in up \ excused : t = mine[h] \/ Recording(t)
  /\ pc[h] \in Launching /\ ev[h].sub \notin excused => polling = {}
  /\ pc[h] \in {"launch", "record"} /\ ev[h].sub \notin excused => row \in Alive
CheckoutsAlone == \A h \in Handler : Alone(h)

(* A row that is not alive is of no running task; only the poller of the task *)
(* in the row is at work.                                                    *)
RowIsRight ==
  /\ row \notin Alive => Settled
  /\ task \in up \ excused => polling \subseteq {task}

TasksInv ==
  PlacesFit /\ OverlapsExcused /\ RowBefore /\ CheckoutsAlone /\ RowIsRight /\ NoTaskIsLost

(* Events whose status is still to be copied.                                *)
Before == Kinds \cup {"cancel"}
Ahead == pending \cup {ev[h] : h \in {h \in Handler : pc[h] \in Before}}
Own(s) == writer = s /\ subId = s

(* One handler at a time, with the oldest event.                             *)
InOrder ==
  /\ \A g, h \in Handler : Busy(g) /\ Busy(h) => g = h
  /\ \A h \in Handler, f \in pending : pc[h] \in Before => ev[h].n < f.n

(* Each kind of event tells a status it can come with. *)
KindFits(e) ==
  /\ e.kind = "checkout" => e.status = "active"
  /\ e.kind = "failed" => e.status = "past_due"
  /\ e.kind = "deleted" => e.status = "canceled"
  /\ e.kind = "updated" => e.status # "canceled"
  /\ e.kind = "paid" => e.status # "past_due"
KindsFit ==
  \A e \in Ahead :
    /\ e.n <= issued /\ KindFits(e)
    /\ \A f \in Ahead : f.n = e.n => f = e

(* The last event of a subscription has its status; a payment has that of the *)
(* event before it.                                                          *)
EventsOf(s) == {e \in Ahead : e.sub = s}
LastIs(s) == EventsOf(s) = {} /\ Own(s) => status = st[s]
IsLast(e) == \A f \in EventsOf(e.sub) : f.n <= e.n
Follows(e, f) ==
  /\ f.n < e.n /\ f.status = e.status
  /\ \A g \in EventsOf(e.sub) : g.n <= f.n \/ e.n <= g.n
IsFirst(e) ==
  /\ \A f \in EventsOf(e.sub) : e.n <= f.n
  /\ Own(e.sub) => status = e.status
StatusAhead ==
  /\ \A s \in Sub : LastIs(s)
  /\ \A e \in Ahead : IsLast(e) => e.status = st[e.sub]
  /\ \A e \in Ahead : e.kind = "paid" => IsFirst(e) \/ \E f \in EventsOf(e.sub) : Follows(e, f)

(* After a cancellation only what was being provisioned comes up.            *)
Stopping == {"select", "read", "stop"}
Down ==
  status = "canceled" =>
    \/ up \subseteq missed \cup excused
    \/ \E h \in Handler : pc[h] \in Stopping
LaunchedActive ==
  \A h \in Handler : pc[h] \in Launching \cup {"existing", "error"} => status # "canceled"

Calm == InOrder /\ KindsFit /\ StatusAhead /\ Down /\ LaunchedActive
StatusInv == trouble \/ Calm

IInv == TypeOK /\ TasksInv /\ StatusInv

-----------------------------------------------------------------------------
(* What a step of a handler does to it and to the others.                    *)

Stays(h) ==
  \A g \in Handler \ {h} :
    pc'[g] = pc[g] /\ ev'[g] = ev[g] /\ mine'[g] = mine[g] /\ phantom'[g] = phantom[g]

LEMMA LeaveFacts ==
  ASSUME TypeOK, NEW h \in Handler, Leave(h)
  PROVE  /\ Stays(h) /\ pc'[h] = "idle" /\ phantom'[h] = FALSE /\ mine'[h] = None
         /\ ev'[h] = None
BY DEF TypeOK, Leave, Stays

LEMMA GotoFacts ==
  ASSUME TypeOK, NEW h \in Handler, NEW place, Goto(h, place)
  PROVE  /\ Stays(h) /\ pc'[h] = place
         /\ ev' = ev /\ mine' = mine /\ phantom' = phantom
BY DEF TypeOK, Goto, Stays

(* Types of the handlers, in parts.                                          *)
Places == Kinds \cup {"idle", "cancel", "select", "read", "stop", "mark", "existing",
                      "insert", "reuse", "provision", "launch", "record", "error"}
StripeTypes == st \in [Sub -> SubStatus] /\ issued \in 0..MaxEvents /\ pending \subseteq Event
TenantTypes == subId \in Sub \cup {None} /\ status \in SubStatus /\ writer \in Sub \cup {None}
HarnessTypes ==
  /\ row \in RowStatus /\ task \in Sub \cup {None}
  /\ up \subseteq Sub /\ polling \subseteq Sub
HandlerTypes ==
  /\ pc \in [Handler -> Places] /\ ev \in [Handler -> Event \cup {None}]
  /\ mine \in [Handler -> Sub \cup {None}] /\ phantom \in [Handler -> BOOLEAN]
FaultTypes ==
  /\ trouble \in BOOLEAN /\ excused \subseteq Sub /\ faults \in 0..FaultBudget

LEMMA TypesAre ==
  TypeOK <=> /\ StripeTypes /\ TenantTypes /\ HarnessTypes /\ HandlerTypes /\ FaultTypes
             /\ missed \subseteq Sub
BY DEF TypeOK, StripeTypes, TenantTypes, HarnessTypes, HandlerTypes, FaultTypes, Places

LEMMA TypesNext ==
  ASSUME StripeTypes', TenantTypes', HarnessTypes', HandlerTypes', FaultTypes', missed' \subseteq Sub
  PROVE  TypeOK'
BY DEF TypeOK, StripeTypes, TenantTypes, HarnessTypes, HandlerTypes, FaultTypes, Places

LEMMA LeaveTypes ==
  ASSUME HandlerTypes, NEW h \in Handler, Leave(h)
  PROVE  HandlerTypes'
BY DEF HandlerTypes, Places, Leave

LEMMA GotoTypes ==
  ASSUME HandlerTypes, NEW h \in Handler, NEW place \in Places, Goto(h, place)
  PROVE  HandlerTypes'
BY DEF HandlerTypes, Goto

LEMMA FineTypes ==
  ASSUME FaultTypes, Fine
  PROVE  FaultTypes'
BY DEF FaultTypes, Fine

LEMMA FaultTypesStay ==
  ASSUME FaultTypes, NEW tasks \in SUBSET Sub, Fault(tasks)
  PROVE  FaultTypes'
BY BoundAssumption DEF FaultTypes, Fault

LEMMA SetStatusTypes ==
  ASSUME TenantTypes, FaultTypes, NEW s \in Sub \cup {None}, NEW id \in Sub \cup {None},
         NEW new \in SubStatus, SetStatus(s, id, new)
  PROVE  TenantTypes' /\ FaultTypes'
<1>1. CASE Fine /\ subId' = id /\ status' = new /\ writer' \in {writer, s}
  BY <1>1, FineTypes DEF TenantTypes
<1>2. CASE Fault({}) /\ UNCHANGED <<tenant, writer>>
  BY <1>2, FaultTypesStay DEF TenantTypes, tenant
<1> QED
  BY <1>1, <1>2 DEF SetStatus

(* A busy handler has an event. *)
LEMMA BusyHasEvent ==
  ASSUME PlacesFit, NEW h \in Handler, pc[h] # "idle"
  PROVE  ev[h] \in Event /\ ev[h].sub \in Sub /\ ev[h].status \in SubStatus /\ ev[h].kind \in Kinds
         /\ ev[h].n \in 1..MaxEvents
BY DEF PlacesFit, PlaceFits, Event

-----------------------------------------------------------------------------
(* Stripe's events.                                                          *)

New(k, kinds, s, new) ==
  {[n |-> issued + i, kind |-> kinds[i], sub |-> s, status |-> new] : i \in 1..k}

LEMMA Counted ==
  ASSUME NEW k \in Nat
  PROVE  Cardinality(1..k) = k
<1>1. Cardinality(1..k) = IF 1 > k THEN 0 ELSE k - 1 + 1
  BY FS_Interval
<1> QED
  BY <1>1

LEMMA IssueOne ==
  ASSUME NEW s, NEW a, NEW new, Issue(s, <<a>>, new)
  PROVE  /\ issued + 1 <= MaxEvents /\ issued' = issued + 1 /\ st' = [st EXCEPT ![s] = new]
         /\ pending' = pending \cup New(1, <<a>>, s, new)
<1>1. DOMAIN <<a>> = 1..1
  OBVIOUS
<1>2. Cardinality(1..1) = 1
  BY Counted
<1> QED
  BY <1>1, <1>2 DEF Issue, New

LEMMA IssueTwo ==
  ASSUME NEW s, NEW a, NEW b, NEW new, Issue(s, <<a, b>>, new)
  PROVE  /\ issued + 2 <= MaxEvents /\ issued' = issued + 2 /\ st' = [st EXCEPT ![s] = new]
         /\ pending' = pending \cup New(2, <<a, b>>, s, new)
<1>1. DOMAIN <<a, b>> = 1..2
  OBVIOUS
<1>2. Cardinality(1..2) = 2
  BY Counted
<1> QED
  BY <1>1, <1>2 DEF Issue, New

LEMMA IssueThree ==
  ASSUME NEW s, NEW a, NEW b, NEW c, NEW new, Issue(s, <<a, b, c>>, new)
  PROVE  /\ issued + 3 <= MaxEvents /\ issued' = issued + 3 /\ st' = [st EXCEPT ![s] = new]
         /\ pending' = pending \cup New(3, <<a, b, c>>, s, new)
<1>1. DOMAIN <<a, b, c>> = 1..3
  OBVIOUS
<1>2. Cardinality(1..3) = 3
  BY Counted
<1> QED
  BY <1>1, <1>2 DEF Issue, New

(* What Stripe issues at once: the kinds fit the new status, and a payment    *)
(* either follows another event or leaves the status as it was.              *)
KindCan(kind, new) ==
  /\ kind = "checkout" => new = "active"
  /\ kind = "failed" => new = "past_due"
  /\ kind = "deleted" => new = "canceled"
  /\ kind = "updated" => new # "canceled"
  /\ kind = "paid" => new # "past_due"

Adds(s, k, kinds, new) ==
  /\ k \in 1..3 /\ kinds \in [1..k -> Kinds] /\ new \in SubStatus
  /\ issued + k <= MaxEvents /\ issued' = issued + k /\ st' = [st EXCEPT ![s] = new]
  /\ pending' = pending \cup New(k, kinds, s, new)
  /\ \A i \in 1..k : KindCan(kinds[i], new)
  /\ \A i \in 1..k : kinds[i] = "paid" => i = 2 \/ (i = 1 /\ k = 1 /\ new = st[s])

LEMMA StripeAdds ==
  ASSUME TypeOK, NEW s \in Sub, Stripe(s)
  PROVE  \E k, kinds, new : Adds(s, k, kinds, new)
<1>1. CASE st[s] = "none" /\ Issue(s, <<"updated", "paid", "checkout">>, "active")
  <2> DEFINE kinds == <<"updated", "paid", "checkout">>
  <2>0. kinds \in [1..3 -> Kinds] /\ kinds[1] = "updated" /\ kinds[2] = "paid" /\ kinds[3] = "checkout"
    BY DEF Kinds
  <2>2. \A i \in 1..3 : KindCan(kinds[i], "active")
    BY <2>0, <1>1 DEF KindCan
  <2>3. \A i \in 1..3 : kinds[i] = "paid" => i = 2 \/ (i = 1 /\ 3 = 1 /\ "active" = st[s])
    BY <2>0
  <2>4. /\ issued + 3 <= MaxEvents /\ issued' = issued + 3 /\ st' = [st EXCEPT ![s] = "active"]
        /\ pending' = pending \cup New(3, kinds, s, "active")
    <3>1. Issue(s, <<"updated", "paid", "checkout">>, "active")
      BY <1>1
    <3> QED
      BY ONLY <3>1, IssueThree, Zenon
  <2> HIDE DEF kinds
  <2>1. Adds(s, 3, kinds, "active")
    BY <1>1, <2>0, <2>2, <2>3, <2>4 DEF Adds, SubStatus
  <2> QED
    BY <2>1
<1>2. CASE st[s] = "active" /\ Issue(s, <<"failed", "updated">>, "past_due")
  <2> DEFINE kinds == <<"failed", "updated">>
  <2>0. kinds \in [1..2 -> Kinds] /\ kinds[1] = "failed" /\ kinds[2] = "updated"
    BY DEF Kinds
  <2>2. \A i \in 1..2 : KindCan(kinds[i], "past_due")
    BY <2>0, <1>2 DEF KindCan
  <2>3. \A i \in 1..2 : kinds[i] = "paid" => i = 2 \/ (i = 1 /\ 2 = 1 /\ "past_due" = st[s])
    BY <2>0
  <2>4. /\ issued + 2 <= MaxEvents /\ issued' = issued + 2 /\ st' = [st EXCEPT ![s] = "past_due"]
        /\ pending' = pending \cup New(2, kinds, s, "past_due")
    BY <1>2, IssueTwo
  <2> HIDE DEF kinds
  <2>1. Adds(s, 2, kinds, "past_due")
    BY <1>2, <2>0, <2>2, <2>3, <2>4 DEF Adds, SubStatus
  <2> QED
    BY <2>1
<1>3. CASE st[s] = "past_due" /\ Issue(s, <<"updated", "paid">>, "active")
  <2> DEFINE kinds == <<"updated", "paid">>
  <2>0. kinds \in [1..2 -> Kinds] /\ kinds[1] = "updated" /\ kinds[2] = "paid"
    BY DEF Kinds
  <2>2. \A i \in 1..2 : KindCan(kinds[i], "active")
    BY <2>0, <1>3 DEF KindCan
  <2>3. \A i \in 1..2 : kinds[i] = "paid" => i = 2 \/ (i = 1 /\ 2 = 1 /\ "active" = st[s])
    BY <2>0
  <2>4. /\ issued + 2 <= MaxEvents /\ issued' = issued + 2 /\ st' = [st EXCEPT ![s] = "active"]
        /\ pending' = pending \cup New(2, kinds, s, "active")
    BY <1>3, IssueTwo
  <2> HIDE DEF kinds
  <2>1. Adds(s, 2, kinds, "active")
    BY <1>3, <2>0, <2>2, <2>3, <2>4 DEF Adds, SubStatus
  <2> QED
    BY <2>1
<1>4. CASE st[s] \in {"active", "past_due"} /\ Issue(s, <<"deleted">>, "canceled")
  <2> DEFINE kinds == <<"deleted">>
  <2>0. kinds \in [1..1 -> Kinds] /\ kinds[1] = "deleted"
    BY DEF Kinds
  <2>2. \A i \in 1..1 : KindCan(kinds[i], "canceled")
    BY <2>0, <1>4 DEF KindCan
  <2>3. \A i \in 1..1 : kinds[i] = "paid" => i = 2 \/ (i = 1 /\ 1 = 1 /\ "canceled" = st[s])
    BY <2>0
  <2>4. /\ issued + 1 <= MaxEvents /\ issued' = issued + 1 /\ st' = [st EXCEPT ![s] = "canceled"]
        /\ pending' = pending \cup New(1, kinds, s, "canceled")
    BY <1>4, IssueOne
  <2> HIDE DEF kinds
  <2>1. Adds(s, 1, kinds, "canceled")
    BY <1>4, <2>0, <2>2, <2>3, <2>4 DEF Adds, SubStatus
  <2> QED
    BY <2>1
<1>5. CASE st[s] \in {"active", "canceled"} /\ Issue(s, <<"paid">>, st[s])
  <2> DEFINE kinds == <<"paid">>
  <2>0. kinds \in [1..1 -> Kinds] /\ kinds[1] = "paid"
    BY DEF Kinds
  <2>2. \A i \in 1..1 : KindCan(kinds[i], st[s])
    BY <2>0, <1>5 DEF KindCan
  <2>3. \A i \in 1..1 : kinds[i] = "paid" => i = 2 \/ (i = 1 /\ 1 = 1 /\ st[s] = st[s])
    BY <2>0
  <2>4. /\ issued + 1 <= MaxEvents /\ issued' = issued + 1 /\ st' = [st EXCEPT ![s] = st[s]]
        /\ pending' = pending \cup New(1, kinds, s, st[s])
    BY <1>5, IssueOne
  <2> HIDE DEF kinds
  <2>1. Adds(s, 1, kinds, st[s])
    BY <1>5, <2>0, <2>2, <2>3, <2>4 DEF Adds, SubStatus
  <2> QED
    BY <2>1
<1> QED
  BY <1>1, <1>2, <1>3, <1>4, <1>5 DEF Stripe

LEMMA NewAreEvents ==
  ASSUME StripeTypes, NEW s \in Sub, NEW k, NEW kinds, NEW new, Adds(s, k, kinds, new)
  PROVE  \A e \in New(k, kinds, s, new) :
           /\ e \in Event /\ e.sub = s /\ e.status = new /\ KindCan(e.kind, new)
           /\ e.n \in issued + 1 .. issued + k /\ e.kind = kinds[e.n - issued]
<1> SUFFICES ASSUME NEW i \in 1..k, NEW e,
                    e = [n |-> issued + i, kind |-> kinds[i], sub |-> s, status |-> new]
             PROVE  /\ e \in Event /\ e.sub = s /\ e.status = new /\ KindCan(e.kind, new)
                    /\ e.n \in issued + 1 .. issued + k /\ e.kind = kinds[e.n - issued]
  BY DEF New
<1>1. /\ k \in 1..3 /\ kinds \in [1..k -> Kinds] /\ new \in SubStatus
      /\ issued + k <= MaxEvents /\ KindCan(kinds[i], new)
  BY DEF Adds
<1>2. issued \in Nat /\ issued + i \in 1..MaxEvents
  BY <1>1, BoundAssumption DEF StripeTypes
<1>3. kinds[i] \in Kinds
  BY <1>1
<1>4. e \in Event
  BY <1>1, <1>2, <1>3 DEF Event
<1>5. e.n = issued + i /\ e.kind = kinds[i] /\ e.sub = s /\ e.status = new
  OBVIOUS
<1>6. e.n \in issued + 1 .. issued + k /\ e.n - issued = i
  BY <1>1, <1>2, <1>5
<1> QED
  BY <1>1, <1>4, <1>5, <1>6

LEMMA StripeTypesStay ==
  ASSUME TypeOK, NEW s \in Sub, Stripe(s)
  PROVE  StripeTypes'
<1>1. PICK k, kinds, new : Adds(s, k, kinds, new)
  BY StripeAdds
<1>2. StripeTypes
  BY TypesAre
<1>3. New(k, kinds, s, new) \subseteq Event
  BY <1>1, <1>2, NewAreEvents
<1>4. pending' \subseteq Event /\ issued' \in 0..MaxEvents /\ st' \in [Sub -> SubStatus]
  BY <1>1, <1>2, <1>3, BoundAssumption DEF Adds, StripeTypes
<1> QED
  BY <1>4 DEF StripeTypes

-----------------------------------------------------------------------------
(* Types.                                                                    *)

LEMMA DeliverFacts ==
  ASSUME TypeOK, NEW h \in Handler, Deliver(h)
  PROVE  /\ pc[h] = "idle" /\ Stays(h)
         /\ \E e \in pending :
              /\ e \in Event /\ pending' = pending \ {e} /\ ev'[h] = e /\ pc'[h] = e.kind
              /\ trouble' = (trouble \/ Others(h) # {} \/ \E f \in pending : f.n < e.n)
              /\ excused' = excused \cup Overlapping(h, e)
         /\ mine' = mine /\ phantom' = phantom
         /\ pc' \in [Handler -> Places] /\ ev' \in [Handler -> Event \cup {None}]
<1>1. PICK e \in pending :
        /\ pending' = pending \ {e} /\ ev' = [ev EXCEPT ![h] = e]
        /\ pc' = [pc EXCEPT ![h] = e.kind]
        /\ trouble' = (trouble \/ Others(h) # {} \/ \E f \in pending : f.n < e.n)
        /\ excused' = excused \cup Overlapping(h, e)
  BY DEF Deliver
<1>2. pc[h] = "idle" /\ mine' = mine /\ phantom' = phantom
  BY DEF Deliver
<1>3. e \in Event /\ e.kind \in Kinds
  BY DEF TypeOK, Event
<1>4. e.kind \in Places
  BY <1>3 DEF Places
<1>5. pc \in [Handler -> Places] /\ ev \in [Handler -> Event \cup {None}]
  BY DEF TypeOK, Places
<1>6. /\ pc' \in [Handler -> Places] /\ ev' \in [Handler -> Event \cup {None}]
      /\ ev'[h] = e /\ pc'[h] = e.kind
      /\ \A g \in Handler \ {h} : pc'[g] = pc[g] /\ ev'[g] = ev[g]
  BY <1>1, <1>3, <1>4, <1>5
<1> QED
  BY <1>1, <1>2, <1>3, <1>6 DEF Stays

LEMMA OverlappingAre ==
  ASSUME TypeOK, PlacesFit, NEW h \in Handler, NEW e \in Event
  PROVE  Overlapping(h, e) \subseteq Sub
<1>1. \A g \in Others(h) : ev[g] \in Event
  BY DEF Others, Busy, PlacesFit, PlaceFits
<1>2. \A f \in {ev[g] : g \in Others(h)} \cup {e} : f.sub \in Sub
  BY <1>1 DEF Event
<1> QED
  BY <1>2 DEF Overlapping

LEMMA HandleTypes ==
  ASSUME TypeOK, PlacesFit, NEW h \in Handler, Handle(h)
  PROVE  TypeOK'
<1> USE TypesAre, TypesNext
<1>0. pc[h] # "idle" => ev[h] \in Event /\ ev[h].sub \in Sub /\ ev[h].status \in SubStatus
  BY BusyHasEvent
<1>f. {} \in SUBSET Sub /\ up \in SUBSET Sub
  BY DEF TypeOK
<1>1. CASE Deliver(h)
  <2>1. PICK e \in pending :
          e \in Event /\ pending' = pending \ {e} /\ excused' = excused \cup Overlapping(h, e)
          /\ trouble' = (trouble \/ Others(h) # {} \/ \E f \in pending : f.n < e.n)
    BY <1>1, DeliverFacts
  <2>2. HandlerTypes'
    BY <1>1, DeliverFacts DEF HandlerTypes
  <2>3. Overlapping(h, e) \subseteq Sub
    BY <2>1, OverlappingAre
  <2>4. FaultTypes'
    BY <1>1, <2>1, <2>3 DEF FaultTypes, Deliver
  <2> QED
    BY <1>1, <2>1, <2>2, <2>4
    DEF Deliver, StripeTypes, TenantTypes, HarnessTypes, tenant, harness
<1>2. CASE SubscriptionUpdated(h)
  <2>1. HandlerTypes'
    BY <1>2, LeaveTypes DEF SubscriptionUpdated
  <2>2. FaultTypes'
    BY <1>2, <1>f, FineTypes, FaultTypesStay DEF SubscriptionUpdated
  <2>3. TenantTypes'
    BY <1>2, <1>0 DEF SubscriptionUpdated, TenantTypes, tenant
  <2> QED
    BY <1>2, <2>1, <2>2, <2>3
    DEF SubscriptionUpdated, StripeTypes, HarnessTypes, stripe, harness
<1>3. CASE Invoice(h)
  <2>1. HandlerTypes'
    BY <1>3, LeaveTypes DEF Invoice
  <2>2. PaidStatus(status) \in SubStatus /\ "past_due" \in SubStatus
    BY DEF TypeOK, PaidStatus, SubStatus
  <2>3. subId \in Sub \cup {None} /\ writer \in Sub \cup {None}
    BY DEF TypeOK
  <2>4. ev[h].sub \in Sub
    BY <1>3, <1>0 DEF Invoice
  <2>5. CASE SetStatus(writer, subId, PaidStatus(status))
    <3>1. TenantTypes' /\ FaultTypes'
      BY <2>2, <2>3, <2>5, SetStatusTypes
    <3> QED
      BY <1>3, <2>1, <3>1 DEF Invoice, StripeTypes, HarnessTypes, stripe, harness
  <2>6. CASE SetStatus(ev[h].sub, subId, "past_due")
    <3>1. TenantTypes' /\ FaultTypes'
      BY <2>2, <2>3, <2>4, <2>6, SetStatusTypes
    <3> QED
      BY <1>3, <2>1, <3>1 DEF Invoice, StripeTypes, HarnessTypes, stripe, harness
  <2>7. CASE Fine /\ UNCHANGED <<tenant, writer>>
    <3>1. TenantTypes' /\ FaultTypes'
      BY <2>7, FineTypes DEF TenantTypes, tenant
    <3> QED
      BY <1>3, <2>1, <3>1 DEF Invoice, StripeTypes, HarnessTypes, stripe, harness
  <2> QED
    BY <1>3, <2>5, <2>6, <2>7 DEF Invoice
<1>4. CASE FindTenant(h)
  <2>1. HandlerTypes'
    BY <1>4, LeaveTypes, GotoTypes DEF FindTenant, Places
  <2>2. FaultTypes'
    BY <1>4, <1>f, FineTypes, FaultTypesStay DEF FindTenant
  <2> QED
    BY <1>4, <2>1, <2>2
    DEF FindTenant, StripeTypes, TenantTypes, HarnessTypes, stripe, tenant, harness
<1>5. CASE Cancel(h)
  <2>1. HandlerTypes'
    BY <1>5, GotoTypes DEF Cancel, Places
  <2>2. subId \in Sub \cup {None} /\ ev[h].sub \in Sub /\ "canceled" \in SubStatus
    BY <1>5, <1>0 DEF Cancel, TypeOK, SubStatus
  <2>3. TenantTypes' /\ FaultTypes'
    BY <1>5, <2>2, SetStatusTypes DEF Cancel
  <2> QED
    BY <1>5, <2>1, <2>3 DEF Cancel, StripeTypes, HarnessTypes, stripe, harness
<1>6. CASE SelectHarness(h)
  <2>1. HandlerTypes'
    BY <1>6, LeaveTypes, GotoTypes DEF SelectHarness, Places
  <2>2. FaultTypes'
    BY <1>6, <1>f, FineTypes, FaultTypesStay DEF SelectHarness
  <2>3. \A g \in Handler : pc[g] = "launch" => ev[g].sub \in Sub
    BY BusyHasEvent
  <2>4. missed' \subseteq Sub
    BY <1>6, <2>3 DEF SelectHarness, TypeOK
  <2> QED
    BY <1>6, <2>1, <2>2, <2>4
    DEF SelectHarness, StripeTypes, TenantTypes, HarnessTypes, stripe, tenant, harness
<1>7. CASE ReadTask(h)
  <2>1. HandlerTypes'
    <3>1. CASE /\ mine' = [mine EXCEPT ![h] = task]
               /\ pc' = [pc EXCEPT ![h] = "stop"] /\ UNCHANGED <<ev, phantom>>
      BY <3>1 DEF TypeOK, HandlerTypes, Places
    <3> QED
      BY <1>7, <3>1, LeaveTypes DEF ReadTask
  <2>2. FaultTypes'
    BY <1>7, <1>f, FineTypes, FaultTypesStay DEF ReadTask
  <2> QED
    BY <1>7, <2>1, <2>2
    DEF ReadTask, StripeTypes, TenantTypes, HarnessTypes, stripe, tenant, harness
<1>8. CASE StopTask(h)
  <2>1. HandlerTypes'
    BY <1>8, GotoTypes DEF StopTask, Places
  <2>2. FaultTypes' /\ HarnessTypes'
    <3>1. CASE Fine /\ up' = up \ {mine[h]}
      BY <1>8, <3>1, FineTypes DEF StopTask, HarnessTypes
    <3>2. CASE Fault({mine[h]}) /\ up' \in {up, up \ {mine[h]}}
      <4>1. mine[h] \in Sub
        BY <1>8 DEF StopTask, PlacesFit, PlaceFits, TypeOK
      <4>2. FaultTypes'
        BY <3>2, <4>1, FaultTypesStay
      <4> QED
        BY <1>8, <3>2, <4>2 DEF StopTask, HarnessTypes
    <3> QED
      BY <1>8, <3>1, <3>2 DEF StopTask
  <2> QED
    BY <1>8, <2>1, <2>2 DEF StopTask, StripeTypes, TenantTypes, stripe, tenant
<1>9. CASE MarkStopped(h)
  <2>1. HandlerTypes'
    BY <1>9, LeaveTypes DEF MarkStopped
  <2>2. FaultTypes'
    BY <1>9, <1>f, FineTypes, FaultTypesStay DEF MarkStopped
  <2>3. HarnessTypes'
    BY <1>9 DEF MarkStopped, HarnessTypes, RowStatus, Stopped
  <2> QED
    BY <1>9, <2>1, <2>2, <2>3 DEF MarkStopped, StripeTypes, TenantTypes, stripe, tenant
<1>10. CASE Activate(h)
  <2>1. HandlerTypes'
    BY <1>10, GotoTypes DEF Activate, Places
  <2>2. ev[h].sub \in Sub /\ "active" \in SubStatus
    BY <1>10, <1>0 DEF Activate, SubStatus
  <2>3. TenantTypes' /\ FaultTypes'
    BY <1>10, <2>2, SetStatusTypes DEF Activate
  <2> QED
    BY <1>10, <2>1, <2>3 DEF Activate, StripeTypes, HarnessTypes, stripe, harness
<1>11. CASE LookForHarness(h)
  <2>1. HandlerTypes'
    BY <1>11, LeaveTypes, GotoTypes DEF LookForHarness, Places
  <2>2. {ev[h].sub} \cup up \in SUBSET Sub
    BY <1>11, <1>0, <1>f DEF LookForHarness
  <2>3. FaultTypes'
    <3>1. CASE /\ excused' = IF polling = {} THEN excused ELSE excused \cup {ev[h].sub}
               /\ UNCHANGED <<faults, trouble>>
      BY <2>2, <3>1 DEF FaultTypes
    <3> QED
      BY <1>11, <1>f, <2>2, <3>1, FineTypes, FaultTypesStay DEF LookForHarness
  <2> QED
    BY <1>11, <2>1, <2>3
    DEF LookForHarness, StripeTypes, TenantTypes, HarnessTypes, stripe, tenant, harness
<1>12. CASE ClaimRow(h)
  <2>1. HandlerTypes'
    BY <1>12 DEF ClaimRow, HandlerTypes, Places
  <2>2. {ev[h].sub} \in SUBSET Sub
    BY <1>12, <1>0 DEF ClaimRow
  <2>3. FaultTypes'
    BY <1>12, <2>2, FineTypes, FaultTypesStay DEF ClaimRow
  <2>4. HarnessTypes'
    BY <1>12 DEF ClaimRow, HarnessTypes, RowStatus
  <2> QED
    BY <1>12, <2>1, <2>3, <2>4 DEF ClaimRow, StripeTypes, TenantTypes, stripe, tenant
<1>13. CASE MarkProvisioning(h)
  <2>1. HandlerTypes'
    BY <1>13, GotoTypes DEF MarkProvisioning, Places
  <2>2. {ev[h].sub} \in SUBSET Sub
    BY <1>13, <1>0 DEF MarkProvisioning
  <2>3. FaultTypes'
    BY <1>13, <2>2, FineTypes, FaultTypesStay DEF MarkProvisioning, SetRow
  <2>4. HarnessTypes'
    BY <1>13 DEF MarkProvisioning, SetRow, HarnessTypes, RowStatus
  <2> QED
    BY <1>13, <2>1, <2>3, <2>4 DEF MarkProvisioning, StripeTypes, TenantTypes, stripe, tenant
<1>14. CASE Launch(h)
  <2>1. HandlerTypes'
    BY <1>14, GotoTypes DEF Launch, Places
  <2>2. {ev[h].sub} \in SUBSET Sub
    BY <1>14, <1>0 DEF Launch
  <2>3. FaultTypes'
    BY <1>14, <2>2, FineTypes, FaultTypesStay DEF Launch
  <2>4. HarnessTypes'
    BY <1>14, <2>2 DEF Launch, HarnessTypes
  <2> QED
    BY <1>14, <2>1, <2>3, <2>4 DEF Launch, StripeTypes, TenantTypes, stripe, tenant
<1>15. CASE RecordTask(h)
  <2>1. HandlerTypes'
    BY <1>15, LeaveTypes DEF RecordTask
  <2>2. {ev[h].sub} \in SUBSET Sub
    BY <1>15, <1>0 DEF RecordTask
  <2>3. FaultTypes'
    BY <1>15, <2>2, FineTypes, FaultTypesStay DEF RecordTask
  <2>4. HarnessTypes'
    BY <1>15, <2>2 DEF RecordTask, HarnessTypes
  <2> QED
    BY <1>15, <2>1, <2>3, <2>4 DEF RecordTask, StripeTypes, TenantTypes, stripe, tenant
<1>16. CASE MarkError(h)
  <2>1. HandlerTypes'
    BY <1>16, LeaveTypes DEF MarkError
  <2>2. {ev[h].sub} \in SUBSET Sub
    BY <1>16, <1>0 DEF MarkError
  <2>3. FaultTypes'
    BY <1>16, <2>2, FineTypes, FaultTypesStay DEF MarkError, SetRow
  <2>4. HarnessTypes'
    BY <1>16 DEF MarkError, SetRow, HarnessTypes, RowStatus
  <2> QED
    BY <1>16, <2>1, <2>3, <2>4 DEF MarkError, StripeTypes, TenantTypes, stripe, tenant
<1> QED
  BY <1>1, <1>2, <1>3, <1>4, <1>5, <1>6, <1>7, <1>8, <1>9, <1>10, <1>11, <1>12, <1>13, <1>14,
     <1>15, <1>16
  DEF Handle

LEMMA TypesStay ==
  ASSUME TypeOK, PlacesFit, [Next]_vars
  PROVE  TypeOK'
<1> USE TypesAre, TypesNext
<1>1. ASSUME NEW s \in Sub, Stripe(s) PROVE TypeOK'
  BY <1>1, StripeTypesStay
  DEF Stripe, TenantTypes, HarnessTypes, HandlerTypes, FaultTypes, tenant, harness, hvars, history
<1>2. ASSUME NEW t \in Sub, Poll(t) PROVE TypeOK'
  <2>1. {t} \in SUBSET Sub
    OBVIOUS
  <2>2. FaultTypes'
    <3>1. CASE excused' = excused \cup {t} /\ UNCHANGED <<up, trouble, faults>>
      BY <3>1 DEF FaultTypes
    <3> QED
      BY <1>2, <2>1, <3>1, FineTypes, FaultTypesStay DEF Poll
  <2>3. HarnessTypes'
    BY <1>2 DEF Poll, HarnessTypes, RowStatus
  <2> QED
    BY <1>2, <2>2, <2>3 DEF Poll, StripeTypes, TenantTypes, HandlerTypes, stripe, tenant, hvars
<1>3. ASSUME NEW h \in Handler, Handle(h) PROVE TypeOK'
  BY <1>3, HandleTypes
<1>4. ASSUME NEW h \in Handler, Timeout(h) PROVE TypeOK'
  <2>1. {ev[h].sub} \cup up \in SUBSET Sub
    BY <1>4, BusyHasEvent DEF Timeout, Busy, TypeOK
  <2>2. FaultTypes' /\ HandlerTypes'
    BY <1>4, <2>1, FaultTypesStay, LeaveTypes DEF Timeout
  <2> QED
    BY <1>4, <2>2
    DEF Timeout, StripeTypes, TenantTypes, HarnessTypes, stripe, tenant, harness
<1>5. CASE Crash
  <2>1. \A h \in Handler : Busy(h) => ev[h].sub \in Sub
    BY BusyHasEvent DEF Busy
  <2>2. up \cup {ev[h].sub : h \in {g \in Handler : Busy(g)}} \in SUBSET Sub
    BY <2>1 DEF TypeOK
  <2>3. FaultTypes'
    BY <1>5, <2>2, FaultTypesStay DEF Crash
  <2>4. HandlerTypes'
    BY <1>5 DEF Crash, HandlerTypes, Places
  <2> QED
    BY <1>5, <2>3, <2>4 DEF Crash, StripeTypes, TenantTypes, HarnessTypes, stripe, tenant
<1>6. CASE UNCHANGED vars
  BY <1>6
  DEF vars, StripeTypes, TenantTypes, HarnessTypes, HandlerTypes, FaultTypes,
      stripe, tenant, harness, hvars, history
<1> QED
  BY <1>1, <1>2, <1>3, <1>4, <1>5, <1>6 DEF Next

-----------------------------------------------------------------------------
(* Tasks: steps that neither launch nor record one.                          *)

(* A handler leaves, or goes on with what it handles. *)
Onward(h) ==
  /\ Stays(h)
  /\ \/ pc'[h] = "idle" /\ phantom'[h] = FALSE
     \/ /\ pc[h] # "idle" /\ ev'[h] = ev[h]
        /\ pc'[h] \in CheckoutPlaces => pc[h] \in CheckoutPlaces
        /\ pc'[h] \in DeletionPlaces => pc[h] \in DeletionPlaces
        /\ pc'[h] \notin {"updated", "paid", "failed"}
        /\ pc'[h] = "stop" => mine'[h] # None

LEMMA PlacesStay ==
  ASSUME PlacesFit, NEW h \in Handler, Onward(h)
  PROVE  PlacesFit'
<1> SUFFICES ASSUME NEW g \in Handler PROVE PlaceFits(g)'
  BY DEF PlacesFit
<1>1. CASE g # h
  BY <1>1 DEF Onward, Stays, PlacesFit, PlaceFits
<1>2. CASE g = h /\ pc'[h] = "idle"
  BY <1>2 DEF PlaceFits, CheckoutPlaces, DeletionPlaces
<1>3. CASE g = h /\ pc'[h] # "idle"
  BY <1>3 DEF Onward, PlacesFit, PlaceFits
<1> QED
  BY <1>1, <1>2, <1>3

LEMMA OverlapsStay ==
  ASSUME OverlapsExcused, NEW h \in Handler, Onward(h), excused \subseteq excused'
  PROVE  OverlapsExcused'
<1> SUFFICES ASSUME NEW g \in Handler, NEW k \in Handler, g # k,
                    pc'[g] \in CheckoutPlaces, pc'[k] \in CheckoutPlaces \cup DeletionPlaces
             PROVE  ev'[g].sub \in excused'
  BY DEF OverlapsExcused
<1>1. pc[g] \in CheckoutPlaces /\ ev'[g] = ev[g]
  BY DEF Onward, Stays, CheckoutPlaces, DeletionPlaces
<1>2. pc[k] \in CheckoutPlaces \cup DeletionPlaces
  BY DEF Onward, Stays, CheckoutPlaces, DeletionPlaces
<1> QED
  BY <1>1, <1>2 DEF OverlapsExcused

(* A handler that another one overlaps. *)
LEMMA Overlap ==
  ASSUME PlacesFit, OverlapsExcused, NEW g \in Handler, NEW h \in Handler, g # h,
         pc[g] \in CheckoutPlaces, pc[h] \in CheckoutPlaces \cup DeletionPlaces
  PROVE  ev[g].sub \in excused
BY DEF OverlapsExcused

(* Who was about to record a task still is, unless it is excused.            *)
LEMMA RecordingStays ==
  ASSUME NEW h \in Handler, Stays(h), NEW t, Recording(t),
         pc[h] # "record" \/ ev[h].sub # t
  PROVE  Recording(t)'
<1>1. PICK g \in Handler : pc[g] = "record" /\ ev[g].sub = t
  BY DEF Recording
<1>2. pc'[g] = "record" /\ ev'[g].sub = t
  BY <1>1 DEF Stays
<1> QED
  BY <1>1, <1>2 DEF Recording

(* A step that leaves the row and its task alone. *)
Aside(h) ==
  /\ Stays(h) /\ row' = row /\ task' = task
  /\ up' \subseteq up /\ polling' \subseteq polling /\ excused \subseteq excused'
  /\ pc[h] = "record" => ev[h].sub \in excused'

LEMMA SettledStays ==
  ASSUME NEW h \in Handler, Aside(h), Settled
  PROVE  Settled'
<1> SUFFICES ASSUME NEW t \in up' \ excused' PROVE Recording(t)'
  BY DEF Settled
<1>1. t \in up \ excused
  BY DEF Aside
<1>2. Recording(t)
  BY <1>1 DEF Settled
<1> QED
  BY <1>2, RecordingStays DEF Aside

LEMMA AsideKeeps ==
  ASSUME TypeOK, TasksInv, NEW h \in Handler, Aside(h), PlacesFit', OverlapsExcused',
         RowFits(h)', Alone(h)'
  PROVE  TasksInv'
<1>s. Settled => Settled'
  BY SettledStays
<1>r. \A t \in up' \ excused' : t \in up \ excused /\ (Recording(t) => Recording(t)')
  BY RecordingStays DEF Aside
<1>3. RowBefore'
  <2>1. ASSUME NEW g \in Handler, g # h PROVE RowFits(g)'
    BY <2>1 DEF TasksInv, RowBefore, RowFits, Aside, Stays
  <2>2. row' = "none" => polling' = {}
    BY DEF TasksInv, RowBefore, Aside
  <2> QED
    BY <2>1, <2>2 DEF RowBefore
<1>4. CheckoutsAlone'
  <2>1. ASSUME NEW g \in Handler, g # h PROVE Alone(g)'
    <3>1. Alone(g) /\ pc'[g] = pc[g] /\ ev'[g] = ev[g] /\ mine'[g] = mine[g]
      BY <2>1 DEF TasksInv, CheckoutsAlone, Aside, Stays
    <3>2. pc'[g] \in Launching \cup {"error", "mark"} => Settled'
      BY <3>1, <1>s DEF Alone
    <3>3. pc'[g] = "stop" => \A t \in up' \ excused' : t = mine'[g] \/ Recording(t)'
      BY <3>1, <1>r DEF Alone
    <3>4. pc'[g] \in Launching /\ ev'[g].sub \notin excused' => polling' = {}
      BY <3>1 DEF Alone, Aside
    <3>5. pc'[g] \in {"launch", "record"} /\ ev'[g].sub \notin excused' => row' \in Alive
      BY <3>1 DEF Alone, Aside
    <3> QED
      BY <3>2, <3>3, <3>4, <3>5 DEF Alone, Alive
  <2> QED
    BY <2>1 DEF CheckoutsAlone
<1>5. RowIsRight'
  BY <1>s DEF TasksInv, RowIsRight, Aside, Alive
<1>6. NoTaskIsLost'
  <2> SUFFICES ASSUME NEW t \in up' \ excused' PROVE t = task' \/ Recording(t)'
    BY DEF NoTaskIsLost, Recording
  <2>1. t = task \/ Recording(t)
    BY <1>r DEF TasksInv, NoTaskIsLost, Recording
  <2> QED
    BY <1>r, <2>1 DEF Aside
<1> QED
  BY <1>3, <1>4, <1>5, <1>6 DEF TasksInv

(* A handler that leaves. *)
LEMMA LeavingKeeps ==
  ASSUME TypeOK, TasksInv, NEW h \in Handler, Leave(h), row' = row, task' = task,
         up' \subseteq up, polling' \subseteq polling, excused \subseteq excused',
         pc[h] = "record" => ev[h].sub \in excused'
  PROVE  TasksInv'
<1>0. Aside(h) /\ Onward(h)
  BY LeaveFacts DEF Aside, Onward
<1>1. PlacesFit' /\ OverlapsExcused'
  BY <1>0, PlacesStay, OverlapsStay DEF Aside, TasksInv
<1>2. pc'[h] = "idle" /\ phantom'[h] = FALSE
  BY LeaveFacts
<1>3. RowFits(h)'
  BY <1>2 DEF RowFits, Touching, Claimed
<1>4. Alone(h)'
  BY <1>2 DEF Alone, Launching
<1> QED
  BY <1>0, <1>1, <1>3, <1>4, AsideKeeps

LEMMA FineExcuses ==
  ASSUME Fine \/ (\E tasks : Fault(tasks))
  PROVE  excused \subseteq excused'
BY DEF Fine, Fault

(* A handler that goes on at a place from which it does not touch the harness. *)
Elsewhere == {"cancel", "select", "read", "existing"}

LEMMA GoingKeeps ==
  ASSUME TypeOK, TasksInv, NEW h \in Handler, NEW place \in Elsewhere, Goto(h, place),
         place \in CheckoutPlaces => pc[h] \in CheckoutPlaces,
         place \in DeletionPlaces => pc[h] \in DeletionPlaces,
         place = "read" => row # "none",
         row' = row, task' = task, up' = up, polling' = polling, excused \subseteq excused',
         pc[h] # "record", phantom[h] = FALSE
  PROVE  TasksInv'
<1>1. Stays(h) /\ pc'[h] = place /\ ev' = ev /\ phantom' = phantom /\ pc[h] # "idle"
  BY GotoFacts DEF Elsewhere, CheckoutPlaces, DeletionPlaces
<1>2. Aside(h) /\ Onward(h)
  BY <1>1 DEF Aside, Onward, Elsewhere
<1>3. PlacesFit' /\ OverlapsExcused'
  BY <1>2, PlacesStay, OverlapsStay DEF Aside, TasksInv
<1>4. RowFits(h)'
  BY <1>1 DEF RowFits, Touching, Claimed, Elsewhere
<1>5. Alone(h)'
  BY <1>1 DEF Alone, Launching, Elsewhere
<1> QED
  BY <1>2, <1>3, <1>4, <1>5, AsideKeeps

LEMMA DeliverKeeps ==
  ASSUME TypeOK, TasksInv, NEW h \in Handler, Deliver(h)
  PROVE  TasksInv'
<1>1. /\ pc[h] = "idle" /\ Stays(h) /\ mine' = mine /\ phantom' = phantom
      /\ row' = row /\ task' = task /\ up' = up /\ polling' = polling
  BY DeliverFacts DEF Deliver, harness
<1>2. PICK e \in pending :
        /\ e \in Event /\ ev'[h] = e /\ pc'[h] = e.kind
        /\ excused' = excused \cup Overlapping(h, e)
  BY DeliverFacts
<1>3. e.kind \in Kinds
  BY <1>2 DEF Event
<1>4. Aside(h)
  BY <1>1, <1>2 DEF Aside
<1>5. PlacesFit'
  <2> SUFFICES ASSUME NEW g \in Handler PROVE PlaceFits(g)'
    BY DEF PlacesFit
  <2>1. CASE g # h
    BY <1>1, <2>1 DEF Stays, TasksInv, PlacesFit, PlaceFits
  <2>2. CASE g = h
    BY <1>2, <1>3, <2>2 DEF PlaceFits, Kinds, CheckoutPlaces, DeletionPlaces
  <2> QED
    BY <2>1, <2>2
<1>6. OverlapsExcused'
  <2> SUFFICES ASSUME NEW g \in Handler, NEW k \in Handler, g # k,
                      pc'[g] \in CheckoutPlaces, pc'[k] \in CheckoutPlaces \cup DeletionPlaces
               PROVE  ev'[g].sub \in excused'
    BY DEF OverlapsExcused
  <2>1. CASE g # h /\ k # h
    <3>1. ev[g].sub \in excused
      BY <1>1, <2>1 DEF Stays, TasksInv, OverlapsExcused
    <3> QED
      BY <1>1, <1>2, <2>1, <3>1 DEF Stays
  <2>2. CASE g = h
    <3>1. e.kind = "checkout"
      BY <1>2, <1>3, <2>2 DEF Kinds, CheckoutPlaces
    <3>2. pc[k] \in CheckoutPlaces \cup DeletionPlaces
      BY <1>1, <2>2 DEF Stays
    <3>3. k \in Others(h) /\ ev[k].kind \in Steering
      BY <2>2, <3>2 DEF Others, Busy, TasksInv, PlacesFit, PlaceFits, Steering, CheckoutPlaces,
                        DeletionPlaces
    <3>4. e.sub \in Overlapping(h, e)
      BY <3>1, <3>3 DEF Overlapping, Steering
    <3> QED
      BY <1>2, <2>2, <3>4
  <2>3. CASE k = h
    <3>1. e.kind \in Steering
      BY <1>2, <1>3, <2>3 DEF Kinds, CheckoutPlaces, DeletionPlaces, Steering
    <3>2. pc[g] \in CheckoutPlaces /\ ev'[g] = ev[g]
      BY <1>1, <2>3 DEF Stays
    <3>3. g \in Others(h) /\ ev[g].kind = "checkout"
      BY <2>3, <3>2 DEF Others, Busy, TasksInv, PlacesFit, PlaceFits, CheckoutPlaces
    <3>4. ev[g].sub \in Overlapping(h, e)
      BY <3>1, <3>3 DEF Overlapping, Steering
    <3> QED
      BY <1>2, <3>2, <3>4
  <2> QED
    BY <2>1, <2>2, <2>3
<1>7. phantom[h] = FALSE
  BY <1>1 DEF TasksInv, RowBefore, RowFits, Claimed, TypeOK
<1>8. RowFits(h)'
  BY <1>1, <1>2, <1>3, <1>7 DEF RowFits, Kinds, Touching, Claimed
<1>9. Alone(h)'
  BY <1>2, <1>3 DEF Alone, Launching, Kinds
<1> QED
  BY <1>4, <1>5, <1>6, <1>8, <1>9, AsideKeeps

LEMMA UpdateKeeps ==
  ASSUME TypeOK, TasksInv, NEW h \in Handler, SubscriptionUpdated(h) \/ Invoice(h)
  PROVE  TasksInv'
<1>1. Leave(h) /\ pc[h] # "record" /\ UNCHANGED harness
  BY DEF SubscriptionUpdated, Invoice
<1>2. excused \subseteq excused'
  BY FineExcuses DEF SubscriptionUpdated, Invoice, SetStatus
<1> QED
  BY <1>1, <1>2, LeavingKeeps DEF harness

(* Only a checkout that claimed a row may have none. *)
LEMMA NoPhantom ==
  ASSUME TypeOK, TasksInv, NEW h \in Handler, pc[h] \notin Claimed
  PROVE  phantom[h] = FALSE
BY DEF TasksInv, RowBefore, RowFits, TypeOK

LEMMA FindTenantKeeps ==
  ASSUME TypeOK, TasksInv, NEW h \in Handler, FindTenant(h)
  PROVE  TasksInv'
<1>1. pc[h] = "deleted" /\ UNCHANGED harness /\ excused \subseteq excused'
  BY FineExcuses DEF FindTenant
<1>2. CASE Goto(h, "cancel")
  BY <1>1, <1>2, NoPhantom, GoingKeeps
  DEF harness, Elsewhere, CheckoutPlaces, DeletionPlaces, Claimed
<1>3. CASE Leave(h)
  BY <1>1, <1>3, LeavingKeeps DEF harness
<1> QED
  BY <1>2, <1>3 DEF FindTenant

LEMMA CancelKeeps ==
  ASSUME TypeOK, TasksInv, NEW h \in Handler, Cancel(h)
  PROVE  TasksInv'
<1>1. pc[h] = "cancel" /\ UNCHANGED harness /\ Goto(h, "select")
  BY DEF Cancel
<1>2. excused \subseteq excused'
  BY FineExcuses DEF Cancel, SetStatus
<1> QED
  BY <1>1, <1>2, NoPhantom, GoingKeeps
  DEF harness, Elsewhere, CheckoutPlaces, DeletionPlaces, Claimed

LEMMA SelectHarnessKeeps ==
  ASSUME TypeOK, TasksInv, NEW h \in Handler, SelectHarness(h)
  PROVE  TasksInv'
<1>1. pc[h] = "select" /\ UNCHANGED harness /\ excused \subseteq excused'
  BY FineExcuses DEF SelectHarness
<1>2. CASE Selected /\ Goto(h, "read")
  BY <1>1, <1>2, NoPhantom, GoingKeeps
  DEF Selected, harness, Elsewhere, CheckoutPlaces, DeletionPlaces, Claimed
<1>3. CASE Leave(h)
  BY <1>1, <1>3, LeavingKeeps DEF harness
<1> QED
  BY <1>2, <1>3 DEF SelectHarness

LEMMA ActivateKeeps ==
  ASSUME TypeOK, TasksInv, NEW h \in Handler, Activate(h)
  PROVE  TasksInv'
<1>1. pc[h] = "checkout" /\ UNCHANGED harness /\ Goto(h, "existing")
  BY DEF Activate
<1>2. excused \subseteq excused'
  BY FineExcuses DEF Activate, SetStatus
<1> QED
  BY <1>1, <1>2, NoPhantom, GoingKeeps
  DEF harness, Elsewhere, CheckoutPlaces, DeletionPlaces, Claimed

LEMMA ReadTaskKeeps ==
  ASSUME TypeOK, TasksInv, NEW h \in Handler, ReadTask(h)
  PROVE  TasksInv'
<1>1. /\ pc[h] = "read" /\ row' = row /\ task' = task /\ up' = up /\ polling' = polling
      /\ excused \subseteq excused'
  BY FineExcuses DEF ReadTask, harness
<1>2. CASE Leave(h)
  BY <1>1, <1>2, LeavingKeeps
<1>3. CASE /\ task # None /\ Fine /\ mine' = [mine EXCEPT ![h] = task]
           /\ pc' = [pc EXCEPT ![h] = "stop"] /\ UNCHANGED <<ev, phantom>>
  <2>1. Stays(h) /\ pc'[h] = "stop" /\ mine'[h] = task /\ ev' = ev /\ phantom' = phantom
    BY <1>3 DEF Stays, TypeOK
  <2>2. Aside(h) /\ Onward(h)
    BY <1>1, <1>3, <2>1 DEF Aside, Onward, DeletionPlaces, CheckoutPlaces
  <2>3. PlacesFit' /\ OverlapsExcused'
    BY <2>2, PlacesStay, OverlapsStay DEF Aside, TasksInv
  <2>4. RowFits(h)'
    BY <1>1, <2>1 DEF TasksInv, RowBefore, RowFits, Touching, Claimed
  <2>5. \A t \in up' \ excused' : t = mine'[h] \/ Recording(t)'
    <3> SUFFICES ASSUME NEW t \in up' \ excused' PROVE t = mine'[h] \/ Recording(t)'
      OBVIOUS
    <3>1. t = task \/ Recording(t)
      BY <1>1 DEF TasksInv, NoTaskIsLost, Recording
    <3> QED
      BY <1>1, <2>1, <3>1, RecordingStays
  <2>6. Alone(h)'
    BY <2>1, <2>5 DEF Alone, Launching
  <2> QED
    BY <2>2, <2>3, <2>4, <2>6, AsideKeeps
<1> QED
  BY <1>2, <1>3 DEF ReadTask

LEMMA StopTaskKeeps ==
  ASSUME TypeOK, TasksInv, NEW h \in Handler, StopTask(h)
  PROVE  TasksInv'
<1>1. /\ pc[h] = "stop" /\ row' = row /\ task' = task /\ polling' = polling
      /\ up' \subseteq up /\ excused \subseteq excused' /\ Goto(h, "mark")
  BY FineExcuses DEF StopTask
<1>2. mine[h] \notin up' \ excused'
  BY DEF StopTask, Fine, Fault
<1>3. Stays(h) /\ pc'[h] = "mark" /\ ev' = ev /\ phantom' = phantom
  BY <1>1, GotoFacts
<1>4. Aside(h) /\ Onward(h)
  BY <1>1, <1>3 DEF Aside, Onward, DeletionPlaces, CheckoutPlaces
<1>5. PlacesFit' /\ OverlapsExcused'
  BY <1>4, PlacesStay, OverlapsStay DEF Aside, TasksInv
<1>6. RowFits(h)'
  BY <1>1, <1>3 DEF TasksInv, RowBefore, RowFits, Touching, Claimed
<1>7. Settled'
  <2> SUFFICES ASSUME NEW t \in up' \ excused' PROVE Recording(t)'
    BY DEF Settled
  <2>1. t = mine[h] \/ Recording(t)
    BY <1>1 DEF TasksInv, CheckoutsAlone, Alone
  <2> QED
    BY <1>1, <1>2, <1>3, <2>1, RecordingStays
<1>8. Alone(h)'
  BY <1>3, <1>7 DEF Alone, Launching
<1> QED
  BY <1>4, <1>5, <1>6, <1>8, AsideKeeps

LEMMA LookForHarnessKeeps ==
  ASSUME TypeOK, TasksInv, NEW h \in Handler, LookForHarness(h)
  PROVE  TasksInv'
<1>1. /\ pc[h] = "existing" /\ row' = row /\ task' = task /\ up' = up /\ polling' = polling
  BY DEF LookForHarness, harness
<1>2. excused \subseteq excused'
  BY FineExcuses DEF LookForHarness
<1>3. CASE Leave(h)
  BY <1>1, <1>2, <1>3, LeavingKeeps
<1>4. ASSUME NEW place \in {"insert", "reuse"}, Goto(h, place),
             Settled', ev[h].sub \in excused' \/ polling = {},
             place = "insert" => row = "none" \/ ev[h].sub \in excused',
             place = "reuse" => row # "none"
      PROVE  TasksInv'
  <2>1. Stays(h) /\ pc'[h] = place /\ ev' = ev /\ phantom' = phantom
    BY <1>4, GotoFacts
  <2>2. Aside(h) /\ Onward(h)
    BY <1>1, <1>2, <2>1 DEF Aside, Onward, DeletionPlaces, CheckoutPlaces
  <2>3. PlacesFit' /\ OverlapsExcused'
    BY <2>2, PlacesStay, OverlapsStay DEF Aside, TasksInv
  <2>4. phantom[h] = FALSE
    BY <1>1, NoPhantom DEF Claimed
  <2>5. RowFits(h)'
    BY <1>1, <1>4, <2>1, <2>4 DEF RowFits, Touching, Claimed
  <2>6. Alone(h)'
    BY <1>1, <1>4, <2>1 DEF Alone, Launching
  <2> QED
    BY <2>2, <2>3, <2>5, <2>6, AsideKeeps
<1>5. CASE /\ row \notin Alive /\ Goto(h, IF row = "none" THEN "insert" ELSE "reuse")
           /\ excused' = IF polling = {} THEN excused ELSE excused \cup {ev[h].sub}
  <2>1. Settled
    BY <1>5 DEF TasksInv, RowIsRight
  <2>2. Stays(h)
    BY <1>5, GotoFacts
  <2>3. Settled'
    BY <1>1, <1>2, <2>1, <2>2, SettledStays DEF Aside
  <2>4. ev[h].sub \in excused' \/ polling = {}
    BY <1>5
  <2> QED
    BY <1>4, <1>5, <2>3, <2>4
<1>6. CASE Fault({ev[h].sub} \cup up) /\ Goto(h, "insert")
  <2>1. up' \subseteq excused' /\ ev[h].sub \in excused'
    BY <1>1, <1>6 DEF Fault
  <2>2. Settled'
    BY <2>1 DEF Settled
  <2> QED
    BY <1>4, <1>6, <2>1, <2>2
<1> QED
  BY <1>3, <1>5, <1>6 DEF LookForHarness

-----------------------------------------------------------------------------
(* Tasks: steps that change the row, launch a task or record it.             *)

(* While a checkout past its look, or the last step of a deletion, is under   *)
(* way, no other task than its own can be about to be recorded.              *)
LEMMA OnlyItsOwn ==
  ASSUME TypeOK, TasksInv, NEW h \in Handler, pc[h] \in Launching \cup {"error", "mark"},
         NEW t \in up \ excused
  PROVE  pc[h] = "record" /\ t = ev[h].sub
<1>1. PICK g \in Handler : pc[g] = "record" /\ ev[g].sub = t
  BY DEF TasksInv, CheckoutsAlone, Alone, Settled, Recording
<1>2. g = h
  BY <1>1, Overlap DEF TasksInv, Launching, CheckoutPlaces, DeletionPlaces
<1> QED
  BY <1>1, <1>2

(* What the other handlers need when no task is left to lose.                 *)
LEMMA OthersAlone ==
  ASSUME TypeOK, TasksInv, NEW h \in Handler, Stays(h),
         pc[h] \in CheckoutPlaces \cup DeletionPlaces,
         excused \subseteq excused', polling' = polling, Settled',
         NEW g \in Handler, g # h
  PROVE  Alone(g)'
<1>1. Alone(g) /\ pc'[g] = pc[g] /\ ev'[g] = ev[g] /\ mine'[g] = mine[g]
  BY DEF TasksInv, CheckoutsAlone, Stays
<1>2. pc[g] \in {"launch", "record"} => ev[g].sub \in excused
  BY Overlap DEF TasksInv, CheckoutPlaces
<1>3. pc'[g] = "stop" => \A t \in up' \ excused' : t = mine'[g] \/ Recording(t)'
  BY DEF Settled
<1>4. pc'[g] \in Launching /\ ev'[g].sub \notin excused' => polling' = {}
  BY <1>1 DEF Alone
<1> QED
  BY <1>1, <1>2, <1>3, <1>4 DEF Alone

LEMMA OthersRow ==
  ASSUME TypeOK, TasksInv, NEW h \in Handler, Stays(h),
         pc[h] \in CheckoutPlaces \cup DeletionPlaces,
         excused \subseteq excused', row' = "none" => row = "none",
         NEW g \in Handler, g # h
  PROVE  RowFits(g)'
<1>1. RowFits(g) /\ pc'[g] = pc[g] /\ ev'[g] = ev[g] /\ phantom'[g] = phantom[g]
  BY DEF TasksInv, RowBefore, Stays
<1>2. pc[g] = "insert" => ev[g].sub \in excused
  BY Overlap DEF TasksInv, CheckoutPlaces
<1> QED
  BY <1>1, <1>2 DEF RowFits

(* A step on the row of a handler that leaves no other task to lose.          *)
LEMMA RowKeeps ==
  ASSUME TypeOK, TasksInv, NEW h \in Handler, Onward(h),
         pc[h] \in CheckoutPlaces \cup DeletionPlaces,
         excused \subseteq excused', task' = task, up' = up, polling' = polling,
         row' = "none" => row = "none", Settled', RowFits(h)', Alone(h)'
  PROVE  TasksInv'
<1>1. PlacesFit' /\ OverlapsExcused'
  BY PlacesStay, OverlapsStay DEF TasksInv
<1>2. RowBefore'
  BY OthersRow DEF TasksInv, RowBefore, Onward
<1>3. CheckoutsAlone'
  BY OthersAlone DEF CheckoutsAlone, Onward
<1>4. RowIsRight'
  BY DEF TasksInv, RowIsRight
<1>5. NoTaskIsLost'
  BY DEF Settled, NoTaskIsLost, Recording
<1> QED
  BY <1>1, <1>2, <1>3, <1>4, <1>5 DEF TasksInv

LEMMA ClaimRowKeeps ==
  ASSUME TypeOK, TasksInv, NEW h \in Handler, ClaimRow(h)
  PROVE  TasksInv'
<1>1. /\ pc[h] \in {"insert", "reuse"} /\ pc' = [pc EXCEPT ![h] = "provision"]
      /\ task' = task /\ up' = up /\ polling' = polling /\ ev' = ev /\ mine' = mine
  BY DEF ClaimRow
<1>2. excused \subseteq excused'
  BY FineExcuses DEF ClaimRow
<1>3. PICK b \in BOOLEAN : phantom' = [phantom EXCEPT ![h] = b]
  BY DEF ClaimRow
<1>4. Stays(h) /\ pc'[h] = "provision" /\ ev'[h] = ev[h] /\ phantom'[h] = b
  BY <1>1, <1>3 DEF Stays, TypeOK
<1>5. Onward(h)
  BY <1>1, <1>4 DEF Onward, CheckoutPlaces, DeletionPlaces
<1>6. pc[h] = "insert" => row = "none" \/ ev[h].sub \in excused
  BY DEF TasksInv, RowBefore, RowFits
<1>7. pc[h] = "reuse" => row # "none"
  BY DEF TasksInv, RowBefore, RowFits, Touching
<1>8. (b => ev[h].sub \in excused') /\ (row' = "none" => b /\ row = "none")
  <2>1. CASE /\ Fine /\ row' = IF pc[h] = "reuse" \/ row = "none" THEN "pending" ELSE row
             /\ phantom' = [phantom EXCEPT ![h] = ~(pc[h] = "reuse" \/ row = "none")]
    <3>1. b = ~(pc[h] = "reuse" \/ row = "none")
      BY <1>4, <2>1 DEF TypeOK
    <3> QED
      BY <1>1, <1>2, <1>6, <2>1, <3>1
  <2>2. CASE /\ Fault({ev[h].sub}) /\ UNCHANGED row
             /\ phantom' = [phantom EXCEPT ![h] = pc[h] = "insert"]
    <3>1. b = (pc[h] = "insert")
      BY <1>4, <2>2 DEF TypeOK
    <3> QED
      BY <1>1, <1>7, <2>2, <3>1 DEF Fault
  <2> QED
    BY <2>1, <2>2 DEF ClaimRow
<1>9. Settled'
  BY <1>1, <1>2, OnlyItsOwn DEF Settled, Launching
<1>10. RowFits(h)'
  BY <1>4, <1>8 DEF RowFits, Claimed, Touching
<1>11. Alone(h)'
  <2>1. Alone(h)
    BY DEF TasksInv, CheckoutsAlone
  <2>2. ev[h].sub \notin excused' => polling' = {}
    BY <1>1, <1>2, <2>1 DEF Alone, Launching
  <2> QED
    BY <1>4, <1>9, <2>2 DEF Alone
<1> QED
  BY <1>1, <1>2, <1>5, <1>8, <1>9, <1>10, <1>11, RowKeeps DEF CheckoutPlaces

LEMMA MarkProvisioningKeeps ==
  ASSUME TypeOK, TasksInv, NEW h \in Handler, MarkProvisioning(h)
  PROVE  TasksInv'
<1>1. /\ pc[h] = "provision" /\ SetRow(h, "provisioning") /\ Goto(h, "launch")
      /\ task' = task /\ up' = up /\ polling' = polling
  BY DEF MarkProvisioning
<1>2. excused \subseteq excused'
  BY <1>1, FineExcuses DEF SetRow
<1>3. Stays(h) /\ pc'[h] = "launch" /\ ev' = ev /\ phantom' = phantom
  BY <1>1, GotoFacts
<1>4. Onward(h)
  BY <1>1, <1>3 DEF Onward, CheckoutPlaces, DeletionPlaces
<1>5. RowFits(h)
  BY DEF TasksInv, RowBefore
<1>6. row' = "none" => row = "none"
  BY <1>1 DEF SetRow
<1>7. Settled'
  BY <1>1, <1>2, OnlyItsOwn DEF Settled, Launching
<1>8. RowFits(h)'
  BY <1>1, <1>2, <1>3, <1>5, <1>6 DEF RowFits, Claimed, Touching
<1>9. row' \in Alive \/ ev[h].sub \in excused'
  BY <1>1, <1>2, <1>5 DEF SetRow, RowFits, Fault, Alive
<1>10. Alone(h)'
  <2>1. Alone(h)
    BY DEF TasksInv, CheckoutsAlone
  <2>2. ev[h].sub \notin excused' => polling' = {}
    BY <1>1, <1>2, <2>1 DEF Alone, Launching
  <2> QED
    BY <1>3, <1>7, <1>9, <2>2 DEF Alone
<1> QED
  BY <1>1, <1>2, <1>4, <1>6, <1>7, <1>8, <1>10, RowKeeps DEF CheckoutPlaces

LEMMA MarkErrorKeeps ==
  ASSUME TypeOK, TasksInv, NEW h \in Handler, MarkError(h)
  PROVE  TasksInv'
<1>1. /\ pc[h] = "error" /\ SetRow(h, "error") /\ Leave(h)
      /\ task' = task /\ up' = up /\ polling' = polling
  BY DEF MarkError
<1>2. excused \subseteq excused'
  BY <1>1, FineExcuses DEF SetRow
<1>3. Stays(h) /\ pc'[h] = "idle" /\ phantom'[h] = FALSE
  BY <1>1, LeaveFacts
<1>4. Onward(h)
  BY <1>3 DEF Onward
<1>5. row' = "none" => row = "none"
  BY <1>1 DEF SetRow
<1>6. Settled'
  BY <1>1, <1>2, OnlyItsOwn DEF Settled
<1>7. RowFits(h)' /\ Alone(h)'
  BY <1>3 DEF RowFits, Alone, Claimed, Touching, Launching
<1> QED
  BY <1>1, <1>2, <1>4, <1>5, <1>6, <1>7, RowKeeps DEF CheckoutPlaces

LEMMA MarkStoppedKeeps ==
  ASSUME TypeOK, TasksInv, NEW h \in Handler, MarkStopped(h)
  PROVE  TasksInv'
<1>1. /\ pc[h] = "mark" /\ Leave(h) /\ task' = task /\ up' = up /\ polling' = polling
      /\ row' \in {row, "stopped"}
  BY DEF MarkStopped, Stopped
<1>2. excused \subseteq excused'
  BY FineExcuses DEF MarkStopped
<1>3. Stays(h) /\ pc'[h] = "idle" /\ phantom'[h] = FALSE
  BY <1>1, LeaveFacts
<1>4. Onward(h)
  BY <1>3 DEF Onward
<1>5. Settled'
  BY <1>1, <1>2, OnlyItsOwn DEF Settled
<1>6. RowFits(h)' /\ Alone(h)'
  BY <1>3 DEF RowFits, Alone, Claimed, Touching, Launching
<1> QED
  BY <1>1, <1>2, <1>4, <1>5, <1>6, RowKeeps DEF DeletionPlaces

LEMMA LaunchKeeps ==
  ASSUME TypeOK, TasksInv, NEW h \in Handler, Launch(h)
  PROVE  TasksInv'
<1> DEFINE t == ev[h].sub
<1>1. /\ pc[h] = "launch" /\ up' \subseteq up \cup {t}
      /\ task' = task /\ row' = row /\ polling' = polling
  BY DEF Launch
<1>2. excused \subseteq excused'
  BY FineExcuses DEF Launch
<1>3. /\ Stays(h) /\ ev' = ev /\ phantom' = phantom
      /\ pc'[h] = "record" \/ (pc'[h] = "error" /\ t \in excused')
  BY GotoFacts DEF Launch, Fault
<1>4. Onward(h)
  BY <1>1, <1>3 DEF Onward, CheckoutPlaces, DeletionPlaces
<1>5. Alone(h) /\ RowFits(h)
  BY DEF TasksInv, CheckoutsAlone, RowBefore
<1>6. t \notin excused => polling = {} /\ row \in Alive
  BY <1>1, <1>5 DEF Alone, Launching
<1>7. \A u \in up' \ excused' : u = t
  BY <1>1, <1>2, OnlyItsOwn DEF Launching
<1>8. \A u : u = t => u \in excused' \/ Recording(u)'
  BY <1>3 DEF Recording
<1> HIDE DEF t
<1>9. Settled'
  BY <1>7, <1>8 DEF Settled
<1>10. RowFits(h)'
  BY <1>1, <1>2, <1>3, <1>5 DEF RowFits, Claimed, Touching, t
<1>11. Alone(h)'
  BY <1>1, <1>2, <1>3, <1>6, <1>9 DEF Alone, t
<1>12. PlacesFit' /\ OverlapsExcused'
  BY <1>2, <1>4, PlacesStay, OverlapsStay DEF TasksInv
<1>13. RowBefore'
  BY <1>1, <1>2, <1>3, <1>10, OthersRow DEF TasksInv, RowBefore, CheckoutPlaces
<1>14. CheckoutsAlone'
  BY <1>1, <1>2, <1>3, <1>9, <1>11, OthersAlone DEF CheckoutsAlone, CheckoutPlaces
<1>15. RowIsRight'
  BY <1>1, <1>2, <1>6, <1>7, <1>9 DEF RowIsRight
<1>16. NoTaskIsLost'
  BY <1>9 DEF Settled, NoTaskIsLost, Recording
<1> QED
  BY <1>12, <1>13, <1>14, <1>15, <1>16 DEF TasksInv

LEMMA RecordTaskKeeps ==
  ASSUME TypeOK, TasksInv, NEW h \in Handler, RecordTask(h)
  PROVE  TasksInv'
<1> DEFINE t == ev[h].sub
<1>1. /\ pc[h] = "record" /\ up' = up /\ row' = row /\ Leave(h)
      /\ polling' = IF phantom[h] THEN polling ELSE polling \cup {t}
      /\ task' = t \/ (task' = task /\ (phantom[h] \/ t \in excused'))
  BY DEF RecordTask, Fault
<1>2. excused \subseteq excused'
  BY FineExcuses DEF RecordTask
<1>3. Stays(h) /\ pc'[h] = "idle" /\ phantom'[h] = FALSE
  BY <1>1, LeaveFacts
<1>4. Onward(h)
  BY <1>3 DEF Onward
<1>5. Alone(h) /\ RowFits(h)
  BY DEF TasksInv, CheckoutsAlone, RowBefore
<1>6. t \notin excused => polling = {} /\ row \in Alive /\ ~phantom[h]
  BY <1>1, <1>5 DEF Alone, Launching, RowFits
<1>7. \A u \in up' \ excused' : u = t
  BY <1>1, <1>2, OnlyItsOwn DEF Launching
<1>8. t \in excused' \/ task' = t
  BY <1>1, <1>2, <1>6
<1> HIDE DEF t
<1>9. t \in excused' => Settled'
  BY <1>7 DEF Settled
<1>10. PlacesFit' /\ OverlapsExcused'
  BY <1>2, <1>4, PlacesStay, OverlapsStay DEF TasksInv
<1>11. RowFits(h)' /\ Alone(h)'
  BY <1>3 DEF RowFits, Alone, Claimed, Touching, Launching
<1>12. RowBefore'
  <2>1. row' = "none" => polling' = {}
    BY <1>1, <1>5 DEF RowFits, Claimed, TasksInv, RowBefore
  <2> QED
    BY <1>1, <1>2, <1>3, <1>11, <2>1, OthersRow DEF RowBefore, CheckoutPlaces
<1>13. CheckoutsAlone'
  <2> SUFFICES ASSUME NEW g \in Handler, g # h PROVE Alone(g)'
    BY <1>11 DEF CheckoutsAlone
  <2>1. pc'[g] = pc[g] /\ ev'[g] = ev[g] /\ mine'[g] = mine[g]
    BY <1>3 DEF Stays
  <2>2. pc[g] \in CheckoutPlaces => ev[g].sub \in excused
    BY <1>1, Overlap DEF TasksInv, CheckoutPlaces
  <2>3. pc[g] \in CheckoutPlaces \cup DeletionPlaces => t \in excused
    BY <1>1, Overlap DEF TasksInv, CheckoutPlaces, t
  <2>4. pc'[g] \in CheckoutPlaces \cup DeletionPlaces => Settled'
    BY <1>2, <1>9, <2>1, <2>3
  <2>5. pc'[g] = "stop" => \A u \in up' \ excused' : u = mine'[g] \/ Recording(u)'
    BY <2>4 DEF Settled, DeletionPlaces
  <2> QED
    BY <1>2, <2>1, <2>2, <2>4, <2>5 DEF Alone, Launching, CheckoutPlaces, DeletionPlaces
<1>14. RowIsRight'
  <2>1. row' \notin Alive => Settled'
    BY <1>1, <1>2, <1>6, <1>9 DEF Alive
  <2>2. ASSUME task' \in up' \ excused' PROVE polling' \subseteq {task'}
    BY <1>1, <1>2, <1>6, <1>7, <2>2
  <2> QED
    BY <2>1, <2>2 DEF RowIsRight
<1>15. NoTaskIsLost'
  BY <1>7, <1>8 DEF NoTaskIsLost
<1> QED
  BY <1>10, <1>12, <1>13, <1>14, <1>15 DEF TasksInv

LEMMA PollKeeps ==
  ASSUME TypeOK, TasksInv, NEW t \in Sub, Poll(t)
  PROVE  TasksInv'
<1>1. /\ t \in polling /\ polling' = polling \ {t} /\ task' = task /\ up' \subseteq up
      /\ pc' = pc /\ ev' = ev /\ mine' = mine /\ phantom' = phantom
  BY DEF Poll, hvars
<1>2. excused \subseteq excused'
  BY FineExcuses DEF Poll
<1>3. row # "none" /\ row' # "none"
  BY <1>1 DEF Poll, TasksInv, RowBefore
<1>4. \A u : Recording(u) => Recording(u)'
  BY <1>1 DEF Recording
<1>5. Settled => Settled'
  BY <1>1, <1>2, <1>4 DEF Settled
<1>6. PlacesFit'
  BY <1>1 DEF TasksInv, PlacesFit, PlaceFits
<1>7. OverlapsExcused'
  BY <1>1, <1>2 DEF TasksInv, OverlapsExcused
<1>8. RowBefore'
  BY <1>1, <1>2, <1>3 DEF TasksInv, RowBefore, RowFits
<1>9. CheckoutsAlone'
  <2> SUFFICES ASSUME NEW g \in Handler PROVE Alone(g)'
    BY DEF CheckoutsAlone
  <2>1. Alone(g)
    BY DEF TasksInv, CheckoutsAlone
  <2>2. pc[g] \in Launching => ev[g].sub \in excused
    BY <1>1, <2>1 DEF Alone
  <2>3. pc'[g] \in Launching \cup {"error", "mark"} => Settled'
    BY <1>1, <1>5, <2>1 DEF Alone
  <2>4. pc'[g] = "stop" => \A u \in up' \ excused' : u = mine'[g] \/ Recording(u)'
    BY <1>1, <1>2, <1>4, <2>1 DEF Alone
  <2> QED
    BY <1>1, <1>2, <2>2, <2>3, <2>4 DEF Alone, Launching
<1>10. RowIsRight'
  <2>1. CASE row' = "running"
    BY <1>1, <1>2, <2>1 DEF TasksInv, RowIsRight, Alive
  <2>2. CASE row' = "error" /\ t \notin up' \ excused'
    <3>1. Settled'
      <4> SUFFICES ASSUME NEW u \in up' \ excused' PROVE Recording(u)'
        BY DEF Settled
      <4>1. u # t /\ u \in up \ excused
        BY <1>1, <1>2, <2>2
      <4>2. u # task
        BY <1>1, <4>1 DEF TasksInv, RowIsRight
      <4>3. Recording(u)
        BY <4>1, <4>2 DEF TasksInv, NoTaskIsLost, Recording
      <4> QED
        BY <1>4, <4>3
    <3> QED
      BY <1>1, <1>2, <3>1 DEF TasksInv, RowIsRight
  <2>3. CASE row' = row
    BY <1>1, <1>2, <1>5, <2>3 DEF TasksInv, RowIsRight
  <2> QED
    BY <2>1, <2>2, <2>3 DEF Poll
<1>11. NoTaskIsLost'
  BY <1>1, <1>2 DEF TasksInv, NoTaskIsLost
<1> QED
  BY <1>6, <1>7, <1>8, <1>9, <1>10, <1>11 DEF TasksInv

LEMMA CrashKeeps ==
  ASSUME TypeOK, TasksInv, Crash
  PROVE  TasksInv'
<1>1. /\ \A h \in Handler : pc'[h] = "idle" /\ phantom'[h] = FALSE
      /\ row' = row /\ up' = up /\ polling' = {} /\ up' \subseteq excused'
  BY DEF Crash, Fault
<1>2. PlacesFit' /\ OverlapsExcused'
  BY <1>1 DEF PlacesFit, PlaceFits, OverlapsExcused, CheckoutPlaces, DeletionPlaces
<1>3. RowBefore'
  BY <1>1 DEF RowBefore, RowFits, Touching, Claimed
<1>4. Settled' /\ NoTaskIsLost' /\ RowIsRight'
  BY <1>1 DEF Settled, NoTaskIsLost, RowIsRight
<1>5. CheckoutsAlone'
  BY <1>1 DEF CheckoutsAlone, Alone, Launching
<1> QED
  BY <1>2, <1>3, <1>4, <1>5 DEF TasksInv

LEMMA TasksStay ==
  ASSUME TypeOK, TasksInv, [Next]_vars
  PROVE  TasksInv'
<1>1. ASSUME UNCHANGED <<row, task, up, polling, pc, ev, mine, phantom, excused>>
      PROVE  TasksInv'
  BY <1>1
  DEF TasksInv, PlacesFit, PlaceFits, OverlapsExcused, RowBefore, RowFits, CheckoutsAlone, Alone,
      Settled, Recording, RowIsRight, NoTaskIsLost
<1>2. ASSUME NEW s \in Sub, Stripe(s) PROVE TasksInv'
  BY <1>1, <1>2 DEF Stripe, harness, hvars, history
<1>3. ASSUME NEW h \in Handler, Handle(h) PROVE TasksInv'
  BY <1>3, DeliverKeeps, UpdateKeeps, FindTenantKeeps, CancelKeeps, SelectHarnessKeeps,
     ReadTaskKeeps, StopTaskKeeps, MarkStoppedKeeps, ActivateKeeps, LookForHarnessKeeps,
     ClaimRowKeeps, MarkProvisioningKeeps, LaunchKeeps, RecordTaskKeeps, MarkErrorKeeps
  DEF Handle
<1>4. ASSUME NEW h \in Handler, Timeout(h) PROVE TasksInv'
  <2>1. /\ Leave(h) /\ row' = row /\ task' = task /\ up' = up /\ polling' = polling
        /\ excused \subseteq excused' /\ ev[h].sub \in excused'
    BY <1>4 DEF Timeout, Fault, harness
  <2> QED
    BY <2>1, LeavingKeeps
<1>5. ASSUME UNCHANGED vars PROVE TasksInv'
  BY <1>1, <1>5 DEF vars, harness, hvars, history
<1> QED
  BY <1>2, <1>3, <1>4, <1>5, PollKeeps, CrashKeeps DEF Next

-----------------------------------------------------------------------------
(* Status: as long as events are handled one by one, in order and without     *)
(* faults.                                                                   *)

LEMMA NoFault ==
  ASSUME ~trouble', NEW tasks, Fault(tasks)
  PROVE  FALSE
BY DEF Fault

LEMMA TroubleStays ==
  ASSUME [Next]_vars, trouble
  PROVE  trouble'
<1>1. ASSUME NEW s, NEW id, NEW new, SetStatus(s, id, new) PROVE trouble'
  BY <1>1 DEF SetStatus, Fine, Fault
<1>2. ASSUME NEW h \in Handler, NEW new, SetRow(h, new) PROVE trouble'
  BY <1>2 DEF SetRow, Fine, Fault
<1>3. ASSUME NEW h \in Handler, Handle(h) PROVE trouble'
  <2>1. CASE Deliver(h)
    BY <2>1 DEF Deliver
  <2>2. CASE SubscriptionUpdated(h) \/ FindTenant(h) \/ SelectHarness(h) \/ ReadTask(h)
             \/ StopTask(h) \/ MarkStopped(h)
    BY <2>2 DEF SubscriptionUpdated, FindTenant, SelectHarness, ReadTask, StopTask, MarkStopped,
                Fine, Fault
  <2>3. CASE Invoice(h) \/ Cancel(h) \/ Activate(h)
    BY <1>1, <2>3 DEF Invoice, Cancel, Activate, Fine
  <2>4. CASE LookForHarness(h) \/ ClaimRow(h) \/ Launch(h) \/ RecordTask(h)
    BY <2>4 DEF LookForHarness, ClaimRow, Launch, RecordTask, Fine, Fault
  <2>5. CASE MarkProvisioning(h) \/ MarkError(h)
    BY <1>2, <2>5 DEF MarkProvisioning, MarkError
  <2> QED
    BY <1>3, <2>1, <2>2, <2>3, <2>4, <2>5 DEF Handle
<1>4. ASSUME NEW s \in Sub, Stripe(s) \/ Poll(s) PROVE trouble'
  BY <1>4 DEF Stripe, history, Poll, Fine, Fault
<1> QED
  BY <1>3, <1>4 DEF Next, Timeout, Crash, Fault, vars, history

(* The events ahead are Stripe's, and of one handler at most.                *)
LEMMA AheadTypes ==
  ASSUME TypeOK, PlacesFit
  PROVE  Ahead \subseteq Event
<1>1. \A h \in Handler : pc[h] \in Before => ev[h] \in Event
  BY DEF PlacesFit, PlaceFits, Before, Kinds
<1> QED
  BY <1>1 DEF Ahead, TypeOK

LEMMA EventFields ==
  ASSUME NEW e \in Event
  PROVE  e.n \in Nat /\ e.sub \in Sub /\ e.status \in SubStatus /\ e.kind \in Kinds
BY BoundAssumption DEF Event

LEMMA TheOthersIdle ==
  ASSUME InOrder, NEW h \in Handler, pc[h] # "idle", Stays(h), NEW g \in Handler, g # h
  PROVE  pc[g] = "idle" /\ pc'[g] = "idle"
BY DEF InOrder, Busy, Stays

LEMMA AheadIs ==
  ASSUME NEW h \in Handler, \A g \in Handler \ {h} : pc[g] = "idle"
  PROVE  Ahead = pending \cup (IF pc[h] \in Before THEN {ev[h]} ELSE {})
<1>1. \A g \in Handler : pc[g] \in Before => g = h
  BY DEF Before, Kinds
<1> QED
  BY <1>1 DEF Ahead

LEMMA AheadNext ==
  ASSUME NEW h \in Handler, \A g \in Handler \ {h} : pc'[g] = "idle"
  PROVE  Ahead' = pending' \cup (IF pc'[h] \in Before THEN {ev'[h]} ELSE {})
<1>1. \A g \in Handler : pc'[g] \in Before => g = h
  BY DEF Before, Kinds
<1> QED
  BY <1>1 DEF Ahead

(* A step that neither adds an event nor takes one away.                     *)
LEMMA SameStatus ==
  ASSUME KindsFit, StatusAhead, Ahead' = Ahead, issued' = issued, st' = st,
         UNCHANGED <<subId, status, writer>>
  PROVE  KindsFit' /\ StatusAhead'
<1>1. KindsFit'
  BY DEF KindsFit
<1>2. \A s : EventsOf(s)' = EventsOf(s) /\ (Own(s)' <=> Own(s))
  BY DEF EventsOf, Own
<1>3. \A s \in Sub : LastIs(s)'
  BY <1>2 DEF StatusAhead, LastIs
<1>4. \A e : (IsLast(e)' <=> IsLast(e)) /\ (IsFirst(e)' <=> IsFirst(e))
  BY <1>2 DEF IsLast, IsFirst
<1>5. \A e, f : Follows(e, f)' <=> Follows(e, f)
  BY <1>2 DEF Follows
<1>6. \A e \in Ahead' : IsLast(e)' => e.status = st'[e.sub]
  BY <1>4 DEF StatusAhead
<1>7. \A e \in Ahead' : e.kind = "paid" => IsFirst(e)' \/ \E f \in EventsOf(e.sub)' : Follows(e, f)'
  BY <1>2, <1>4, <1>5 DEF StatusAhead
<1> QED
  BY <1>1, <1>3, <1>6, <1>7 DEF StatusAhead

LEMMA InOrderStays ==
  ASSUME InOrder, NEW h \in Handler, pc[h] # "idle", Stays(h), pending' = pending,
         pc'[h] = "idle" \/ ev'[h] = ev[h], pc'[h] \in Before => pc[h] \in Before
  PROVE  InOrder'
<1>1. \A g \in Handler : pc'[g] # "idle" => g = h
  BY TheOthersIdle
<1>2. \A g \in Handler : pc'[g] \in Before => g = h /\ pc[h] \in Before /\ ev'[h] = ev[h]
  BY <1>1 DEF Before, Kinds
<1> QED
  BY <1>1, <1>2 DEF InOrder, Busy

LEMMA AwayStays ==
  ASSUME InOrder, KindsFit, StatusAhead, NEW h \in Handler, pc[h] # "idle", Stays(h),
         pc[h] \notin Before, pc'[h] \notin Before, pc'[h] = "idle" \/ ev'[h] = ev[h],
         UNCHANGED stripe, UNCHANGED tenant, writer' = writer
  PROVE  InOrder' /\ KindsFit' /\ StatusAhead'
<1>1. InOrder'
  BY InOrderStays DEF stripe
<1>2. \A g \in Handler \ {h} : pc[g] = "idle" /\ pc'[g] = "idle"
  BY TheOthersIdle
<1>3. Ahead' = Ahead
  BY <1>2, AheadIs, AheadNext DEF stripe
<1> QED
  BY <1>1, <1>3, SameStatus DEF stripe, tenant

(* The oldest event was handled: its status is copied where it counts.       *)
LEMMA HandledStays ==
  ASSUME TypeOK, PlacesFit, InOrder, KindsFit, StatusAhead,
         NEW h \in Handler, pc[h] \in Before, Stays(h), pc'[h] \notin Before,
         pc'[h] = "idle" \/ ev'[h] = ev[h], UNCHANGED stripe,
         \A u : u = ev[h].sub /\ Own(u)' => status' = ev[h].status,
         \A u : u # ev[h].sub /\ Own(u)' => Own(u) /\ status' = status
  PROVE  InOrder' /\ KindsFit' /\ StatusAhead'
<1> DEFINE e0 == ev[h]
<1>0. pc[h] # "idle"
  BY DEF Before, Kinds
<1>1. InOrder'
  BY <1>0, InOrderStays DEF stripe
<1>2. \A g \in Handler \ {h} : pc[g] = "idle" /\ pc'[g] = "idle"
  BY <1>0, TheOthersIdle
<1>3. Ahead = pending \cup {e0} /\ Ahead' = pending
  BY <1>2, AheadIs, AheadNext DEF stripe
<1>4. \A f \in pending : e0.n < f.n
  BY DEF InOrder
<1>5. /\ \A u : u = e0.sub /\ Own(u)' => status' = e0.status
      /\ \A u : u # e0.sub /\ Own(u)' => Own(u) /\ status' = status
      /\ issued' = issued /\ st' = st /\ e0 \in Event
  BY <1>3, AheadTypes DEF stripe
<1>6. \A f \in Ahead : f \in Event /\ f.n \in Nat /\ f.sub \in Sub
  BY AheadTypes, EventFields
<1> HIDE DEF e0
<1>7. /\ Ahead' \subseteq Ahead /\ e0 \in Ahead /\ e0.n \in Nat
      /\ \A f \in Ahead : f = e0 \/ f \in Ahead'
      /\ \A f \in Ahead' : e0.n < f.n /\ f # e0
  <2>1. e0.n \in Nat
    BY <1>5, EventFields
  <2>2. ~ (e0.n < e0.n)
    BY <2>1
  <2> QED
    BY <1>3, <1>4, <2>1, <2>2
<1>8. KindsFit'
  BY <1>5, <1>7 DEF KindsFit
<1>9. \A s \in Sub : LastIs(s)'
  <2> SUFFICES ASSUME NEW s \in Sub, EventsOf(s)' = {}, Own(s)' PROVE status' = st'[s]
    BY DEF LastIs
  <2>1. CASE s = e0.sub
    <3>1. \A f \in EventsOf(e0.sub) : f = e0
      BY <1>7, <2>1 DEF EventsOf
    <3>2. IsLast(e0)
      BY <1>7, <3>1 DEF IsLast
    <3>3. e0.status = st[e0.sub]
      BY <1>7, <3>2 DEF StatusAhead
    <3> QED
      BY <1>5, <2>1, <3>3
  <2>2. CASE s # e0.sub
    <3>1. EventsOf(s) = {}
      BY <1>7, <2>2 DEF EventsOf
    <3>2. Own(s) /\ status' = status
      BY <1>5, <2>2
    <3> QED
      BY <1>5, <3>1, <3>2 DEF StatusAhead, LastIs
  <2> QED
    BY <2>1, <2>2
<1>10. \A e \in Ahead' : IsLast(e)' => e.status = st'[e.sub]
  <2> SUFFICES ASSUME NEW e \in Ahead', IsLast(e)' PROVE e.status = st'[e.sub]
    OBVIOUS
  <2>1. \A f \in EventsOf(e.sub) : f = e0 \/ f.n <= e.n
    BY <1>7 DEF IsLast, EventsOf
  <2>2. e0.n <= e.n
    BY <1>6, <1>7
  <2>3. IsLast(e)
    BY <2>1, <2>2 DEF IsLast
  <2> QED
    BY <1>5, <1>7, <2>3 DEF StatusAhead
<1>11. \A e \in Ahead' : e.kind = "paid" => IsFirst(e)' \/ \E f \in EventsOf(e.sub)' : Follows(e, f)'
  <2> SUFFICES ASSUME NEW e \in Ahead', e.kind = "paid"
               PROVE  IsFirst(e)' \/ \E f \in EventsOf(e.sub)' : Follows(e, f)'
    OBVIOUS
  <2>0. e \in Ahead /\ e0.n < e.n /\ e.n \in Nat /\ EventsOf(e.sub)' \subseteq EventsOf(e.sub)
    BY <1>6, <1>7 DEF EventsOf
  <2>1. CASE IsFirst(e)
    <3>1. e.sub # e0.sub
      BY <1>7, <2>0, <2>1 DEF IsFirst, EventsOf
    <3>2. Own(e.sub)' => status' = e.status
      BY <1>5, <2>1, <3>1 DEF IsFirst
    <3>3. \A f \in EventsOf(e.sub)' : e.n <= f.n
      BY <2>0, <2>1 DEF IsFirst
    <3> QED
      BY <3>2, <3>3 DEF IsFirst
  <2>2. ASSUME NEW f \in EventsOf(e.sub), Follows(e, f), f # e0
        PROVE  \E k \in EventsOf(e.sub)' : Follows(e, k)'
    <3>1. f \in EventsOf(e.sub)'
      BY <1>7, <2>2 DEF EventsOf
    <3>2. Follows(e, f)'
      BY <2>0, <2>2 DEF Follows
    <3> QED
      BY <3>1, <3>2
  <2>3. CASE e0 \in EventsOf(e.sub) /\ Follows(e, e0)
    <3>1. e0.sub = e.sub /\ e0.status = e.status
      BY <2>3 DEF EventsOf, Follows
    <3>2. ASSUME NEW g \in EventsOf(e.sub)' PROVE e.n <= g.n
      <4>1. g \in EventsOf(e.sub) /\ e0.n < g.n /\ g.n \in Nat
        BY <1>6, <1>7, <2>0 DEF EventsOf
      <4>2. g.n <= e0.n \/ e.n <= g.n
        BY <2>3, <4>1 DEF Follows
      <4> QED
        BY <1>7, <4>1, <4>2
    <3>3. Own(e.sub)' => status' = e.status
      BY <1>5, <3>1
    <3> QED
      BY <3>2, <3>3 DEF IsFirst
  <2>4. IsFirst(e) \/ \E f \in EventsOf(e.sub) : Follows(e, f)
    BY <2>0 DEF StatusAhead
  <2> QED
    BY <2>1, <2>2, <2>3, <2>4
<1> QED
  BY <1>1, <1>8, <1>9, <1>10, <1>11 DEF StatusAhead

(* Down and LaunchedActive look at the one handler at work.                  *)
LEMMA DownStays ==
  ASSUME Down, NEW h \in Handler, Stays(h), status' = "canceled" => status = "canceled",
         up' \subseteq up, missed \subseteq missed', excused \subseteq excused',
         pc[h] \in Stopping => pc'[h] \in Stopping
  PROVE  Down'
<1> SUFFICES ASSUME status' = "canceled"
             PROVE  up' \subseteq missed' \cup excused' \/ \E g \in Handler : pc'[g] \in Stopping
  BY DEF Down
<1>1. CASE up \subseteq missed \cup excused
  BY <1>1
<1>2. ASSUME NEW g \in Handler, pc[g] \in Stopping PROVE pc'[g] \in Stopping
  BY <1>2 DEF Stays
<1> QED
  BY <1>1, <1>2 DEF Down

LEMMA ActiveStays ==
  ASSUME InOrder', NEW h \in Handler, pc'[h] # "idle",
         pc'[h] \in Launching \cup {"existing", "error"} => status' # "canceled"
  PROVE  LaunchedActive'
<1>1. \A g \in Handler : pc'[g] # "idle" => g = h
  BY DEF InOrder, Busy
<1> QED
  BY <1>1 DEF LaunchedActive, Launching

LEMMA ActiveIdle ==
  ASSUME InOrder, NEW h \in Handler, pc[h] # "idle", Stays(h), pc'[h] = "idle"
  PROVE  LaunchedActive'
<1>1. \A g \in Handler : pc'[g] = "idle"
  BY TheOthersIdle
<1> QED
  BY <1>1 DEF LaunchedActive, Launching

LEMMA DeliverCalm ==
  ASSUME TypeOK, TasksInv, Calm, ~trouble', NEW h \in Handler, Deliver(h)
  PROVE  Calm'
<1>1. PICK e \in pending :
        /\ e \in Event /\ pending' = pending \ {e} /\ ev'[h] = e /\ pc'[h] = e.kind
        /\ trouble' = (trouble \/ Others(h) # {} \/ \E f \in pending : f.n < e.n)
        /\ excused' = excused \cup Overlapping(h, e)
  BY DeliverFacts
<1>2. /\ pc[h] = "idle" /\ Stays(h)
      /\ st' = st /\ issued' = issued /\ subId' = subId /\ status' = status /\ writer' = writer
      /\ up' = up /\ missed' = missed
  BY DeliverFacts DEF Deliver, tenant, harness
<1>3. \A g \in Handler \ {h} : pc[g] = "idle" /\ pc'[g] = "idle"
  <2>1. Others(h) = {}
    BY <1>1
  <2>2. \A g \in Handler \ {h} : pc[g] = "idle"
    BY <2>1 DEF Others, Busy
  <2> QED
    BY <1>2, <2>2 DEF Stays
<1>4. e.kind \in Before /\ e.kind \in Kinds
  BY <1>1 DEF Event, Before
<1>5. Ahead = pending /\ Ahead' = pending
  <2>1. pc[h] \notin Before
    BY <1>2 DEF Before, Kinds
  <2>2. Ahead = pending
    BY <1>3, <2>1, AheadIs
  <2>3. Ahead' = pending' \cup {e}
    BY <1>1, <1>3, <1>4, AheadNext
  <2> QED
    BY <1>1, <2>2, <2>3
<1>6. KindsFit' /\ StatusAhead'
  BY <1>2, <1>5, SameStatus DEF Calm
<1>7. \A f \in pending' : e.n < f.n
  <2> SUFFICES ASSUME NEW f \in pending, f # e PROVE e.n < f.n
    BY <1>1
  <2>1. f.n \in Nat /\ e.n \in Nat
    BY EventFields DEF TypeOK
  <2>2. f.n # e.n
    BY <1>5 DEF Calm, KindsFit
  <2>3. ~ (f.n < e.n)
    BY <1>1
  <2> QED
    BY <2>1, <2>2, <2>3
<1>8. InOrder'
  <2>1. \A g \in Handler : pc'[g] # "idle" => g = h
    BY <1>3
  <2>2. \A g \in Handler : pc'[g] \in Before => g = h
    BY <2>1 DEF Before, Kinds
  <2> QED
    BY <1>1, <1>7, <2>1, <2>2 DEF InOrder, Busy
<1>9. Down'
  BY <1>1, <1>2, DownStays DEF Calm, Stopping
<1>10. LaunchedActive'
  <2>1. pc'[h] # "idle" /\ pc'[h] \notin Launching \cup {"existing", "error"}
    BY <1>1, <1>4 DEF Kinds, Launching
  <2> QED
    BY <1>8, <2>1, ActiveStays
<1> QED
  BY <1>6, <1>8, <1>9, <1>10 DEF Calm

LEMMA UpdatedCalm ==
  ASSUME TypeOK, TasksInv, Calm, ~trouble', NEW h \in Handler, SubscriptionUpdated(h)
  PROVE  Calm'
<1>1. /\ pc[h] = "updated" /\ Fine /\ status' = ev[h].status /\ writer' = ev[h].sub /\ subId' = subId
      /\ Leave(h) /\ UNCHANGED stripe /\ UNCHANGED harness
  BY NoFault DEF SubscriptionUpdated
<1>2. pc[h] \in Before /\ pc[h] # "idle" /\ Stays(h) /\ pc'[h] = "idle" /\ pc'[h] \notin Before
  BY <1>1, LeaveFacts DEF Before, Kinds
<1>3. InOrder' /\ KindsFit' /\ StatusAhead'
  BY <1>1, <1>2, HandledStays DEF Calm, TasksInv, Own
<1>4. status' # "canceled"
  <2>1. ev[h] \in Ahead /\ ev[h].kind = "updated"
    BY <1>1, <1>2 DEF Ahead, TasksInv, PlacesFit, PlaceFits
  <2> QED
    BY <1>1, <2>1 DEF Calm, KindsFit, KindFits
<1>5. Down' /\ LaunchedActive'
  BY <1>2, <1>4, ActiveIdle DEF Down, Calm
<1> QED
  BY <1>3, <1>5 DEF Calm

LEMMA InvoiceCalm ==
  ASSUME TypeOK, TasksInv, Calm, ~trouble', NEW h \in Handler, Invoice(h)
  PROVE  Calm'
<1>1. /\ pc[h] \in {"paid", "failed"} /\ Leave(h) /\ UNCHANGED stripe
      /\ up' = up /\ missed' = missed
  BY DEF Invoice, harness
<1>2. pc[h] \in Before /\ pc[h] # "idle" /\ Stays(h) /\ pc'[h] = "idle" /\ pc'[h] \notin Before
  BY <1>1, LeaveFacts DEF Before, Kinds
<1>3. ev[h] \in Ahead /\ ev[h].kind = pc[h]
  BY <1>1, <1>2 DEF Ahead, TasksInv, PlacesFit, PlaceFits
<1>4. /\ pc[h] = "failed" => ev[h].status = "past_due"
      /\ pc[h] = "paid" => ev[h].status # "past_due"
  BY <1>3 DEF Calm, KindsFit, KindFits
<1>5. pc[h] = "paid" /\ Own(ev[h].sub) => status = ev[h].status
  <2> SUFFICES ASSUME pc[h] = "paid", Own(ev[h].sub) PROVE status = ev[h].status
    OBVIOUS
  <2>1. \A f \in Ahead : f = ev[h] \/ ev[h].n < f.n
    <3>1. \A g \in Handler \ {h} : pc[g] = "idle"
      BY <1>2, TheOthersIdle DEF Calm
    <3>2. Ahead = pending \cup {ev[h]}
      BY <1>2, <3>1, AheadIs
    <3> QED
      BY <1>2, <3>2 DEF Calm, InOrder
  <2>2. \A f \in Ahead : f.n \in Nat
    BY AheadTypes, EventFields DEF TasksInv
  <2>3. ~ \E f \in EventsOf(ev[h].sub) : Follows(ev[h], f)
    BY <1>3, <2>1, <2>2 DEF EventsOf, Follows
  <2>4. IsFirst(ev[h])
    BY <1>3, <2>3 DEF Calm, StatusAhead
  <2> QED
    BY <2>4 DEF IsFirst
<1>6. /\ \A u : u = ev[h].sub /\ Own(u)' => status' = ev[h].status
      /\ \A u : u # ev[h].sub /\ Own(u)' => Own(u) /\ status' = status
      /\ status' = "canceled" => status = "canceled"
      /\ excused' = excused
  <2>1. CASE ev[h].sub = subId /\ pc[h] = "paid" /\ SetStatus(writer, subId, PaidStatus(status))
    <3>1. /\ subId' = subId /\ status' = PaidStatus(status) /\ writer' = writer /\ excused' = excused
      BY <2>1, NoFault DEF SetStatus, Fine
    <3>2. Own(ev[h].sub) => status' = ev[h].status
      BY <1>4, <1>5, <2>1, <3>1 DEF PaidStatus
    <3>3. \A u : Own(u)' => u = ev[h].sub /\ Own(u)
      BY <2>1, <3>1 DEF Own
    <3>4. status' = "canceled" => status = "canceled"
      BY <3>1 DEF PaidStatus
    <3> QED
      BY <3>1, <3>2, <3>3, <3>4
  <2>2. CASE ev[h].sub = subId /\ pc[h] = "failed" /\ SetStatus(ev[h].sub, subId, "past_due")
    <3>1. subId' = subId /\ status' = "past_due" /\ excused' = excused
      BY <2>2, NoFault DEF SetStatus, Fine
    <3>2. \A u : Own(u)' => u = ev[h].sub
      BY <2>2, <3>1 DEF Own
    <3> QED
      BY <1>4, <2>2, <3>1, <3>2
  <2>3. CASE ev[h].sub # subId /\ Fine /\ UNCHANGED <<tenant, writer>>
    BY <2>3 DEF Own, tenant, Fine
  <2> QED
    BY <2>1, <2>2, <2>3 DEF Invoice
<1>7. InOrder' /\ KindsFit' /\ StatusAhead'
  BY <1>1, <1>2, <1>6, HandledStays DEF Calm, TasksInv
<1>8. Down' /\ LaunchedActive'
  BY <1>1, <1>2, <1>6, ActiveIdle, DownStays DEF Calm, Stopping
<1> QED
  BY <1>7, <1>8 DEF Calm

LEMMA FindTenantCalm ==
  ASSUME TypeOK, TasksInv, Calm, ~trouble', NEW h \in Handler, FindTenant(h)
  PROVE  Calm'
<1>1. /\ pc[h] = "deleted" /\ Fine /\ UNCHANGED <<stripe, tenant, harness, writer, missed>>
      /\ (ev[h].sub = subId /\ Goto(h, "cancel")) \/ (ev[h].sub # subId /\ Leave(h))
  BY NoFault DEF FindTenant
<1>2. pc[h] \in Before /\ pc[h] # "idle" /\ Stays(h)
  BY <1>1, LeaveFacts, GotoFacts DEF Before, Kinds
<1>3. up' = up /\ missed' = missed /\ excused' = excused /\ status' = status
  BY <1>1 DEF Fine, harness, tenant
<1>4. Down'
  BY <1>1, <1>2, <1>3, DownStays DEF Calm, Stopping
<1>5. CASE Leave(h)
  <2>1. ev[h].sub # subId
    <3>1. pc'[h] = "idle"
      BY <1>5, LeaveFacts
    <3>2. ~ Goto(h, "cancel")
      BY <3>1, GotoFacts
    <3> QED
      BY <1>1, <3>2
  <2>2. pc'[h] = "idle" /\ pc'[h] \notin Before
    BY <1>5, LeaveFacts DEF Before, Kinds
  <2>3. InOrder' /\ KindsFit' /\ StatusAhead'
    <3>1. \A u : Own(u)' => u # ev[h].sub /\ Own(u)
      BY <1>1, <2>1 DEF Own, tenant
    <3> QED
      BY <1>1, <1>2, <1>3, <2>2, <3>1, HandledStays DEF Calm, TasksInv
  <2> QED
    BY <1>2, <1>4, <2>2, <2>3, ActiveIdle DEF Calm
<1>6. CASE Goto(h, "cancel")
  <2>1. pc'[h] = "cancel" /\ pc'[h] \in Before /\ ev' = ev
    BY <1>6, GotoFacts DEF Before
  <2>2. \A g \in Handler \ {h} : pc[g] = "idle" /\ pc'[g] = "idle"
    BY <1>2, TheOthersIdle DEF Calm
  <2>3. Ahead' = Ahead
    BY <1>1, <1>2, <2>1, <2>2, AheadIs, AheadNext DEF stripe
  <2>4. KindsFit' /\ StatusAhead'
    BY <1>1, <2>3, SameStatus DEF Calm, stripe, tenant
  <2>5. InOrder'
    BY <1>1, <1>2, <2>1, InOrderStays DEF Calm, stripe
  <2>6. LaunchedActive'
    BY <2>1, <2>5, ActiveStays DEF Launching
  <2> QED
    BY <1>4, <2>4, <2>5, <2>6 DEF Calm
<1> QED
  BY <1>1, <1>5, <1>6

LEMMA CancelCalm ==
  ASSUME TypeOK, TasksInv, Calm, ~trouble', NEW h \in Handler, Cancel(h)
  PROVE  Calm'
<1>1. /\ pc[h] = "cancel" /\ Goto(h, "select") /\ UNCHANGED stripe
      /\ subId' = subId /\ status' = "canceled"
      /\ writer' = ev[h].sub \/ (writer' = writer /\ status' = status)
  BY NoFault DEF Cancel, SetStatus
<1>2. pc[h] \in Before /\ pc[h] # "idle" /\ Stays(h) /\ pc'[h] = "select" /\ pc'[h] \notin Before
      /\ ev' = ev
  BY <1>1, GotoFacts DEF Before, Kinds
<1>3. ev[h] \in Ahead /\ ev[h].kind = "deleted"
  BY <1>1, <1>2 DEF Ahead, TasksInv, PlacesFit, PlaceFits, DeletionPlaces
<1>4. ev[h].status = "canceled"
  BY <1>3 DEF Calm, KindsFit, KindFits
<1>5. InOrder' /\ KindsFit' /\ StatusAhead'
  <2>1. \A u : u # ev[h].sub /\ Own(u)' => Own(u) /\ status' = status
    BY <1>1 DEF Own
  <2> QED
    BY <1>1, <1>2, <1>4, <2>1, HandledStays DEF Calm, TasksInv
<1>6. Down'
  BY <1>2 DEF Down, Stopping
<1>7. LaunchedActive'
  BY <1>2, <1>5, ActiveStays DEF Launching
<1> QED
  BY <1>5, <1>6, <1>7 DEF Calm

LEMMA ActivateCalm ==
  ASSUME TypeOK, TasksInv, Calm, ~trouble', NEW h \in Handler, Activate(h)
  PROVE  Calm'
<1>1. /\ pc[h] = "checkout" /\ Goto(h, "existing") /\ UNCHANGED stripe
      /\ subId' = ev[h].sub /\ status' = "active"
  BY NoFault DEF Activate, SetStatus
<1>2. pc[h] \in Before /\ pc[h] # "idle" /\ Stays(h) /\ pc'[h] = "existing" /\ pc'[h] \notin Before
      /\ ev' = ev
  BY <1>1, GotoFacts DEF Before, Kinds
<1>3. ev[h] \in Ahead /\ ev[h].kind = "checkout"
  BY <1>1, <1>2 DEF Ahead, TasksInv, PlacesFit, PlaceFits, CheckoutPlaces
<1>4. ev[h].status = "active"
  BY <1>3 DEF Calm, KindsFit, KindFits
<1>5. InOrder' /\ KindsFit' /\ StatusAhead'
  <2>1. \A u : Own(u)' => u = ev[h].sub
    BY <1>1 DEF Own
  <2> QED
    BY <1>1, <1>2, <1>4, <2>1, HandledStays DEF Calm, TasksInv
<1>6. Down'
  BY <1>1 DEF Down
<1>7. LaunchedActive'
  BY <1>1, <1>2, <1>5, ActiveStays
<1> QED
  BY <1>5, <1>6, <1>7 DEF Calm

(* Steps past the copying of the status. *)
LEMMA PastCalm ==
  ASSUME TypeOK, TasksInv, Calm, NEW h \in Handler, Stays(h),
         pc[h] \notin Before, pc[h] # "idle", pc'[h] \notin Before,
         pc'[h] = "idle" \/ ev'[h] = ev[h],
         UNCHANGED stripe, UNCHANGED tenant, writer' = writer, Down',
         pc'[h] \in Launching \cup {"existing", "error"} =>
           pc[h] \in Launching \cup {"existing", "error"}
  PROVE  Calm'
<1>1. InOrder' /\ KindsFit' /\ StatusAhead'
  BY AwayStays DEF Calm
<1>2. LaunchedActive'
  <2>1. CASE pc'[h] = "idle"
    BY <2>1, ActiveIdle DEF Calm
  <2>2. CASE pc'[h] # "idle"
    BY <1>1, <2>2, ActiveStays DEF Calm, LaunchedActive, tenant
  <2> QED
    BY <2>1, <2>2
<1> QED
  BY <1>1, <1>2 DEF Calm

(* A checkout that found no harness: the tenant is not canceled.             *)
LEMMA CheckoutCalm ==
  ASSUME TypeOK, TasksInv, Calm, NEW h \in Handler, Stays(h),
         pc[h] \in Launching \cup {"existing", "error"},
         pc'[h] \in Launching \cup {"idle", "error"},
         pc'[h] = "idle" \/ ev'[h] = ev[h],
         UNCHANGED stripe, UNCHANGED tenant, writer' = writer
  PROVE  Calm'
<1>1. status' # "canceled"
  BY DEF Calm, LaunchedActive, tenant
<1>2. Down'
  BY <1>1 DEF Down
<1>3. pc[h] \notin Before /\ pc[h] # "idle" /\ pc'[h] \notin Before
  BY DEF Before, Kinds, Launching
<1> QED
  BY <1>2, <1>3, PastCalm

LEMMA ProvisioningCalm ==
  ASSUME TypeOK, TasksInv, Calm, NEW h \in Handler,
         LookForHarness(h) \/ ClaimRow(h) \/ MarkProvisioning(h) \/ Launch(h) \/ RecordTask(h)
         \/ MarkError(h)
  PROVE  Calm'
<1>1. UNCHANGED stripe /\ UNCHANGED tenant /\ writer' = writer
  BY DEF LookForHarness, ClaimRow, MarkProvisioning, Launch, RecordTask, MarkError
<1>2. pc[h] \in Launching \cup {"existing", "error"}
  BY DEF LookForHarness, ClaimRow, MarkProvisioning, Launch, RecordTask, MarkError, Launching
<1>3. CASE Leave(h)
  BY <1>1, <1>2, <1>3, LeaveFacts, CheckoutCalm
<1>4. ASSUME NEW place \in Launching \cup {"error"}, Goto(h, place) PROVE Calm'
  BY <1>1, <1>2, <1>4, GotoFacts, CheckoutCalm
<1>5. CASE ClaimRow(h)
  <2>1. /\ pc' = [pc EXCEPT ![h] = "provision"] /\ ev' = ev /\ mine' = mine
        /\ \E b \in BOOLEAN : phantom' = [phantom EXCEPT ![h] = b]
    BY <1>5 DEF ClaimRow
  <2>2. Stays(h) /\ pc'[h] = "provision" /\ ev'[h] = ev[h]
    BY <2>1 DEF Stays, TypeOK
  <2> QED
    BY <1>1, <1>2, <2>2, CheckoutCalm DEF Launching
<1>6. CASE LookForHarness(h)
  BY <1>3, <1>4, <1>6 DEF LookForHarness, Launching
<1>7. CASE MarkProvisioning(h)
  BY <1>4, <1>7 DEF MarkProvisioning, Launching
<1>8. CASE Launch(h)
  BY <1>4, <1>8 DEF Launch, Launching
<1>9. CASE RecordTask(h) \/ MarkError(h)
  BY <1>3, <1>9 DEF RecordTask, MarkError
<1> QED
  BY <1>5, <1>6, <1>7, <1>8, <1>9

(* While a deletion is under way alone, nobody is about to record a task.     *)
LEMMA NobodyRecords ==
  ASSUME InOrder, NEW h \in Handler, pc[h] \in DeletionPlaces, NEW t
  PROVE  ~ Recording(t)
BY DEF InOrder, Busy, Recording, DeletionPlaces

LEMMA SelectHarnessCalm ==
  ASSUME TypeOK, TasksInv, Calm, ~trouble', NEW h \in Handler, SelectHarness(h)
  PROVE  Calm'
<1>1. /\ pc[h] = "select" /\ Fine /\ UNCHANGED <<stripe, tenant, harness, writer>>
      /\ (Selected /\ Goto(h, "read")) \/ (~Selected /\ Leave(h))
  BY NoFault DEF SelectHarness
<1>2. up' = up /\ excused' = excused /\ missed \subseteq missed'
  BY <1>1 DEF SelectHarness, Fine, harness
<1>3. pc[h] \notin Before /\ pc[h] # "idle"
  BY <1>1 DEF Before, Kinds
<1>4. CASE Goto(h, "read")
  <2>1. Stays(h) /\ pc'[h] = "read" /\ ev' = ev
    BY <1>4, GotoFacts
  <2>2. Down'
    BY <2>1 DEF Down, Stopping
  <2> QED
    BY <1>1, <1>3, <2>1, <2>2, PastCalm DEF Before, Kinds, Launching
<1>5. CASE ~Selected /\ Leave(h)
  <2>1. Stays(h) /\ pc'[h] = "idle"
    BY <1>5, LeaveFacts
  <2>2. up' \subseteq missed'
    BY <1>2, <1>5 DEF SelectHarness, Selected
  <2>3. Down'
    BY <2>2 DEF Down
  <2> QED
    BY <1>1, <1>3, <2>1, <2>3, PastCalm DEF Before, Kinds, Launching
<1> QED
  BY <1>1, <1>4, <1>5

LEMMA ReadTaskCalm ==
  ASSUME TypeOK, TasksInv, Calm, ~trouble', NEW h \in Handler, ReadTask(h)
  PROVE  Calm'
<1>1. /\ pc[h] = "read" /\ Fine /\ UNCHANGED <<stripe, tenant, harness, writer, missed>>
      /\ \/ /\ mine' = [mine EXCEPT ![h] = task]
            /\ pc' = [pc EXCEPT ![h] = "stop"] /\ UNCHANGED <<ev, phantom>>
         \/ task = None /\ Leave(h)
  BY NoFault DEF ReadTask
<1>2. pc[h] \notin Before /\ pc[h] # "idle" /\ up' = up /\ excused' = excused
  BY <1>1 DEF Before, Kinds, harness, Fine
<1>3. CASE /\ mine' = [mine EXCEPT ![h] = task]
           /\ pc' = [pc EXCEPT ![h] = "stop"] /\ UNCHANGED <<ev, phantom>>
  <2>1. Stays(h) /\ pc'[h] = "stop" /\ ev' = ev
    BY <1>3 DEF Stays, TypeOK
  <2>2. Down'
    BY <2>1 DEF Down, Stopping
  <2> QED
    BY <1>1, <1>2, <2>1, <2>2, PastCalm DEF Before, Kinds, Launching
<1>4. CASE task = None /\ Leave(h)
  <2>1. Stays(h) /\ pc'[h] = "idle"
    BY <1>4, LeaveFacts
  <2>2. up \subseteq excused
    <3> SUFFICES ASSUME NEW t \in up, t \notin excused PROVE FALSE
      OBVIOUS
    <3>1. t # task
      BY <1>4, SubAssumption DEF TypeOK
    <3>2. Recording(t)
      BY <3>1 DEF TasksInv, NoTaskIsLost, Recording
    <3> QED
      BY <1>1, <3>2, NobodyRecords DEF Calm, DeletionPlaces
  <2>3. Down'
    BY <1>2, <2>2 DEF Down
  <2> QED
    BY <1>1, <1>2, <2>1, <2>3, PastCalm DEF Before, Kinds, Launching
<1> QED
  BY <1>1, <1>3, <1>4

LEMMA StopTaskCalm ==
  ASSUME TypeOK, TasksInv, Calm, ~trouble', NEW h \in Handler, StopTask(h)
  PROVE  Calm'
<1>1. /\ pc[h] = "stop" /\ Fine /\ up' = up \ {mine[h]} /\ Goto(h, "mark")
      /\ UNCHANGED stripe /\ UNCHANGED tenant /\ writer' = writer
  BY NoFault DEF StopTask
<1>2. pc[h] \notin Before /\ pc[h] # "idle" /\ excused' = excused
  BY <1>1 DEF Before, Kinds, Fine
<1>3. Stays(h) /\ pc'[h] = "mark" /\ ev' = ev
  BY <1>1, GotoFacts
<1>4. up' \subseteq excused'
  <2> SUFFICES ASSUME NEW t \in up', t \notin excused PROVE FALSE
    BY <1>2
  <2>1. t = mine[h] \/ Recording(t)
    BY <1>1 DEF TasksInv, CheckoutsAlone, Alone
  <2> QED
    BY <1>1, <2>1, NobodyRecords DEF Calm, DeletionPlaces
<1>5. Down'
  BY <1>4 DEF Down
<1> QED
  BY <1>1, <1>2, <1>3, <1>5, PastCalm DEF Before, Kinds, Launching

LEMMA MarkStoppedCalm ==
  ASSUME TypeOK, TasksInv, Calm, ~trouble', NEW h \in Handler, MarkStopped(h)
  PROVE  Calm'
<1>1. /\ pc[h] = "mark" /\ Leave(h) /\ Fine /\ up' = up /\ missed' = missed
      /\ UNCHANGED stripe /\ UNCHANGED tenant /\ writer' = writer
  BY NoFault DEF MarkStopped
<1>2. pc[h] \notin Before /\ pc[h] # "idle" /\ excused' = excused
  BY <1>1 DEF Before, Kinds, Fine
<1>3. Stays(h) /\ pc'[h] = "idle"
  BY <1>1, LeaveFacts
<1>4. Down'
  BY <1>1, <1>2, <1>3, DownStays DEF Calm, Stopping, tenant
<1> QED
  BY <1>1, <1>2, <1>3, <1>4, PastCalm DEF Before, Kinds, Launching

LEMMA PollCalm ==
  ASSUME TypeOK, TasksInv, Calm, NEW t \in Sub, Poll(t)
  PROVE  Calm'
<1>1. /\ UNCHANGED stripe /\ UNCHANGED tenant /\ UNCHANGED hvars /\ writer' = writer
      /\ missed' = missed /\ up' \subseteq up
  BY DEF Poll
<1>2. excused \subseteq excused'
  BY FineExcuses DEF Poll
<1>3. Ahead' = Ahead
  BY <1>1 DEF Ahead, stripe, hvars
<1>4. KindsFit' /\ StatusAhead'
  BY <1>1, <1>3, SameStatus DEF Calm, stripe, tenant
<1>5. InOrder'
  BY <1>1 DEF Calm, InOrder, Busy, stripe, hvars
<1>6. Down'
  BY <1>1, <1>2 DEF Calm, Down, tenant, hvars
<1>7. LaunchedActive'
  BY <1>1 DEF Calm, LaunchedActive, tenant, hvars
<1> QED
  BY <1>4, <1>5, <1>6, <1>7 DEF Calm

(* A set of natural numbers has a least element; a set of events a last one.  *)
LEMMA Least ==
  ASSUME NEW T, T \subseteq Nat, T # {}
  PROVE  \E n \in T : \A m \in T : n <= m
<1> DEFINE R == OpToRel(<, Nat)
<1>1. IsWellFoundedOn(R, Nat)
  BY NatLessThanWellFounded
<1>2. \A m, n \in Nat : m < n => <<m, n>> \in R
  BY DEF OpToRel
<1> HIDE DEF R
<1>3. PICK n \in T : \A m \in T : ~ (<<m, n>> \in R)
  BY <1>1, WFMin
<1>4. ASSUME NEW m \in T PROVE n <= m
  <2>1. ~ (m < n)
    BY <1>2, <1>3
  <2> QED
    BY <2>1
<1> QED
  BY <1>4

LEMMA LastExists ==
  ASSUME NEW S, S \subseteq Event, S # {}
  PROVE  \E e \in S : \A f \in S : f.n <= e.n
<1> DEFINE T == {MaxEvents - e.n : e \in S}
<1>1. \A e \in S : e.n \in 1..MaxEvents /\ MaxEvents - e.n \in Nat
  BY BoundAssumption DEF Event
<1>2. T \subseteq Nat /\ T # {}
  BY <1>1
<1>3. PICK n \in T : \A m \in T : n <= m
  BY <1>2, Least
<1>4. PICK e \in S : n = MaxEvents - e.n
  OBVIOUS
<1>5. ASSUME NEW f \in S PROVE f.n <= e.n
  <2>1. MaxEvents - e.n <= MaxEvents - f.n
    BY <1>3, <1>4
  <2> QED
    BY <1>1, <2>1, BoundAssumption
<1> QED
  BY <1>5

(* New events come after all that are ahead, and tell the new status.        *)
LEMMA StripeCalm ==
  ASSUME TypeOK, TasksInv, Calm, NEW s \in Sub, Stripe(s)
  PROVE  Calm'
<1>1. PICK k, kinds, new : Adds(s, k, kinds, new)
  BY StripeAdds
<1> DEFINE N == New(k, kinds, s, new)
<1>2. /\ k \in 1..3 /\ issued' = issued + k /\ st' = [st EXCEPT ![s] = new]
      /\ pending' = pending \cup N
      /\ \A i \in 1..k : kinds[i] = "paid" => i = 2 \/ (i = 1 /\ k = 1 /\ new = st[s])
  BY <1>1 DEF Adds
<1>3. /\ \A e \in N : /\ e \in Event /\ e.sub = s /\ e.status = new /\ KindCan(e.kind, new)
                      /\ e.n \in issued + 1 .. issued + k /\ e.kind = kinds[e.n - issued]
  BY <1>1, NewAreEvents, TypesAre
<1>4. \A i \in 1..k : \E e \in N : e.n = issued + i
  <2> SUFFICES ASSUME NEW i \in 1..k PROVE \E e \in N : e.n = issued + i
    OBVIOUS
  <2> DEFINE e == [n |-> issued + i, kind |-> kinds[i], sub |-> s, status |-> new]
  <2>1. e \in N
    BY DEF New
  <2>2. e.n = issued + i
    OBVIOUS
  <2> HIDE DEF e
  <2> QED
    BY <2>1, <2>2
<1>5. issued \in Nat /\ st \in [Sub -> SubStatus]
  BY BoundAssumption DEF TypeOK
<1>6. \A e, f \in N : e.n = f.n => e = f
  <2> SUFFICES ASSUME NEW i \in 1..k, NEW j \in 1..k, issued + i = issued + j PROVE i = j
    BY DEF New
  <2> QED
    BY <1>2, <1>5
<1> HIDE DEF N
<1>7. /\ UNCHANGED hvars /\ UNCHANGED tenant /\ UNCHANGED harness /\ writer' = writer
      /\ missed' = missed /\ excused' = excused
  BY DEF Stripe, history
<1>8. Ahead' = Ahead \cup N
  BY <1>2, <1>7 DEF Ahead, hvars
<1>9. \A e \in Ahead : /\ e \in Event /\ e.n \in Nat /\ e.sub \in Sub /\ e.n <= issued /\ KindFits(e)
                       /\ \A f \in Ahead : f.n = e.n => f = e
  BY AheadTypes, EventFields DEF TasksInv, Calm, KindsFit
<1>10. \A e \in N : e.n \in Nat /\ issued < e.n /\ e.n <= issued + k /\ e.n - issued \in 1..k
  BY <1>2, <1>3, <1>5
<1>11. \A e \in Ahead, f \in N : e.n < f.n
  BY <1>5, <1>9, <1>10
<1>12. KindsFit'
  <2> SUFFICES ASSUME NEW e \in Ahead'
               PROVE  e.n <= issued' /\ KindFits(e) /\ \A f \in Ahead' : f.n = e.n => f = e
    BY DEF KindsFit
  <2>1. CASE e \in Ahead
    <3>1. e.n <= issued'
      BY <1>2, <1>5, <1>9, <2>1
    <3>2. \A f \in N : f.n # e.n
      BY <1>9, <1>10, <1>11, <2>1
    <3> QED
      BY <1>8, <1>9, <2>1, <3>1, <3>2
  <2>2. CASE e \in N
    <3>1. KindFits(e)
      BY <1>3, <2>2 DEF KindFits, KindCan
    <3>2. \A f \in Ahead : f.n # e.n
      BY <1>9, <1>10, <1>11, <2>2
    <3> QED
      BY <1>2, <1>6, <1>8, <1>10, <2>2, <3>1, <3>2
  <2> QED
    BY <1>8, <2>1, <2>2
<1>13. \A u : u # s => EventsOf(u)' = EventsOf(u)
  BY <1>3, <1>8 DEF EventsOf
<1>14. EventsOf(s)' = EventsOf(s) \cup N
  BY <1>3, <1>8 DEF EventsOf
<1>15. PICK e1 \in N : e1.n = issued + 1
  BY <1>2, <1>4
<1>16. \A u : Own(u)' <=> Own(u)
  BY <1>7 DEF Own, tenant
<1>17. \A u \in Sub : LastIs(u)'
  <2> SUFFICES ASSUME NEW u \in Sub, EventsOf(u)' = {}, Own(u)' PROVE status' = st'[u]
    BY DEF LastIs
  <2>1. u # s
    BY <1>14, <1>15
  <2>2. EventsOf(u) = {} /\ Own(u)
    BY <1>13, <1>16, <2>1
  <2>3. status = st[u]
    BY <2>2 DEF Calm, StatusAhead, LastIs
  <2> QED
    BY <1>2, <1>5, <1>7, <2>1, <2>3 DEF tenant
<1>18. \A e \in Ahead' : IsLast(e)' => e.status = st'[e.sub]
  <2> SUFFICES ASSUME NEW e \in Ahead', IsLast(e)' PROVE e.status = st'[e.sub]
    OBVIOUS
  <2>1. CASE e \in N
    BY <1>2, <1>3, <1>5, <2>1
  <2>2. CASE e \in Ahead
    <3>1. e.sub # s
      <4>1. ~ (e1.n <= e.n)
        BY <1>9, <1>10, <1>11, <1>15, <2>2
      <4> QED
        BY <1>14, <1>15, <4>1 DEF IsLast
    <3>2. IsLast(e)
      BY <1>13, <3>1 DEF IsLast
    <3> QED
      BY <1>2, <1>5, <1>9, <2>2, <3>1, <3>2 DEF Calm, StatusAhead
  <2> QED
    BY <1>8, <2>1, <2>2
<1>19. \A u : EventsOf(u)' \subseteq EventsOf(u) \cup N /\ EventsOf(u) \subseteq EventsOf(u)'
  BY <1>8 DEF EventsOf
<1>20. ASSUME NEW e \in Ahead, e.kind = "paid"
       PROVE  IsFirst(e)' \/ \E f \in EventsOf(e.sub)' : Follows(e, f)'
  <2>0. \A g \in N : e.n <= g.n
    BY <1>9, <1>10, <1>11
  <2>1. CASE IsFirst(e)
    BY <1>7, <1>16, <1>19, <2>0, <2>1 DEF IsFirst, tenant
  <2>2. ASSUME NEW f \in EventsOf(e.sub), Follows(e, f) PROVE Follows(e, f)'
    BY <1>19, <2>0, <2>2 DEF Follows
  <2> QED
    BY <1>19, <1>20, <2>1, <2>2 DEF Calm, StatusAhead
<1>21. ASSUME NEW e \in N, e.kind = "paid"
       PROVE  IsFirst(e)' \/ \E f \in EventsOf(e.sub)' : Follows(e, f)'
  <2>0. e.sub = s /\ e.status = new
    BY <1>3
  <2>1. e.n = issued + 2 \/ (e.n = issued + 1 /\ k = 1 /\ new = st[s])
    <3>1. e.n - issued \in 1..k /\ kinds[e.n - issued] = "paid"
      BY <1>3, <1>10, <1>21
    <3>2. e.n - issued = 2 \/ (e.n - issued = 1 /\ k = 1 /\ new = st[s])
      BY <1>2, <3>1
    <3> QED
      BY <1>5, <1>10, <3>2
  <2>2. CASE e.n = issued + 2
    <3>1. e1 \in EventsOf(e.sub)' /\ e1.n < e.n /\ e1.status = e.status
      BY <1>3, <1>5, <1>14, <1>15, <2>0, <2>2
    <3>2. \A g \in EventsOf(e.sub)' : g.n <= e1.n \/ e.n <= g.n
      <4> SUFFICES ASSUME NEW g \in EventsOf(s) \cup N PROVE g.n <= e1.n \/ e.n <= g.n
        BY <1>14, <2>0
      <4>1. CASE g \in N
        BY <1>5, <1>10, <1>15, <2>2, <4>1
      <4>2. CASE g \in EventsOf(s)
        BY <1>5, <1>9, <1>15, <4>2 DEF EventsOf
      <4> QED
        BY <4>1, <4>2
    <3>3. Follows(e, e1)'
      BY <3>1, <3>2 DEF Follows
    <3> QED
      BY <3>1, <3>3
  <2>3. CASE e.n = issued + 1 /\ k = 1 /\ new = st[s]
    <3>1. \A g \in N : g.n = e.n
      BY <1>5, <1>10, <2>3
    <3>2. CASE EventsOf(s) = {}
      <4>1. \A g \in EventsOf(e.sub)' : e.n <= g.n
        BY <1>10, <1>14, <2>0, <3>1, <3>2
      <4>2. Own(s) => status = st[s]
        BY <3>2 DEF Calm, StatusAhead, LastIs
      <4>3. Own(e.sub)' => status' = e.status
        BY <1>7, <1>16, <2>0, <2>3, <4>2 DEF tenant
      <4> QED
        BY <4>1, <4>3 DEF IsFirst
    <3>3. CASE EventsOf(s) # {}
      <4>1. PICK f \in EventsOf(s) : \A g \in EventsOf(s) : g.n <= f.n
        <5>1. EventsOf(s) \subseteq Event
          BY <1>9 DEF EventsOf
        <5> QED
          BY <3>3, <5>1, LastExists
      <4>2. f \in Ahead /\ f.sub = s
        BY DEF EventsOf
      <4>3. f.status = new
        BY <2>3, <4>1, <4>2 DEF Calm, StatusAhead, IsLast
      <4>4. f.n < e.n /\ f \in EventsOf(e.sub)'
        BY <1>11, <1>14, <2>0, <4>2
      <4>5. \A g \in EventsOf(e.sub)' : g.n <= f.n \/ e.n <= g.n
        BY <1>10, <1>14, <2>0, <3>1, <4>1
      <4>6. Follows(e, f)'
        BY <2>0, <4>3, <4>4, <4>5 DEF Follows
      <4> QED
        BY <4>4, <4>6
    <3> QED
      BY <3>2, <3>3
  <2> QED
    BY <2>1, <2>2, <2>3
<1>22. StatusAhead'
  BY <1>8, <1>17, <1>18, <1>20, <1>21 DEF StatusAhead
<1>23. InOrder'
  <2>1. \A h \in Handler : pc[h] \in Before => ev[h] \in Ahead
    BY DEF Ahead
  <2>2. \A h \in Handler, f \in pending' : pc[h] \in Before => ev[h].n < f.n
    BY <1>2, <1>11, <2>1 DEF Calm, InOrder
  <2> QED
    BY <1>7, <2>2 DEF Calm, InOrder, Busy, hvars
<1>24. Down' /\ LaunchedActive'
  BY <1>7 DEF Calm, Down, LaunchedActive, tenant, harness, hvars
<1> QED
  BY <1>12, <1>22, <1>23, <1>24 DEF Calm

LEMMA StatusStays ==
  ASSUME TypeOK, TasksInv, StatusInv, [Next]_vars
  PROVE  StatusInv'
<1> SUFFICES ASSUME ~trouble' PROVE Calm'
  BY DEF StatusInv
<1>1. Calm
  BY TroubleStays DEF StatusInv
<1>2. ASSUME NEW h \in Handler, Handle(h) PROVE Calm'
  BY <1>1, <1>2, DeliverCalm, UpdatedCalm, InvoiceCalm, FindTenantCalm, CancelCalm, ActivateCalm,
     ProvisioningCalm, SelectHarnessCalm, ReadTaskCalm, StopTaskCalm, MarkStoppedCalm
  DEF Handle
<1>3. ASSUME NEW h \in Handler, Timeout(h) PROVE Calm'
  BY <1>3, NoFault DEF Timeout
<1>4. CASE Crash
  BY <1>4, NoFault DEF Crash
<1>5. ASSUME NEW s \in Sub, Stripe(s) \/ Poll(s) PROVE Calm'
  BY <1>1, <1>5, StripeCalm, PollCalm
<1>6. CASE UNCHANGED vars
  <2>1. /\ UNCHANGED hvars /\ UNCHANGED tenant /\ UNCHANGED harness /\ writer' = writer
        /\ missed' = missed /\ excused' = excused /\ UNCHANGED stripe
    BY <1>6 DEF vars, history
  <2>2. Ahead' = Ahead
    BY <2>1 DEF Ahead, stripe, hvars
  <2>3. KindsFit' /\ StatusAhead'
    BY <1>1, <2>1, <2>2, SameStatus DEF Calm, stripe, tenant
  <2>4. InOrder' /\ Down' /\ LaunchedActive'
    BY <1>1, <2>1
    DEF Calm, InOrder, Busy, Down, LaunchedActive, tenant, harness, hvars, stripe
  <2> QED
    BY <2>3, <2>4 DEF Calm
<1> QED
  BY <1>2, <1>3, <1>4, <1>5, <1>6 DEF Next

-----------------------------------------------------------------------------
(* The theorems.                                                             *)

LEMMA Start ==
  ASSUME Init
  PROVE  IInv
<1>1. TypeOK
  <2>0. 0 \in 0..MaxEvents /\ 0 \in 0..FaultBudget
    BY BoundAssumption
  <2>1. StripeTypes /\ FaultTypes
    BY <2>0 DEF Init, StripeTypes, FaultTypes, SubStatus
  <2>3. TenantTypes /\ HarnessTypes /\ missed \subseteq Sub
    BY DEF Init, TenantTypes, HarnessTypes, SubStatus, RowStatus
  <2>2. HandlerTypes
    BY DEF Init, HandlerTypes, Places
  <2> QED
    BY <2>1, <2>2, <2>3, TypesAre
<1>2. TasksInv
  BY DEF Init, TasksInv, PlacesFit, PlaceFits, OverlapsExcused, RowBefore, RowFits, CheckoutsAlone,
         Alone, Settled, RowIsRight, NoTaskIsLost, CheckoutPlaces, DeletionPlaces, Touching,
         Claimed, Launching
<1>3. Ahead = {}
  BY DEF Init, Ahead, Before, Kinds
<1>4. \A u \in Sub : EventsOf(u) = {} /\ ~Own(u)
  BY <1>3, SubAssumption DEF Init, EventsOf, Own
<1>5. KindsFit /\ StatusAhead
  BY <1>3, <1>4 DEF KindsFit, StatusAhead, LastIs
<1>6. InOrder /\ Down /\ LaunchedActive
  BY DEF Init, InOrder, Busy, Before, Kinds, Down, LaunchedActive, Launching
<1> QED
  BY <1>1, <1>2, <1>5, <1>6 DEF IInv, StatusInv, Calm

(* The inductive invariant holds of every reachable state of the handlers of  *)
(* routes/webhooks.rs, whatever the order, overlap and faults of the events.  *)
THEOREM Invariant == Spec => []IInv
<1>1. Init => IInv
  BY Start
<1>2. IInv /\ [Next]_vars => IInv'
  <2> SUFFICES ASSUME IInv, [Next]_vars PROVE IInv'
    OBVIOUS
  <2>1. TypeOK /\ TasksInv /\ StatusInv /\ PlacesFit
    BY DEF IInv, TasksInv
  <2> QED
    BY <2>1, TypesStay, TasksStay, StatusStays DEF IInv
<1> QED
  BY <1>1, <1>2, PTL DEF Spec

(* Every variable keeps its type. *)
THEOREM TypesCorrect == Spec => []TypeOK
<1>1. IInv => TypeOK
  BY DEF IInv
<1> QED
  BY <1>1, Invariant, PTL

(* No running task is lost to the harness row, unless its checkout overlapped *)
(* another or a deletion, a call failed, its poller gave up on it, or a       *)
(* poller was left from an earlier one (provision_harness_for_tenant).        *)
THEOREM TasksAreNeverLost == Spec => []NoTaskIsLost
<1>1. IInv => NoTaskIsLost
  BY DEF IInv, TasksInv
<1> QED
  BY <1>1, Invariant, PTL

(* Events handled one by one and in order leave the tenant with the status of *)
(* its subscription at Stripe, however many there are.                       *)
THEOREM StatusAlwaysFollows == Spec => []StatusFollowsSubscription
<1>1. IInv => StatusFollowsSubscription
  <2> SUFFICES ASSUME IInv, Quiet, ~trouble, subId # None, writer = subId
               PROVE  status = st[subId]
    BY DEF StatusFollowsSubscription
  <2>1. Ahead = {}
    BY DEF Quiet, Busy, Ahead, Before, Kinds
  <2>2. subId \in Sub
    BY DEF IInv, TypeOK
  <2>3. EventsOf(subId) = {} /\ Own(subId)
    BY <2>1 DEF EventsOf, Own
  <2> QED
    BY <2>2, <2>3 DEF IInv, StatusInv, Calm, StatusAhead, LastIs
<1> QED
  BY <1>1, Invariant, PTL

(* A canceled subscription's harness is down, save a task whose row did not   *)
(* say running then: still being provisioned, or given up by its poller       *)
(* (handle_subscription_deleted).                                            *)
THEOREM CanceledIsDown == Spec => []CanceledHarnessIsDown
<1>1. IInv => CanceledHarnessIsDown
  <2> SUFFICES ASSUME IInv, Quiet, ~trouble, status = "canceled"
               PROVE  up \subseteq missed \cup excused
    BY DEF CanceledHarnessIsDown
  <2>1. \A h \in Handler : pc[h] \notin Stopping
    BY DEF Quiet, Busy, Stopping
  <2> QED
    BY <2>1 DEF IInv, StatusInv, Calm, Down
<1> QED
  BY <1>1, Invariant, PTL
=============================================================================
