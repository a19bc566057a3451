------------------------ MODULE HarnessLifecycle_proofs ------------------------
(* Safety of HarnessLifecycle for any requests, tasks, releases and faults.  *)
EXTENDS HarnessLifecycle, FiniteSetTheorems, TLAPS

-----------------------------------------------------------------------------
(* The operations: what the order of their steps says.                       *)

\* o has Size(o) steps, and takes the step s before its i-th.
Size(o) == Len(o.steps)
Before(o, i, s) == \E j \in 1..(i - 1) : o.steps[j] = s

StepFacts(o, i) ==
  LET s == o.steps[i] IN
  /\ i = Size(o) => s \in {"stopped", "deprovisioned", "record", "delete"}
  /\ s \in {"stopped", "deprovisioned", "delete"} =>
       i = Size(o) /\ Before(o, i, "stop") /\ o.image = "default"
  /\ s = "launch" => i + 1 = Size(o) /\ o.steps[i + 1] = "record"
  /\ s = "launch" /\ o.reports => o.new \/ Before(o, i, "stop")
  /\ s = "record" => i = Size(o) /\ i > 1 /\ o.steps[i - 1] = "launch" /\ ~o.sparing
  /\ s = "record" => o.leaves \/ o.new \/ Before(o, i, "stop")
  /\ s = "record" => o.marks \/ (o.polls /\ Before(o, i, "provisioning"))
  /\ s = "record" /\ o.polls => o.new \/ Before(o, i, "forget")
  /\ s = "record" /\ o.tag = "swap" => o.image = "previous" /\ Before(o, i, "choose")
  /\ s = "record" /\ o.tag = "set" =>
       o.new \/ (o.image = "latest" /\ Before(o, i, "remember"))
  /\ s = "delete" => ~o.sparing /\ Before(o, i, "forget")
  /\ s = "insert" <=> i = 1 /\ o.new
  /\ s = "unroute" => i + 2 <= Size(o) /\ o.steps[i + 1] = "forget"
                      /\ o.steps[i + 2] \notin {"record", "forget"}
  /\ s = "forget" => i > 1 /\ o.steps[i - 1] = "unroute"
  /\ s = "choose" => i = 1
  /\ s = "tag" => o.image = "default"
  /\ s = "remember" => o.image = "latest" /\ i > 1

OpFacts(o) ==
  /\ Size(o) \in 2..10 /\ DOMAIN o.steps = 1..Size(o)
  /\ o.image \in {"default", "latest", "previous"} /\ o.tag \in {"keep", "set", "swap"}
  /\ o.tag = "keep" => o.image = "default"
  /\ o.polls => ~o.leaves
  /\ o.named \in BOOLEAN /\ (o.named => o.new)
  /\ o.new => ~o.sparing /\ o.image = "default"
  /\ \A i \in 1..Size(o) : StepFacts(o, i)

LEMMA HarnessStartFacts == OpFacts(HarnessStart)
BY DEF HarnessStart, Plain, OpFacts, StepFacts, Before, Size

LEMMA HarnessStopFacts == OpFacts(HarnessStop)
BY DEF HarnessStop, Plain, OpFacts, StepFacts, Before, Size

LEMMA HarnessRestartFacts == OpFacts(HarnessRestart)
BY DEF HarnessRestart, Plain, OpFacts, StepFacts, Before, Size

LEMMA HarnessRedeployFacts == OpFacts(HarnessRedeploy)
BY DEF HarnessRedeploy, Plain, OpFacts, StepFacts, Before, Size

LEMMA PerformHarnessUpdateFacts == OpFacts(PerformHarnessUpdate)
BY DEF PerformHarnessUpdate, Plain, OpFacts, StepFacts, Before, Size

LEMMA HarnessRollbackFacts == OpFacts(HarnessRollback)
BY DEF HarnessRollback, Plain, OpFacts, StepFacts, Before, Size

LEMMA HarnessDeleteFacts == OpFacts(HarnessDelete)
BY DEF HarnessDelete, Plain, OpFacts, StepFacts, Before, Size

LEMMA AdminRedeployFacts == OpFacts(AdminRedeploy)
BY DEF AdminRedeploy, Plain, OpFacts, StepFacts, Before, Size

LEMMA ProvisionToolFacts == OpFacts(ProvisionTool)
BY DEF ProvisionTool, Plain, OpFacts, StepFacts, Before, Size

LEMMA ControlStopFacts == OpFacts(ControlStop)
BY DEF ControlStop, Plain, OpFacts, StepFacts, Before, Size

LEMMA ControlDeprovisionFacts == OpFacts(ControlDeprovision)
BY DEF ControlDeprovision, Plain, OpFacts, StepFacts, Before, Size

LEMMA DeprovisionHarnessFacts == OpFacts(DeprovisionHarness)
BY DEF DeprovisionHarness, Plain, OpFacts, StepFacts, Before, Size

LEMMA DeprovisionTenantHarnessFacts == OpFacts(DeprovisionTenantHarness)
BY DEF DeprovisionTenantHarness, Plain, OpFacts, StepFacts, Before, Size

LEMMA DeployNewHarnessFacts == OpFacts(DeployNewHarness)
BY DEF DeployNewHarness, Plain, OpFacts, StepFacts, Before, Size

LEMMA AdminProvisionFacts == OpFacts(AdminProvision)
BY DEF AdminProvision, Plain, OpFacts, StepFacts, Before, Size

LEMMA ProvisionSpecialistFacts == OpFacts(ProvisionSpecialist)
BY DEF AdminProvision, ProvisionSpecialist, Plain, OpFacts, StepFacts, Before, Size

LEMMA OperationFacts ==
  ASSUME NEW o \in Operations
  PROVE  OpFacts(o)
BY HarnessStartFacts, HarnessStopFacts, HarnessRestartFacts, HarnessRedeployFacts,
   PerformHarnessUpdateFacts, HarnessRollbackFacts, HarnessDeleteFacts,
   AdminRedeployFacts, ProvisionToolFacts, ControlStopFacts, ControlDeprovisionFacts,
   DeprovisionHarnessFacts, DeprovisionTenantHarnessFacts, DeployNewHarnessFacts,
   AdminProvisionFacts, ProvisionSpecialistFacts
   DEF Operations, Creations

-----------------------------------------------------------------------------
(* The invariant.                                                            *)

\* The step c is about to take, and those it has taken or skipped.
Next1(c) == c.op.steps[c.at]
Past(c, s) == \E j \in 1..(c.at - 1) : c.op.steps[j] = s

(* The requests that will still launch a task have room for it.              *)
Awaiting == {g \in Handler : Busy(g) /\ Launches(ctx[g].op) /\ ctx[g].made = None /\ ctx[g].at > 0}
Room == n + Cardinality(Awaiting) <= MaxTasks

Launched == 1..n
Named == Launched \cup {None}

Bounds ==
  /\ row.task \in Named /\ row.arn \in Named
  /\ \A h \in Handler : Busy(h) => ctx[h].read \in Named /\ ctx[h].made \in Named
  /\ \A t \in Task : phase[t] # "none" => t \in Launched

(* A request holds a task exactly when it is about to record it; one that     *)
(* reports a failed launch is there because of a fault; the first request     *)
(* inserts the row, alone.                                                    *)
Places ==
  \A h \in Handler : Busy(h) =>
    LET c == ctx[h] IN
    /\ c.made # None <=> c.at > 0 /\ Next1(c) = "record"
    /\ c.op.new => c.read = None
    /\ c.at = 0 => faults > 0 /\ c.op.reports /\ Launches(c.op)
    /\ At(h, "insert") => row = NoRow /\ Others(h) = {}

Beginning ==
  /\ begun = 0 => row = NoRow /\ up = {} /\ \A h \in Handler : ~Busy(h)
  /\ row.status = "absent" => row = NoRow /\ up \subseteq excused

(* What a request knows when no other has begun beside it: it is alone, the   *)
(* row is there, and it is still of the task it has read.                     *)
Alone ==
  \A h \in Handler : Busy(h) /\ ~ctx[h].beside =>
    /\ Others(h) = {}
    /\ At(h, "insert") \/ row.status # "absent"
    /\ ctx[h].read = row.task \/ ctx[h].op.sparing

Live == up \ excused
Down(t) == t \notin Live

(* Once a request has stopped the task it has read, that task is down, or a   *)
(* failing call is its excuse.                                                *)
StopsHold ==
  \A h \in Handler : Busy(h) /\ (ctx[h].at = 0 \/ Past(ctx[h], "stop")) => Down(ctx[h].read)

TaskInv == Places /\ Beginning /\ Alone /\ StopsHold /\ LiveTasksAreNamed

(* As long as no operation began beside another or beside a poller: a request *)
(* is alone, without pollers, and has read the task of the row or that task   *)
(* is down; a poller is of that task, or that task is down; and under a row   *)
(* that says so it is down, unless a poller is about to say otherwise.        *)
OneRequest ==
  \A h \in Handler : Busy(h) =>
    /\ Others(h) = {} /\ \A t \in Task : phase[t] = "none"
    /\ ctx[h].read = row.task \/ Down(row.task)

OnePoller == \A t \in Task : phase[t] # "none" => t = row.task \/ Down(row.task)

DownStatus ==
  row.status \in {"stopped", "error", "deprovisioned"} =>
    Down(row.task) \/ phase[row.task] # "none"

DownInv == ~tangled => OneRequest /\ OnePoller /\ DownStatus

(* Without a fault besides, the rule and the target of the subdomain are      *)
(* those the row names, between the two statements of a teardown and while a  *)
(* poller sets them up those that are left, none for a harness without a      *)
(* subdomain; and a row that says running is served until a request stops its *)
(* task or takes its routing away, which then sets the status before it ends. *)
Serial == ~tangled /\ faults = 0
Only(t) == {t} \ {None}
Unsaid(c) == Past(c, "stop") \/ Past(c, "unroute") \/ Past(c, "forget")
Said(c) == Past(c, "provisioning") \/ Past(c, "claim") \/ Past(c, "insert")

RequestRoutes ==
  \A h \in Handler : Busy(h) =>
    /\ ~ctx[h].beside
    /\ At(h, "forget") => rules = {} /\ targets = {}
    /\ Past(ctx[h], "forget") \/ ctx[h].op.new => row.arn = None
    /\ Said(ctx[h]) => row.status # "running"
    /\ ctx[h].op.named => At(h, "insert") \/ row.sub

Settled ==
  (\A h \in Handler : ~At(h, "forget")) /\ (\A t \in Task : phase[t] = "none") =>
    rules = Only(row.arn) /\ targets = Only(row.arn)

PollerRoutes ==
  \A t \in Task : phase[t] # "none" =>
    /\ t = row.task /\ row.arn = None /\ row.status # "running"
    /\ row.sub <=> phase[t] \notin {"bare", "unrouted"}
    /\ phase[t] \in {"watch", "bare", "unrouted"} => rules = {} /\ targets = {}
    /\ phase[t] = "unrouted" => t \in up
    /\ phase[t] = "rule" => rules = {} /\ targets = {t} /\ t \in up
    /\ phase[t] = "routed" => rules = {t} /\ targets = {t} /\ t \in up

Served ==
  row.status = "running" /\ (\A h \in Handler : Busy(h) => ~Unsaid(ctx[h])) =>
    row.task \in up /\ row.arn = IF row.sub THEN row.task ELSE None

RouteInv == Serial => RequestRoutes /\ Settled /\ PollerRoutes /\ Served

(* Tasks are excused then only because some operation left them running.      *)
LeftInv == Serial => excused \subseteq left

(* The previous tag is the one before the last change of release, or an       *)
(* update has remembered the tag it is about to replace.                      *)
Remembered(c) == c.op.image = "latest" /\ Past(c, "remember")

BackInv ==
  faults = 0 /\ ~blurred =>
    /\ \/ row.prev \in {0, before}
       \/ \E h \in Handler : Busy(h) /\ Remembered(ctx[h])
    /\ \A h \in Handler : Busy(h) /\ ~ctx[h].beside =>
         LET c == ctx[h] IN
         /\ Remembered(c) => row.prev = row.tag /\ c.ver # row.tag
         /\ c.op.image = "previous" /\ Past(c, "choose") => c.ver = row.prev /\ c.ver # 0
         /\ c.op.new => row.prev = 0

IInv == TypeOK /\ Room /\ Bounds /\ TaskInv /\ DownInv /\ RouteInv /\ LeftInv /\ BackInv

-----------------------------------------------------------------------------
(* What every step of a request does to the requests.                        *)

LEMMA ContextFields ==
  ASSUME NEW c \in Context
  PROVE  /\ c # None /\ c.op \in Operations /\ c.at \in 0..10 /\ c.read \in Task \cup {None}
         /\ c.ver \in Version /\ c.own \in BOOLEAN /\ c.made \in Task \cup {None}
         /\ c.beside \in BOOLEAN
BY NoneAssumption DEF Context

\* d is c but for the field named.
Same(c, d, field) ==
  /\ d \in Context /\ d # None
  /\ field = "at" \/ d.at = c.at
  /\ field = "ver" \/ d.ver = c.ver
  /\ field = "own" \/ d.own = c.own
  /\ field = "made" \/ d.made = c.made
  /\ field = "beside" \/ d.beside = c.beside
  /\ d.op = c.op /\ d.read = c.read

LEMMA ContextUpdates ==
  ASSUME NEW c \in Context
  PROVE  /\ \A i \in 0..10 : LET d == [c EXCEPT !.at = i] IN Same(c, d, "at") /\ d.at = i
         /\ \A v \in Version : LET d == [c EXCEPT !.ver = v] IN Same(c, d, "ver") /\ d.ver = v
         /\ \A t \in Task : LET d == [c EXCEPT !.made = t] IN Same(c, d, "made") /\ d.made = t
         /\ LET d == [c EXCEPT !.own = TRUE] IN Same(c, d, "own") /\ d.own
         /\ LET d == [c EXCEPT !.beside = TRUE] IN Same(c, d, "beside") /\ d.beside
<1>1. \A i \in 0..10 : LET d == [c EXCEPT !.at = i] IN Same(c, d, "at") /\ d.at = i
  BY ContextFields DEF Context, Same
<1>2. \A v \in Version : LET d == [c EXCEPT !.ver = v] IN Same(c, d, "ver") /\ d.ver = v
  BY ContextFields DEF Context, Same
<1>3. \A t \in Task : LET d == [c EXCEPT !.made = t] IN Same(c, d, "made") /\ d.made = t
  BY ContextFields DEF Context, Same
<1>4. LET d == [c EXCEPT !.own = TRUE] IN Same(c, d, "own") /\ d.own
  <2> DEFINE d == [c EXCEPT !.own = TRUE]
  <2>1. d \in Context /\ d.own = TRUE
    BY DEF Context
  <2>2. d # None
    BY <2>1, ContextFields
  <2>3. d.op = c.op /\ d.at = c.at /\ d.read = c.read /\ d.ver = c.ver /\ d.made = c.made
        /\ d.beside = c.beside
    BY DEF Context
  <2>4. QED
    BY <2>1, <2>2, <2>3 DEF Same
<1>5. LET d == [c EXCEPT !.beside = TRUE] IN Same(c, d, "beside") /\ d.beside
  <2> DEFINE d == [c EXCEPT !.beside = TRUE]
  <2>1. d \in Context /\ d.beside = TRUE
    BY DEF Context
  <2>2. d # None
    BY <2>1, ContextFields
  <2>3. d.op = c.op /\ d.at = c.at /\ d.read = c.read /\ d.ver = c.ver /\ d.made = c.made
        /\ d.own = c.own
    BY DEF Context
  <2>4. QED
    BY <2>1, <2>2, <2>3 DEF Same
<1>6. QED
  BY <1>1, <1>2, <1>3, <1>4, <1>5

(* c goes on as d by k steps. *)
Goes(c, d, k) ==
  /\ d \in Context /\ d.at = c.at + k /\ d.at <= Size(d.op)
  /\ d.op = c.op /\ d.read = c.read /\ d.ver = c.ver /\ d.own = c.own /\ d.made = c.made
  /\ d.beside = c.beside

LEMMA OnwardGoes ==
  ASSUME TypeOK, NEW h \in Handler, NEW c \in Context, NEW k \in 1..2, Onward(h, c, k)
  PROVE  /\ ctx' \in [Handler -> Context \cup {None}]
         /\ \A g \in Handler \ {h} : ctx'[g] = ctx[g]
         /\ c.at + k > Size(c.op) => ctx'[h] = None
         /\ c.at + k <= Size(c.op) => ctx'[h] # None /\ Goes(c, ctx'[h], k)
<1> DEFINE d == [c EXCEPT !.at = c.at + k]
<1>1. c.op \in Operations /\ c.at \in 0..10 /\ ctx \in [Handler -> Context \cup {None}]
  BY ContextFields DEF TypeOK
<1>2. Size(c.op) \in 2..10
  BY <1>1, OperationFacts DEF OpFacts
<1>3. ctx' = [ctx EXCEPT ![h] = IF c.at + k > Size(c.op) THEN None ELSE d]
  BY DEF Onward, Size
<1>4. ASSUME c.at + k <= Size(c.op) PROVE d \in Context /\ d # None /\ Goes(c, d, k)
  <2>1. c.at + k \in 0..10
    BY <1>1, <1>2, <1>4
  <2>2. Same(c, d, "at") /\ d.at = c.at + k
    BY <2>1, ContextUpdates
  <2>3. QED
    BY <1>4, <2>2 DEF Same, Goes
<1> HIDE DEF d
<1>5. CASE c.at + k > Size(c.op)
  BY <1>1, <1>2, <1>3, <1>5
<1>6. CASE c.at + k <= Size(c.op)
  <2>1. ~ (c.at + k > Size(c.op))
    BY <1>1, <1>2, <1>6
  <2>2. ctx' = [ctx EXCEPT ![h] = d]
    BY <1>3, <2>1
  <2>3. QED
    BY <1>1, <1>2, <1>4, <1>6, <2>2
<1>7. QED
  BY <1>1, <1>2, <1>5, <1>6

LEMMA LeaveLeaves ==
  ASSUME TypeOK, NEW h \in Handler, Leave(h)
  PROVE  /\ ctx' \in [Handler -> Context \cup {None}] /\ ctx'[h] = None
         /\ \A g \in Handler \ {h} : ctx'[g] = ctx[g]
BY DEF Leave, TypeOK

LEMMA AtFacts ==
  ASSUME TypeOK, NEW h \in Handler, Busy(h)
  PROVE  /\ ctx[h] \in Context /\ ctx[h].op \in Operations /\ OpFacts(ctx[h].op)
         /\ ctx[h].at \in 0..Size(ctx[h].op)
         /\ \A s : At(h, s) => /\ ctx[h].at \in 1..Size(ctx[h].op)
                               /\ ctx[h].op.steps[ctx[h].at] = s
                               /\ StepFacts(ctx[h].op, ctx[h].at)
<1>1. ctx[h] \in Context /\ ctx[h].at <= Size(ctx[h].op)
  BY DEF TypeOK, Busy, Size
<1>2. ctx[h].op \in Operations /\ ctx[h].at \in 0..10
  BY <1>1, ContextFields
<1>3. OpFacts(ctx[h].op)
  BY <1>2, OperationFacts
<1>4. QED
  BY <1>1, <1>2, <1>3 DEF OpFacts, At

LEMMA AwaitingIsFinite == IsFiniteSet(Awaiting) /\ Cardinality(Awaiting) \in Nat
<1>1. Awaiting \subseteq Handler
  BY DEF Awaiting
<1>2. QED
  BY <1>1, HandlerAssumption, FS_Subset, FS_CardinalityType

LEMMA LaunchRoom ==
  ASSUME TypeOK, Room, Places, NEW h \in Handler, At(h, "launch")
  PROVE  /\ ctx[h].made = None /\ h \in Awaiting /\ Launches(ctx[h].op)
         /\ n < MaxTasks /\ n + 1 \in Task
<1>1. Busy(h) /\ ctx[h].at > 0 /\ ctx[h].op.steps[ctx[h].at] = "launch"
  BY DEF At
<1>2. ctx[h].made = None
  BY <1>1 DEF Places, Next1
<1>3. Launches(ctx[h].op)
  BY <1>1, AtFacts DEF Launches, OpFacts, At
<1>4. h \in Awaiting
  BY <1>1, <1>2, <1>3 DEF Awaiting
<1>5. Cardinality(Awaiting) # 0
  BY <1>4, AwaitingIsFinite, FS_EmptySet
<1>6. QED
  BY <1>2, <1>3, <1>4, <1>5, AwaitingIsFinite, BoundAssumption DEF Room, Task, TypeOK

(* A step of the request h leaves the other requests alone; h ends, or goes   *)
(* on with the operation and the task it has read.                            *)
Advances(h) ==
  LET c == ctx[h]
      d == ctx'[h]
  IN
  /\ c \in Context /\ d \in Context /\ d # None /\ c.at > 0 /\ d.at <= Size(d.op)
  /\ d.op = c.op /\ d.read = c.read
  /\ \/ d.at = c.at + 1
     \/ d.at = c.at + 2 /\ At(h, "unroute")
     \/ d.at = 0 /\ At(h, "launch") /\ faults' > faults /\ c.op.reports
  /\ d.made # c.made => At(h, "launch")
  /\ d.beside = c.beside \/ (d.beside /\ At(h, "insert") /\ faults' > faults)
  /\ d.ver # c.ver => At(h, "choose") \/ At(h, "tag")

Moves(h) ==
  /\ Busy(h) /\ ctx' \in [Handler -> Context \cup {None}]
  /\ \A g \in Handler \ {h} : ctx'[g] = ctx[g]
  /\ ctx'[h] = None \/ Advances(h)

LEMMA MovesBy ==
  ASSUME TypeOK, NEW h \in Handler, Busy(h), ctx[h].at > 0,
         NEW c \in Context, NEW k \in 1..2, Onward(h, c, k),
         c.op = ctx[h].op, c.read = ctx[h].read, c.at = ctx[h].at,
         k = 1 \/ At(h, "unroute"),
         c.made # ctx[h].made => At(h, "launch"),
         c.beside = ctx[h].beside \/ (c.beside /\ At(h, "insert") /\ faults' > faults),
         c.ver # ctx[h].ver => At(h, "choose") \/ At(h, "tag")
  PROVE  Moves(h)
<1>1. ctx[h] \in Context
  BY AtFacts
<1>2. CASE c.at + k > Size(c.op)
  BY <1>2, OnwardGoes DEF Moves
<1>3. CASE c.at + k <= Size(c.op)
  <2>1. ctx'[h] # None /\ Goes(c, ctx'[h], k) /\ ctx' \in [Handler -> Context \cup {None}]
        /\ \A g \in Handler \ {h} : ctx'[g] = ctx[g]
    BY <1>3, OnwardGoes
  <2>2. Advances(h)
    BY <1>1, <2>1 DEF Goes, Advances
  <2>3. QED
    BY <2>1, <2>2 DEF Moves
<1>4. c.at + k \in Int /\ Size(c.op) \in Int
  <2>1. c.op \in Operations /\ c.at \in 0..10
    BY ContextFields
  <2>2. QED
    BY <2>1, OperationFacts DEF OpFacts
<1>5. QED
  BY <1>2, <1>3, <1>4

LEMMA MovesOn ==
  ASSUME TypeOK, NEW h \in Handler, Busy(h), ctx[h].at > 0, NEW k \in 1..2,
         Onward(h, ctx[h], k), k = 1 \/ At(h, "unroute")
  PROVE  Moves(h)
BY AtFacts, MovesBy

LEMMA MovesOff ==
  ASSUME TypeOK, NEW h \in Handler, Busy(h), Leave(h)
  PROVE  Moves(h)
BY LeaveLeaves DEF Moves

LEMMA StepMoves ==
  ASSUME TypeOK, Room, Places, NEW h \in Handler, Step(h)
  PROVE  Moves(h)
<1>1. CASE Insert(h)
  <2> DEFINE d == [ctx[h] EXCEPT !.beside = TRUE]
  <2>1. At(h, "insert") /\ Busy(h) /\ ctx[h].at > 0 /\ ctx[h] \in Context
    BY <1>1, AtFacts DEF Insert, At
  <2>2. Same(ctx[h], d, "beside") /\ d.beside
    BY <2>1, ContextUpdates
  <2> HIDE DEF d
  <2>3. CASE Onward(h, d, 1) /\ Fault
    <3>1. faults' > faults
      BY <2>3 DEF Fault, TypeOK
    <3>2. QED
      BY <2>1, <2>2, <2>3, <3>1, MovesBy DEF Same
  <2>4. QED
    BY <1>1, <2>1, <2>3, MovesOn, MovesOff DEF Insert, d
<1>2. CASE Choose(h)
  <2> DEFINE v == IF ctx[h].op.image = "latest" THEN latest ELSE row.prev
             d == [ctx[h] EXCEPT !.ver = v]
  <2>1. At(h, "choose") /\ Busy(h) /\ ctx[h].at > 0 /\ ctx[h] \in Context
    BY <1>2, AtFacts DEF Choose, At
  <2>2. v \in Version
    BY BoundAssumption DEF TypeOK, Version
  <2>3. Same(ctx[h], d, "ver")
    BY <2>1, <2>2, ContextUpdates
  <2>4. Onward(h, d, 1) \/ Leave(h)
    BY <1>2 DEF Choose
  <2> HIDE DEF d, v
  <2>5. QED
    BY <2>1, <2>3, <2>4, MovesBy, MovesOff DEF Same
<1>3. CASE Tag(h)
  <2> DEFINE d == [ctx[h] EXCEPT !.ver = latest]
  <2>1. At(h, "tag") /\ Busy(h) /\ ctx[h].at > 0 /\ ctx[h] \in Context
    BY <1>3, AtFacts DEF Tag, At
  <2>2. latest \in Version
    BY BoundAssumption DEF TypeOK, Version
  <2>3. Same(ctx[h], d, "ver")
    BY <2>1, <2>2, ContextUpdates
  <2>4. Onward(h, d, 1) \/ Onward(h, ctx[h], 1)
    BY <1>3 DEF Tag
  <2> HIDE DEF d
  <2>5. QED
    BY <2>1, <2>3, <2>4, MovesBy, MovesOn DEF Same
<1>4. CASE FindTenant(h) \/ Claim(h) \/ Stop(h) \/ LaunchFailed(h) \/ Delete(h)
  BY <1>4, MovesOn, MovesOff DEF FindTenant, Claim, Stop, LaunchFailed, Delete, At
<1>5. CASE Remember(h) \/ Forget(h) \/ Unroute(h) \/ Record(h)
  BY <1>5, MovesOn DEF Remember, Forget, Unroute, Record, At
<1>6. CASE \E s \in {"provisioning", "stopped", "deprovisioned"} : SetStatus(h, s)
  BY <1>6, MovesOn DEF SetStatus, At
<1>7. CASE ResolveDatabase(h)
  <2> DEFINE d == [ctx[h] EXCEPT !.own = TRUE]
  <2>1. At(h, "database") /\ Busy(h) /\ ctx[h].at > 0 /\ ctx[h] \in Context
    BY <1>7, AtFacts DEF ResolveDatabase, At
  <2>2. Same(ctx[h], d, "own")
    BY <2>1, ContextUpdates
  <2>3. Onward(h, d, 1) \/ Onward(h, ctx[h], 1)
    BY <1>7 DEF ResolveDatabase
  <2> HIDE DEF d
  <2>4. QED
    BY <2>1, <2>2, <2>3, MovesBy, MovesOn DEF Same
<1>8. CASE Launch(h)
  <2> DEFINE d == [ctx[h] EXCEPT !.made = n + 1]
             e == [ctx[h] EXCEPT !.at = 0]
  <2>1. At(h, "launch") /\ Busy(h) /\ ctx[h].at > 0 /\ ctx[h] \in Context
    BY <1>8, AtFacts DEF Launch, At
  <2>2. Same(ctx[h], d, "made")
    BY <2>1, LaunchRoom, ContextUpdates
  <2>3. Same(ctx[h], e, "at") /\ e.at = 0
    BY <2>1, ContextUpdates, 0 \in 0..10
  <2>4. \/ Onward(h, d, 1)
        \/ ctx' = [ctx EXCEPT ![h] = e] /\ ctx[h].op.reports /\ Fault
        \/ Leave(h)
    BY <1>8 DEF Launch
  <2> HIDE DEF d, e
  <2>5. CASE Onward(h, d, 1)
    BY <2>1, <2>2, <2>5, MovesBy DEF Same
  <2>6. CASE ctx' = [ctx EXCEPT ![h] = e] /\ ctx[h].op.reports /\ Fault
    <3>1. ctx'[h] = e /\ ctx' \in [Handler -> Context \cup {None}]
          /\ \A g \in Handler \ {h} : ctx'[g] = ctx[g]
      BY <2>3, <2>6 DEF TypeOK, Same
    <3>2. faults' > faults
      BY <2>6 DEF Fault, TypeOK
    <3>3. e.at <= Size(e.op)
      BY <2>1, <2>3, AtFacts DEF Same, OpFacts
    <3>4. Advances(h)
      BY <2>1, <2>3, <2>6, <3>1, <3>2, <3>3 DEF Advances, Same
    <3>5. QED
      BY <2>1, <3>1, <3>4 DEF Moves
  <2>7. QED
    BY <2>1, <2>4, <2>5, <2>6, MovesOff
<1>9. QED
  BY <1>1, <1>2, <1>3, <1>4, <1>5, <1>6, <1>7, <1>8 DEF Step

\* The steps c has passed, and the one it comes to.
LEMMA Passing ==
  ASSUME TypeOK, NEW h \in Handler, Advances(h)
  PROVE  LET c == ctx[h]
             d == ctx'[h]
         IN  /\ d.at = 0 => \A s : ~Past(d, s)
             /\ d.at > 0 => \A s : Past(d, s) <=>
                  Past(c, s) \/ At(h, s) \/ (d.at = c.at + 2 /\ s = "forget")
<1> DEFINE c == ctx[h]
           d == ctx'[h]
<1>1. Busy(h) /\ c \in Context /\ d \in Context /\ c.at > 0 /\ d.op = c.op /\ d.at <= Size(d.op)
  BY ContextFields DEF Advances, Busy
<1>2. c.at \in 1..Size(c.op) /\ Size(c.op) \in 2..10 /\ d.at \in 0..10 /\ StepFacts(c.op, c.at)
  BY <1>1, AtFacts, ContextFields DEF OpFacts
<1>3. \A s : At(h, s) <=> c.op.steps[c.at] = s
  BY <1>1 DEF At
<1>4. CASE d.at = 0
  BY <1>4 DEF Past
<1>5. CASE d.at = c.at + 1
  <2>1. 1..(d.at - 1) = 1..(c.at - 1) \cup {c.at}
    BY <1>2, <1>5
  <2>2. QED
    BY <1>1, <1>2, <1>3, <1>5, <2>1 DEF Past
<1>6. CASE d.at = c.at + 2 /\ At(h, "unroute")
  <2>1. 1..(d.at - 1) = 1..(c.at - 1) \cup {c.at, c.at + 1}
    BY <1>2, <1>6
  <2>2. c.op.steps[c.at + 1] = "forget"
    BY <1>2, <1>3, <1>6 DEF StepFacts
  <2>3. QED
    BY <1>1, <1>2, <1>3, <1>6, <2>1, <2>2 DEF Past
<1>7. QED
  BY <1>1, <1>4, <1>5, <1>6 DEF Advances

LEMMA Arriving ==
  ASSUME TypeOK, NEW h \in Handler, Advances(h), ctx'[h].at > 0
  PROVE  LET d == ctx'[h] IN
         /\ Next1(d) = "record" <=> At(h, "launch")
         /\ Next1(d) = "forget" <=> At(h, "unroute") /\ d.at = ctx[h].at + 1
         /\ Next1(d) # "insert"
<1> DEFINE c == ctx[h]
           d == ctx'[h]
<1>1. Busy(h) /\ c \in Context /\ d \in Context /\ c.at > 0 /\ d.op = c.op /\ d.at <= Size(d.op)
  BY ContextFields DEF Advances, Busy
<1>2. c.at \in 1..Size(c.op) /\ Size(c.op) \in 2..10 /\ d.at \in 1..Size(c.op)
      /\ StepFacts(c.op, c.at) /\ StepFacts(c.op, d.at)
  BY <1>1, AtFacts, ContextFields DEF OpFacts
<1>3. \A s : At(h, s) <=> c.op.steps[c.at] = s
  BY <1>1 DEF At
<1>4. CASE d.at = c.at + 1
  BY <1>1, <1>2, <1>3, <1>4 DEF StepFacts, Next1
<1>5. CASE d.at = c.at + 2 /\ At(h, "unroute")
  BY <1>1, <1>2, <1>3, <1>5 DEF StepFacts, Next1
<1>6. QED
  BY <1>1, <1>4, <1>5 DEF Advances

-----------------------------------------------------------------------------
(* Types and bounds.                                                         *)

RowType == [status : Status, sub : BOOLEAN, task : Task \cup {None}, tag : Version, prev : Version,
            db : BOOLEAN, arn : Task \cup {None}]

ContextOK ==
  /\ ctx \in [Handler -> Context \cup {None}]
  /\ \A h \in Handler : Busy(h) => ctx[h].at <= Len(ctx[h].op.steps)

RestOK ==
  /\ row \in RowType
  /\ latest \in 1..MaxRelease
  /\ n \in 0..MaxTasks /\ up \subseteq 1..n /\ image \in [Task -> Version] /\ own \subseteq 1..n
  /\ rules \subseteq 1..n /\ targets \subseteq 1..n
  /\ begun \in 0..MaxOps
  /\ phase \in [Task -> {"none", "watch", "bare", "rule", "routed", "unrouted"}]
  /\ tangled \in BOOLEAN /\ excused \subseteq Task /\ left \subseteq Task
  /\ before \in Version /\ blurred \in BOOLEAN
  /\ faults \in 0..FaultBudget

LEMMA TypeParts == TypeOK <=> ContextOK /\ RestOK
BY DEF TypeOK, ContextOK, RestOK, RowType

LEMMA TypePartsNext == TypeOK' <=> ContextOK' /\ RestOK'
BY DEF TypeOK, ContextOK, RestOK, RowType

\* A row just inserted.
NewRow(s, b) == [NoRow EXCEPT !.status = s, !.sub = b]

LEMMA NoRowOK == NoRow \in RowType /\ \A s \in Status, b \in BOOLEAN : NewRow(s, b) \in RowType
<1>1. 0 \in Version
  BY BoundAssumption DEF Version
<1>2. NoRow \in RowType
  BY <1>1 DEF NoRow, RowType, Status
<1>3. \A s \in Status, b \in BOOLEAN : NewRow(s, b) \in RowType
  BY <1>2 DEF RowType, NewRow
<1>4. QED
  BY <1>2, <1>3

LEMMA FaultsOK ==
  ASSUME faults \in 0..FaultBudget, Fine \/ Fault
  PROVE  faults' \in 0..FaultBudget /\ faults' >= faults
BY BoundAssumption DEF Fine, Fault

\* A write to the row either happens or fails.
LEMMA Writes ==
  ASSUME NEW r, row \in RowType, r \in RowType, faults \in 0..FaultBudget, Write(r)
  PROVE  /\ row' \in RowType /\ faults' \in 0..FaultBudget
         /\ \/ faults' = faults /\ row' = IF row.status = "absent" THEN row ELSE r
            \/ faults' = faults + 1 /\ row' = row
BY BoundAssumption DEF Write, Fine, Fault

\* The row an operation inserts.
LEMMA InsertRow ==
  ASSUME TypeOK, NEW h \in Handler, Insert(h)
  PROVE  /\ At(h, "insert") /\ ctx[h].op.named \in BOOLEAN
         /\ \/ /\ faults' = faults
               /\ \/ row' = NewRow("provisioning", ctx[h].op.named)
                  \/ row' = NewRow("pending", ctx[h].op.named)
            \/ faults' = faults + 1 /\ row' = row
<1>1. Busy(h)
  BY DEF Insert, At
<1>2. ctx[h].op.named \in BOOLEAN
  BY <1>1, AtFacts DEF OpFacts
<1>3. QED
  BY <1>2 DEF Insert, Fine, Fault, NewRow

LEMMA StepContextOK ==
  ASSUME TypeOK, NEW h \in Handler, Moves(h)
  PROVE  ContextOK'
<1>1. \A g \in Handler \ {h} : Busy(g)' => ctx'[g].at <= Len(ctx'[g].op.steps)
  BY DEF Moves, TypeOK, Busy
<1>2. Busy(h)' => ctx'[h].at <= Len(ctx'[h].op.steps)
  BY DEF Moves, Advances, Busy, Size
<1>3. QED
  BY <1>1, <1>2 DEF Moves, ContextOK

LEMMA StepRestOK ==
  ASSUME TypeOK, Room, Places, NEW h \in Handler, Step(h)
  PROVE  RestOK'
<1> USE TypeParts
<1>0. RestOK
  OBVIOUS
<1>a. up \subseteq Task
  BY <1>0, BoundAssumption DEF RestOK, Task
<1>1. CASE Insert(h)
  <2>1. row' = row \/ \E b \in BOOLEAN : row' = NewRow("provisioning", b) \/ row' = NewRow("pending", b)
    BY <1>1, InsertRow
  <2>2. row' \in RowType
    BY <1>0, <2>1, NoRowOK DEF RestOK, Status
  <2>3. QED
    BY <1>0, <1>1, <2>2, FaultsOK DEF Insert, RestOK, ecs, alb, history
<1>2. CASE Choose(h) \/ Tag(h) \/ FindTenant(h)
  BY <1>0, <1>2, FaultsOK DEF Choose, Tag, FindTenant, RestOK, ecs, alb, history
<1>3. CASE Remember(h)
  <2>1. [row EXCEPT !.prev = row.tag] \in RowType
    BY <1>0 DEF RestOK, RowType
  <2>2. row' \in RowType /\ faults' \in 0..FaultBudget
    BY <1>0, <1>3, <2>1, Writes DEF Remember, RestOK
  <2>3. QED
    BY <1>0, <1>3, <2>2 DEF Remember, RestOK, ecs, alb
<1>4. CASE Stop(h)
  <2>1. ctx[h].read \in Task \cup {None}
    BY <1>4, AtFacts, ContextFields DEF Stop, At
  <2>2. QED
    BY <1>0, <1>4, <2>1, FaultsOK DEF Stop, RestOK, alb
<1>5. CASE Claim(h)
  <2>1. [row EXCEPT !.status = "provisioning"] \in RowType
    BY <1>0 DEF RestOK, RowType, Status
  <2>2. QED
    BY <1>0, <1>5, <2>1, FaultsOK DEF Claim, RestOK, ecs, alb, history
<1>6. CASE \E s \in {"provisioning", "stopped", "deprovisioned"} : SetStatus(h, s)
  <2>1. PICK s \in {"provisioning", "stopped", "deprovisioned"} : SetStatus(h, s)
    BY <1>6
  <2>2. [row EXCEPT !.status = s] \in RowType
    BY <1>0 DEF RestOK, RowType, Status
  <2>3. row' \in RowType /\ faults' \in 0..FaultBudget
    BY <1>0, <2>1, <2>2, Writes DEF SetStatus, RestOK
  <2>4. QED
    BY <1>0, <2>1, <2>3 DEF SetStatus, RestOK, ecs, alb, history
<1>7. CASE Unroute(h)
  BY <1>0, <1>7, FaultsOK DEF Unroute, TeardownRouting, RestOK, ecs, alb, history
<1>8. CASE Forget(h)
  <2>1. [row EXCEPT !.arn = None] \in RowType
    BY <1>0 DEF RestOK, RowType
  <2>2. row' \in RowType /\ faults' \in 0..FaultBudget
    BY <1>0, <1>8, <2>1, Writes DEF Forget, RestOK
  <2>3. QED
    BY <1>0, <1>8, <2>2 DEF Forget, RestOK, ecs, alb, history
<1>9. CASE ResolveDatabase(h)
  <2>1. [row EXCEPT !.db = TRUE] \in RowType
    BY <1>0 DEF RestOK, RowType
  <2>2. row' \in RowType /\ faults' \in 0..FaultBudget
    BY <1>0, <1>9, <2>1, Writes, FaultsOK DEF ResolveDatabase, RestOK
  <2>3. QED
    BY <1>0, <1>9, <2>2 DEF ResolveDatabase, RestOK, ecs, alb, history
<1>10. CASE Launch(h)
  <2>1. n + 1 \in Task /\ n + 1 \in 0..MaxTasks /\ 1..(n + 1) = 1..n \cup {n + 1}
    BY <1>0, <1>10, LaunchRoom, BoundAssumption DEF Launch, RestOK
  <2>2. ImageOf(ctx[h]) \in Version
    BY <1>10, AtFacts, ContextFields, BoundAssumption DEF Launch, At, ImageOf, Version
  <2>3. [image EXCEPT ![n + 1] = ImageOf(ctx[h])] \in [Task -> Version]
    BY <1>0, <2>1, <2>2 DEF RestOK
  <2>4. OwnDatabases(ctx[h], n + 1) \subseteq 1..(n + 1)
    BY <1>0, <2>1 DEF OwnDatabases, RestOK
  <2> DEFINE i == [image EXCEPT ![n + 1] = ImageOf(ctx[h])]
             o == OwnDatabases(ctx[h], n + 1)
  <2>5. /\ \/ n' = n + 1 /\ up' = up \cup {n + 1} /\ image' = i /\ own' = o
           \/ n' = n /\ up' = up /\ image' = image /\ own' = own
        /\ excused' \subseteq excused \cup {n + 1} \cup (up' \ up)
        /\ Fine \/ Fault
        /\ UNCHANGED <<row, latest, rules, targets, begun, phase, tangled, left, before, blurred>>
    BY <1>10 DEF Launch, ecs, alb
  <2> HIDE DEF i, o
  <2>6. QED
    BY <1>0, <2>1, <2>3, <2>4, <2>5, FaultsOK DEF RestOK, i, o, Task
<1>11. CASE LaunchFailed(h)
  <2>1. [row EXCEPT !.status = "error"] \in RowType
    BY <1>0 DEF RestOK, RowType, Status
  <2>2. row' \in RowType /\ faults' \in 0..FaultBudget
    BY <1>0, <1>11, <2>1, Writes DEF LaunchFailed, RestOK
  <2>3. QED
    BY <1>0, <1>11, <2>2 DEF LaunchFailed, RestOK, ecs, alb, history
<1>12. CASE Record(h)
  <2> DEFINE c == ctx[h]
  <2>1. c \in Context /\ c.made \in Task /\ c.ver \in Version /\ c.beside \in BOOLEAN
    BY <1>12, AtFacts, ContextFields DEF Record, At, Places, Next1
  <2>2. Recorded(c) \in RowType
    BY <1>0, <2>1 DEF RestOK, RowType, Status, Recorded
  <2>3. row' \in RowType /\ faults' \in 0..FaultBudget
    BY <1>0, <1>12, <2>2, Writes DEF Record, RestOK
  <2>4. row.task \in Task \cup {None} /\ row.tag \in Version
    BY <1>0 DEF RestOK, RowType
  <2>5. phase' \in [Task -> {"none", "watch", "bare", "rule", "routed", "unrouted"}]
    BY <1>0, <1>12, <2>1 DEF Record, RestOK
  <2>6. excused' \subseteq Task /\ left' \subseteq Task
    BY <1>0, <1>a, <1>12, <2>1 DEF Record, RestOK
  <2>7. before' \in Version /\ blurred' \in BOOLEAN
    BY <1>0, <1>12, <2>1, <2>4 DEF Record, RestOK
  <2>8. QED
    BY <1>0, <1>12, <2>3, <2>5, <2>6, <2>7 DEF Record, RestOK, ecs, alb
<1>13. CASE Delete(h)
  <2>1. excused' \subseteq Task
    BY <1>0, <1>a, <1>13 DEF Delete, RestOK
  <2>2. row' \in RowType /\ faults' \in 0..FaultBudget
    BY <1>0, <1>13, FaultsOK, NoRowOK DEF Delete, RestOK
  <2>3. QED
    BY <1>0, <1>13, <2>1, <2>2 DEF Delete, RestOK, ecs, alb
<1>14. QED
  BY <1>1, <1>2, <1>3, <1>4, <1>5, <1>6, <1>7, <1>8, <1>9, <1>10, <1>11, <1>12, <1>13 DEF Step

LEMMA BeginContext ==
  ASSUME TypeOK, NEW h \in Handler, NEW o \in Operations, Begin(h, o)
  PROVE  /\ ContextOK' /\ Busy(h)'
         /\ LET c == ctx'[h] IN
            /\ c \in Context /\ c.op = o /\ c.at = 1 /\ c.made = None
            /\ c.read = row.task \/ (o.sparing /\ row.status \in {"stopped", "error"} /\ c.read = None)
            /\ c.beside <=> Others(h) # {}
         /\ \A g \in Handler \ {h} :
              /\ ~Busy(g) => ctx'[g] = None
              /\ Busy(g) => Same(ctx[g], ctx'[g], "beside") /\ ctx'[g].beside
<1> DEFINE spared == o.sparing /\ row.status \in {"stopped", "error"}
           new == [op |-> o, at |-> 1, read |-> IF spared THEN None ELSE row.task, ver |-> 0,
                   own |-> FALSE, made |-> None, beside |-> Others(h) # {}]
<1>1. row.task \in Task \cup {None} /\ 0 \in Version
  BY BoundAssumption DEF TypeOK, Version
<1>2. new \in Context /\ new # None
  <2> DEFINE r == IF spared THEN None ELSE row.task
             b == Others(h) # {}
  <2>1. r \in Task \cup {None} /\ b \in BOOLEAN /\ None \in Task \cup {None}
    BY <1>1
  <2> HIDE DEF r, b
  <2>2. [op |-> o, at |-> 1, read |-> r, ver |-> 0, own |-> FALSE, made |-> None, beside |-> b]
          \in Context
    BY <1>1, <2>1 DEF Context
  <2>3. QED
    BY <2>2, ContextFields DEF r, b
<1>3. /\ new.op = o /\ new.at = 1 /\ new.made = None /\ (new.beside <=> Others(h) # {})
      /\ new.read = row.task \/ (spared /\ new.read = None)
  OBVIOUS
<1> DEFINE with(c) == [c EXCEPT !.beside = TRUE]
<1>4. ctx' = [g \in Handler |-> IF g = h THEN new ELSE IF Busy(g) THEN with(ctx[g]) ELSE None]
  BY DEF Begin
<1>5. \A g \in Handler : Busy(g) =>
        Same(ctx[g], with(ctx[g]), "beside") /\ with(ctx[g]).beside /\ with(ctx[g]) \in Context
        /\ with(ctx[g]) # None
  BY AtFacts, ContextUpdates, ContextFields DEF Same
<1> HIDE DEF new, with
<1>6. ctx' \in [Handler -> Context \cup {None}]
  BY <1>2, <1>4, <1>5
<1>7. 1 <= Len(o.steps)
  <2>1. Size(o) \in 2..10
    BY OperationFacts DEF OpFacts
  <2>2. 1 <= Size(o)
    BY <2>1
  <2>3. QED
    BY <2>2 DEF Size
<1>8. \A g \in Handler \ {h} :
        /\ ~Busy(g) => ctx'[g] = None
        /\ Busy(g) => Same(ctx[g], ctx'[g], "beside") /\ ctx'[g].beside
  BY <1>4, <1>5
<1>9. ctx'[h] = new
  BY <1>4
<1>10. \A g \in Handler : Busy(g)' => ctx'[g].at <= Len(ctx'[g].op.steps)
  <2> SUFFICES ASSUME NEW g \in Handler, Busy(g)' PROVE ctx'[g].at <= Len(ctx'[g].op.steps)
    OBVIOUS
  <2>1. CASE g = h
    BY <1>3, <1>7, <1>9, <2>1
  <2>2. CASE g # h
    BY <1>8, <2>2 DEF Same, Busy, TypeOK
  <2>3. QED
    BY <2>1, <2>2
<1>11. QED
  BY <1>2, <1>3, <1>6, <1>8, <1>9, <1>10 DEF ContextOK, Busy

LEMMA TypeNext ==
  ASSUME TypeOK, Room, Places, Bounds, Next
  PROVE  TypeOK'
<1>0. RestOK /\ ContextOK
  BY TypeParts
<1>1. ASSUME NEW h \in Handler, Step(h) PROVE TypeOK'
  BY <1>1, StepMoves, StepContextOK, StepRestOK, TypePartsNext
<1>2. ASSUME NEW h \in Handler, Timeout(h) PROVE TypeOK'
  <2>1. ContextOK'
    BY <1>2, MovesOff, StepContextOK DEF Timeout
  <2>2. ctx[h].made \in Task \cup {None}
    BY <1>2, AtFacts, ContextFields DEF Timeout
  <2>3. RestOK'
    BY <1>0, <1>2, <2>2, FaultsOK DEF Timeout, RestOK, ecs, alb
  <2>4. QED
    BY <2>1, <2>3, TypePartsNext
<1>3. ASSUME NEW h \in Handler, NEW o \in Operations, Begin(h, o) PROVE TypeOK'
  <2>1. begun < MaxOps /\ begun' = begun + 1 /\ tangled' \in BOOLEAN
        /\ UNCHANGED <<row, latest, n, up, image, own, rules, targets, phase, excused, left, before,
                      blurred, faults>>
    BY <1>3 DEF Begin, ecs, alb
  <2>2. RestOK'
    BY <1>0, <2>1, BoundAssumption DEF RestOK
  <2>3. QED
    BY <1>3, <2>2, BeginContext, TypePartsNext
<1>4. ASSUME NEW t \in Task, Poll(t) PROVE TypeOK'
  <2>1. ContextOK'
    BY <1>0, <1>4 DEF Poll, SkipRouting, RegisterTarget, CreateRule, ReportRunning, ReportError,
                      ContextOK, Busy
  <2>2. phase[t] # "none" /\ t \in 1..n
    BY <1>4 DEF Poll, SkipRouting, RegisterTarget, CreateRule, ReportRunning, ReportError, Bounds,
                Launched
  <2>3. ASSUME SkipRouting(t) \/ RegisterTarget(t) PROVE RestOK'
    BY <1>0, <2>2, <2>3, FaultsOK DEF SkipRouting, RegisterTarget, RestOK, ecs, alb, history
  <2>4. ASSUME CreateRule(t) PROVE RestOK'
    BY <1>0, <2>2, <2>4, FaultsOK DEF CreateRule, RestOK, ecs, history
  <2>5. ASSUME ReportRunning(t) PROVE RestOK'
    <3> DEFINE r == [row EXCEPT !.status = "running", !.arn = IF phase[t] = "routed" THEN t ELSE None]
    <3>1. r \in RowType
      BY <1>0 DEF RestOK, RowType, Status
    <3>2. Write(r)
      BY <2>5 DEF ReportRunning
    <3> HIDE DEF r
    <3>3. row' \in RowType /\ faults' \in 0..FaultBudget
      BY <1>0, <3>1, <3>2, Writes DEF RestOK
    <3>4. QED
      BY <1>0, <2>5, <3>3 DEF ReportRunning, RestOK, ecs, alb
  <2>6. ASSUME ReportError(t) PROVE RestOK'
    <3>1. [row EXCEPT !.status = GaveUp] \in RowType
      BY <1>0 DEF RestOK, RowType, Status, GaveUp
    <3>2. row' \in RowType /\ faults' \in 0..FaultBudget
      BY <1>0, <2>6, <3>1, Writes DEF ReportError, RestOK
    <3>3. QED
      BY <1>0, <2>6, <3>2 DEF ReportError, RestOK, alb
  <2>7. RestOK'
    BY <1>4, <2>3, <2>4, <2>5, <2>6 DEF Poll
  <2>8. QED
    BY <2>1, <2>7, TypePartsNext
<1>5. ASSUME NEW t \in Task, ContainerStop(t) PROVE TypeOK'
  <2>1. ContextOK' /\ RestOK'
    BY <1>0, <1>5, BoundAssumption DEF ContainerStop, RestOK, ContextOK, Busy, alb
  <2>2. QED
    BY <2>1, TypePartsNext
<1>6. CASE ContainerProvision
  <2>1. Cardinality(ToLaunch) \in Nat
    <3>1. ToLaunch \subseteq Handler
      BY DEF ToLaunch
    <3>2. QED
      BY <3>1, HandlerAssumption, FS_Subset, FS_CardinalityType
  <2>2. n + 1 \in Task /\ n + 1 \in 0..MaxTasks /\ 1..(n + 1) = 1..n \cup {n + 1}
    BY <1>0, <1>6, <2>1, BoundAssumption DEF ContainerProvision, RestOK, Task
  <2>3. begun' \in 0..MaxOps
    BY <1>0, <1>6, BoundAssumption DEF ContainerProvision, RestOK
  <2>4. ContextOK' /\ RestOK'
    BY <1>0, <1>6, <2>2, <2>3 DEF ContainerProvision, RestOK, ContextOK, Busy, alb
  <2>5. QED
    BY <2>4, TypePartsNext
<1>7. CASE Registered
  <2>1. row' \in RowType /\ 1 \in 0..MaxOps
    <3>1. row' = NewRow("pending", TRUE)
      BY <1>7 DEF Registered, NewRow
    <3>2. "pending" \in Status /\ TRUE \in BOOLEAN
      BY DEF Status
    <3>3. NewRow("pending", TRUE) \in RowType
      BY <3>2, NoRowOK
    <3>4. QED
      <4>1. 1 \in 0..MaxOps
        BY BoundAssumption
      <4>2. QED
        BY <3>1, <3>3, <4>1
  <2>2. ContextOK' /\ RestOK'
    BY <1>0, <1>7, <2>1 DEF Registered, RestOK, ContextOK, Busy, ecs, alb, history
  <2>3. QED
    BY <2>2, TypePartsNext
<1>8. CASE Publish
  <2>1. ContextOK' /\ RestOK'
    BY <1>0, <1>8, BoundAssumption DEF Publish, RestOK, ContextOK, Busy, ecs, alb, history
  <2>2. QED
    BY <2>1, TypePartsNext
<1>9. CASE Crash
  <2>1. ContextOK'
    BY <1>9 DEF Crash, ContextOK, Busy
  <2>2. \A h \in Handler : Busy(h) => ctx[h].made \in Task \cup {None}
    BY AtFacts, ContextFields
  <2>3. excused' \subseteq Task
    BY <1>0, <1>9, <2>2 DEF Crash, RestOK
  <2>4. RestOK'
    BY <1>0, <1>9, <2>3, FaultsOK DEF Crash, RestOK, ecs, alb
  <2>5. QED
    BY <2>1, <2>4, TypePartsNext
<1>10. QED
  BY <1>1, <1>2, <1>3, <1>4, <1>5, <1>6, <1>7, <1>8, <1>9 DEF Next

\* The step h takes is the one it is at.
LEMMA StepIs ==
  ASSUME NEW h \in Handler, Step(h)
  PROVE  /\ Busy(h)
         /\ At(h, "insert") <=> Insert(h)
         /\ At(h, "choose") <=> Choose(h)
         /\ At(h, "tag") <=> Tag(h)
         /\ At(h, "tenant") <=> FindTenant(h)
         /\ At(h, "remember") <=> Remember(h)
         /\ At(h, "stop") <=> Stop(h)
         /\ At(h, "claim") <=> Claim(h)
         /\ \A s \in {"provisioning", "stopped", "deprovisioned"} : At(h, s) <=> SetStatus(h, s)
         /\ At(h, "unroute") <=> Unroute(h)
         /\ At(h, "forget") <=> Forget(h)
         /\ At(h, "database") <=> ResolveDatabase(h)
         /\ At(h, "launch") <=> Launch(h)
         /\ At(h, "record") <=> Record(h)
         /\ At(h, "delete") <=> Delete(h)
         /\ LaunchFailed(h) => ctx[h].at = 0
<1>1. /\ Insert(h) => At(h, "insert")
      /\ Choose(h) => At(h, "choose")
      /\ Tag(h) => At(h, "tag")
      /\ FindTenant(h) => At(h, "tenant")
      /\ Remember(h) => At(h, "remember")
  BY DEF Insert, Choose, Tag, FindTenant, Remember
<1>2. /\ Stop(h) => At(h, "stop")
      /\ Claim(h) => At(h, "claim")
      /\ \A s \in {"provisioning", "stopped", "deprovisioned"} : SetStatus(h, s) => At(h, s)
      /\ Unroute(h) => At(h, "unroute")
      /\ Forget(h) => At(h, "forget")
  BY DEF Stop, Claim, SetStatus, Unroute, Forget
<1>3. /\ ResolveDatabase(h) => At(h, "database")
      /\ Launch(h) => At(h, "launch")
      /\ Record(h) => At(h, "record")
      /\ Delete(h) => At(h, "delete")
      /\ LaunchFailed(h) => Busy(h) /\ ctx[h].at = 0
  BY DEF ResolveDatabase, Launch, Record, Delete, LaunchFailed
<1>4. /\ \A s, r : At(h, s) /\ At(h, r) => s = r
      /\ \A s : At(h, s) => Busy(h) /\ ctx[h].at > 0
  BY DEF At
<1>5. ~ (0 > 0)
  OBVIOUS
<1>6. QED
  BY <1>1, <1>2, <1>3, <1>4, <1>5 DEF Step

\* What an update of the row may change.
LEMMA RowUpdates ==
  ASSUME row \in RowType
  PROVE  /\ \A s : LET r == [row EXCEPT !.status = s] IN
              r.status = s /\ r.task = row.task /\ r.tag = row.tag /\ r.prev = row.prev /\ r.arn = row.arn
              /\ r.sub = row.sub
         /\ LET r == [row EXCEPT !.prev = row.tag] IN
              /\ r.status = row.status /\ r.task = row.task /\ r.tag = row.tag /\ r.arn = row.arn
              /\ r.prev = row.tag /\ r.sub = row.sub
         /\ LET r == [row EXCEPT !.arn = None] IN
              /\ r.status = row.status /\ r.task = row.task /\ r.tag = row.tag /\ r.prev = row.prev
              /\ r.arn = None /\ r.sub = row.sub
         /\ LET r == [row EXCEPT !.db = TRUE] IN
              /\ r.status = row.status /\ r.task = row.task /\ r.tag = row.tag /\ r.prev = row.prev
              /\ r.arn = row.arn /\ r.sub = row.sub
         /\ \A s, b : LET r == NewRow(s, b) IN
              /\ r.status = s /\ r.task = None /\ r.tag = 0 /\ r.prev = 0 /\ r.arn = None
              /\ r.sub = b
         /\ NoRow.status = "absent" /\ NoRow.task = None /\ NoRow.tag = 0 /\ NoRow.prev = 0
         /\ NoRow.arn = None
BY DEF RowType, NoRow, NewRow

\* What an insert makes of the row, unless it fails.
LEMMA Inserted ==
  ASSUME TypeOK, NEW h \in Handler, Insert(h)
  PROVE  \/ faults' = faults + 1 /\ row' = row
         \/ /\ faults' = faults /\ row'.status \in {"provisioning", "pending"}
            /\ row'.task = None /\ row'.tag = 0 /\ row'.prev = 0 /\ row'.arn = None
            /\ row'.sub = ctx[h].op.named
<1>1. row \in RowType
  BY DEF TypeOK, RowType
<1>2. QED
  BY <1>1, InsertRow, RowUpdates

LEMMA RegisteredRow ==
  ASSUME TypeOK, Registered
  PROVE  row'.status = "pending" /\ row'.task = None /\ row'.arn = None /\ row'.prev = 0
BY DEF Registered, NoRow

LEMMA StepRow ==
  ASSUME TypeOK, NEW h \in Handler, Step(h)
  PROVE  /\ \/ Insert(h) \/ Record(h) \/ Delete(h)
            \/ row'.task = row.task /\ row'.tag = row.tag
         /\ Insert(h) \/ Record(h) \/ Delete(h) \/ Remember(h) \/ row'.prev = row.prev
         /\ Insert(h) \/ Delete(h) \/ Forget(h) \/ row'.arn = row.arn
         /\ Insert(h) \/ Delete(h) \/ (row'.status = "absent" <=> row.status = "absent")
         /\ Insert(h) \/ Delete(h) \/ (row.status = "absent" => row' = row)
         /\ Insert(h) \/ Delete(h) \/ row'.sub = row.sub
         /\ \/ Insert(h) \/ Delete(h) \/ Record(h) \/ Claim(h) \/ LaunchFailed(h)
            \/ \E s \in {"provisioning", "stopped", "deprovisioned"} : SetStatus(h, s)
            \/ row'.status = row.status
<1>0. row \in RowType
  BY DEF TypeOK, RowType
<1>1. CASE Insert(h) \/ Delete(h)
  BY <1>1
<1>2. CASE Choose(h) \/ Tag(h) \/ FindTenant(h) \/ Stop(h) \/ Unroute(h) \/ Launch(h)
  BY <1>2 DEF Choose, Tag, FindTenant, Stop, Unroute, Launch
<1>3. CASE Remember(h)
  BY <1>0, <1>3, RowUpdates DEF Remember, Write
<1>4. CASE Claim(h)
  <2> DEFINE r == [row EXCEPT !.status = "provisioning"]
  <2>1. r.status = "provisioning" /\ r.task = row.task /\ r.tag = row.tag /\ r.prev = row.prev
        /\ r.arn = row.arn /\ r.sub = row.sub
    BY <1>0, RowUpdates
  <2>2. row' = row \/ (row.status # "absent" /\ row' = r)
    BY <1>4 DEF Claim
  <2> HIDE DEF r
  <2>3. QED
    BY <1>4, <2>1, <2>2
<1>5. CASE \E s \in {"provisioning", "stopped", "deprovisioned"} : SetStatus(h, s)
  <2>1. PICK s \in {"provisioning", "stopped", "deprovisioned"} : SetStatus(h, s)
    BY <1>5
  <2> DEFINE r == [row EXCEPT !.status = s]
  <2>2. r.status = s /\ r.task = row.task /\ r.tag = row.tag /\ r.prev = row.prev
        /\ r.arn = row.arn /\ r.sub = row.sub
    BY <1>0, RowUpdates
  <2>3. row' = row \/ (row.status # "absent" /\ row' = r)
    BY <2>1 DEF SetStatus, Write
  <2> HIDE DEF r
  <2>4. QED
    BY <1>5, <2>2, <2>3
<1>6. CASE Forget(h)
  BY <1>0, <1>6, RowUpdates DEF Forget, Write
<1>7. CASE ResolveDatabase(h)
  BY <1>0, <1>7, RowUpdates DEF ResolveDatabase, Write
<1>8. CASE LaunchFailed(h)
  <2> DEFINE r == [row EXCEPT !.status = "error"]
  <2>1. r.status = "error" /\ r.task = row.task /\ r.tag = row.tag /\ r.prev = row.prev
        /\ r.arn = row.arn /\ r.sub = row.sub
    BY <1>0, RowUpdates
  <2>2. row' = row \/ (row.status # "absent" /\ row' = r)
    BY <1>8 DEF LaunchFailed, Write
  <2> HIDE DEF r
  <2>3. QED
    BY <1>8, <2>1, <2>2
<1>9. CASE Record(h)
  <2>1. /\ Recorded(ctx[h]).arn = row.arn /\ Recorded(ctx[h]).sub = row.sub
        /\ Recorded(ctx[h]).status = row.status \/ Recorded(ctx[h]).status = "provisioning"
    BY <1>0 DEF RowType, Recorded
  <2>2. row' = row \/ (row.status # "absent" /\ row' = Recorded(ctx[h]))
    BY <1>9 DEF Record, Write
  <2>3. QED
    BY <1>9, <2>1, <2>2
<1>10. QED
  BY <1>1, <1>2, <1>3, <1>4, <1>5, <1>6, <1>7, <1>8, <1>9 DEF Step

-----------------------------------------------------------------------------
(* What each step changes.                                                   *)

LEMMA LaunchEffect ==
  ASSUME TypeOK, Room, Places, NEW h \in Handler, Launch(h)
  PROVE  LET c == ctx[h]
             d == ctx'[h]
         IN
         /\ At(h, "launch") /\ c.made = None
         /\ \/ /\ n' = n + 1 /\ up' = up \cup {n + 1} /\ faults' = faults
               /\ d # None /\ d.made = n + 1 /\ d.at = c.at + 1 /\ Next1(d) = "record"
               /\ excused' = IF c.beside THEN excused \cup {n + 1} ELSE excused
            \/ /\ faults' = faults + 1 /\ excused' = excused \cup (up' \ up)
               /\ \/ n' = n + 1 /\ up' = up \cup {n + 1}
                  \/ n' = n /\ up' = up
               /\ d = None \/ (d.at = 0 /\ d.made = None)
<1> DEFINE c == ctx[h]
           d == [c EXCEPT !.made = n + 1]
           e == [c EXCEPT !.at = 0]
<1>1. At(h, "launch") /\ Busy(h) /\ c.at > 0 /\ c \in Context /\ c.made = None
  BY LaunchRoom, AtFacts DEF Launch, At
<1>2. Same(c, d, "made") /\ d.made = n + 1
  BY <1>1, LaunchRoom, ContextUpdates
<1>3. Same(c, e, "at") /\ e.at = 0
  BY <1>1, ContextUpdates, 0 \in 0..10
<1>4. \/ /\ Fine /\ n' = n + 1 /\ up' = up \cup {n + 1} /\ Onward(h, d, 1)
         /\ excused' = IF c.beside THEN excused \cup {n + 1} ELSE excused
      \/ /\ Fault /\ excused' = excused \cup (up' \ up)
         /\ \/ n' = n + 1 /\ up' = up \cup {n + 1}
            \/ n' = n /\ up' = up
         /\ ctx' = [ctx EXCEPT ![h] = e] \/ Leave(h)
  BY DEF Launch, ecs
<1> HIDE DEF d, e
<1>5. StepFacts(c.op, c.at) /\ c.op.steps[c.at] = "launch" /\ c.at \in 1..Size(c.op)
      /\ Size(c.op) \in 2..10
  BY <1>1, AtFacts DEF OpFacts
<1>6. c.at + 1 <= Size(c.op) /\ c.op.steps[c.at + 1] = "record"
  BY <1>5 DEF StepFacts
<1>7. ASSUME Onward(h, d, 1)
      PROVE  LET f == ctx'[h] IN f # None /\ f.made = n + 1 /\ f.at = c.at + 1 /\ Next1(f) = "record"
  <2>1. d \in Context /\ d.at + 1 <= Size(d.op)
    BY <1>2, <1>6 DEF Same
  <2>2. ctx'[h] # None /\ Goes(d, ctx'[h], 1)
    BY <1>7, <2>1, OnwardGoes
  <2>3. QED
    BY <1>2, <1>6, <2>2 DEF Goes, Same, Next1
<1>8. ASSUME ctx' = [ctx EXCEPT ![h] = e] \/ Leave(h)
      PROVE  ctx'[h] = None \/ (ctx'[h].at = 0 /\ ctx'[h].made = None)
  BY <1>1, <1>3, <1>8, LeaveLeaves DEF Same, TypeOK
<1>9. QED
  BY <1>1, <1>4, <1>7, <1>8 DEF Fine, Fault

LEMMA PollKeeps ==
  ASSUME TypeOK, NEW t \in Task, Poll(t)
  PROVE  /\ UNCHANGED <<latest, n, image, own, ctx, begun, tangled, before, blurred>>
         /\ row'.sub = row.sub
         /\ up' \subseteq up /\ excused \subseteq excused'
         /\ phase[t] # "none" /\ \A u \in Task \ {t} : phase'[u] = phase[u]
         /\ row'.task = row.task /\ row'.tag = row.tag /\ row'.prev = row.prev
         /\ row.status = "absent" => row' = row
         /\ row'.status = "absent" => row.status = "absent"
         /\ faults' \in {faults, faults + 1}
<1>1. SkipRouting(t) \/ RegisterTarget(t) \/ CreateRule(t) \/ ReportRunning(t) \/ ReportError(t)
  BY DEF Poll
<1>2. row \in RowType /\ faults \in Nat /\ phase \in [Task -> {"none", "watch", "bare", "rule", "routed", "unrouted"}]
  BY BoundAssumption DEF TypeOK, RowType
<1>3. CASE SkipRouting(t) \/ RegisterTarget(t) \/ CreateRule(t)
  BY <1>2, <1>3 DEF SkipRouting, RegisterTarget, CreateRule, Fine, Fault, ecs, history
<1>4. CASE ReportRunning(t)
  <2> DEFINE r == [row EXCEPT !.status = "running", !.arn = IF phase[t] = "routed" THEN t ELSE None]
  <2>1. r.task = row.task /\ r.tag = row.tag /\ r.prev = row.prev /\ r.status = "running"
        /\ r.sub = row.sub
    BY <1>2 DEF RowType
  <2>2. (Fine /\ row' = IF row.status = "absent" THEN row ELSE r) \/ (Fault /\ UNCHANGED row)
    BY <1>4 DEF ReportRunning, Write
  <2> HIDE DEF r
  <2>3. QED
    BY <1>2, <1>4, <2>1, <2>2 DEF ReportRunning, Fine, Fault, ecs
<1>5. CASE ReportError(t)
  <2> DEFINE r == [row EXCEPT !.status = GaveUp]
  <2>1. r.task = row.task /\ r.tag = row.tag /\ r.prev = row.prev /\ r.status = "error"
        /\ r.sub = row.sub
    BY <1>2 DEF RowType, GaveUp
  <2>2. (Fine /\ row' = IF row.status = "absent" THEN row ELSE r) \/ (Fault /\ UNCHANGED row)
    BY <1>5 DEF ReportError, Write
  <2> HIDE DEF r
  <2>3. QED
    BY <1>2, <1>5, <2>1, <2>2 DEF ReportError, Fine, Fault
<1>6. QED
  BY <1>1, <1>3, <1>4, <1>5

\* A step of a request, by what it may change.
LEMMA StepKeeps ==
  ASSUME TypeOK, Room, Places, NEW h \in Handler, Step(h)
  PROVE  /\ UNCHANGED <<latest, begun, tangled>>
         /\ faults' \in {faults, faults + 1} /\ faults \in Nat /\ excused \subseteq excused'
         /\ Launch(h) \/ (n' = n /\ up' \subseteq up)
         /\ Launch(h) \/ Stop(h) \/ up' = up
         /\ Record(h) \/ phase' = phase
         /\ Unroute(h) \/ (rules' = rules /\ targets' = targets)
<1>1. faults' \in {faults, faults + 1} /\ faults \in Nat
  <2>1. faults \in Nat
    BY BoundAssumption DEF TypeOK
  <2>2. Fine \/ Fault
    BY DEF Step, Insert, Choose, Tag, FindTenant, Remember, Stop, Claim, SetStatus, Unroute, Forget,
           ResolveDatabase, Launch, LaunchFailed, Record, Delete, Write
  <2>3. QED
    BY <2>1, <2>2 DEF Fine, Fault
<1>2. CASE Launch(h)
  BY <1>1, <1>2, LaunchEffect DEF Launch, alb
<1>3. CASE Step(h) /\ ~Launch(h)
  BY <1>1, <1>3 DEF Step, Insert, Choose, Tag, FindTenant, Remember, Stop, Claim, SetStatus, Unroute,
           Forget, ResolveDatabase, LaunchFailed, Record, Delete, ecs, alb, history
<1>4. QED
  BY <1>2, <1>3

-----------------------------------------------------------------------------
(* Room for the tasks to be launched.                                        *)

LEMMA RoomNext ==
  ASSUME TypeOK, Room, Places, Next
  PROVE  Room'
<1> USE AwaitingIsFinite
<1>0. n \in Nat /\ MaxTasks \in Nat
  BY BoundAssumption DEF TypeOK
<1>1. ASSUME Awaiting' \subseteq Awaiting, n' = n PROVE Room'
  BY <1>0, <1>1, FS_Subset, FS_CardinalityType DEF Room
<1>2. ASSUME NEW h \in Handler, Step(h), ~Launch(h) PROVE Awaiting' \subseteq Awaiting /\ n' = n
  <2>1. Moves(h) /\ n' = n
    BY <1>2, StepMoves, StepKeeps
  <2>2. ASSUME Busy(h)', ctx'[h].made = None, ctx'[h].at > 0, Launches(ctx'[h].op)
        PROVE  h \in Awaiting
    BY <2>1, <2>2, LaunchRoom DEF Moves, Advances, Awaiting, Busy
  <2>3. QED
    BY <2>1, <2>2 DEF Awaiting, Moves, Busy
<1>3. ASSUME NEW h \in Handler, Launch(h) PROVE Room'
  <2>1. Moves(h) /\ h \in Awaiting
    BY <1>3, StepMoves, LaunchEffect, LaunchRoom DEF Step
  <2>2. h \notin Awaiting' /\ n' \in {n, n + 1}
    <3>1. n + 1 # None
      BY <1>3, LaunchRoom, NoneAssumption DEF Launch
    <3>2. ctx'[h] = None \/ ctx'[h].made = n + 1 \/ ctx'[h].at = 0
      BY <1>3, LaunchEffect
    <3>3. n' \in {n, n + 1}
      BY <1>3, LaunchEffect
    <3>4. QED
      BY <1>0, <3>1, <3>2, <3>3 DEF Awaiting, Busy
  <2>3. Awaiting' \subseteq Awaiting \ {h}
    BY <2>1, <2>2 DEF Moves, Awaiting, Busy
  <2>4. IsFiniteSet(Awaiting \ {h}) /\ Cardinality(Awaiting \ {h}) = Cardinality(Awaiting) - 1
    BY <2>1, FS_RemoveElement
  <2>5. Cardinality(Awaiting') <= Cardinality(Awaiting) - 1 /\ Cardinality(Awaiting') \in Nat
    BY <2>3, <2>4, FS_Subset, FS_CardinalityType
  <2>6. QED
    BY <1>0, <2>2, <2>5 DEF Room
<1>4. ASSUME NEW h \in Handler, Timeout(h) PROVE Awaiting' \subseteq Awaiting /\ n' = n
  BY <1>4, LeaveLeaves DEF Timeout, Awaiting, Busy, ecs
<1>5. ASSUME NEW h \in Handler, NEW o \in Operations, Begin(h, o) PROVE Room'
  <2>1. Awaiting' \subseteq Awaiting \cup {h} /\ n' = n
    BY <1>5, BeginContext DEF Awaiting, Same, Begin, Busy, ecs
  <2>2. CASE ~Launches(o)
    BY <1>1, <1>5, <2>1, <2>2, BeginContext DEF Awaiting
  <2>3. CASE Launches(o)
    <3>1. Awaiting \subseteq ToLaunch /\ ToLaunch \subseteq Handler
      BY DEF Awaiting, ToLaunch
    <3>2. IsFiniteSet(ToLaunch) /\ Cardinality(ToLaunch) \in Nat
      BY <3>1, HandlerAssumption, FS_Subset, FS_CardinalityType
    <3>3. Cardinality(Awaiting) <= Cardinality(ToLaunch)
      BY <3>1, <3>2, FS_Subset
    <3>4. n + Cardinality(ToLaunch) < MaxTasks
      BY <1>5, <2>3 DEF Begin
    <3>5. IsFiniteSet(Awaiting \cup {h}) /\ Cardinality(Awaiting \cup {h}) <= Cardinality(Awaiting) + 1
          /\ Cardinality(Awaiting \cup {h}) \in Nat
      BY FS_AddElement, FS_CardinalityType
    <3>6. Cardinality(Awaiting') <= Cardinality(Awaiting \cup {h}) /\ Cardinality(Awaiting') \in Nat
      BY <2>1, <3>5, FS_Subset, FS_CardinalityType
    <3>7. QED
      BY <1>0, <2>1, <3>2, <3>3, <3>4, <3>5, <3>6 DEF Room
  <2>4. QED
    BY <2>2, <2>3
<1>6. ASSUME NEW t \in Task, Poll(t) \/ ContainerStop(t) PROVE Awaiting' \subseteq Awaiting /\ n' = n
  BY <1>6, PollKeeps DEF Awaiting, Busy, ContainerStop
<1>7. CASE ContainerProvision
  <2>1. Awaiting \subseteq ToLaunch /\ ToLaunch \subseteq Handler /\ Awaiting' = Awaiting
    BY <1>7 DEF Awaiting, ToLaunch, ContainerProvision, Busy
  <2>2. IsFiniteSet(ToLaunch) /\ Cardinality(ToLaunch) \in Nat
    BY <2>1, HandlerAssumption, FS_Subset, FS_CardinalityType
  <2>3. Cardinality(Awaiting) <= Cardinality(ToLaunch)
    BY <2>1, <2>2, FS_Subset
  <2>4. n' = n + 1 /\ n + Cardinality(ToLaunch) < MaxTasks
    BY <1>7 DEF ContainerProvision
  <2>5. QED
    BY <1>0, <2>1, <2>2, <2>3, <2>4 DEF Room
<1>8. CASE Registered \/ Publish \/ Crash
  <2>1. Awaiting' \subseteq Awaiting /\ n' = n
    BY <1>8 DEF Registered, Publish, Crash, Awaiting, Busy, ecs
  <2>2. QED
    BY <1>1, <2>1
<1>9. QED
  BY <1>1, <1>2, <1>3, <1>4, <1>5, <1>6, <1>7, <1>8 DEF Next

-----------------------------------------------------------------------------
(* Bounds.                                                                   *)

LEMMA BoundsNext ==
  ASSUME TypeOK, Room, Places, Bounds, Next
  PROVE  Bounds'
<1>0. n \in Nat /\ MaxTasks \in Nat /\ row \in RowType
  BY BoundAssumption DEF TypeOK, RowType
<1>1. ASSUME n' \in {n, n + 1} PROVE Named \subseteq Named' /\ Launched \subseteq Launched'
  BY <1>0, <1>1 DEF Named, Launched
<1>2. ASSUME NEW h \in Handler, Step(h) PROVE Bounds'
  <2>1. Moves(h) /\ n' \in {n, n + 1}
    BY <1>2, StepMoves, StepKeeps, LaunchEffect
  <2>2. Named \subseteq Named' /\ Launched \subseteq Launched' /\ None \in Named'
    BY <1>1, <2>1 DEF Named
  <2>3. Busy(h) /\ ctx[h].read \in Named /\ ctx[h].made \in Named
    BY <2>1 DEF Moves, Bounds
  <2>4. Busy(h)' => ctx'[h].read \in Named' /\ ctx'[h].made \in Named'
    <3>1. CASE Launch(h)
      <4>1. ctx'[h] # None => ctx'[h].read = ctx[h].read
        BY <2>1 DEF Moves, Advances
      <4>2. ctx'[h] # None => ctx'[h].made = None \/ (ctx'[h].made = n + 1 /\ n' = n + 1)
        BY <3>1, LaunchEffect
      <4>3. n' = n + 1 => n + 1 \in Named'
        BY <1>0 DEF Named, Launched
      <4>4. QED
        BY <2>2, <2>3, <4>1, <4>2, <4>3 DEF Busy
    <3>2. CASE ~Launch(h)
      <4>1. ~At(h, "launch")
        BY <1>2, <3>2 DEF Step, Insert, Choose, Tag, FindTenant, Remember, Stop, Claim, SetStatus,
          Unroute, Forget, ResolveDatabase, LaunchFailed, Record, Delete, At
      <4>2. QED
        BY <2>1, <2>2, <2>3, <4>1 DEF Moves, Advances, Busy
    <3>3. QED
      BY <3>1, <3>2
  <2>5. \A g \in Handler : Busy(g)' => ctx'[g].read \in Named' /\ ctx'[g].made \in Named'
    BY <2>1, <2>2, <2>4 DEF Moves, Bounds, Busy
  <2>6. row'.task \in Named' /\ row'.arn \in Named'
    <3>1. row'.task \in {row.task, None, ctx[h].made} /\ row'.arn \in {row.arn, None}
      <4>1. \/ row' = row \/ row' = NoRow \/ Insert(h)
            \/ \E s : row' = [row EXCEPT !.status = s]
            \/ row' = [row EXCEPT !.prev = row.tag] \/ row' = [row EXCEPT !.arn = None]
            \/ row' = [row EXCEPT !.db = TRUE] \/ row' = Recorded(ctx[h])
        BY <1>2 DEF Step, Choose, Tag, FindTenant, Remember, Stop, Claim, SetStatus,
          Unroute, Forget, ResolveDatabase, Launch, LaunchFailed, Record, Delete, Write, At
      <4>2. Insert(h) => row' = row \/ (row'.task = None /\ row'.arn = None)
        BY Inserted
      <4>3. \A s : LET r == [row EXCEPT !.status = s] IN r.task = row.task /\ r.arn = row.arn
        BY <1>0 DEF RowType
      <4>4. Recorded(ctx[h]).task = ctx[h].made /\ Recorded(ctx[h]).arn = row.arn
        BY <1>0 DEF RowType, Recorded
      <4>5. NoRow.task = None /\ NoRow.arn = None
        BY DEF NoRow
      <4>6. /\ [row EXCEPT !.prev = row.tag].task = row.task /\ [row EXCEPT !.prev = row.tag].arn = row.arn
            /\ [row EXCEPT !.arn = None].task = row.task /\ [row EXCEPT !.arn = None].arn = None
            /\ [row EXCEPT !.db = TRUE].task = row.task /\ [row EXCEPT !.db = TRUE].arn = row.arn
        BY <1>0 DEF RowType
      <4>7. QED
        BY <4>1, <4>2, <4>3, <4>4, <4>5, <4>6
    <3>2. QED
      BY <2>2, <2>3, <3>1 DEF Bounds
  <2>7. \A t \in Task : phase'[t] # "none" => t \in Launched'
    <3>1. CASE Record(h)
      <4>1. ctx[h].made \in Launched
        BY <2>3, <3>1 DEF Record, At, Places, Next1, Named
      <4>2. \A t \in Task : phase'[t] = phase[t] \/ t = ctx[h].made
        BY <3>1 DEF Record, TypeOK
      <4>3. QED
        BY <2>2, <4>1, <4>2 DEF Bounds
    <3>2. CASE phase' = phase
      BY <2>2, <3>2 DEF Bounds
    <3>3. QED
      BY <1>2, <3>1, <3>2, StepKeeps
  <2>8. QED
    BY <2>5, <2>6, <2>7 DEF Bounds
<1>3. ASSUME NEW h \in Handler, Timeout(h) PROVE Bounds'
  BY <1>3, LeaveLeaves DEF Timeout, Bounds, Named, Launched, Busy, ecs
<1>4. ASSUME NEW h \in Handler, NEW o \in Operations, Begin(h, o) PROVE Bounds'
  <2>1. n' = n /\ row' = row /\ phase' = phase
    BY <1>4 DEF Begin, ecs
  <2>2. ctx'[h].read \in Named /\ ctx'[h].made \in Named
    BY <1>4, BeginContext DEF Bounds, Named
  <2>3. \A g \in Handler \ {h} : Busy(g)' => ctx'[g].read \in Named /\ ctx'[g].made \in Named
    BY <1>4, BeginContext DEF Bounds, Same, Busy
  <2>4. QED
    BY <2>1, <2>2, <2>3 DEF Bounds, Named, Launched
<1>5. ASSUME NEW t \in Task, Poll(t) PROVE Bounds'
  <2>1. n' = n /\ ctx' = ctx /\ row'.task = row.task /\ phase[t] # "none"
        /\ \A u \in Task \ {t} : phase'[u] = phase[u]
    BY <1>5, PollKeeps
  <2>2. row'.arn \in {row.arn, t, None}
    <3>1. row' = row \/ row' = [row EXCEPT !.status = GaveUp]
          \/ row' = [row EXCEPT !.status = "running", !.arn = IF phase[t] = "routed" THEN t ELSE None]
      BY <1>5 DEF Poll, SkipRouting, RegisterTarget, CreateRule, ReportRunning, ReportError, Write
    <3>2. QED
      BY <1>0, <3>1 DEF RowType
  <2>3. QED
    BY <2>1, <2>2 DEF Bounds, Named, Launched, Busy
<1>6. ASSUME NEW t \in Task, ContainerStop(t) PROVE Bounds'
  BY <1>6 DEF ContainerStop, Bounds, Named, Launched, Busy
<1>7. CASE ContainerProvision
  <2>1. n' \in {n, n + 1} /\ UNCHANGED <<row, ctx, phase>>
    BY <1>7 DEF ContainerProvision
  <2>2. Named \subseteq Named' /\ Launched \subseteq Launched'
    BY <1>1, <2>1
  <2>3. QED
    BY <2>1, <2>2 DEF Bounds, Busy
<1>8. CASE Registered \/ Publish \/ Crash
  <2>1. n' = n /\ (row' = row \/ Registered)
        /\ (ctx' = ctx \/ \A h \in Handler : ctx'[h] = None)
        /\ (phase' = phase \/ \A t \in Task : phase'[t] = "none")
    BY <1>8 DEF Registered, Publish, Crash, ecs
  <2>2. QED
    BY <2>1, RegisteredRow DEF Bounds, Named, Launched, Busy
<1>9. QED
  BY <1>2, <1>3, <1>4, <1>5, <1>6, <1>7, <1>8 DEF Next

-----------------------------------------------------------------------------
(* Places.                                                                   *)

Place(h) ==
  Busy(h) =>
    LET c == ctx[h] IN
    /\ c.made # None <=> c.at > 0 /\ Next1(c) = "record"
    /\ c.op.new => c.read = None
    /\ c.at = 0 => faults > 0 /\ c.op.reports /\ Launches(c.op)
    /\ At(h, "insert") => row = NoRow /\ Others(h) = {}

LEMMA PlacesParts == (Places <=> \A h \in Handler : Place(h))
                     /\ (Places' <=> \A h \in Handler : Place(h)')
BY DEF Places, Place

LEMMA PlacesNext ==
  ASSUME TypeOK, Room, Places, Beginning, Next
  PROVE  Places'
<1>0. \A h \in Handler : Place(h)
  BY PlacesParts
<1>a. row \in RowType /\ faults \in Nat
  BY BoundAssumption DEF TypeOK, RowType
<1>1. ASSUME NEW h \in Handler, Step(h) PROVE Places'
  <2>1. Moves(h) /\ faults' >= faults /\ (Record(h) => ~At(h, "launch"))
    BY <1>1, StepMoves, StepKeeps DEF Record, At
  <2>2. Place(h)'
    <3> SUFFICES ASSUME Busy(h)' PROVE Place(h)'
      BY DEF Place
    <3>1. Advances(h) /\ Busy(h)
      BY <2>1 DEF Moves, Busy
    <3>2. CASE ctx'[h].at = 0
      <4>0. ctx[h].at \in 0..10 /\ ctx[h].at > 0 /\ ctx'[h].op = ctx[h].op
        BY <3>1, ContextFields DEF Advances
      <4>a. At(h, "launch") /\ faults' > faults /\ ctx[h].op.reports
        BY <3>1, <3>2, <4>0 DEF Advances
      <4>b. Launch(h) /\ Launches(ctx[h].op)
        BY <1>1, <4>a, StepIs, LaunchRoom
      <4>1. Launch(h) /\ ctx'[h].op.reports /\ Launches(ctx'[h].op) /\ faults' > 0
        BY <1>1, <1>a, <4>0, <4>a, <4>b, StepKeeps
      <4>2. ctx'[h].made = None
        BY <3>1, <3>2, <4>0, <4>b, LaunchEffect DEF Advances
      <4>3. QED
        BY <1>0, <3>1, <3>2, <4>1, <4>2 DEF Place, Advances, At
    <3>3. CASE ctx'[h].at > 0
      <4>1. /\ Next1(ctx'[h]) = "record" <=> At(h, "launch")
            /\ Next1(ctx'[h]) # "insert"
        BY <3>1, <3>3, Arriving
      <4>2. ctx'[h].made # None <=> At(h, "launch")
        <5>1. CASE At(h, "launch")
          BY <1>1, <3>1, <3>3, <5>1, StepIs, LaunchEffect, LaunchRoom, NoneAssumption DEF Busy
        <5>2. CASE ~At(h, "launch")
          <6>1. ctx'[h].made = ctx[h].made
            BY <3>1, <5>2 DEF Advances
          <6>2. ctx[h].made = None
            <7>1. ASSUME Next1(ctx[h]) = "record" PROVE FALSE
              <8>1. At(h, "record") /\ Record(h)
                BY <1>1, <3>1, <7>1, StepIs DEF At, Next1, Advances
              <8>2. StepFacts(ctx[h].op, ctx[h].at) /\ ctx[h].op.steps[ctx[h].at] = "record"
                BY <8>1, <3>1, AtFacts
              <8>3. ctx[h].at = Size(ctx[h].op) /\ Size(ctx[h].op) \in 2..10
                <9>1. Size(ctx[h].op) \in 2..10
                  BY <3>1, AtFacts DEF OpFacts
                <9>2. QED
                  BY <8>2, <9>1 DEF StepFacts
              <8>4. ctx'[h].at = ctx[h].at + 1 \/ At(h, "unroute")
                BY <3>1, <3>3 DEF Advances
              <8>5. QED
                BY <3>1, <8>1, <8>3, <8>4 DEF Advances, At
            <7>2. QED
              BY <1>0, <3>1, <7>1 DEF Place
          <6>3. QED
            BY <5>2, <6>1, <6>2
        <5>3. QED
          BY <5>1, <5>2
      <4>3. QED
        BY <1>0, <3>1, <3>3, <4>1, <4>2 DEF Place, Advances, At, Next1
    <3>4. ctx'[h].at = 0 \/ ctx'[h].at > 0
      BY <3>1, ContextFields DEF Advances
    <3>5. QED
      BY <3>2, <3>3, <3>4
  <2>3. ASSUME NEW g \in Handler \ {h} PROVE Place(g)'
    <3>1. ctx'[g] = ctx[g]
      BY <2>1 DEF Moves
    <3>2. At(g, "insert") => h \in Others(g)
      BY <2>1 DEF Moves, Others
    <3>3. ~At(g, "insert") \/ ~Busy(g)
      BY <1>0, <3>2 DEF Place
    <3>4. faults > 0 => faults' > 0
      BY <1>a, <1>1, StepKeeps
    <3>5. QED
      BY <1>0, <3>1, <3>3, <3>4 DEF Place, At, Busy
  <2>4. QED
    BY <2>2, <2>3, PlacesParts
<1>2. ASSUME NEW h \in Handler, Timeout(h) PROVE Places'
  <2>1. ctx'[h] = None /\ \A g \in Handler \ {h} : ctx'[g] = ctx[g]
    BY <1>2, LeaveLeaves DEF Timeout
  <2>2. row' = row /\ (faults > 0 => faults' > 0)
    BY <1>2, <1>a DEF Timeout, Fault
  <2>3. \A g \in Handler : Busy(g)' => Busy(g) /\ ctx'[g] = ctx[g]
    BY <2>1 DEF Busy
  <2>4. \A g \in Handler : Others(g)' \subseteq Others(g)
    BY <2>3 DEF Others
  <2>5. \A g \in Handler : Place(g)'
    BY <1>0, <2>2, <2>3, <2>4 DEF Place, At
  <2>6. QED
    BY <2>5, PlacesParts
<1>3. ASSUME NEW h \in Handler, NEW o \in Operations, Begin(h, o) PROVE Places'
  <2>1. row' = row /\ faults' = faults /\ ~Busy(h) /\ (IF o.new THEN begun = 0 ELSE row.status # "absent")
    BY <1>3 DEF Begin
  <2>2. begun = 0 => row = NoRow /\ \A g \in Handler : ~Busy(g)
    BY DEF Beginning
  <2>3. StepFacts(o, 1) /\ OpFacts(o) /\ 1 \in 1..Size(o)
    BY OperationFacts DEF OpFacts
  <2>4. o.steps[1] # "record" /\ (o.steps[1] = "insert" => o.new)
    BY <2>3 DEF StepFacts
  <2>5. Place(h)'
    <3>1. /\ ctx'[h].op = o /\ ctx'[h].at = 1 /\ ctx'[h].made = None
          /\ ctx'[h].read = row.task \/ ctx'[h].read = None
      BY <1>3, BeginContext
    <3>2. o.new => ctx'[h].read = None
      BY <2>1, <2>2, <3>1, <1>a, RowUpdates
    <3>3. o.new => Others(h)' = {}
      BY <1>3, <2>1, <2>2, BeginContext DEF Others, Busy
    <3>4. QED
      BY <2>1, <2>2, <2>4, <3>1, <3>2, <3>3 DEF Place, At, Next1
  <2>6. ASSUME NEW g \in Handler \ {h} PROVE Place(g)'
    <3>1. Busy(g)' => Busy(g) /\ Same(ctx[g], ctx'[g], "beside")
      BY <1>3, BeginContext DEF Busy
    <3>2. ASSUME Busy(g) PROVE ~At(g, "insert")
      <4>1. SUFFICES ASSUME At(g, "insert") PROVE FALSE
        OBVIOUS
      <4>2. row = NoRow
        BY <1>0, <3>2, <4>1 DEF Place
      <4>3. QED
        BY <2>1, <2>2, <3>2, <4>2, <1>a, RowUpdates
    <3>3. QED
      BY <1>0, <2>1, <3>1, <3>2 DEF Place, Same, At, Busy, Next1
  <2>7. QED
    BY <2>5, <2>6, PlacesParts
<1>4. ASSUME NEW t \in Task, Poll(t) \/ ContainerStop(t) PROVE Places'
  <2>0. ctx' = ctx /\ faults' >= faults /\ (row = NoRow => row' = NoRow)
    BY <1>4, <1>a, PollKeeps, RowUpdates DEF ContainerStop
  <2>1. ctx' = ctx /\ (faults > 0 => faults' > 0) /\ (row = NoRow => row' = NoRow)
        /\ faults' \in Int
    BY <2>0, <1>a, <1>4, PollKeeps DEF ContainerStop
  <2>2. \A g \in Handler : Place(g)'
    BY <1>0, <1>a, <2>1 DEF Place, At, Busy, Others
  <2>3. QED
    BY <2>2, PlacesParts
<1>5. CASE ContainerProvision \/ Publish
  <2>1. ctx' = ctx /\ faults' = faults /\ row' = row
    BY <1>5 DEF ContainerProvision, Publish
  <2>2. \A g \in Handler : Place(g)'
    BY <1>0, <2>1 DEF Place, At, Busy, Others
  <2>3. QED
    BY <2>2, PlacesParts
<1>6. CASE Registered \/ Crash
  <2>1. \A g \in Handler : ~Busy(g)'
    BY <1>6 DEF Registered, Crash, Beginning, Busy
  <2>2. QED
    BY <2>1, PlacesParts DEF Place
<1>7. QED
  BY <1>1, <1>2, <1>3, <1>4, <1>5, <1>6 DEF Next

-----------------------------------------------------------------------------
(* The tasks that live.                                                      *)

LEMMA LiveStep ==
  ASSUME TypeOK, Room, Places, NEW h \in Handler, Step(h)
  PROVE  /\ Live' \subseteq Live \cup {n + 1}
         /\ \/ Live' \subseteq Live
            \/ /\ Launch(h) /\ ~ctx[h].beside /\ ctx'[h] # None /\ ctx'[h].made = n + 1
<1>1. CASE Launch(h)
  <2>1. Busy(h) /\ ctx[h].beside \in BOOLEAN
    BY <1>1, AtFacts, ContextFields DEF Launch, At
  <2>2. QED
    BY <1>1, <2>1, LaunchEffect DEF Live
<1>2. CASE ~Launch(h)
  BY <1>2, StepKeeps DEF Live
<1>3. QED
  BY <1>1, <1>2

LEMMA LiveElse ==
  ASSUME TypeOK, Next, \A h \in Handler : ~Step(h)
  PROVE  Live' \subseteq Live
<1>1. CASE \E h \in Handler : Timeout(h) \/ \E o \in Operations : Begin(h, o)
  BY <1>1 DEF Timeout, Begin, Live, ecs
<1>2. CASE \E t \in Task : Poll(t) \/ ContainerStop(t)
  BY <1>2, PollKeeps DEF ContainerStop, Live
<1>3. CASE ContainerProvision
  BY <1>3 DEF ContainerProvision, Live
<1>4. CASE Registered \/ Publish
  BY <1>4 DEF Registered, Publish, Live, ecs, history
<1>5. CASE Crash
  BY <1>5 DEF Crash, Live, ecs
<1>6. QED
  BY <1>1, <1>2, <1>3, <1>4, <1>5 DEF Next

\* A task that is down stays down.
LEMMA DownStays ==
  ASSUME TypeOK, Room, Places, Next, NEW t \in Named, Down(t)
  PROVE  Down(t)'
<1>1. ASSUME NEW h \in Handler, Launch(h) PROVE t # n + 1
  <2>1. n + 1 \in Task /\ n \in Nat
    BY <1>1, LaunchRoom, BoundAssumption DEF Launch, TypeOK
  <2>2. QED
    BY <2>1, NoneAssumption DEF Named, Launched
<1>2. CASE \E h \in Handler : Step(h)
  BY <1>1, <1>2, LiveStep DEF Down
<1>3. CASE \A h \in Handler : ~Step(h)
  BY <1>3, LiveElse DEF Down
<1>4. QED
  BY <1>2, <1>3

LEMMA NoneIsDown == ASSUME TypeOK PROVE Down(None)
<1>1. up \subseteq Task
  BY BoundAssumption DEF TypeOK, Task
<1>2. QED
  BY <1>1, NoneAssumption DEF Down, Live

\* A request that is alone meets no other.
LEMMA OthersBusy ==
  ASSUME NEW g \in Handler, NEW h \in Handler \ {g}, Busy(h)
  PROVE  Others(g) # {}
BY DEF Others

LEMMA BeginningNext ==
  ASSUME TypeOK, Room, Places, Beginning, Alone, StopsHold, LiveTasksAreNamed, Next
  PROVE  Beginning'
<1>0. row \in RowType /\ begun \in Nat
  BY BoundAssumption DEF TypeOK, RowType
<1>a. /\ begun = 0 => row = NoRow /\ up = {} /\ \A h \in Handler : ~Busy(h)
      /\ row.status = "absent" => row = NoRow /\ Live = {}
      /\ Live = {} <=> up \subseteq excused
  BY DEF Beginning, Live
<1>b. Live' = {} => up' \subseteq excused'
  BY DEF Live
<1>1. ASSUME NEW h \in Handler, Step(h) PROVE Beginning'
  <2>1. begun' = begun /\ begun # 0
    BY <1>1, <1>a, StepKeeps, StepIs
  <2>2. ASSUME row'.status = "absent" PROVE row' = NoRow /\ Live' = {}
    <3>1. CASE Insert(h)
      <4>1. row = NoRow
        BY <1>1, <3>1, StepIs, PlacesParts DEF Place
      <4>2. row' = row
        BY <2>2, <3>1, Inserted
      <4>3. Live' \subseteq Live
        BY <1>1, <3>1, LiveStep, StepIs DEF Insert, Launch, At
      <4>4. QED
        BY <1>0, <1>a, <4>1, <4>2, <4>3, RowUpdates
    <3>2. CASE Delete(h)
      <4>1. Live' \subseteq Live
        BY <1>1, <3>2, LiveStep, StepIs DEF Delete, Launch, At
      <4>2. CASE row' = row
        BY <1>a, <2>2, <4>1, <4>2
      <4>3. CASE row' = NoRow
        <5>1. ctx[h].beside \in BOOLEAN /\ Busy(h) /\ At(h, "delete")
          BY <3>2, AtFacts, ContextFields DEF Delete, At
        <5>2. CASE ctx[h].beside
          BY <3>2, <4>3, <5>2 DEF Delete, Live, ecs
        <5>3. CASE ~ctx[h].beside
          <6>1. StepFacts(ctx[h].op, ctx[h].at) /\ ctx[h].op.steps[ctx[h].at] = "delete"
            BY <5>1, AtFacts
          <6>2. ~ctx[h].op.sparing /\ Past(ctx[h], "stop")
            BY <6>1 DEF StepFacts, Before, Past
          <6>3. Down(row.task)
            BY <5>1, <5>3, <6>2 DEF Alone, StopsHold
          <6>4. \A g \in Handler : Busy(g) => g = h
            BY <5>1, <5>3, OthersBusy DEF Alone
          <6>5. ctx[h].made = None
            BY <5>1, PlacesParts DEF Place, At, Next1
          <6>6. Live = {}
            BY <6>3, <6>4, <6>5, NoneIsDown DEF LiveTasksAreNamed, Live, Down
          <6>7. QED
            BY <4>1, <4>3, <6>6
        <5>4. QED
          BY <5>1, <5>2, <5>3
      <4>4. QED
        BY <3>2, <4>2, <4>3 DEF Delete
    <3>3. CASE ~Insert(h) /\ ~Delete(h)
      <4>1. row.status = "absent" /\ row' = row
        BY <1>1, <2>2, <3>3, StepRow
      <4>2. Live' \subseteq Live
        <5>1. CASE Launch(h) /\ ~ctx[h].beside
          <6>1. At(h, "launch") /\ Busy(h)
            BY <1>1, <5>1, StepIs
          <6>2. At(h, "insert")
            BY <4>1, <5>1, <6>1 DEF Alone
          <6>3. QED
            BY <1>1, <3>3, <6>2, StepIs
        <5>2. QED
          BY <1>1, <5>1, LiveStep
      <4>3. QED
        BY <1>a, <4>1, <4>2
    <3>4. QED
      BY <3>1, <3>2, <3>3
  <2>3. QED
    BY <1>b, <2>1, <2>2 DEF Beginning
<1>2. ASSUME NEW h \in Handler, Timeout(h) \/ \E o \in Operations : Begin(h, o) PROVE Beginning'
  <2>1. row' = row /\ begun' # 0
    BY <1>0, <1>2, <1>a DEF Timeout, Begin
  <2>2. Live' \subseteq Live
    BY <1>2 DEF Timeout, Begin, Live, ecs
  <2>3. QED
    BY <1>a, <1>b, <2>1, <2>2 DEF Beginning
<1>3. ASSUME NEW t \in Task, Poll(t) PROVE Beginning'
  <2>1. Live' \subseteq Live /\ up' \subseteq up /\ begun' = begun /\ ctx' = ctx
        /\ (row.status = "absent" => row' = row) /\ (row'.status = "absent" => row.status = "absent")
    BY <1>3, PollKeeps DEF Live
  <2>2. begun' = 0 => row' = NoRow /\ up' = {} /\ \A h \in Handler : ~Busy(h)'
    BY <1>a, <1>0, <2>1, RowUpdates DEF Busy
  <2>3. row'.status = "absent" => row' = NoRow /\ up' \subseteq excused'
    BY <1>a, <1>b, <2>1
  <2>4. QED
    BY <2>2, <2>3 DEF Beginning
<1>4. ASSUME NEW t \in Task, ContainerStop(t) PROVE Beginning'
  <2>1. Live' \subseteq Live /\ begun' # 0 /\ row' = row
    BY <1>0, <1>4 DEF ContainerStop, Live
  <2>2. QED
    BY <1>a, <1>b, <2>1 DEF Beginning
<1>5. CASE ContainerProvision \/ Registered
  <2>1. begun' # 0 /\ row'.status # "absent"
    <3>1. Registered => row'.status = "pending"
      BY RegisteredRow
    <3>2. CASE ContainerProvision
      BY <1>0, <3>2 DEF ContainerProvision
    <3>3. CASE Registered
      BY <3>1, <3>3 DEF Registered
    <3>4. QED
      BY <1>5, <3>2, <3>3
  <2>2. QED
    BY <2>1 DEF Beginning
<1>6. CASE Publish \/ Crash
  <2>1. begun' = begun /\ row' = row /\ up' = up /\ Live' \subseteq Live
        /\ (ctx' = ctx \/ \A h \in Handler : ctx'[h] = None)
    BY <1>6 DEF Publish, Crash, Live, ecs, history
  <2>2. \A h \in Handler : ~Busy(h) => ~Busy(h)'
    BY <2>1 DEF Busy
  <2>3. QED
    BY <1>a, <1>b, <2>1, <2>2 DEF Beginning
<1>7. QED
  BY <1>1, <1>2, <1>3, <1>4, <1>5, <1>6 DEF Next

AloneOf(h) ==
  Busy(h) /\ ~ctx[h].beside =>
    /\ Others(h) = {}
    /\ At(h, "insert") \/ row.status # "absent"
    /\ ctx[h].read = row.task \/ ctx[h].op.sparing

LEMMA AloneParts == (Alone <=> \A h \in Handler : AloneOf(h))
                    /\ (Alone' <=> \A h \in Handler : AloneOf(h)')
BY DEF Alone, AloneOf

\* The last step of an operation.
LEMMA LastSteps ==
  ASSUME TypeOK, NEW h \in Handler, Moves(h), At(h, "record") \/ At(h, "delete")
  PROVE  ctx'[h] = None
<1>1. SUFFICES ASSUME Advances(h) PROVE FALSE
  BY DEF Moves
<1>2. PICK s \in {"record", "delete"} : At(h, s)
  OBVIOUS
<1>3. Busy(h) /\ ~At(h, "unroute") /\ ~At(h, "launch")
  BY <1>2 DEF At
<1>4. StepFacts(ctx[h].op, ctx[h].at) /\ ctx[h].op.steps[ctx[h].at] = s
  BY <1>2, <1>3, AtFacts
<1>5. ctx[h].at = Size(ctx[h].op) /\ Size(ctx[h].op) \in 2..10
  <2>1. Size(ctx[h].op) \in 2..10
    BY <1>3, AtFacts DEF OpFacts
  <2>2. QED
    BY <1>4, <2>1 DEF StepFacts
<1>6. ctx'[h].at = ctx[h].at + 1 /\ ctx'[h].at <= Size(ctx[h].op)
  BY <1>1, <1>3 DEF Advances
<1>7. QED
  BY <1>5, <1>6

LEMMA AloneNext ==
  ASSUME TypeOK, Room, Places, Beginning, Alone, Next
  PROVE  Alone'
<1>0. row \in RowType /\ begun \in Nat /\ \A h \in Handler : AloneOf(h)
  BY AloneParts, BoundAssumption DEF TypeOK, RowType
<1>1. ASSUME NEW h \in Handler, Step(h) PROVE Alone'
  <2>1. Moves(h) /\ Busy(h)
    BY <1>1, StepMoves, StepIs
  <2>2. AloneOf(h)'
    <3> SUFFICES ASSUME Busy(h)', ~ctx'[h].beside PROVE AloneOf(h)'
      BY DEF AloneOf
    <3>1. Advances(h) /\ ~Record(h) /\ ~Delete(h)
      BY <1>1, <2>1, LastSteps, StepIs DEF Moves, Busy
    <3>2. ~ctx[h].beside /\ ctx'[h].read = ctx[h].read /\ ctx'[h].op = ctx[h].op
      BY <3>1 DEF Advances
    <3>3. Others(h)' = {}
      BY <1>0, <2>1, <3>2 DEF AloneOf, Moves, Others, Busy
    <3>4. CASE Insert(h)
      <4>1. row = NoRow /\ row.task = None
        BY <1>0, <1>1, <2>1, <3>4, StepIs, PlacesParts, RowUpdates DEF Place
      <4>2. \/ row' = row /\ faults' = faults + 1
            \/ row'.status \in {"provisioning", "pending"} /\ row'.task = None
        BY <3>4, Inserted
      <4>3. row.status = "absent"
        BY <1>0, <4>1, RowUpdates
      <4>4. row' # row
        <5>1. SUFFICES ASSUME row' = row PROVE FALSE
          OBVIOUS
        <5>2. faults \in Nat /\ faults' = faults + 1
          BY <4>2, <4>3, <5>1, BoundAssumption DEF TypeOK
        <5>3. Onward(h, [ctx[h] EXCEPT !.beside = TRUE], 1) \/ Leave(h)
          BY <3>4, <5>2 DEF Insert, Fine
        <5>4. Same(ctx[h], [ctx[h] EXCEPT !.beside = TRUE], "beside")
              /\ [ctx[h] EXCEPT !.beside = TRUE].beside
          BY <3>1, ContextUpdates DEF Advances
        <5> DEFINE d == [ctx[h] EXCEPT !.beside = TRUE]
        <5>5. CASE Onward(h, d, 1)
          <6>1. d \in Context /\ d.beside
            BY <5>4 DEF Same
          <6> HIDE DEF d
          <6>2. ctx'[h] = None \/ Goes(d, ctx'[h], 1)
            <7>1. d.at + 1 \in Int /\ Size(d.op) \in Int
              BY <6>1, ContextFields, OperationFacts DEF OpFacts
            <7>2. QED
              BY <5>5, <6>1, <7>1, OnwardGoes
          <6>3. QED
            BY <6>1, <6>2, <3>1 DEF Goes, Advances
        <5>6. CASE Leave(h)
          BY <3>1, <5>6, LeaveLeaves DEF Advances
        <5>7. QED
          BY <5>3, <5>5, <5>6
      <4>5. QED
        BY <1>0, <2>1, <3>2, <3>3, <4>1, <4>2, <4>3, <4>4 DEF AloneOf
    <3>5. CASE ~Insert(h)
      <4>1. row'.task = row.task /\ (row'.status = "absent" <=> row.status = "absent")
            /\ ~At(h, "insert")
        BY <1>1, <3>1, <3>5, StepRow, StepIs
      <4>2. QED
        BY <1>0, <2>1, <3>2, <3>3, <4>1 DEF AloneOf
    <3>6. QED
      BY <3>4, <3>5
  <2>3. ASSUME NEW g \in Handler \ {h} PROVE AloneOf(g)'
    BY <1>0, <2>1, <2>3, OthersBusy DEF Moves, AloneOf, Busy
  <2>4. QED
    BY <2>2, <2>3, AloneParts
<1>2. ASSUME NEW h \in Handler, Timeout(h) PROVE Alone'
  <2>1. ctx'[h] = None /\ (\A g \in Handler \ {h} : ctx'[g] = ctx[g]) /\ Busy(h)
    BY <1>2, LeaveLeaves DEF Timeout
  <2>2. ASSUME NEW g \in Handler \ {h} PROVE AloneOf(g)'
    BY <1>0, <2>1, OthersBusy DEF AloneOf, Busy
  <2>3. QED
    BY <2>1, <2>2, AloneParts DEF AloneOf, Busy
<1>3. ASSUME NEW h \in Handler, NEW o \in Operations, Begin(h, o) PROVE Alone'
  <2>1. row' = row /\ (o.new \/ row.status # "absent")
    BY <1>3 DEF Begin
  <2>2. StepFacts(o, 1) /\ 1 \in 1..Size(o)
    BY OperationFacts DEF OpFacts
  <2>3. o.new => o.steps[1] = "insert"
    BY <2>2 DEF StepFacts
  <2>4. /\ ctx'[h].op = o /\ ctx'[h].at = 1 /\ Busy(h)'
        /\ ctx'[h].read = row.task \/ o.sparing
        /\ ctx'[h].beside <=> Others(h) # {}
    BY <1>3, BeginContext
  <2>5. At(h, "insert")' <=> o.steps[1] = "insert"
    BY <2>4 DEF At
  <2>6. Others(h)' = Others(h)
    BY <1>3, BeginContext DEF Others, Busy, Same
  <2>7. AloneOf(h)'
    BY <2>1, <2>3, <2>4, <2>5, <2>6 DEF AloneOf
  <2>8. ASSUME NEW g \in Handler \ {h} PROVE AloneOf(g)'
    BY <1>3, BeginContext DEF AloneOf, Busy
  <2>9. QED
    BY <2>7, <2>8, AloneParts
<1>4. ASSUME NEW t \in Task, Poll(t) \/ ContainerStop(t) PROVE Alone'
  <2>1. ctx' = ctx /\ row'.task = row.task /\ (row'.status = "absent" => row.status = "absent")
    BY <1>4, PollKeeps DEF ContainerStop
  <2>2. \A g \in Handler : AloneOf(g)'
    BY <1>0, <2>1 DEF AloneOf, At, Busy, Others
  <2>3. QED
    BY <2>2, AloneParts
<1>5. CASE ContainerProvision \/ Publish
  <2>1. ctx' = ctx /\ row' = row
    BY <1>5 DEF ContainerProvision, Publish
  <2>2. \A g \in Handler : AloneOf(g)'
    BY <1>0, <2>1 DEF AloneOf, At, Busy, Others
  <2>3. QED
    BY <2>2, AloneParts
<1>6. CASE Registered \/ Crash
  <2>1. \A g \in Handler : ~Busy(g)'
    BY <1>6 DEF Registered, Crash, Beginning, Busy
  <2>2. QED
    BY <2>1, AloneParts DEF AloneOf
<1>7. QED
  BY <1>1, <1>2, <1>3, <1>4, <1>5, <1>6 DEF Next

StopOf(h) ==
  Busy(h) /\ (ctx[h].at = 0 \/ Past(ctx[h], "stop")) => Down(ctx[h].read)

LEMMA StopParts == (StopsHold <=> \A h \in Handler : StopOf(h))
                   /\ (StopsHold' <=> \A h \in Handler : StopOf(h)')
BY DEF StopsHold, StopOf

LEMMA ReadNamed ==
  ASSUME Bounds, NEW h \in Handler, Busy(h)
  PROVE  ctx[h].read \in Named /\ ctx[h].made \in Named
BY DEF Bounds

LEMMA StopsHoldNext ==
  ASSUME TypeOK, Room, Places, Bounds, Beginning, StopsHold, Next
  PROVE  StopsHold'
<1>0. \A h \in Handler : StopOf(h)
  BY StopParts
<1>a. ASSUME NEW g \in Handler, ctx'[g] = ctx[g] PROVE StopOf(g)'
  BY <1>0, <1>a, DownStays, ReadNamed DEF StopOf, Busy, Down
<1>1. ASSUME NEW h \in Handler, Step(h) PROVE StopsHold'
  <2>1. Moves(h) /\ Busy(h)
    BY <1>1, StepMoves, StepIs
  <2>2. StopOf(h)'
    <3> SUFFICES ASSUME NEW r \in Named, r = ctx[h].read, Advances(h),
                        ctx'[h].at = 0 \/ Past(ctx'[h], "stop")
                 PROVE  Down(r)'
      BY <2>1, ReadNamed DEF Moves, Advances, StopOf, Busy
    <3>1. Advances(h)
      OBVIOUS
    <3>2. ctx'[h].at \in 0..10 /\ ctx[h].at \in 0..10 /\ ctx[h].at > 0
      BY <3>1, ContextFields DEF Advances
    <3>3. ctx[h].read \in Named /\ Down(None)
      BY <2>1, ReadNamed, NoneIsDown
    <3>4. CASE ctx'[h].at = 0
      <4>1. At(h, "launch") /\ ctx[h].op.reports
        BY <3>1, <3>2, <3>4 DEF Advances
      <4>2. StepFacts(ctx[h].op, ctx[h].at) /\ ctx[h].op.steps[ctx[h].at] = "launch"
        BY <2>1, <4>1, AtFacts
      <4>3. ctx[h].op.new \/ Past(ctx[h], "stop")
        BY <4>1, <4>2 DEF StepFacts, Before, Past
      <4>4. ctx[h].op.new => ctx[h].read = None
        BY <2>1, PlacesParts DEF Place
      <4>5. Down(ctx[h].read)
        BY <1>0, <2>1, <3>3, <4>3, <4>4 DEF StopOf
      <4>6. QED
        BY <3>1, <3>3, <4>5, DownStays
    <3>5. CASE ctx'[h].at > 0
      <4>1. Past(ctx[h], "stop") \/ Stop(h)
        BY <1>1, <3>1, <3>5, Passing, StepIs
      <4>2. CASE Past(ctx[h], "stop")
        BY <1>0, <2>1, <3>1, <3>3, <4>2, DownStays DEF StopOf
      <4>3. CASE Stop(h)
        BY <3>1, <4>3 DEF Stop, Down, Live
      <4>4. QED
        BY <4>1, <4>2, <4>3
    <3>6. QED
      BY <3>2, <3>4, <3>5
  <2>3. QED
    BY <1>a, <2>1, <2>2, StopParts DEF Moves
<1>2. ASSUME NEW h \in Handler, Timeout(h) PROVE StopsHold'
  <2>1. ctx'[h] = None /\ \A g \in Handler \ {h} : ctx'[g] = ctx[g]
    BY <1>2, LeaveLeaves DEF Timeout
  <2>2. StopOf(h)'
    BY <2>1 DEF StopOf, Busy
  <2>3. QED
    BY <1>a, <2>1, <2>2, StopParts
<1>3. ASSUME NEW h \in Handler, NEW o \in Operations, Begin(h, o) PROVE StopsHold'
  <2>1. StopOf(h)'
    <3>1. ctx'[h].at = 1
      BY <1>3, BeginContext
    <3>2. 1..(1 - 1) = {}
      OBVIOUS
    <3>3. QED
      BY <3>1, <3>2 DEF StopOf, Past
  <2>2. ASSUME NEW g \in Handler \ {h} PROVE StopOf(g)'
    <3>1. Busy(g)' => Busy(g) /\ Same(ctx[g], ctx'[g], "beside")
      BY <1>3, BeginContext DEF Busy
    <3>2. Busy(g)' => (Past(ctx'[g], "stop") <=> Past(ctx[g], "stop"))
      BY <3>1 DEF Same, Past
    <3>3. QED
      BY <1>0, <3>1, <3>2, DownStays, ReadNamed DEF StopOf, Same
  <2>3. QED
    BY <2>1, <2>2, StopParts
<1>4. ASSUME NEW t \in Task, Poll(t) \/ ContainerStop(t) PROVE StopsHold'
  BY <1>a, <1>4, PollKeeps, StopParts DEF ContainerStop
<1>5. CASE ContainerProvision \/ Publish
  BY <1>a, <1>5, StopParts DEF ContainerProvision, Publish
<1>6. CASE Registered \/ Crash
  <2>1. \A g \in Handler : ~Busy(g)'
    BY <1>6 DEF Registered, Crash, Beginning, Busy
  <2>2. QED
    BY <2>1, StopParts DEF StopOf
<1>7. QED
  BY <1>1, <1>2, <1>3, <1>4, <1>5, <1>6 DEF Next

-----------------------------------------------------------------------------
(* LiveTasksAreNamed.                                                        *)

\* What a request that is about to name its task knows of the old one: it is
\* down, or nothing excuses the request.
LEMMA RecordKnows ==
  ASSUME TypeOK, Places, Alone, StopsHold, NEW h \in Handler, At(h, "record"),
         ~ctx[h].op.leaves
  PROVE  /\ Down(ctx[h].read) /\ ~ctx[h].op.sparing
         /\ ~ctx[h].beside => Down(row.task)
<1>1. Busy(h)
  BY DEF At
<1>2. StepFacts(ctx[h].op, ctx[h].at) /\ ctx[h].op.steps[ctx[h].at] = "record"
  BY <1>1, AtFacts
<1>3. ctx[h].op.new \/ Past(ctx[h], "stop")
  BY <1>2 DEF StepFacts, Before, Past
<1>4. ctx[h].op.new => ctx[h].read = None
  BY <1>1, PlacesParts DEF Place
<1>5. Down(ctx[h].read)
  BY <1>1, <1>3, <1>4, NoneIsDown, StopParts DEF StopOf
<1>6. ~ctx[h].op.sparing
  BY <1>2 DEF StepFacts
<1>7. QED
  BY <1>1, <1>5, <1>6, AloneParts DEF AloneOf

LEMMA RecordEffect ==
  ASSUME TypeOK, Places, NEW h \in Handler, Record(h)
  PROVE  /\ ctx[h].made \in Task /\ up' = up
         /\ \/ /\ faults' = faults /\ row.status = "absent" /\ row' = row
            \/ /\ faults' = faults /\ row.status # "absent" /\ row' = Recorded(ctx[h])
               /\ row'.task = ctx[h].made /\ row'.arn = row.arn /\ row'.sub = row.sub
               /\ row'.status = IF ctx[h].op.marks THEN "provisioning" ELSE row.status
               /\ row'.prev = IF ctx[h].op.tag = "swap" THEN row.tag ELSE row.prev
               /\ row'.tag = IF ctx[h].op.tag = "keep" THEN row.tag ELSE ctx[h].ver
            \/ /\ faults' = faults + 1 /\ row' = row /\ ctx[h].made \in excused'
         /\ (ctx[h].op.leaves \/ ctx[h].beside) => {row.task} \cap up \subseteq excused'
         /\ phase' = IF ~ctx[h].op.polls THEN phase
                     ELSE [phase EXCEPT ![ctx[h].made] =
                             IF ctx[h].op.named \/ row.sub THEN "watch" ELSE "bare"]
<1>1. row \in RowType /\ faults \in Nat
  BY BoundAssumption DEF TypeOK, RowType
<1>2. Busy(h) /\ ctx[h] \in Context /\ ctx[h].made # None
  BY AtFacts DEF Record, At, Places, Next1
<1>3. LET q == Recorded(ctx[h]) IN
      /\ q.task = ctx[h].made /\ q.arn = row.arn /\ q.sub = row.sub
      /\ q.status = IF ctx[h].op.marks THEN "provisioning" ELSE row.status
      /\ q.prev = IF ctx[h].op.tag = "swap" THEN row.tag ELSE row.prev
      /\ q.tag = IF ctx[h].op.tag = "keep" THEN row.tag ELSE ctx[h].ver
  BY <1>1 DEF RowType, Recorded
<1>4. \/ faults' = faults /\ row' = IF row.status = "absent" THEN row ELSE Recorded(ctx[h])
      \/ faults' = faults + 1 /\ row' = row
  BY DEF Record, Write, Fine, Fault
<1>5. (faults' = faults + 1 => ctx[h].made \in excused')
      /\ ((ctx[h].op.leaves \/ ctx[h].beside) => {row.task} \cap up \subseteq excused')
  BY <1>1 DEF Record
<1>6. QED
  BY <1>2, <1>3, <1>4, <1>5, ContextFields DEF Record, ecs

LEMMA LiveTasksNext ==
  ASSUME TypeOK, Room, Places, Bounds, Beginning, Alone, StopsHold, LiveTasksAreNamed, Next
  PROVE  LiveTasksAreNamed'
<1>0. row \in RowType
  BY DEF TypeOK, RowType
<1>a. /\ LiveTasksAreNamed <=> \A t \in Live : t = row.task \/ \E h \in Handler : Busy(h) /\ ctx[h].made = t
      /\ LiveTasksAreNamed' <=>
           \A t \in Live' : t = row'.task \/ \E h \in Handler : Busy(h)' /\ ctx'[h].made = t
  BY DEF LiveTasksAreNamed, Live
<1>1. ASSUME NEW h \in Handler, Step(h), NEW t \in Live'
      PROVE  t = row'.task \/ \E g \in Handler : Busy(g)' /\ ctx'[g].made = t
  <2>1. Moves(h) /\ Busy(h)
    BY <1>1, StepMoves, StepIs
  <2>2. CASE t \notin Live
    <3>1. Launch(h) /\ ctx'[h] # None /\ ctx'[h].made = t
      BY <1>1, <2>2, LiveStep
    <3>2. QED
      BY <3>1 DEF Busy
  <2>3. CASE \E g \in Handler \ {h} : Busy(g) /\ ctx[g].made = t
    BY <2>1, <2>3 DEF Moves, Busy
  <2>4. CASE t \in Live /\ ctx[h].made = t
    <3>1. ctx[h].made # None
      BY <2>4, NoneIsDown DEF Down
    <3>2. At(h, "record") /\ Record(h)
      BY <1>1, <2>1, <3>1, StepIs, PlacesParts DEF Place, At, Next1
    <3>3. row'.task = t \/ row.status = "absent" \/ t \in excused'
      BY <2>4, <3>2, RecordEffect
    <3>4. QED
      BY <1>1, <2>4, <3>3 DEF Beginning, Live
  <2>5. CASE t \in Live /\ t = row.task
    <3>1. CASE Record(h)
      <4>1. At(h, "record")
        BY <3>1 DEF Record
      <4>2. row' = row \/ ctx[h].op.leaves \/ ctx[h].beside \/ Down(t)
        BY <2>5, <3>1, <4>1, RecordKnows
      <4>3. CASE ctx[h].op.leaves \/ ctx[h].beside
        BY <1>1, <2>5, <3>1, <4>3, RecordEffect DEF Live
      <4>4. QED
        BY <2>5, <4>2, <4>3 DEF Down
    <3>2. CASE Delete(h)
      <4>1. ctx[h].beside \in BOOLEAN /\ At(h, "delete")
        BY <2>1, <3>2, AtFacts, ContextFields DEF Delete
      <4>2. CASE ctx[h].beside
        BY <1>1, <2>5, <3>2, <4>2 DEF Delete, Live, ecs
      <4>3. CASE ~ctx[h].beside
        <5>1. StepFacts(ctx[h].op, ctx[h].at) /\ ctx[h].op.steps[ctx[h].at] = "delete"
          BY <2>1, <4>1, AtFacts
        <5>2. ~ctx[h].op.sparing /\ Past(ctx[h], "stop")
          BY <5>1 DEF StepFacts, Before, Past
        <5>3. QED
          BY <2>1, <2>5, <4>3, <5>2 DEF Alone, StopsHold, Down
      <4>4. QED
        BY <4>1, <4>2, <4>3
    <3>3. CASE Insert(h)
      <4>1. row.task = None
        BY <1>0, <1>1, <2>1, <3>3, StepIs, PlacesParts, RowUpdates DEF Place
      <4>2. QED
        BY <2>5, <4>1, NoneIsDown DEF Down
    <3>4. CASE ~Record(h) /\ ~Delete(h) /\ ~Insert(h)
      BY <1>1, <2>5, <3>4, StepRow
    <3>5. QED
      BY <3>1, <3>2, <3>3, <3>4
  <2>6. QED
    BY <1>a, <2>2, <2>3, <2>4, <2>5
<1>2. ASSUME NEW h \in Handler, Timeout(h), NEW t \in Live'
      PROVE  t = row'.task \/ \E g \in Handler : Busy(g)' /\ ctx'[g].made = t
  <2>1. ctx'[h] = None /\ (\A g \in Handler \ {h} : ctx'[g] = ctx[g]) /\ row' = row
    BY <1>2, LeaveLeaves DEF Timeout
  <2>2. t \in Live /\ t # ctx[h].made
    <3>1. t \in up' /\ t \notin excused' /\ t # None
      BY <1>2, NoneIsDown DEF Live, Timeout, ecs, Down
    <3>2. QED
      BY <1>2, <3>1 DEF Timeout, Live, ecs
  <2>3. QED
    BY <1>a, <2>1, <2>2 DEF Busy
<1>3. ASSUME NEW h \in Handler, NEW o \in Operations, Begin(h, o) PROVE LiveTasksAreNamed'
  <2>1. Live' = Live /\ row' = row
    BY <1>3 DEF Begin, Live, ecs
  <2>2. \A g \in Handler : Busy(g) => Busy(g)' /\ ctx'[g].made = ctx[g].made
    <3>1. ~Busy(h)
      BY <1>3 DEF Begin
    <3>2. QED
      BY <1>3, <3>1, BeginContext DEF Same, Busy
  <2>3. QED
    BY <1>a, <2>1, <2>2
<1>4. ASSUME NEW t \in Task, Poll(t) \/ ContainerStop(t) PROVE LiveTasksAreNamed'
  <2>1. Live' \subseteq Live /\ row'.task = row.task /\ ctx' = ctx
    BY <1>4, PollKeeps DEF ContainerStop, Live
  <2>2. QED
    BY <1>a, <2>1 DEF Busy
<1>5. CASE ContainerProvision \/ Publish
  <2>1. Live' \subseteq Live /\ row' = row /\ ctx' = ctx
    BY <1>5 DEF ContainerProvision, Publish, Live, ecs, history
  <2>2. QED
    BY <1>a, <2>1 DEF Busy
<1>6. CASE Registered
  <2>1. Live' = {}
    BY <1>6 DEF Registered, Beginning, Live, ecs, history
  <2>2. QED
    BY <1>a, <2>1
<1>7. CASE Crash
  <2>1. /\ row' = row /\ Live' \subseteq Live
        /\ \A h \in Handler : Busy(h) => ctx[h].made = None \/ ctx[h].made \notin Live'
    BY <1>7 DEF Crash, Live, ecs
  <2>2. QED
    BY <1>a, <2>1, NoneIsDown DEF Down
<1>8. QED
  BY <1>a, <1>1, <1>2, <1>3, <1>4, <1>5, <1>6, <1>7 DEF Next

-----------------------------------------------------------------------------
(* DownMeansDown.                                                            *)

LEMMA DownInvNext ==
  ASSUME TypeOK, Room, Places, Bounds, Beginning, Alone, StopsHold, DownInv, Next
  PROVE  DownInv'
<1> SUFFICES ASSUME ~tangled' PROVE OneRequest' /\ OnePoller' /\ DownStatus'
  BY DEF DownInv
<1>0. row \in RowType /\ row.task \in Named /\ None \in Named
  BY DEF TypeOK, RowType, Bounds, Named
<1>b. PICK r \in Named : r = row.task
  BY <1>0
<1>c. Down(r) => Down(r)'
  BY DownStays
<1>d. Down(None) /\ Down(None)'
  BY <1>0, DownStays, NoneIsDown
<1>e. r = None \/ r \in Task
  BY <1>0, <1>b DEF TypeOK, RowType
<1>1. ASSUME NEW h \in Handler, Step(h)
      PROVE  OneRequest' /\ OnePoller' /\ DownStatus'
  <2>1. Moves(h) /\ Busy(h) /\ ~tangled
    BY <1>1, StepMoves, StepIs, StepKeeps
  <2>2. /\ Others(h) = {} /\ \A t \in Task : phase[t] = "none"
        /\ ctx[h].read = row.task \/ Down(row.task)
        /\ DownStatus
    BY <2>1 DEF DownInv, OneRequest
  <2>3. Down(ctx[h].read) => Down(r)
    BY <1>b, <2>2
  <2>4. DownStatus <=> (row.status \in {"stopped", "error", "deprovisioned"} => Down(r))
    BY <1>b, <1>d, <1>e, <2>2 DEF DownStatus
  <2>5. OneRequest'
    <3> SUFFICES ASSUME NEW g \in Handler, Busy(g)'
                 PROVE  /\ Others(g)' = {} /\ \A t \in Task : phase'[t] = "none"
                        /\ ctx'[g].read = row'.task \/ Down(row.task)'
      BY DEF OneRequest
    <3>1. g = h
      BY <2>1, <2>2 DEF Moves, Others, Busy
    <3>2. Advances(h) /\ ~Record(h) /\ ~Delete(h)
      BY <1>1, <2>1, <3>1, LastSteps, StepIs DEF Moves, Busy
    <3>3. phase' = phase /\ ctx'[h].read = ctx[h].read
      BY <1>1, <3>2, StepKeeps DEF Advances
    <3>4. Others(h)' = {}
      BY <2>1, <2>2 DEF Moves, Others, Busy
    <3>5. CASE Insert(h)
      <4>1. row'.task = None
        <5>1. row = NoRow
          BY <1>1, <2>1, <3>5, StepIs, PlacesParts DEF Place
        <5>2. QED
          BY <1>0, <3>5, <5>1, Inserted, RowUpdates
      <4>2. QED
        BY <1>d, <2>2, <3>1, <3>3, <3>4, <4>1
    <3>6. CASE ~Insert(h)
      <4>1. row'.task = r
        BY <1>1, <1>b, <3>2, <3>6, StepRow
      <4>2. QED
        BY <1>b, <1>c, <2>2, <3>1, <3>3, <3>4, <4>1
    <3>7. QED
      BY <3>5, <3>6
  <2>6. ASSUME Record(h), ~ctx[h].op.leaves PROVE Down(r)'
    BY <1>c, <2>3, <2>6, RecordKnows DEF Record
  <2>7. OnePoller'
    <3> SUFFICES ASSUME NEW t \in Task, phase'[t] # "none" PROVE t = row'.task \/ Down(row.task)'
      BY DEF OnePoller
    <3>1. Record(h) /\ ctx[h].op.polls /\ t = ctx[h].made
      <4>1. Record(h)
        BY <1>1, <2>2, StepKeeps
      <4>2. QED
        BY <2>2, <4>1, RecordEffect DEF TypeOK
    <3>2. ~ctx[h].op.leaves
      BY <2>1, <3>1, AtFacts DEF OpFacts
    <3>3. row' = row \/ row'.task = t
      BY <3>1, RecordEffect
    <3>4. QED
      BY <1>b, <2>6, <3>1, <3>2, <3>3
  <2>8. DownStatus'
    <3> SUFFICES ASSUME row'.status \in {"stopped", "error", "deprovisioned"}
                 PROVE  Down(row.task)' \/ phase'[row'.task] # "none"
      BY DEF DownStatus
    <3>1. ASSUME row' = row PROVE Down(row.task)'
      BY <1>b, <1>c, <2>2, <2>4, <3>1
    <3>2. CASE Insert(h)
      BY <3>1, <3>2, Inserted
    <3>3. CASE Delete(h)
      BY <1>0, <3>1, <3>3, RowUpdates DEF Delete
    <3>4. CASE Record(h)
      <4>1. StepFacts(ctx[h].op, ctx[h].at) /\ ctx[h].op.steps[ctx[h].at] = "record"
        BY <2>1, <3>4, AtFacts DEF Record
      <4>2. ctx[h].op.marks \/ ctx[h].op.polls
        BY <4>1 DEF StepFacts
      <4>3. ctx[h].op.polls => phase'[ctx[h].made] # "none"
        BY <3>4, RecordEffect DEF TypeOK
      <4>4. row' = row \/ (row'.task = ctx[h].made /\ ~ctx[h].op.marks)
        BY <3>4, RecordEffect
      <4>5. QED
        BY <3>1, <4>2, <4>3, <4>4
    <3>5. CASE LaunchFailed(h)
      <4>1. Down(r)'
        BY <1>c, <2>1, <2>3, <3>5, StopParts DEF StopOf, LaunchFailed
      <4>2. QED
        BY <1>1, <1>b, <3>2, <3>3, <3>4, <4>1, StepRow
    <3>6. ASSUME NEW s \in {"provisioning", "stopped", "deprovisioned"}, SetStatus(h, s)
          PROVE  Down(row.task)'
      <4>1. row' = row \/ row' = [row EXCEPT !.status = s]
        BY <3>6 DEF SetStatus, Write
      <4>2. [row EXCEPT !.status = s].status = s /\ [row EXCEPT !.status = s].task = row.task
        BY <1>0, RowUpdates
      <4>3. CASE s = "provisioning"
        BY <3>1, <4>1, <4>2, <4>3
      <4>4. CASE s # "provisioning"
        <5>1. StepFacts(ctx[h].op, ctx[h].at) /\ ctx[h].op.steps[ctx[h].at] = s
          BY <2>1, <3>6, AtFacts DEF SetStatus
        <5>2. Past(ctx[h], "stop")
          BY <4>4, <5>1 DEF StepFacts, Before, Past
        <5>3. Down(r)'
          BY <1>c, <2>1, <2>3, <5>2, StopParts DEF StopOf
        <5>4. QED
          BY <1>b, <3>1, <4>1, <4>2, <5>3
      <4>5. QED
        BY <4>3, <4>4
    <3>7. CASE Claim(h)
      <4>1. row' = row \/ row' = [row EXCEPT !.status = "provisioning"]
        BY <3>7 DEF Claim
      <4>2. [row EXCEPT !.status = "provisioning"].status = "provisioning"
        BY <1>0, RowUpdates
      <4>3. QED
        BY <3>1, <4>1, <4>2
    <3>8. CASE row'.status = row.status /\ row'.task = row.task
      BY <1>b, <1>c, <2>2, <2>4, <3>8
    <3>9. QED
      BY <1>1, <3>2, <3>3, <3>4, <3>5, <3>6, <3>7, <3>8, StepRow
  <2>9. QED
    BY <2>5, <2>7, <2>8
<1>2. ASSUME NEW h \in Handler, Timeout(h) PROVE OneRequest' /\ OnePoller' /\ DownStatus'
  <2>1. /\ ctx'[h] = None /\ \A g \in Handler \ {h} : ctx'[g] = ctx[g]
        /\ ~tangled /\ row' = row /\ phase' = phase
    BY <1>2, LeaveLeaves DEF Timeout
  <2>2. OneRequest /\ OnePoller /\ DownStatus
    BY <2>1 DEF DownInv
  <2>3. \A g \in Handler : Busy(g)' => Busy(g) /\ ctx'[g] = ctx[g] /\ Others(g)' \subseteq Others(g)
    BY <2>1 DEF Busy, Others
  <2>4. OneRequest'
    BY <1>b, <1>c, <2>1, <2>2, <2>3 DEF OneRequest
  <2>5. OnePoller' /\ DownStatus'
    BY <1>b, <1>c, <2>1, <2>2 DEF OnePoller, DownStatus
  <2>6. QED
    BY <2>4, <2>5
<1>3. ASSUME NEW h \in Handler, NEW o \in Operations, Begin(h, o)
      PROVE  OneRequest' /\ OnePoller' /\ DownStatus'
  <2>1. /\ ~tangled /\ Others(h) = {} /\ \A t \in Task : phase[t] = "none"
        /\ row' = row /\ phase' = phase
    BY <1>3 DEF Begin
  <2>2. DownStatus
    BY <2>1 DEF DownInv
  <2>3. \A g \in Handler \ {h} : ctx'[g] = None
    BY <1>3, <2>1, BeginContext, OthersBusy
  <2>4. Others(h)' = {}
    BY <2>3 DEF Others, Busy
  <2>5. row.status \in {"stopped", "error", "deprovisioned"} => Down(r)
    BY <1>b, <1>d, <1>e, <2>1, <2>2 DEF DownStatus
  <2>6. ctx'[h].read = row.task \/ Down(r)
    BY <1>3, <2>5, BeginContext
  <2>7. OneRequest'
    BY <1>b, <1>c, <2>1, <2>3, <2>4, <2>6 DEF OneRequest, Busy
  <2>8. OnePoller' /\ DownStatus'
    BY <1>b, <1>c, <2>1, <2>5 DEF OnePoller, DownStatus
  <2>9. QED
    BY <2>7, <2>8
<1>4. ASSUME NEW t \in Task, Poll(t) PROVE OneRequest' /\ OnePoller' /\ DownStatus'
  <2>1. /\ ctx' = ctx /\ ~tangled /\ phase[t] # "none" /\ row'.task = row.task
        /\ \A u \in Task \ {t} : phase'[u] = phase[u]
    BY <1>4, PollKeeps
  <2>2. OneRequest /\ OnePoller /\ DownStatus
    BY <2>1 DEF DownInv
  <2>3. \A h \in Handler : ~Busy(h)'
    BY <2>1, <2>2 DEF OneRequest, Busy
  <2>4. OnePoller'
    <3>1. \A u \in Task : phase'[u] # "none" => phase[u] # "none"
      BY <2>1
    <3>2. QED
      BY <1>b, <1>c, <2>1, <2>2, <3>1 DEF OnePoller
  <2>5. DownStatus'
    <3> SUFFICES ASSUME row'.status \in {"stopped", "error", "deprovisioned"}, r \in Task
                 PROVE  Down(r)' \/ phase'[r] # "none"
      BY <1>b, <1>d, <1>e, <2>1 DEF DownStatus
    <3>0. t = r \/ Down(r)'
      BY <1>b, <1>c, <2>1, <2>2 DEF OnePoller
    <3>1. CASE SkipRouting(t) \/ RegisterTarget(t) \/ CreateRule(t)
      <4>1. row' = row /\ phase'[t] # "none"
        BY <3>1 DEF SkipRouting, RegisterTarget, CreateRule, TypeOK
      <4>2. QED
        BY <1>b, <2>1, <3>0, <4>1
    <3>2. CASE ReportRunning(t)
      <4>1. \/ row' = row /\ Fault
            \/ row' = row /\ row.status = "absent"
            \/ row' = [row EXCEPT !.status = "running", !.arn = IF phase[t] = "routed" THEN t ELSE None]
        BY <3>2 DEF ReportRunning, Write
      <4>2. [row EXCEPT !.status = "running", !.arn = IF phase[t] = "routed" THEN t ELSE None].status = "running"
        BY <1>0 DEF RowType
      <4>3. Fault
        BY <4>1, <4>2
      <4>4. t \in excused'
        BY <3>2, <4>3 DEF ReportRunning, Fault, TypeOK
      <4>5. QED
        BY <3>0, <4>4 DEF Down, Live
    <3>3. CASE ReportError(t)
      BY <3>0, <3>3 DEF ReportError, Down, Live
    <3>4. QED
      BY <1>4, <3>1, <3>2, <3>3 DEF Poll
  <2>6. QED
    BY <2>3, <2>4, <2>5 DEF OneRequest
<1>5. ASSUME NEW t \in Task, ContainerStop(t) PROVE FALSE
  BY <1>5 DEF ContainerStop
<1>6. CASE ContainerProvision \/ Publish
  <2>1. ctx' = ctx /\ row' = row /\ phase' = phase /\ ~tangled
    BY <1>6 DEF ContainerProvision, Publish, history
  <2>2. OneRequest /\ OnePoller /\ DownStatus
    BY <2>1 DEF DownInv
  <2>3. OneRequest'
    BY <1>b, <1>c, <2>1, <2>2 DEF OneRequest, Busy, Others
  <2>4. OnePoller' /\ DownStatus'
    BY <1>b, <1>c, <2>1, <2>2 DEF OnePoller, DownStatus
  <2>5. QED
    BY <2>3, <2>4
<1>7. CASE Registered
  <2>1. \A h \in Handler : ~Busy(h)'
    BY <1>7 DEF Registered, Beginning, Busy
  <2>2. row'.task = None
    BY <1>7, RegisteredRow
  <2>3. QED
    BY <1>d, <2>1, <2>2 DEF OneRequest, OnePoller, DownStatus
<1>8. CASE Crash
  <2>1. /\ row' = row /\ ~tangled /\ (\A h \in Handler : ~Busy(h)')
        /\ \A t \in Task : phase'[t] = "none" /\ (phase[t] # "none" => t \in excused')
    BY <1>8 DEF Crash, Busy
  <2>2. DownStatus
    BY <2>1 DEF DownInv
  <2>3. DownStatus'
    BY <1>b, <1>c, <1>d, <1>e, <2>1, <2>2 DEF DownStatus, Down, Live
  <2>4. QED
    BY <2>1, <2>3 DEF OneRequest, OnePoller
<1>9. QED
  BY <1>1, <1>2, <1>3, <1>4, <1>5, <1>6, <1>7, <1>8 DEF Next

-----------------------------------------------------------------------------
(* RunningMeansServed.                                                       *)

\* Without a fault a request goes on after every step but its last, unless it
\* finds no release or no row.
LEMMA GoesOn ==
  ASSUME TypeOK, Room, Places, NEW h \in Handler, Step(h), faults' = faults, ctx[h].at > 0,
         \A s \in {"stopped", "deprovisioned", "record", "delete"} : ~At(h, s)
  PROVE  \/ ctx'[h] # None
         \/ Choose(h)
         \/ FindTenant(h) /\ row.status = "absent"
<1>0. Busy(h) /\ ctx[h] \in Context /\ faults \in Nat
  BY StepIs, AtFacts, BoundAssumption DEF TypeOK
<1>a. ~Fault
  BY <1>0 DEF Fault
<1>b. StepFacts(ctx[h].op, ctx[h].at) /\ ctx[h].at \in 1..Size(ctx[h].op) /\ Size(ctx[h].op) \in 2..10
  BY <1>0, AtFacts DEF OpFacts
<1>c. ctx[h].at + 1 <= Size(ctx[h].op)
  <2>1. ctx[h].at # Size(ctx[h].op)
    BY <1>0, <1>b DEF StepFacts, At
  <2>2. QED
    BY <1>b, <2>1
<1>d. ASSUME NEW e \in Context, e.op = ctx[h].op, e.at = ctx[h].at, Onward(h, e, 1) PROVE ctx'[h] # None
  BY <1>c, <1>d, OnwardGoes
<1>1. CASE Insert(h)
  BY <1>0, <1>a, <1>d, <1>1 DEF Insert
<1>2. CASE Tag(h)
  <2>1. latest \in Version
    BY BoundAssumption DEF TypeOK, Version
  <2>2. Same(ctx[h], [ctx[h] EXCEPT !.ver = latest], "ver")
    BY <1>0, <2>1, ContextUpdates
  <2>3. QED
    BY <1>0, <1>a, <1>d, <1>2, <2>2 DEF Tag, Same
<1>3. CASE FindTenant(h)
  BY <1>0, <1>a, <1>d, <1>3 DEF FindTenant
<1>4. CASE Remember(h) \/ Claim(h) \/ Forget(h)
  BY <1>0, <1>a, <1>d, <1>4 DEF Remember, Claim, Forget
<1>5. CASE Stop(h)
  BY <1>0, <1>a, <1>d, <1>5 DEF Stop
<1>6. CASE \E s \in {"provisioning", "stopped", "deprovisioned"} : SetStatus(h, s)
  BY <1>0, <1>d, <1>6 DEF SetStatus
<1>7. CASE Unroute(h)
  <2>1. ctx[h].at + 2 <= Size(ctx[h].op)
    BY <1>0, <1>7, AtFacts, <1>b DEF Unroute, StepFacts
  <2>2. Onward(h, ctx[h], 2) => ctx'[h] # None
    BY <1>0, <2>1, OnwardGoes
  <2>3. QED
    BY <1>0, <1>d, <1>7, <2>2 DEF Unroute
<1>8. CASE ResolveDatabase(h)
  <2>1. Same(ctx[h], [ctx[h] EXCEPT !.own = TRUE], "own")
    BY <1>0, ContextUpdates
  <2>2. QED
    BY <1>0, <1>d, <1>8, <2>1 DEF ResolveDatabase, Same
<1>9. CASE Launch(h)
  BY <1>0, <1>9, LaunchEffect
<1>10. CASE LaunchFailed(h)
  BY <1>10 DEF LaunchFailed
<1>11. CASE Record(h) \/ Delete(h)
  BY <1>11 DEF Record, Delete
<1>12. QED
  BY <1>1, <1>2, <1>3, <1>4, <1>5, <1>6, <1>7, <1>8, <1>9, <1>10, <1>11 DEF Step

\* No request says that the harness runs, and none names listener rules.
LEMMA StepSaysNothing ==
  ASSUME TypeOK, NEW h \in Handler, Step(h)
  PROVE  /\ row'.status = row.status \/ row'.status # "running"
         /\ row'.arn \in {row.arn, None}
         /\ faults' = faults =>
              /\ \/ Insert(h) \/ Delete(h) \/ Claim(h) \/ LaunchFailed(h)
                 \/ \E s \in {"provisioning", "stopped", "deprovisioned"} : SetStatus(h, s)
                 => row'.status # "running"
              /\ Forget(h) => row.status = "absent" \/ row'.arn = None
<1>0. row \in RowType /\ faults \in Nat
  BY BoundAssumption DEF TypeOK, RowType
<1>a. ~(Fault /\ faults' = faults)
  BY <1>0 DEF Fault
<1>b. ASSUME NEW s, s # "running",
             \/ Fine /\ row' = IF row.status = "absent" THEN row ELSE [row EXCEPT !.status = s]
             \/ Fault /\ row' = row
      PROVE  /\ row'.status = row.status \/ row'.status # "running"
             /\ row'.arn = row.arn /\ (faults' = faults => row'.status # "running")
  <2> DEFINE r == [row EXCEPT !.status = s]
  <2>1. r.status = s /\ r.arn = row.arn
    BY <1>0, RowUpdates
  <2>2. \/ Fine /\ row' = IF row.status = "absent" THEN row ELSE r
        \/ Fault /\ row' = row
    BY <1>b
  <2> HIDE DEF r
  <2>3. QED
    BY <1>a, <1>b, <2>1, <2>2
<1>1. CASE Insert(h) \/ Delete(h)
  <2>1. (faults' = faults + 1 /\ row' = row) \/ (row'.status # "running" /\ row'.arn = None)
    <3>1. CASE Insert(h)
      BY <3>1, Inserted
    <3>2. CASE Delete(h)
      BY <1>0, <3>2, RowUpdates DEF Delete, Fault
    <3>3. QED
      BY <1>1, <3>1, <3>2
  <2>2. faults' = faults => row'.status # "running" /\ row'.arn = None
    BY <1>0, <2>1
  <2>3. ~Forget(h)
    BY <1>1 DEF Insert, Delete, Forget, At
  <2>4. QED
    BY <2>1, <2>2, <2>3
<1>2. CASE Forget(h)
  <2> DEFINE r == [row EXCEPT !.arn = None]
  <2>1. r.arn = None /\ r.status = row.status
    BY <1>0, RowUpdates
  <2>2. (Fine /\ row' = IF row.status = "absent" THEN row ELSE r) \/ (Fault /\ row' = row)
    BY <1>2 DEF Forget, Write
  <2> HIDE DEF r
  <2>3. /\ ~Insert(h) /\ ~Delete(h) /\ ~Claim(h) /\ ~LaunchFailed(h)
        /\ ~ \E s \in {"provisioning", "stopped", "deprovisioned"} : SetStatus(h, s)
    <3>1. ~ (0 > 0)
      OBVIOUS
    <3>2. QED
      BY <1>2, <3>1 DEF Forget, Insert, Delete, Claim, LaunchFailed, SetStatus, At
  <2>4. QED
    BY <1>a, <2>1, <2>2, <2>3
<1>3. ASSUME Claim(h) \/ LaunchFailed(h)
             \/ \E s \in {"provisioning", "stopped", "deprovisioned"} : SetStatus(h, s)
      PROVE  /\ row'.status = row.status \/ row'.status # "running"
             /\ row'.arn = row.arn /\ (faults' = faults => row'.status # "running")
  BY <1>3, <1>b DEF Claim, LaunchFailed, SetStatus, Write
<1>4. CASE Record(h)
  <2>1. Recorded(ctx[h]).arn = row.arn /\ Recorded(ctx[h]).status \in {row.status, "provisioning"}
    BY <1>0 DEF RowType, Recorded
  <2>2. row' = row \/ row' = Recorded(ctx[h])
    BY <1>4 DEF Record, Write
  <2>3. /\ ~Insert(h) /\ ~Delete(h) /\ ~Claim(h) /\ ~LaunchFailed(h) /\ ~Forget(h)
        /\ ~ \E s \in {"provisioning", "stopped", "deprovisioned"} : SetStatus(h, s)
    <3>1. ~ (0 > 0)
      OBVIOUS
    <3>2. QED
      BY <1>4, <3>1 DEF Record, Forget, Insert, Delete, Claim, LaunchFailed, SetStatus, At
  <2>4. QED
    BY <2>1, <2>2, <2>3
<1>5. CASE ~Insert(h) /\ ~Delete(h) /\ ~Forget(h) /\ ~Record(h)
  BY <1>3, <1>5, StepRow
<1>6. QED
  BY <1>1, <1>2, <1>4, <1>5

LEMMA UnrouteEffect ==
  ASSUME TypeOK, Room, Places, NEW h \in Handler, Step(h), Unroute(h), faults' = faults
  PROVE  /\ row' = row /\ ctx'[h] # None
         /\ \/ /\ At(h, "forget")' /\ row.arn # None
               /\ rules' = rules \ {row.arn} /\ (rules' = {} => targets' = {})
            \/ row.arn = None /\ rules' = rules /\ targets' = targets /\ ~At(h, "forget")'
<1>1. At(h, "unroute") /\ Busy(h) /\ faults \in Nat /\ ctx[h] \in Context /\ ctx[h].at \in Nat
  BY BoundAssumption, AtFacts, ContextFields DEF Unroute, At, TypeOK
<1>2. \/ /\ row.arn # None /\ Onward(h, ctx[h], 1)
         /\ rules' = rules \ {row.arn} /\ (rules' = {} => targets' = {})
      \/ row.arn = None /\ rules' = rules /\ targets' = targets /\ Onward(h, ctx[h], 2)
  BY <1>1 DEF Unroute, TeardownRouting, Fault, alb
<1>3. ctx[h].at + 2 <= Size(ctx[h].op) /\ Size(ctx[h].op) \in Nat
  <2>1. Size(ctx[h].op) \in 2..10
    BY <1>1, AtFacts DEF OpFacts
  <2>2. StepFacts(ctx[h].op, ctx[h].at) /\ ctx[h].op.steps[ctx[h].at] = "unroute"
    BY <1>1, AtFacts
  <2>3. QED
    BY <2>1, <2>2 DEF StepFacts
<1>4. \A k \in 1..2 : Onward(h, ctx[h], k) => ctx'[h] # None /\ ctx'[h].at = ctx[h].at + k
  BY <1>1, <1>3, OnwardGoes DEF Goes
<1>5. ctx'[h] # None
  BY <1>2, <1>4
<1>6. Advances(h) /\ ctx'[h].at > 0 /\ (At(h, "forget")' <=> ctx'[h].at = ctx[h].at + 1)
  <2>1. Advances(h)
    BY <1>5, StepMoves DEF Moves
  <2>2. ctx'[h].at > 0
    BY <1>1, <1>2, <1>4
  <2>3. QED
    BY <1>1, <1>5, <2>1, <2>2, Arriving DEF At, Next1, Busy
<1>7. QED
  BY <1>1, <1>2, <1>4, <1>5, <1>6 DEF Unroute

\* What holds when a request takes a step alone and without a fault.
LEMMA SerialStep ==
  ASSUME TypeOK, Room, Places, Alone, DownInv, RouteInv, Serial, faults' = faults,
         NEW h \in Handler, Step(h)
  PROVE  /\ Moves(h) /\ Busy(h) /\ ctx[h] \in Context /\ ctx[h].at > 0
         /\ (\A g \in Handler \ {h} : ctx[g] = None /\ ctx'[g] = None)
         /\ (\A t \in Task : phase[t] = "none")
         /\ At(h, "insert") \/ row.status # "absent"
         /\ ctx'[h] # None => Advances(h) /\ ctx'[h].at > 0 /\ ~ctx'[h].beside
         /\ ~At(h, "forget") => rules = Only(row.arn) /\ targets = Only(row.arn)
<1>1. Moves(h) /\ Busy(h) /\ ctx[h] \in Context /\ faults \in Nat
  BY BoundAssumption, StepMoves, StepIs, AtFacts DEF TypeOK
<1>2. (\A g \in Handler \ {h} : ctx[g] = None) /\ \A t \in Task : phase[t] = "none"
  BY <1>1 DEF DownInv, Serial, OneRequest, Others, Busy
<1>3. \A g \in Handler \ {h} : ctx'[g] = None
  BY <1>1, <1>2 DEF Moves
<1>4. ctx[h].at > 0
  BY <1>1, ContextFields DEF Places, Serial
<1>5. ~ctx[h].beside
  BY <1>1 DEF RouteInv, RequestRoutes
<1>6. At(h, "insert") \/ row.status # "absent"
  BY <1>1, <1>5 DEF Alone
<1>7. ctx'[h] # None => Advances(h) /\ ctx'[h].at > 0 /\ ~ctx'[h].beside
  <2>1. SUFFICES ASSUME Advances(h) PROVE ctx'[h].at > 0 /\ ~ctx'[h].beside
    BY <1>1 DEF Moves
  <2>2. ctx'[h].at \in Nat /\ ctx[h].at \in Nat /\ ~(faults' > faults)
    BY <1>1, <2>1, ContextFields DEF Advances
  <2>3. QED
    BY <1>4, <1>5, <2>1, <2>2 DEF Advances
<1>8. ~At(h, "forget") => rules = Only(row.arn) /\ targets = Only(row.arn)
  BY <1>2 DEF RouteInv, Settled, At, Busy
<1>9. QED
  BY <1>1, <1>2, <1>3, <1>4, <1>6, <1>7, <1>8

LEMMA RouteStep ==
  ASSUME TypeOK, Room, Places, Alone, DownInv, RouteInv, Serial, faults' = faults,
         NEW h \in Handler, Step(h)
  PROVE  RequestRoutes' /\ Settled' /\ PollerRoutes' /\ Served'
<1> DEFINE c == ctx[h]
           d == ctx'[h]
<1>0. row \in RowType /\ NoRow.arn = None /\ NoRow.status = "absent"
  BY RowUpdates DEF TypeOK, RowType
<1>1. /\ Moves(h) /\ Busy(h) /\ c \in Context /\ c.at > 0
      /\ \A g \in Handler \ {h} : ctx[g] = None /\ ctx'[g] = None
      /\ \A t \in Task : phase[t] = "none"
      /\ At(h, "insert") \/ row.status # "absent"
      /\ d # None => Advances(h) /\ d.at > 0 /\ ~d.beside
      /\ ~At(h, "forget") => rules = Only(row.arn) /\ targets = Only(row.arn)
  BY SerialStep
<1>2. /\ At(h, "forget") => rules = {} /\ targets = {}
      /\ Past(c, "forget") \/ c.op.new => row.arn = None
      /\ Said(c) => row.status # "running"
      /\ c.op.named => At(h, "insert") \/ row.sub
  BY <1>1 DEF RouteInv, RequestRoutes
<1>3. /\ row'.status = row.status \/ row'.status # "running"
      /\ row'.arn \in {row.arn, None}
      /\ \/ Insert(h) \/ Delete(h) \/ Claim(h) \/ LaunchFailed(h)
         \/ \E s \in {"provisioning", "stopped", "deprovisioned"} : SetStatus(h, s)
         => row'.status # "running"
      /\ Forget(h) => row'.arn = None
  <2>1. Forget(h) => ~At(h, "insert")
    BY DEF Forget, At
  <2>2. QED
    BY <1>1, <2>1, StepSaysNothing
<1>4. d # None => \A s : Past(d, s) <=>
        Past(c, s) \/ At(h, s) \/ (d.at = c.at + 2 /\ s = "forget")
  BY <1>1, Passing
<1>5. d # None /\ d.at = c.at + 2 => Unroute(h) /\ row.arn = None
  <2> SUFFICES ASSUME Advances(h), d.at > 0, d.at = c.at + 2, d # None PROVE Unroute(h) /\ row.arn = None
    BY <1>1
  <2>1. c.at \in Nat /\ d.at \in Nat
    BY <1>1, ContextFields DEF Advances
  <2>2. At(h, "unroute")
    BY <2>1 DEF Advances
  <2>3. Unroute(h)
    BY <2>2, StepIs
  <2>4. ~At(h, "forget")'
    BY <2>1, <2>2, Arriving DEF At, Next1
  <2>5. QED
    BY <2>3, <2>4, UnrouteEffect
<1>6. RequestRoutes'
  <2> SUFFICES ASSUME d # None
               PROVE  /\ ~d.beside
                      /\ At(h, "forget")' => rules' = {} /\ targets' = {}
                      /\ Past(d, "forget") \/ d.op.new => row'.arn = None
                      /\ Said(d) => row'.status # "running"
                      /\ d.op.named => At(h, "insert")' \/ row'.sub
    BY <1>1 DEF RequestRoutes, Busy
  <2>1. At(h, "forget")' => rules' = {} /\ targets' = {}
    <3> SUFFICES ASSUME At(h, "forget")' PROVE rules' = {} /\ targets' = {}
      OBVIOUS
    <3>1. Unroute(h) /\ ~At(h, "forget")
      <4>1. At(h, "unroute")
        BY <1>1, Arriving DEF At, Next1
      <4>2. QED
        BY <4>1, StepIs DEF At
    <3>2. QED
      BY <1>1, <3>1, UnrouteEffect DEF Only
  <2>2. Past(d, "forget") \/ d.op.new => row'.arn = None
    <3>1. d.op = c.op
      BY <1>1 DEF Advances
    <3>2. At(h, "forget") => Forget(h)
      BY StepIs
    <3>3. QED
      BY <1>2, <1>3, <1>4, <1>5, <3>1, <3>2
  <2>3. Said(d) => row'.status # "running"
    <3>1. Said(d) => Said(c) \/ At(h, "provisioning") \/ At(h, "claim") \/ At(h, "insert")
      BY <1>4 DEF Said
    <3>2. QED
      BY <1>2, <1>3, <3>1, StepIs
  <2>4. d.op.named => row'.sub
    <3>1. d.op = c.op
      BY <1>1 DEF Advances
    <3>2. CASE Insert(h)
      <4>1. faults' # faults + 1
        BY BoundAssumption DEF TypeOK
      <4>2. QED
        BY <3>1, <3>2, <4>1, Inserted
    <3>3. CASE ~Insert(h)
      <4>1. ~Delete(h) /\ ~At(h, "insert")
        BY <1>1, <3>3, LastSteps, StepIs
      <4>2. QED
        BY <1>2, <3>1, <3>3, <4>1, StepRow
    <3>4. QED
      BY <3>2, <3>3
  <2>5. QED
    BY <1>1, <2>1, <2>2, <2>3, <2>4
<1>7. Settled'
  <2> SUFFICES ASSUME ~At(h, "forget")' PROVE rules' = Only(row'.arn) /\ targets' = Only(row'.arn)
    BY <1>1 DEF Settled, Only
  <2>1. CASE Unroute(h)
    <3>1. ~At(h, "forget")
      BY <2>1 DEF Unroute, At
    <3>2. QED
      BY <1>1, <2>1, <3>1, UnrouteEffect
  <2>2. CASE Forget(h)
    BY <1>2, <1>3, <2>2, StepKeeps, StepIs DEF Only, Forget, Unroute, At
  <2>3. CASE Insert(h)
    <3>1. c.op.new /\ ~At(h, "forget") /\ ~Unroute(h)
      <4>1. At(h, "insert")
        BY <2>3 DEF Insert
      <4>2. QED
        BY <1>1, <4>1, AtFacts DEF StepFacts, At, Unroute
    <3>2. QED
      BY <1>1, <1>2, <1>3, <3>1, StepKeeps
  <2>4. CASE Delete(h)
    <3>1. Past(c, "forget") /\ ~At(h, "forget") /\ ~Unroute(h)
      <4>1. At(h, "delete")
        BY <2>4 DEF Delete
      <4>2. QED
        BY <1>1, <4>1, AtFacts DEF StepFacts, At, Unroute, Before, Past
    <3>2. QED
      BY <1>1, <1>2, <1>3, <3>1, StepKeeps
  <2>5. CASE ~Unroute(h) /\ ~Forget(h) /\ ~Insert(h) /\ ~Delete(h)
    BY <1>1, <2>5, StepKeeps, StepRow, StepIs
  <2>6. QED
    BY <2>1, <2>2, <2>3, <2>4, <2>5
<1>8. ASSUME Record(h)
      PROVE  /\ row.status # "absent" /\ row'.task = c.made /\ row'.arn = row.arn
             /\ row'.status # "running" /\ row'.sub = row.sub /\ (c.op.named => row.sub)
             /\ c.op.polls => row.arn = None /\ rules' = {} /\ targets' = {}
  <2>1. At(h, "record") /\ ~At(h, "insert") /\ ~At(h, "forget") /\ ~Unroute(h)
    BY <1>8 DEF Record, At, Unroute
  <2>2. StepFacts(c.op, c.at) /\ c.op.steps[c.at] = "record"
    BY <1>1, <2>1, AtFacts
  <2>3. faults' # faults + 1
    BY BoundAssumption DEF TypeOK
  <2>4. /\ row'.task = c.made /\ row'.arn = row.arn /\ row'.sub = row.sub
        /\ row'.status = IF c.op.marks THEN "provisioning" ELSE row.status
    BY <1>1, <1>8, <2>1, <2>3, RecordEffect
  <2>5. c.op.marks \/ Said(c)
    BY <2>2 DEF StepFacts, Before, Said, Past
  <2>6. c.op.polls => row.arn = None
    BY <1>2, <2>2 DEF StepFacts, Before, Past
  <2>7. QED
    BY <1>1, <1>2, <2>1, <2>4, <2>5, <2>6, StepKeeps DEF Only
<1>9. PollerRoutes'
  <2> SUFFICES ASSUME NEW t \in Task, phase'[t] # "none"
               PROVE  /\ t = row'.task /\ row'.arn = None /\ row'.status # "running"
                      /\ phase'[t] = IF row'.sub THEN "watch" ELSE "bare"
                      /\ rules' = {} /\ targets' = {}
    BY DEF PollerRoutes
  <2>1. Record(h)
    BY <1>1, StepKeeps
  <2>2. c.op.polls /\ t = c.made /\ phase'[t] = IF c.op.named \/ row.sub THEN "watch" ELSE "bare"
    BY <1>1, <2>1, RecordEffect DEF TypeOK
  <2>3. QED
    BY <1>8, <2>1, <2>2
<1>10. Served'
  <2> SUFFICES ASSUME row'.status = "running", d # None => ~Unsaid(d)
               PROVE  row'.task \in up' /\ row'.arn = IF row'.sub THEN row'.task ELSE None
    BY <1>1 DEF Served, Busy
  <2>1. row.status = "running" /\ ~Insert(h) /\ ~Delete(h) /\ ~Record(h)
        /\ ~ \E s \in {"provisioning", "stopped", "deprovisioned"} : SetStatus(h, s)
    BY <1>3, <1>8
  <2>2. /\ \A s \in {"stopped", "deprovisioned", "record", "delete"} : ~At(h, s)
        /\ ~(FindTenant(h) /\ row.status = "absent")
    BY <2>1, StepIs
  <2>3. ~Unsaid(c) /\ ~Stop(h) /\ ~Forget(h)
    <3>1. CASE d # None
      BY <1>4, <3>1 DEF Unsaid, Stop, Forget
    <3>2. CASE Choose(h)
      <4>1. c.at = 1 /\ ~Stop(h) /\ ~Forget(h)
        BY <1>1, <3>2, AtFacts DEF Choose, At, StepFacts, Stop, Forget
      <4>2. QED
        BY <4>1 DEF Unsaid, Past
    <3>3. QED
      BY <1>1, <2>2, <3>1, <3>2, GoesOn
  <2>4. row.task \in up /\ row.arn = IF row.sub THEN row.task ELSE None
    BY <1>1, <2>1, <2>3 DEF RouteInv, Served, Busy
  <2>5. row'.task = row.task /\ row'.arn = row.arn /\ row'.sub = row.sub
    BY <2>1, <2>3, StepRow
  <2>6. up \subseteq up'
    BY <2>3, StepKeeps, LaunchEffect
  <2>7. QED
    BY <2>4, <2>5, <2>6
<1>11. QED
  BY <1>6, <1>7, <1>9, <1>10

LEMMA RouteBegin ==
  ASSUME TypeOK, Beginning, RouteInv, Serial, ~tangled',
         NEW h \in Handler, NEW o \in Operations, Begin(h, o)
  PROVE  RequestRoutes' /\ Settled' /\ PollerRoutes' /\ Served'
<1>1. /\ ~Busy(h) /\ Others(h) = {} /\ \A t \in Task : phase[t] = "none"
      /\ UNCHANGED <<row, up, rules, targets, phase>> /\ (o.new => begun = 0)
  BY DEF Begin, ecs, alb
<1>a. o.new => row.arn = None
  BY <1>1 DEF Beginning, NoRow
<1>2. \A g \in Handler : ~Busy(g)
  BY <1>1 DEF Others
<1>3. \A g \in Handler \ {h} : ctx'[g] = None
  BY <1>2, BeginContext
<1>4. ctx'[h] \in Context /\ ctx'[h].op = o /\ ctx'[h].at = 1 /\ ~ctx'[h].beside
  BY <1>1, BeginContext
<1>5. \A s : ~Past(ctx'[h], s)
  <2>1. 1..(1 - 1) = {}
    OBVIOUS
  <2>2. QED
    BY <1>4, <2>1 DEF Past
<1>6. ~At(h, "forget")' /\ (o.named => At(h, "insert")')
  <2>1. StepFacts(o, 1)
    BY OperationFacts DEF OpFacts
  <2>2. o.new => o.steps[1] = "insert"
    BY <2>1 DEF StepFacts
  <2>3. o.named => o.new
    BY OperationFacts DEF OpFacts
  <2>4. Busy(h)'
    BY BeginContext
  <2>5. o.steps[1] # "forget"
    BY <2>1 DEF StepFacts
  <2>6. QED
    BY <1>4, <2>2, <2>3, <2>4, <2>5 DEF At
<1>7. rules = Only(row.arn) /\ targets = Only(row.arn)
      /\ (row.status = "running" =>
            row.task \in up /\ row.arn = IF row.sub THEN row.task ELSE None)
  BY <1>1, <1>2 DEF RouteInv, Settled, Served, At
<1>8. RequestRoutes'
  BY <1>1, <1>a, <1>3, <1>4, <1>5, <1>6 DEF RequestRoutes, Busy, Said
<1>9. Settled' /\ PollerRoutes' /\ Served'
  BY <1>1, <1>7 DEF Settled, PollerRoutes, Served, Only
<1>10. QED
  BY <1>8, <1>9

LEMMA RoutePoll ==
  ASSUME TypeOK, Beginning, DownInv, RouteInv, Serial, faults' = faults,
         NEW t \in Task, Poll(t)
  PROVE  RequestRoutes' /\ Settled' /\ PollerRoutes' /\ Served'
<1>0. row \in RowType /\ ~Fault /\ t # None
  BY BoundAssumption, NoneAssumption DEF TypeOK, RowType, Fault
<1>1. phase[t] # "none" /\ ctx' = ctx /\ row'.task = row.task /\ row'.sub = row.sub
      /\ \A u \in Task \ {t} : phase'[u] = phase[u]
  BY PollKeeps
<1>2. \A g \in Handler : ~Busy(g)
  BY <1>1 DEF DownInv, Serial, OneRequest
<1>3. \A g \in Handler : ~Busy(g)'
  BY <1>1, <1>2 DEF Busy
<1>4. RequestRoutes'
  BY <1>3 DEF RequestRoutes
<1>5. /\ t = row.task /\ row.arn = None /\ row.status # "running"
      /\ row.sub <=> phase[t] \notin {"bare", "unrouted"}
      /\ phase[t] \in {"watch", "bare", "unrouted"} => rules = {} /\ targets = {}
      /\ phase[t] = "unrouted" => t \in up
      /\ phase[t] = "rule" => rules = {} /\ targets = {t} /\ t \in up
      /\ phase[t] = "routed" => rules = {t} /\ targets = {t} /\ t \in up
  BY <1>1 DEF RouteInv, PollerRoutes
<1>6. \A u \in Task \ {t} : phase[u] = "none" /\ phase'[u] = "none"
  BY <1>1, <1>5 DEF RouteInv, PollerRoutes
<1>7. row.status # "absent"
  BY <1>0, <1>5 DEF Beginning, NoRow
<1>a. CASE SkipRouting(t)
  <2>1. row' = row /\ phase[t] = "bare" /\ phase'[t] = "unrouted" /\ t \in up' /\ rules' = rules
        /\ targets' = targets
    BY <1>0, <1>5, <1>a DEF SkipRouting, ecs, alb, TypeOK
  <2>2. QED
    BY <1>4, <1>5, <1>6, <2>1 DEF Settled, PollerRoutes, Served
<1>8. CASE RegisterTarget(t)
  <2>1. phase[t] = "watch" /\ row' = row /\ phase'[t] = "rule" /\ t \in up' /\ rules' = {} /\ targets' = {t}
    BY <1>0, <1>5, <1>8 DEF RegisterTarget, ecs, TypeOK
  <2>2. QED
    BY <1>4, <1>5, <1>6, <2>1 DEF Settled, PollerRoutes, Served
<1>9. CASE CreateRule(t)
  <2>1. phase[t] = "rule" /\ row' = row /\ phase'[t] = "routed" /\ t \in up' /\ rules' = {t} /\ targets' = {t}
    BY <1>0, <1>5, <1>9 DEF CreateRule, ecs, TypeOK
  <2>2. QED
    BY <1>4, <1>5, <1>6, <2>1 DEF Settled, PollerRoutes, Served
<1>10. CASE ReportRunning(t)
  <2> DEFINE a == IF phase[t] = "routed" THEN t ELSE None
             r == [row EXCEPT !.status = "running", !.arn = a]
  <2>1. r.status = "running" /\ r.arn = a /\ r.task = row.task
    BY <1>0 DEF RowType
  <2>2. phase[t] \in {"routed", "unrouted"} /\ a = (IF row.sub THEN t ELSE None) /\ t \in up
        /\ rules = Only(a) /\ targets = Only(a)
    BY <1>0, <1>5, <1>10 DEF ReportRunning, Only
  <2>3. row' = r
    BY <1>0, <1>7, <1>10 DEF ReportRunning, Write
  <2> HIDE DEF r, a
  <2>4. phase'[t] = "none" /\ up' = up /\ rules' = rules /\ targets' = targets
    BY <1>10 DEF ReportRunning, ecs, alb, TypeOK
  <2>5. QED
    BY <1>1, <1>4, <1>5, <1>6, <2>1, <2>2, <2>3, <2>4 DEF Settled, PollerRoutes, Served
<1>11. CASE ReportError(t)
  <2> DEFINE r == [row EXCEPT !.status = "error"]
  <2>1. r.status = "error" /\ r.arn = row.arn
    BY <1>0, RowUpdates
  <2>2. row' = r
    BY <1>0, <1>7, <1>11 DEF ReportError, Write, GaveUp
  <2> HIDE DEF r
  <2>3. phase[t] \in {"watch", "bare"} /\ phase'[t] = "none" /\ rules' = rules /\ targets' = targets
    BY <1>11 DEF ReportError, alb, TypeOK
  <2>4. QED
    BY <1>4, <1>5, <1>6, <2>1, <2>2, <2>3 DEF Settled, PollerRoutes, Served, Only
<1>12. QED
  BY <1>a, <1>8, <1>9, <1>10, <1>11 DEF Poll

LEMMA RouteInvNext ==
  ASSUME TypeOK, Room, Places, Beginning, Alone, DownInv, RouteInv, Next
  PROVE  RouteInv'
<1> SUFFICES ASSUME Serial' PROVE RequestRoutes' /\ Settled' /\ PollerRoutes' /\ Served'
  BY DEF RouteInv
<1>0. faults \in Nat /\ row \in RowType
  BY BoundAssumption DEF TypeOK, RowType
<1>a. ASSUME tangled' = tangled \/ ~tangled, faults' \in {faults, faults + 1}
      PROVE  Serial /\ faults' = faults /\ ~tangled'
  BY <1>0, <1>a DEF Serial
<1>1. ASSUME NEW h \in Handler, Step(h)
      PROVE  RequestRoutes' /\ Settled' /\ PollerRoutes' /\ Served'
  BY <1>1, <1>a, StepKeeps, RouteStep
<1>2. ASSUME NEW h \in Handler, Timeout(h) PROVE FALSE
  BY <1>0, <1>2 DEF Timeout, Fault, Serial
<1>3. ASSUME NEW h \in Handler, NEW o \in Operations, Begin(h, o)
      PROVE  RequestRoutes' /\ Settled' /\ PollerRoutes' /\ Served'
  <2>1. faults' = faults /\ ~tangled
    BY <1>3 DEF Begin, Serial
  <2>2. QED
    BY <1>3, <1>a, <2>1, RouteBegin
<1>4. ASSUME NEW t \in Task, Poll(t)
      PROVE  RequestRoutes' /\ Settled' /\ PollerRoutes' /\ Served'
  BY <1>4, <1>a, PollKeeps, RoutePoll
<1>5. ASSUME NEW t \in Task, ContainerStop(t) PROVE FALSE
  BY <1>5 DEF ContainerStop, Serial
<1>6. CASE ContainerProvision \/ Publish
  <2>1. /\ UNCHANGED <<row, ctx, phase, rules, targets, tangled, faults>> /\ up \subseteq up'
    BY <1>6 DEF ContainerProvision, Publish, history, ecs, alb
  <2>2. RequestRoutes /\ Settled /\ PollerRoutes /\ Served
    BY <1>a, <2>1 DEF RouteInv
  <2>3. RequestRoutes' /\ Settled'
    BY <2>1, <2>2 DEF RequestRoutes, Settled, Busy, At
  <2>4. PollerRoutes' /\ Served'
    BY <2>1, <2>2 DEF PollerRoutes, Served, Busy
  <2>5. QED
    BY <2>3, <2>4
<1>7. CASE Registered
  <2>1. /\ UNCHANGED <<ctx, phase, rules, targets, tangled, faults>>
        /\ row = NoRow
        /\ \A h \in Handler : ~Busy(h)
    BY <1>7 DEF Registered, Beginning, history, alb
  <2>2. row.arn = None /\ row.task = None /\ row'.arn = None /\ row'.status = "pending"
    BY <1>0, <1>7, <2>1, RegisteredRow, RowUpdates
  <2>3. Settled /\ PollerRoutes
    BY <1>a, <2>1 DEF RouteInv
  <2>4. \A t \in Task : phase[t] = "none"
    BY <2>2, <2>3, NoneAssumption DEF PollerRoutes
  <2>5. \A h \in Handler : ~Busy(h) /\ ~Busy(h)'
    BY <2>1 DEF Busy
  <2>6. rules = {} /\ targets = {}
    BY <2>2, <2>3, <2>4, <2>5 DEF Settled, Only, At
  <2>7. QED
    BY <2>1, <2>2, <2>4, <2>5, <2>6 DEF RequestRoutes, Settled, PollerRoutes, Served, Only
<1>8. CASE Crash
  BY <1>0, <1>8 DEF Crash, Fault, Serial
<1>9. QED
  BY <1>1, <1>2, <1>3, <1>4, <1>5, <1>6, <1>7, <1>8 DEF Next

-----------------------------------------------------------------------------
(* RollbackGoesBack.                                                         *)

\* The two parts of BackInv.
Before1 == row.prev \in {0, before} \/ \E h \in Handler : Busy(h) /\ Remembered(ctx[h])
Knows(h) ==
  LET c == ctx[h] IN
  Busy(h) /\ ~c.beside =>
    /\ Remembered(c) => row.prev = row.tag /\ c.ver # row.tag
    /\ c.op.image = "previous" /\ Past(c, "choose") => c.ver = row.prev /\ c.ver # 0
    /\ c.op.new => row.prev = 0

LEMMA BackParts ==
  /\ BackInv <=> (faults = 0 /\ ~blurred => Before1 /\ \A h \in Handler : Knows(h))
  /\ BackInv' <=> (faults' = 0 /\ ~blurred' => Before1' /\ \A h \in Handler : Knows(h)')
BY DEF BackInv, Before1, Knows

\* The record of a request that ran alone.
LEMMA BackRecord ==
  ASSUME TypeOK, Room, Places, Alone, BackInv, faults = 0, faults' = 0, ~blurred',
         NEW h \in Handler, Step(h), Record(h)
  PROVE  BackInv'
<1> DEFINE c == ctx[h]
<1>1. /\ At(h, "record") /\ Busy(h) /\ c \in Context /\ ~c.beside /\ ~blurred /\ Moves(h)
      /\ before' = IF c.op.tag = "keep" \/ row.tag = c.ver THEN before ELSE row.tag
  BY AtFacts, StepMoves DEF Record, At
<1>2. Others(h) = {} /\ row.status # "absent"
  BY <1>1 DEF Alone, At
<1>3. StepFacts(c.op, c.at) /\ c.op.steps[c.at] = "record" /\ OpFacts(c.op)
  BY <1>1, AtFacts
<1>4. row'.prev = IF c.op.tag = "swap" THEN row.tag ELSE row.prev
  BY <1>2, RecordEffect
<1>5. (row.prev \in {0, before} \/ Remembered(c)) /\ Knows(h)
  BY <1>1, <1>2, BackParts DEF Before1, Others
<1>6. \A g \in Handler : ~Busy(g)'
  BY <1>1, <1>2, LastSteps DEF Others, Moves, Busy
<1>7. CASE c.op.tag = "keep"
  <2>1. row.prev \in {0, before}
    BY <1>3, <1>5, <1>7 DEF OpFacts, Remembered
  <2>2. row'.prev \in {0, before'}
    BY <1>1, <1>4, <1>7, <2>1
  <2>3. QED
    BY <1>6, <2>2, BackParts DEF Before1, Knows
<1>8. CASE c.op.tag = "set"
  <2>1. c.op.new \/ Remembered(c)
    BY <1>3, <1>8 DEF StepFacts, Before, Remembered, Past
  <2>2. row'.prev \in {0, before'}
    BY <1>1, <1>4, <1>5, <1>8, <2>1 DEF Knows
  <2>3. QED
    BY <1>6, <2>2, BackParts DEF Before1, Knows
<1>9. CASE c.op.tag = "swap"
  <2>1. c.op.image = "previous" /\ Past(c, "choose") /\ ~Remembered(c)
    BY <1>3, <1>9 DEF StepFacts, Before, Remembered, Past
  <2>2. c.ver = row.prev /\ c.ver # 0 /\ row.prev = before
    BY <1>1, <1>5, <2>1 DEF Knows
  <2>3. row'.prev \in {0, before'}
    BY <1>1, <1>4, <1>9, <2>2
  <2>4. QED
    BY <1>6, <2>3, BackParts DEF Before1, Knows
<1>10. QED
  BY <1>3, <1>7, <1>8, <1>9 DEF OpFacts

LEMMA BackStep ==
  ASSUME TypeOK, Room, Places, Beginning, Alone, BackInv, faults = 0, faults' = 0, ~blurred',
         NEW h \in Handler, Step(h)
  PROVE  BackInv'
<1> DEFINE c == ctx[h]
           d == ctx'[h]
<1>0. row \in RowType
  BY DEF TypeOK, RowType
<1>1. Moves(h) /\ Busy(h) /\ c \in Context /\ c.at > 0 /\ c.beside \in BOOLEAN
  <2>1. Moves(h) /\ Busy(h) /\ c \in Context /\ c.beside \in BOOLEAN /\ c.at \in Nat
    BY StepMoves, StepIs, AtFacts, ContextFields
  <2>2. QED
    BY <2>1 DEF Places
<1>2. ASSUME NEW g \in Handler \ {h}
      PROVE  ctx'[g] = ctx[g] /\ (Busy(g) => ctx[g].beside) /\ Knows(g)'
  <2>1. ctx'[g] = ctx[g]
    BY <1>1 DEF Moves
  <2>2. Busy(g) => ctx[g].beside
    BY <1>1, OthersBusy DEF Alone
  <2>3. QED
    BY <2>1, <2>2 DEF Knows, Busy
<1>3. d # None => Advances(h) /\ d.at > 0
  <2>1. SUFFICES ASSUME Advances(h) PROVE d.at > 0
    BY <1>1 DEF Moves
  <2>2. d.at \in Nat /\ c.at \in Nat
    BY <2>1, ContextFields DEF Advances
  <2>3. QED
    BY <1>1, <2>1, <2>2 DEF Advances
<1>4. /\ d # None => \A s : s # "forget" => (Past(d, s) <=> Past(c, s) \/ At(h, s))
      /\ d # None => d.op = c.op
  BY <1>3, Passing DEF Advances
<1>5. StepFacts(c.op, c.at) /\ OpFacts(c.op) /\ \A s : At(h, s) => c.op.steps[c.at] = s
  <2>1. c.at \in 1..Size(c.op) /\ OpFacts(c.op)
    BY <1>1, AtFacts, ContextFields
  <2>2. QED
    BY <1>1, <2>1, AtFacts DEF OpFacts
<1>6. CASE Record(h)
  BY <1>6, BackRecord
<1>7. CASE Insert(h) \/ Delete(h)
  <2>1. row'.prev = 0
    <3>1. Insert(h) => row = NoRow
      BY <1>1, <1>7, StepIs, PlacesParts DEF Place
    <3>2. \/ row' = row /\ Insert(h)
          \/ row'.prev = 0
          \/ row' = NoRow
      BY <1>7, Inserted DEF Delete, Fault, TypeOK
    <3>3. QED
      BY <3>1, <3>2 DEF NoRow
  <2>2. Delete(h) => d = None
    <3>1. Delete(h) => At(h, "delete")
      BY DEF Delete
    <3>2. QED
      BY <1>1, <3>1, LastSteps
  <2>3. Knows(h)'
    <3>1. CASE Insert(h)
      <4>1. c.op.image = "default" /\ At(h, "insert")
        BY <1>5, <3>1, StepIs DEF StepFacts, OpFacts
      <4>2. QED
        BY <1>4, <2>1, <4>1 DEF Knows, Busy, Remembered
    <3>2. QED
      BY <1>7, <2>2, <3>1 DEF Knows, Busy
  <2>4. QED
    BY <1>2, <2>1, <2>3, BackParts DEF Before1
<1>8. CASE Remember(h)
  <2>1. At(h, "remember") /\ ~At(h, "insert") /\ ~blurred /\ c.ver # row.tag
    BY <1>8 DEF Remember, At
  <2>2. c.op.image = "latest"
    BY <1>5, <2>1 DEF StepFacts
  <2>3. d # None
    <3>1. /\ \A s \in {"stopped", "deprovisioned", "record", "delete"} : ~At(h, s)
          /\ ~Choose(h) /\ ~FindTenant(h)
      BY <2>1 DEF At, Choose, FindTenant
    <3>2. QED
      BY <1>1, <3>1, GoesOn
  <2>4. Before1'
    BY <1>4, <2>1, <2>2, <2>3 DEF Before1, Busy, Remembered
  <2>5. Knows(h)'
    <3> SUFFICES ASSUME ~d.beside PROVE row'.prev = row'.tag /\ d.ver # row'.tag
      BY <1>4, <1>5, <2>2, <2>3 DEF Knows, OpFacts
    <3>1. ~c.beside /\ d.ver = c.ver
      BY <1>3, <2>1, <2>3 DEF Advances, At
    <3>2. row.status # "absent"
      BY <1>1, <2>1, <3>1 DEF Alone
    <3>3. row' = [row EXCEPT !.prev = row.tag]
      BY <1>8, <3>2 DEF Remember, Write, Fault, TypeOK
    <3>4. row'.prev = row.tag /\ row'.tag = row.tag
      BY <1>0, <3>3, RowUpdates
    <3>5. QED
      BY <2>1, <3>1, <3>4
  <2>6. QED
    BY <1>2, <2>4, <2>5, BackParts
<1>9. CASE ~Record(h) /\ ~Insert(h) /\ ~Delete(h) /\ ~Remember(h)
  <2>1. row'.prev = row.prev /\ row'.tag = row.tag
    BY <1>9, StepRow
  <2>2. before' = before /\ blurred' = blurred
    BY <1>9 DEF Step, Choose, Tag, FindTenant, Stop, Claim, SetStatus, Unroute, Forget,
                ResolveDatabase, Launch, LaunchFailed, history
  <2>3. Before1 /\ Knows(h) /\ ~blurred
    BY <2>2, BackParts
  <2>4. At(h, "choose") => \A s : ~Past(c, s)
    <3>1. At(h, "choose") => c.at = 1
      BY <1>5 DEF StepFacts
    <3>2. 1..(1 - 1) = {}
      OBVIOUS
    <3>3. QED
      BY <3>1, <3>2 DEF Past
  <2>5. Before1'
    <3>1. CASE row.prev = 0 \/ row.prev = before
      BY <2>1, <2>2, <3>1 DEF Before1
    <3>2. CASE \E g \in Handler \ {h} : Busy(g) /\ Remembered(ctx[g])
      BY <1>2, <3>2 DEF Before1, Busy
    <3>3. CASE Remembered(c)
      <4>1. \A s \in {"stopped", "deprovisioned", "record", "delete"} : ~At(h, s)
        BY <1>5, <1>9, <3>3, StepIs DEF StepFacts, Remembered
      <4>2. CASE d # None
        BY <1>4, <3>3, <4>2 DEF Before1, Busy, Remembered
      <4>3. CASE Choose(h)
        BY <2>4, <3>3, <4>3 DEF Choose, Remembered
      <4>4. CASE row.status = "absent"
        <5>1. row.prev = 0
          BY <4>4 DEF Beginning, NoRow
        <5>2. QED
          BY <3>1, <5>1
      <4>5. QED
        BY <1>1, <4>1, <4>2, <4>3, <4>4, GoesOn
    <3>4. QED
      BY <2>3, <3>1, <3>2, <3>3 DEF Before1
  <2>6. Knows(h)'
    <3> SUFFICES ASSUME d # None, ~d.beside
                 PROVE  /\ Remembered(d) => row'.prev = row'.tag /\ d.ver # row'.tag
                        /\ d.op.image = "previous" /\ Past(d, "choose") => d.ver = row'.prev /\ d.ver # 0
                        /\ d.op.new => row'.prev = 0
      BY DEF Knows, Busy
    <3>1. Advances(h) /\ d.op = c.op /\ ~At(h, "remember")
      BY <1>3, <1>4, <1>9, StepIs
    <3>2. ~c.beside
      BY <3>1 DEF Advances
    <3>3. /\ Remembered(c) => row.prev = row.tag /\ c.ver # row.tag
          /\ c.op.image = "previous" /\ Past(c, "choose") => c.ver = row.prev /\ c.ver # 0
          /\ c.op.new => row.prev = 0
      BY <1>1, <2>3, <3>2 DEF Knows
    <3>4. d.ver = c.ver \/ At(h, "choose") \/ c.op.image = "default"
      BY <1>5, <3>1 DEF Advances, StepFacts
    <3>5. Remembered(d) => Remembered(c) /\ d.ver = c.ver
      BY <1>4, <2>4, <3>1, <3>4 DEF Remembered
    <3>6. ASSUME c.op.image = "previous", At(h, "choose") PROVE d.ver = row.prev /\ d.ver # 0
      <4> DEFINE e == [c EXCEPT !.ver = row.prev]
      <4>1. row.prev \in Version
        BY <1>0 DEF RowType
      <4>2. Same(c, e, "ver") /\ e.ver = row.prev
        BY <1>1, <4>1, ContextUpdates
      <4>3. Choose(h)
        BY <3>6, StepIs
      <4>4. ~Leave(h)
        BY LeaveLeaves
      <4>5. row.prev # 0 /\ Onward(h, e, 1)
        BY <3>6, <4>3, <4>4 DEF Choose
      <4> HIDE DEF e
      <4>6. e \in Context
        BY <4>2 DEF Same
      <4>7. e.at + 1 \in Int /\ Size(e.op) \in Int
        BY <1>1, <1>5, <4>2, ContextFields DEF Same, OpFacts
      <4>8. d.ver = e.ver
        BY <4>5, <4>6, <4>7, OnwardGoes DEF Goes
      <4>9. QED
        BY <4>2, <4>5, <4>8
    <3>7. c.op.image = "previous" /\ Past(d, "choose") => d.ver = row.prev /\ d.ver # 0
      BY <1>4, <2>4, <3>3, <3>4, <3>6
    <3>8. QED
      BY <2>1, <3>1, <3>3, <3>5, <3>7
  <2>7. QED
    BY <1>2, <2>5, <2>6, BackParts
<1>10. QED
  BY <1>6, <1>7, <1>8, <1>9

LEMMA BackInvNext ==
  ASSUME TypeOK, Room, Places, Beginning, Alone, BackInv, Next
  PROVE  BackInv'
<1> SUFFICES ASSUME faults' = 0, ~blurred' PROVE BackInv'
  BY BackParts
<1>0. faults \in Nat /\ ~Fault
  <2>1. faults \in Nat
    BY BoundAssumption DEF TypeOK
  <2>2. QED
    BY <2>1 DEF Fault
<1>1. ASSUME NEW h \in Handler, Step(h) PROVE BackInv'
  <2>1. faults = 0
    BY <1>0, <1>1, StepKeeps
  <2>2. QED
    BY <1>1, <2>1, BackStep
<1>2. ASSUME NEW h \in Handler, Timeout(h) PROVE FALSE
  BY <1>0, <1>2 DEF Timeout
<1>3. ASSUME NEW h \in Handler, NEW o \in Operations, Begin(h, o) PROVE BackInv'
  <2>1. UNCHANGED <<row, before, blurred, faults>> /\ (o.new => begun = 0) /\ ~Busy(h)
    BY <1>3 DEF Begin
  <2>2. Before1
    BY <2>1, BackParts
  <2>3. \A g \in Handler : Busy(g) => Busy(g)' /\ Same(ctx[g], ctx'[g], "beside") /\ ctx'[g].beside
    BY <1>3, <2>1, BeginContext DEF Same, Busy
  <2>4. \A g \in Handler : Busy(g) => (Remembered(ctx'[g]) <=> Remembered(ctx[g]))
    BY <2>3 DEF Same, Remembered, Past
  <2>5. Before1'
    BY <2>1, <2>2, <2>3, <2>4 DEF Before1
  <2>6. \A g \in Handler \ {h} : Busy(g)' => Busy(g)
    BY <1>3, BeginContext DEF Busy
  <2>7. Knows(h)'
    <3>1. ctx'[h].at = 1 /\ ctx'[h].op = o
      BY <1>3, BeginContext
    <3>2. \A s : ~Past(ctx'[h], s)
      <4>1. 1..(1 - 1) = {}
        OBVIOUS
      <4>2. QED
        BY <3>1, <4>1 DEF Past
    <3>3. o.new => row.prev = 0
      BY <2>1 DEF Beginning, NoRow
    <3>4. QED
      BY <2>1, <3>1, <3>2, <3>3 DEF Knows, Remembered
  <2>8. \A g \in Handler : Knows(g)'
    BY <2>3, <2>6, <2>7 DEF Knows
  <2>9. QED
    BY <2>5, <2>8, BackParts
<1>4. ASSUME UNCHANGED <<ctx, before, blurred>>, faults' \in {faults, faults + 1},
             row'.prev = row.prev, row'.tag = row.tag
      PROVE  BackInv'
  <2>1. faults = 0
    BY <1>0, <1>4
  <2>2. Before1 /\ \A g \in Handler : Knows(g)
    BY <1>4, <2>1, BackParts
  <2>3. Before1' /\ \A g \in Handler : Knows(g)'
    BY <1>4, <2>2 DEF Before1, Knows, Busy
  <2>4. QED
    BY <2>3, BackParts
<1>5. ASSUME NEW t \in Task, Poll(t) PROVE BackInv'
  BY <1>4, <1>5, PollKeeps
<1>6. ASSUME NEW t \in Task, ContainerStop(t) PROVE BackInv'
  BY <1>4, <1>6 DEF ContainerStop
<1>7. CASE ContainerProvision \/ Publish
  BY <1>4, <1>7 DEF ContainerProvision, Publish, history
<1>8. CASE Registered
  <2>1. row'.prev = 0 /\ \A g \in Handler : ~Busy(g)'
    BY <1>8 DEF Registered, Beginning, Busy, NoRow
  <2>2. QED
    BY <2>1, BackParts DEF Before1, Knows
<1>9. CASE Crash
  BY <1>0, <1>9 DEF Crash
<1>10. QED
  BY <1>1, <1>2, <1>3, <1>5, <1>6, <1>7, <1>8, <1>9 DEF Next

-----------------------------------------------------------------------------
(* What is left running without a fault.                                     *)

LEMMA LeftInvNext ==
  ASSUME TypeOK, Room, Places, RouteInv, LeftInv, Next
  PROVE  LeftInv'
<1> SUFFICES ASSUME Serial' PROVE excused' \subseteq left'
  BY DEF LeftInv
<1>0. faults \in Nat
  BY BoundAssumption DEF TypeOK
<1>a. ASSUME tangled' = tangled \/ ~tangled, faults' \in {faults, faults + 1}
      PROVE  Serial /\ faults' = faults /\ excused \subseteq left
  BY <1>0, <1>a DEF Serial, LeftInv
<1>b. faults' = faults => ~Fault
  BY <1>0 DEF Fault
<1>1. ASSUME NEW h \in Handler, Step(h) PROVE excused' \subseteq left'
  <2>1. Serial /\ faults' = faults /\ excused \subseteq left /\ ~Fault
    BY <1>1, <1>a, <1>b, StepKeeps
  <2>2. Busy(h) /\ ~ctx[h].beside
    BY <1>1, <2>1, StepIs DEF RouteInv, RequestRoutes
  <2>3. CASE Launch(h)
    BY <2>1, <2>2, <2>3 DEF Launch
  <2>4. CASE Record(h)
    BY <1>0, <2>1, <2>2, <2>4 DEF Record
  <2>5. CASE Stop(h)
    BY <2>1, <2>5 DEF Stop
  <2>6. CASE Delete(h)
    BY <2>1, <2>2, <2>6 DEF Delete
  <2>7. CASE ~Launch(h) /\ ~Record(h) /\ ~Stop(h) /\ ~Delete(h)
    <3>1. UNCHANGED <<excused, left>>
      BY <1>1, <2>7 DEF Step, Insert, Choose, Tag, FindTenant, Remember, Claim, SetStatus, Unroute,
                        Forget, ResolveDatabase, LaunchFailed, history
    <3>2. QED
      BY <2>1, <3>1
  <2>8. QED
    BY <2>3, <2>4, <2>5, <2>6, <2>7
<1>2. ASSUME NEW t \in Task, Poll(t) PROVE excused' \subseteq left'
  <2>1. faults' = faults /\ excused \subseteq left
    BY <1>2, <1>a, PollKeeps
  <2>2. CASE SkipRouting(t) \/ RegisterTarget(t) \/ CreateRule(t)
    BY <2>1, <2>2 DEF SkipRouting, RegisterTarget, CreateRule, history
  <2>3. CASE ReportRunning(t)
    BY <1>0, <2>1, <2>3 DEF ReportRunning
  <2>4. CASE ReportError(t)
    BY <2>1, <2>4 DEF ReportError
  <2>5. QED
    BY <1>2, <2>2, <2>3, <2>4 DEF Poll
<1>3. ASSUME NEW h \in Handler, NEW o \in Operations, Begin(h, o) PROVE excused' \subseteq left'
  <2>1. faults' = faults /\ ~tangled /\ UNCHANGED <<excused, left>>
    BY <1>3 DEF Begin, Serial
  <2>2. QED
    BY <1>a, <2>1
<1>4. CASE ContainerProvision
  <2>1. tangled' = tangled /\ faults' = faults
    BY <1>4 DEF ContainerProvision
  <2>2. QED
    BY <1>4, <1>a, <2>1 DEF ContainerProvision
<1>5. CASE Registered \/ Publish
  <2>1. UNCHANGED <<tangled, excused, left, faults>>
    BY <1>5 DEF Registered, Publish, history
  <2>2. QED
    BY <1>a, <2>1
<1>6. CASE Crash \/ \E h \in Handler : Timeout(h)
  BY <1>0, <1>6 DEF Crash, Timeout, Fault, Serial
<1>7. CASE \E t \in Task : ContainerStop(t)
  BY <1>7 DEF ContainerStop, Serial
<1>8. QED
  BY <1>1, <1>2, <1>3, <1>4, <1>5, <1>6, <1>7 DEF Next

-----------------------------------------------------------------------------
(* The theorems.                                                             *)

LEMMA Initially ==
  ASSUME Init
  PROVE  IInv
<1>1. /\ row = NoRow /\ latest = 1 /\ n = 0 /\ up = {} /\ rules = {} /\ targets = {} /\ own = {}
      /\ ctx = [h \in Handler |-> None] /\ begun = 0 /\ phase = [t \in Task |-> "none"]
      /\ tangled = FALSE /\ excused = {} /\ left = {} /\ before = 0 /\ blurred = FALSE /\ faults = 0
      /\ image = [t \in Task |-> 0]
  BY DEF Init
<1>2. \A h \in Handler : ~Busy(h)
  BY <1>1 DEF Busy
<1>3. /\ row.task = None /\ row.arn = None /\ row.prev = 0 /\ row.status = "absent"
      /\ row \in RowType
  BY <1>1, NoRowOK DEF NoRow
<1>4. TypeOK
  <2>1. ContextOK
    BY <1>1, <1>2 DEF ContextOK
  <2>2. RestOK
    <3>1. 1 \in 1..MaxRelease /\ 0 \in 0..MaxTasks /\ 0 \in Version /\ 0 \in 0..MaxOps
          /\ 0 \in 0..FaultBudget
      BY BoundAssumption DEF Version
    <3>2. image \in [Task -> Version]
          /\ phase \in [Task -> {"none", "watch", "bare", "rule", "routed", "unrouted"}]
      BY <1>1, <3>1
    <3>3. QED
      BY <1>1, <1>3, <3>1, <3>2 DEF RestOK
  <2>3. QED
    BY <2>1, <2>2, TypeParts
<1>5. Awaiting = {}
  BY <1>2 DEF Awaiting
<1>6. Room /\ Bounds
  BY <1>1, <1>2, <1>3, <1>5, FS_EmptySet, BoundAssumption DEF Room, Bounds, Named
<1>7. TaskInv
  BY <1>1, <1>2 DEF TaskInv, Places, Beginning, Alone, StopsHold, LiveTasksAreNamed
<1>8. DownInv
  BY <1>1, <1>2, <1>3 DEF DownInv, OneRequest, OnePoller, DownStatus
<1>9. RouteInv
  BY <1>1, <1>2, <1>3
     DEF RouteInv, RequestRoutes, Settled, PollerRoutes, Served, Only
<1>10. LeftInv /\ BackInv
  BY <1>1, <1>2, <1>3 DEF LeftInv, BackInv
<1>11. QED
  BY <1>4, <1>6, <1>7, <1>8, <1>9, <1>10 DEF IInv

LEMMA Stutters ==
  ASSUME IInv, UNCHANGED vars
  PROVE  IInv'
<1>1. /\ UNCHANGED <<row, latest, n, up, image, own, rules, targets, ctx, begun, phase>>
      /\ UNCHANGED <<tangled, excused, left, before, blurred, faults>>
  BY DEF vars, ecs, alb, history
<1>2. \A h \in Handler : (Busy(h)' <=> Busy(h)) /\ Others(h)' = Others(h)
                         /\ \A s : At(h, s)' <=> At(h, s)
  BY <1>1 DEF Busy, Others, At
<1>3. TypeOK'
  BY <1>1 DEF IInv, TypeOK, Busy
<1>4. Room' /\ Bounds'
  <2>1. Awaiting' = Awaiting
    BY <1>1 DEF Awaiting, Busy
  <2>2. QED
    BY <1>1, <2>1 DEF IInv, Room, Bounds, Named, Launched, Busy
<1>5. TaskInv'
  BY <1>1, <1>2
     DEF IInv, TaskInv, Places, Beginning, Alone, StopsHold, LiveTasksAreNamed, Down, Live
<1>6. DownInv'
  BY <1>1, <1>2 DEF IInv, DownInv, OneRequest, OnePoller, DownStatus, Down, Live
<1>7. RouteInv'
  BY <1>1, <1>2 DEF IInv, RouteInv, Serial, RequestRoutes, Settled, PollerRoutes, Served
<1>8. LeftInv' /\ BackInv'
  BY <1>1, <1>2 DEF IInv, LeftInv, Serial, BackInv
<1>9. QED
  BY <1>3, <1>4, <1>5, <1>6, <1>7, <1>8 DEF IInv

LEMMA Inductive ==
  ASSUME IInv, [Next]_vars
  PROVE  IInv'
<1>1. CASE Next
  <2>1. TypeOK' /\ Room' /\ Bounds'
    BY <1>1, TypeNext, RoomNext, BoundsNext DEF IInv, TaskInv
  <2>2. TaskInv'
    BY <1>1, PlacesNext, BeginningNext, AloneNext, StopsHoldNext, LiveTasksNext DEF IInv, TaskInv
  <2>3. DownInv' /\ RouteInv' /\ LeftInv' /\ BackInv'
    BY <1>1, DownInvNext, RouteInvNext, LeftInvNext, BackInvNext DEF IInv, TaskInv
  <2>4. QED
    BY <2>1, <2>2, <2>3 DEF IInv
<1>2. CASE UNCHANGED vars
  BY <1>2, Stutters
<1>3. QED
  BY <1>1, <1>2

(* What requests, pollers and the row know of each other holds in every       *)
(* reachable state, for any requests, tasks, operations and faults.           *)
THEOREM Invariant == Spec => []IInv
BY Initially, Inductive, PTL DEF Spec

(* Whatever the requests, pollers and faults do side by side, the row, the    *)
(* requests and the pollers keep their types, a request stays within the      *)
(* steps of its operation, and ECS and the listener know no task that was     *)
(* not launched.                                                              *)
THEOREM TypeCorrect == Spec => []TypeOK
<1>1. IInv => TypeOK
  BY DEF IInv
<1>2. QED
  BY <1>1, Invariant, PTL

(* No task runs unnamed: over any interleaving of the operations and any      *)
(* faults, a running task that no overlap, fault or start excuses is the one  *)
(* of the row or in the hands of the request that is about to record it.      *)
THEOREM NoTaskIsUnnamed == Spec => []LiveTasksAreNamed
<1>1. IInv => LiveTasksAreNamed
  BY DEF IInv, TaskInv
<1>2. QED
  BY <1>1, Invariant, PTL

(* Under a row that says stopped or deprovisioned nothing runs once all is    *)
(* quiet, if no operation ever began beside another or beside a poller, but   *)
(* tasks a start launched another beside, tasks of the provisioning API and   *)
(* tasks their poller gave up on; and, only where a call failed or was cut    *)
(* short on the way, the tasks of that failure.                               *)
THEOREM DownIsDown == Spec => []DownMeansDown
<1>1. IInv => DownMeansDown
  <2> SUFFICES ASSUME IInv, Quiet, ~tangled, row.status \in {"stopped", "deprovisioned"},
                      NEW t \in up, t \notin excused
               PROVE  FALSE
    BY DEF DownMeansDown, IInv, LeftInv, Serial
  <2>1. t = row.task
    BY DEF IInv, TaskInv, LiveTasksAreNamed, Quiet
  <2>2. t \in Task
    BY BoundAssumption DEF IInv, TypeOK, Task
  <2>3. Down(row.task)
    BY <2>1, <2>2 DEF IInv, DownInv, DownStatus, Quiet
  <2>4. QED
    BY <2>1, <2>3 DEF Down, Live
<1>2. QED
  BY <1>1, Invariant, PTL

(* Served at last: after any history of operations one after another and      *)
(* without a fault, a row that says running is of a task that runs, is in the *)
(* target group alone and has the only listener rule; and of one that runs,   *)
(* with neither target nor rule, when the harness has no subdomain.           *)
THEOREM RunningIsServed == Spec => []RunningMeansServed
<1>1. IInv => RunningMeansServed
  <2> SUFFICES ASSUME IInv, Quiet, ~tangled, faults = 0, row.status = "running"
               PROVE  LET served == IF row.sub THEN {row.task} ELSE {} IN
                      /\ row.task \in up /\ row.arn = IF row.sub THEN row.task ELSE None
                      /\ rules = served /\ targets = served
    BY DEF RunningMeansServed
  <2>1. Settled /\ Served
    BY DEF IInv, RouteInv, Serial
  <2>2. row.task \in up /\ row.arn = IF row.sub THEN row.task ELSE None
    BY <2>1 DEF Served, Quiet
  <2>3. row.task # None
    <3>1. up \subseteq Task
      BY BoundAssumption DEF IInv, TypeOK, Task
    <3>2. QED
      BY <2>2, <3>1, NoneAssumption
  <2>4. rules = Only(row.arn) /\ targets = Only(row.arn)
    BY <2>1 DEF Settled, Quiet, At
  <2>5. QED
    BY <2>2, <2>3, <2>4 DEF Only
<1>2. QED
  BY <1>1, Invariant, PTL

(* A rollback goes back to the release before the last change, over any       *)
(* sequence of updates, rollbacks, deletions and new harnesses, requests side *)
(* by side excepted.                                                          *)
THEOREM RollbackReturns == Spec => []RollbackGoesBack
<1>1. IInv => RollbackGoesBack
  BY DEF IInv, BackInv, RollbackGoesBack, Quiet
<1>2. QED
  BY <1>1, Invariant, PTL

=============================================================================
