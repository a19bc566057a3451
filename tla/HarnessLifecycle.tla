-------------------------- MODULE HarnessLifecycle --------------------------
(* One harness on ECS: the operations of the dashboard (routes/ui.rs), the   *)
(* admin API (routes/admin.rs), the tenant API (routes/provisioning.rs) and  *)
(* the MCP tools (mcp/mod.rs) on its row, its task and its ingress, beside   *)
(* the poller each launch may leave behind.  Nothing serialises them: an     *)
(* operation is the sequence of its awaits, and they interleave.             *)
EXTENDS Integers, Sequences, FiniteSets

CONSTANTS
  Handler,         \* concurrent requests
  None,            \* no task, no request
  MaxTasks,        \* bound on tasks launched
  MaxOps,          \* bound on operations begun
  MaxRelease,      \* bound on releases published
  FaultBudget      \* bound on failing statements and calls, timeouts, crashes

ASSUME BoundAssumption ==
  /\ MaxTasks \in Nat /\ FaultBudget \in Nat
  /\ MaxOps \in Nat \ {0} /\ MaxRelease \in Nat \ {0}
ASSUME HandlerAssumption == IsFiniteSet(Handler)

VARIABLES
  row,             \* the row of harness_instances
  latest,          \* releases: the newest available one
  n, up, image, own, \* ECS: tasks launched, those running, the release each
                   \* runs (0: the default image), those on the own database
  rules, targets,  \* ALB: listener rules (each named for the task it was made
                   \* for), addresses in the target group of the subdomain
  ctx, begun,      \* each request: operation, place, what it has read; count
  phase,           \* the poller of each task
  tangled, excused, \* history: an operation began beside another or a poller,
                   \* or went round the row; tasks an overlap, a fault or a launch without stop lost
  left,            \* history: those of them that neither an overlap nor a fault lost
  before, blurred, \* history: tag before the last change; previous_image_tag
                   \* no longer tells it
  faults

ecs == <<n, up, image, own>>
alb == <<rules, targets>>
history == <<tangled, excused, left, before, blurred>>
vars == <<row, latest, ecs, alb, ctx, begun, phase, history, faults>>

Task == 1..MaxTasks
Version == 0..MaxRelease
Status == {"absent", "pending", "provisioning", "running", "stopped", "error", "deprovisioned"}
\* Mutant: the row is kept.
NoRowKept == [status |-> "deleted", sub |-> FALSE, task |-> None, tag |-> 0, prev |-> 0, db |-> FALSE,
              arn |-> None]

\* sub: it has a subdomain.
NoRow == [status |-> "absent", sub |-> FALSE, task |-> None, tag |-> 0, prev |-> 0, db |-> FALSE,
          arn |-> None]

Init ==
  /\ row = NoRow /\ latest = 1
  /\ n = 0 /\ up = {} /\ image = [t \in Task |-> 0] /\ own = {}
  /\ rules = {} /\ targets = {}
  /\ ctx = [h \in Handler |-> None] /\ begun = 0
  /\ phase = [t \in Task |-> "none"]
  /\ tangled = FALSE /\ excused = {} /\ left = {} /\ before = 0 /\ blurred = FALSE
  /\ faults = 0

-----------------------------------------------------------------------------
(* The operations.  steps: their awaits that matter; new: they create the    *)
(* row; named: with a subdomain; needsTask: they return early without a container_id; strict: an      *)
(* INSERT or a stop that fails ends them; sparing: no stop for a row that says stopped or     *)
(* error; image, tag: what they launch and what they say of it; marks: the   *)
(* row that names the task says provisioning too; polls: a poller follows;   *)
(* reports: a failing launch is written to the row; idle: they leave a       *)
(* running harness alone.  leaves: they do not stop the old task (history).  *)

Plain == [steps |-> <<>>, new |-> FALSE, named |-> FALSE, needsTask |-> FALSE, strict |-> FALSE, sparing |-> FALSE,
          image |-> "default", tag |-> "keep", marks |-> FALSE, polls |-> FALSE,
          reports |-> TRUE, idle |-> FALSE, leaves |-> FALSE]

HarnessStart ==
  [Plain EXCEPT !.steps = <<"launch", "record">>, !.needsTask = TRUE, !.marks = TRUE,
                !.reports = FALSE, !.leaves = TRUE]

HarnessStop ==
  [Plain EXCEPT !.steps = <<"unroute", "forget", "stop", "stopped">>, !.needsTask = TRUE,
                !.strict = TRUE]

HarnessRestart ==
  [Plain EXCEPT !.steps = <<"stop", "launch", "record">>, !.needsTask = TRUE, !.marks = TRUE,
                !.reports = FALSE]

\* Mutant: the running task is not stopped.
RedeployUnstopped ==
  [Plain EXCEPT !.steps = <<"tenant", "provisioning", "unroute", "forget", "database", "launch",
                            "record">>, !.polls = TRUE]

HarnessRedeploy ==
  [Plain EXCEPT !.steps = <<"stop", "tenant", "provisioning", "unroute", "forget", "database",
                            "launch", "record">>, !.polls = TRUE]

AdminRedeploy ==
  [Plain EXCEPT !.steps = <<"stop", "unroute", "forget", "provisioning", "database", "launch",
                            "record">>,
                !.polls = TRUE, !.reports = FALSE]

PerformHarnessUpdate ==
  [Plain EXCEPT !.steps = <<"choose", "remember", "stop", "unroute", "forget", "provisioning",
                            "tenant", "database", "launch", "record">>,
                !.image = "latest", !.tag = "set", !.polls = TRUE]

\* Mutant: the tags are not swapped.
RollbackUnswapped ==
  [Plain EXCEPT !.steps = <<"choose", "stop", "unroute", "forget", "provisioning", "tenant",
                            "database", "launch", "record">>,
                !.image = "previous", !.tag = "set", !.polls = TRUE]

HarnessRollback ==
  [Plain EXCEPT !.steps = <<"choose", "stop", "unroute", "forget", "provisioning", "tenant",
                            "database", "launch", "record">>,
                !.image = "previous", !.tag = "swap", !.polls = TRUE]

HarnessDelete == [Plain EXCEPT !.steps = <<"unroute", "forget", "stop", "delete">>]

DeployNewHarness ==
  [Plain EXCEPT !.steps = <<"insert", "provisioning", "database", "tag", "launch", "record">>,
                !.new = TRUE, !.named = TRUE, !.tag = "set", !.polls = TRUE]

AdminProvision ==
  [Plain EXCEPT !.steps = <<"insert", "launch", "record">>, !.new = TRUE, !.named = TRUE,
                !.strict = TRUE, !.marks = TRUE, !.polls = TRUE]

\* Its INSERT names no subdomain.
ProvisionSpecialist == [AdminProvision EXCEPT !.named = FALSE, !.polls = FALSE]

\* tool_provision_harness, on a row that does not say running.
ProvisionTool ==
  [Plain EXCEPT !.steps = <<"claim", "launch", "record">>, !.marks = TRUE,
                !.reports = FALSE, !.idle = TRUE, !.leaves = TRUE]

\* restart_harness of the admin API stops an ECS task and says so, and
\* tool_harness_control does the same for stop.
ControlStop ==
  [Plain EXCEPT !.steps = <<"stop", "stopped">>, !.needsTask = TRUE, !.strict = TRUE]

ControlDeprovision ==
  [Plain EXCEPT !.steps = <<"stop", "deprovisioned">>, !.needsTask = TRUE, !.strict = TRUE]

DeprovisionHarness ==
  [Plain EXCEPT !.steps = <<"stop", "deprovisioned">>, !.sparing = TRUE]

\* Mutant: only the row is changed.
DeprovisionRowOnly == [Plain EXCEPT !.steps = <<"deprovisioned">>, !.needsTask = TRUE]

DeprovisionTenantHarness ==
  [Plain EXCEPT !.steps = <<"stop", "deprovisioned">>, !.needsTask = TRUE]

Creations == {DeployNewHarness, AdminProvision, ProvisionSpecialist}
Operations ==
  {HarnessStart, HarnessStop, HarnessRestart, HarnessRedeploy, PerformHarnessUpdate,
   HarnessRollback, HarnessDelete, AdminRedeploy, ProvisionTool, ControlStop,
   ControlDeprovision, DeprovisionHarness, DeprovisionTenantHarness} \cup Creations

-----------------------------------------------------------------------------
(* Requests.                                                                 *)

\* What a request holds: its place among the at most ten steps of op (0: it
\* reports a failed launch), the container_id and the release it has read, whether
\* it has resolved a database, the task it made, whether another ran beside it.
Context ==
  [op : Operations, at : 0..10, read : Task \cup {None}, ver : Version,
   own : BOOLEAN, made : Task \cup {None}, beside : BOOLEAN]

ASSUME NoneAssumption == None \notin Task /\ None \notin Context

Busy(h) == ctx[h] # None
Others(h) == {g \in Handler \ {h} : Busy(g)}
Launches(o) == \E i \in DOMAIN o.steps : o.steps[i] = "launch"
ToLaunch == {g \in Handler : Busy(g) /\ Launches(ctx[g].op) /\ ctx[g].made = None}

\* A request begins: it reads the row (verify_harness_ownership, or its own
\* SELECT); registration has created a pending row for some tenants.
Begin(h, o) ==
  LET spared == o.sparing /\ row.status \in {"stopped", "error"} IN
  /\ ~Busy(h) /\ begun < MaxOps /\ begun' = begun + 1
  /\ IF o.new THEN begun = 0 ELSE row.status # "absent"
  /\ o.needsTask => row.task # None
  /\ o.idle => row.status # "deprovisioned" /\ (row.status # "running" \/ row.task = None)
  /\ Launches(o) => n + Cardinality(ToLaunch) < MaxTasks
  /\ ctx' = [g \in Handler |->
       IF g = h THEN [op |-> o, at |-> 1, read |-> IF spared THEN None ELSE row.task, ver |-> 0,
                      own |-> FALSE, made |-> None, beside |-> Others(h) # {}]
       ELSE IF Busy(g) THEN [ctx[g] EXCEPT !.beside = TRUE] ELSE None]
  /\ tangled' = (tangled \/ Others(h) # {} \/ \E t \in Task : phase[t] # "none")
  /\ UNCHANGED <<row, latest, ecs, alb, phase, excused, left, before, blurred, faults>>

At(h, step) == Busy(h) /\ ctx[h].at > 0 /\ ctx[h].op.steps[ctx[h].at] = step

\* Go on with c, by k steps; the request ends after its last one.
Onward(h, c, k) ==
  ctx' = [ctx EXCEPT ![h] = IF c.at + k > Len(c.op.steps) THEN None ELSE [c EXCEPT !.at = @ + k]]
Leave(h) == ctx' = [ctx EXCEPT ![h] = None]

Fine == UNCHANGED faults
Fault == faults < FaultBudget /\ faults' = faults + 1

\* An UPDATE of the row, if it is still there; a failure is ignored.
Write(r) ==
  \/ Fine /\ row' = IF row.status = "absent" THEN row ELSE r
  \/ Fault /\ UNCHANGED row

Registered ==
  /\ row = NoRow /\ begun = 0 /\ begun' = 1
  /\ row' = [NoRow EXCEPT !.status = "pending", !.sub = TRUE]
  /\ UNCHANGED <<latest, ecs, alb, ctx, phase, history, faults>>

\* The new row; deploy_new_harness goes on without one.
Insert(h) ==
  LET c == ctx[h] IN
  /\ At(h, "insert")
  /\ \/ /\ Fine /\ Onward(h, c, 1)
        /\ row' = [NoRow EXCEPT !.status = IF c.op.strict THEN "provisioning" ELSE "pending",
                                 !.sub = c.op.named]
     \/ c.op.strict /\ Fault /\ Leave(h) /\ UNCHANGED row
     \/ ~c.op.strict /\ Fault /\ Onward(h, [c EXCEPT !.beside = TRUE], 1) /\ UNCHANGED row
  /\ UNCHANGED <<latest, ecs, alb, begun, phase, history>>

\* The release to run: the latest available one, or the one before.
Choose(h) ==
  LET v == IF ctx[h].op.image = "latest" THEN latest ELSE row.prev IN
  /\ At(h, "choose")
  /\ \/ Fine /\ v # 0 /\ Onward(h, [ctx[h] EXCEPT !.ver = v], 1)
     \/ Fine /\ v = 0 /\ Leave(h)
     \/ Fault /\ Leave(h)
  /\ UNCHANGED <<row, latest, ecs, alb, begun, phase, history>>

\* deploy_new_harness looks up the release to name beside the default image.
Tag(h) ==
  /\ At(h, "tag")
  /\ \/ Fine /\ Onward(h, [ctx[h] EXCEPT !.ver = latest], 1)
     \/ Fault /\ Onward(h, ctx[h], 1)
  /\ UNCHANGED <<row, latest, ecs, alb, begun, phase, history>>

\* The tenant of the row: a redeploy, an update and a rollback return without it.
FindTenant(h) ==
  /\ At(h, "tenant")
  /\ \/ Fine /\ row.status # "absent" /\ Onward(h, ctx[h], 1)
     \/ Fine /\ row.status = "absent" /\ Leave(h)
     \/ Fault /\ Leave(h)
  /\ UNCHANGED <<row, latest, ecs, alb, begun, phase, history>>

\* The tag is kept for a rollback before it is known whether the update works.
Remember(h) ==
  /\ At(h, "remember") /\ Onward(h, ctx[h], 1)
  /\ Write([row EXCEPT !.prev = row.tag])
  /\ blurred' = (blurred \/ ctx[h].ver = row.tag)
  /\ UNCHANGED <<latest, ecs, alb, begun, phase, tangled, excused, left, before>>

Stop(h) ==
  LET c == ctx[h] IN
  /\ At(h, "stop")
  /\ \/ Fine /\ up' = up \ {c.read} /\ Onward(h, c, 1) /\ UNCHANGED excused
     \/ /\ c.read # None /\ Fault /\ up' \in {up, up \ {c.read}}
        /\ excused' = excused \cup {c.read}
        /\ IF c.op.strict THEN Leave(h) ELSE Onward(h, c, 1)
  /\ UNCHANGED <<row, latest, n, image, own, alb, begun, phase, tangled, left, before, blurred>>

SetStatus(h, status) ==
  /\ At(h, status) /\ Onward(h, ctx[h], 1)
  /\ Write([row EXCEPT !.status = status])
  /\ UNCHANGED <<latest, ecs, alb, begun, phase, history>>

\* The tool's claim of the row; a failing UPDATE ends it.
Claim(h) ==
  /\ At(h, "claim")
  /\ \/ /\ Fine /\ Onward(h, ctx[h], 1)
        /\ row' = IF row.status = "absent" THEN row ELSE [row EXCEPT !.status = "provisioning"]
     \/ Fault /\ Leave(h) /\ UNCHANGED row
  /\ UNCHANGED <<latest, ecs, alb, begun, phase, history>>

\* Mutant: the listener rule stays.
TeardownTargets(rule) == targets' = {} /\ UNCHANGED rules

\* teardown_alb_routing: the ARNs, the rule and the target group (which stays
\* while another rule forwards to it), then the ARNs of the row.
TeardownRouting(rule) ==
  /\ rules' = rules \ {rule}
  /\ targets' = IF rules' = {} THEN {} ELSE targets

Unroute(h) ==
  /\ At(h, "unroute")
  /\ \/ row.arn # None /\ Fine /\ TeardownRouting(row.arn) /\ Onward(h, ctx[h], 1)
     \/ row.arn # None /\ Fault /\ UNCHANGED alb /\ Onward(h, ctx[h], 1)
     \/ row.arn = None /\ Fine /\ UNCHANGED alb /\ Onward(h, ctx[h], 2)
     \/ Fault /\ UNCHANGED alb /\ Onward(h, ctx[h], 2)
  /\ UNCHANGED <<row, latest, ecs, begun, phase, history>>

Forget(h) ==
  /\ At(h, "forget") /\ Onward(h, ctx[h], 1)
  /\ Write([row EXCEPT !.arn = None])
  /\ UNCHANGED <<latest, ecs, alb, begun, phase, history>>

\* resolve_harness_database: the harness's own database, made on first use;
\* the shared one when that fails.
ResolveDatabase(h) ==
  /\ At(h, "database")
  /\ \/ Write([row EXCEPT !.db = TRUE]) /\ Onward(h, [ctx[h] EXCEPT !.own = TRUE], 1)
     \/ ~row.db /\ Fault /\ UNCHANGED row /\ Onward(h, ctx[h], 1)
  /\ UNCHANGED <<latest, ecs, alb, begun, phase, history>>

\* provision takes the default image, provision_with_images that of a release.
ImageOf(c) == IF c.op.image = "default" THEN 0 ELSE c.ver

\* The variables of the request come after those of the platform, so that a
\* harness's own database takes the place of the shared one.
OwnDatabases(c, t) == IF c.own THEN own \cup {t} ELSE own

\* run_task; an error may hide a task that was launched.
Launch(h) ==
  LET c == ctx[h]
      t == n + 1
      launched ==
        /\ n' = t /\ up' = up \cup {t}
        /\ image' = [image EXCEPT ![t] = ImageOf(c)] /\ own' = OwnDatabases(c, t)
  IN
  /\ At(h, "launch")
  /\ \/ /\ Fine /\ launched /\ Onward(h, [c EXCEPT !.made = t], 1)
        /\ excused' = IF c.beside THEN excused \cup {t} ELSE excused
     \/ /\ Fault /\ (launched \/ UNCHANGED ecs)
        /\ excused' = excused \cup (up' \ up)
        /\ IF c.op.reports THEN ctx' = [ctx EXCEPT ![h].at = 0] ELSE Leave(h)
  /\ UNCHANGED <<row, latest, alb, begun, phase, tangled, left, before, blurred>>

LaunchFailed(h) ==
  /\ Busy(h) /\ ctx[h].at = 0 /\ Leave(h)
  /\ Write([row EXCEPT !.status = "error"])
  /\ UNCHANGED <<latest, ecs, alb, begun, phase, history>>

\* The row that names the task, and the poller, with the subdomain the request
\* has made or the row is found to have.
Recorded(c) ==
  [row EXCEPT !.task = c.made,
              !.status = IF c.op.marks THEN "provisioning" ELSE @,
              !.prev = IF c.op.tag = "swap" THEN row.tag ELSE @,
              !.tag = IF c.op.tag = "keep" THEN @ ELSE c.ver]

Record(h) ==
  LET c == ctx[h] IN
  /\ At(h, "record") /\ Onward(h, c, 1)
  /\ Write(Recorded(c))
  /\ phase' = IF ~c.op.polls THEN phase
              ELSE [phase EXCEPT ![c.made] = IF c.op.named \/ row.sub THEN "watch" ELSE "bare"]
  /\ before' = IF c.op.tag = "keep" \/ row.tag = c.ver THEN before ELSE row.tag
  /\ blurred' = (blurred \/ c.beside)
  /\ excused' = excused \cup (IF faults' > faults THEN {c.made} ELSE {})
                        \cup (IF c.op.leaves \/ c.beside THEN {row.task} \cap up ELSE {})
  /\ left' = IF c.op.leaves THEN left \cup ({row.task} \cap up) ELSE left
  /\ UNCHANGED <<latest, ecs, alb, begun, tangled>>

\* The database goes with the row.
Delete(h) ==
  /\ At(h, "delete") /\ Leave(h)
  /\ \/ Fine /\ row' = NoRow
     \/ Fault /\ UNCHANGED row
  /\ excused' = IF ctx[h].beside THEN excused \cup up ELSE excused
  /\ UNCHANGED <<latest, ecs, alb, begun, phase, tangled, left, before, blurred>>

-----------------------------------------------------------------------------
(* spawn_ecs_status_poller.  Its task is seen running; it then sets up the   *)
(* routing if it was given a subdomain.                                      *)

SkipRouting(t) ==
  /\ phase[t] = "bare" /\ t \in up /\ Fine
  /\ phase' = [phase EXCEPT ![t] = "unrouted"]
  /\ UNCHANGED <<row, latest, ecs, alb, ctx, begun, history>>

\* setup_routing: the target group, its target, then a listener rule.  A task
\* whose address is not known yet is one of the faults: it gets no routing.
RegisterTarget(t) ==
  /\ phase[t] = "watch" /\ t \in up
  /\ \/ Fine /\ targets' = targets \cup {t} /\ phase' = [phase EXCEPT ![t] = "rule"]
     \/ Fault /\ UNCHANGED targets /\ phase' = [phase EXCEPT ![t] = "unrouted"]
  /\ UNCHANGED <<row, latest, ecs, rules, ctx, begun, history>>

\* The priority cannot be read, or another setup takes it between reading and
\* creating: only the second removes the target group.
CreateRule(t) ==
  /\ phase[t] = "rule"
  /\ \/ /\ Fine /\ rules' = rules \cup {t} /\ UNCHANGED targets
        /\ phase' = [phase EXCEPT ![t] = "routed"]
     \/ /\ Fault /\ UNCHANGED rules /\ phase' = [phase EXCEPT ![t] = "unrouted"]
        /\ targets' \in {targets, IF rules = {} THEN {} ELSE targets}
  /\ UNCHANGED <<row, latest, ecs, ctx, begun, history>>

ReportRunning(t) ==
  /\ phase[t] \in {"routed", "unrouted"}
  /\ Write([row EXCEPT !.status = "running", !.arn = IF phase[t] = "routed" THEN t ELSE None])
  /\ phase' = [phase EXCEPT ![t] = "none"]
  /\ excused' = IF faults' > faults THEN excused \cup {t} ELSE excused
  /\ UNCHANGED <<latest, ecs, alb, ctx, begun, tangled, left, before, blurred>>

GaveUp == "error"

\* The task failed, or did not come up in two minutes: it may still, later.
ReportError(t) ==
  /\ phase[t] \in {"watch", "bare"} /\ phase' = [phase EXCEPT ![t] = "none"]
  /\ up' \in {up, up \ {t}}
  /\ Write([row EXCEPT !.status = GaveUp])
  /\ excused' = IF t \in up' THEN excused \cup {t} ELSE excused
  /\ left' = left \cup ({t} \cap up')
  /\ UNCHANGED <<latest, n, image, own, alb, ctx, begun, tangled, before, blurred>>

Poll(t) == SkipRouting(t) \/ RegisterTarget(t) \/ CreateRule(t) \/ ReportRunning(t) \/ ReportError(t)

-----------------------------------------------------------------------------
(* The provisioning API launches and stops tasks by their ARN: no row knows. *)

ContainerProvision ==
  LET t == n + 1 IN
  /\ begun < MaxOps /\ begun' = begun + 1
  /\ row.status # "absent" /\ n + Cardinality(ToLaunch) < MaxTasks
  /\ n' = t /\ up' = up \cup {t} /\ excused' = excused \cup {t} /\ left' = left \cup {t}
  /\ UNCHANGED <<row, latest, image, own, alb, ctx, phase, tangled, before, blurred, faults>>

ContainerStop(t) ==
  /\ begun < MaxOps /\ begun' = begun + 1
  /\ t \in up /\ up' = up \ {t} /\ tangled' = TRUE
  /\ UNCHANGED <<row, latest, n, image, own, alb, ctx, phase, excused, left, before, blurred, faults>>

-----------------------------------------------------------------------------
(* The rest of the world.                                                    *)

Publish ==
  /\ latest < MaxRelease /\ latest' = latest + 1
  /\ UNCHANGED <<row, ecs, alb, ctx, begun, phase, history, faults>>

\* The timeout layer drops a request between two awaits.
Timeout(h) ==
  /\ Busy(h) /\ Leave(h) /\ Fault
  /\ excused' = excused \cup ({ctx[h].made} \ {None})
  /\ UNCHANGED <<row, latest, ecs, alb, begun, phase, tangled, left, before, blurred>>

\* The platform goes down with its requests and pollers.
Crash ==
  /\ Fault /\ ctx' = [h \in Handler |-> None] /\ phase' = [t \in Task |-> "none"]
  /\ \E h \in Handler : Busy(h)  \/ \E t \in Task : phase[t] # "none"
  /\ excused' = excused \cup ({ctx[h].made : h \in {h \in Handler : Busy(h)}} \ {None})
                        \cup {t \in Task : phase[t] # "none"}
  /\ UNCHANGED <<row, latest, ecs, alb, begun, tangled, left, before, blurred>>

Step(h) ==
  \/ Insert(h) \/ Choose(h) \/ Tag(h) \/ FindTenant(h) \/ Remember(h) \/ Stop(h) \/ Claim(h)
  \/ \E s \in {"provisioning", "stopped", "deprovisioned"} : SetStatus(h, s)
  \/ Unroute(h) \/ Forget(h) \/ ResolveDatabase(h) \/ Launch(h) \/ LaunchFailed(h)
  \/ Record(h) \/ Delete(h)

Next ==
  \/ \E h \in Handler : Step(h) \/ Timeout(h) \/ \E o \in Operations : Begin(h, o)
  \/ \E t \in Task : Poll(t) \/ ContainerStop(t)
  \/ ContainerProvision \/ Registered \/ Publish \/ Crash

Spec == Init /\ [][Next]_vars

-----------------------------------------------------------------------------
(* Properties.                                                               *)

(* Every variable has its type. *)
TypeOK ==
  /\ row \in [status : Status, sub : BOOLEAN, task : Task \cup {None}, tag : Version, prev : Version,
              db : BOOLEAN, arn : Task \cup {None}]
  /\ latest \in 1..MaxRelease
  /\ n \in 0..MaxTasks /\ up \subseteq 1..n /\ image \in [Task -> Version] /\ own \subseteq 1..n
  /\ rules \subseteq 1..n /\ targets \subseteq 1..n
  /\ ctx \in [Handler -> Context \cup {None}]
  /\ \A h \in Handler : Busy(h) => ctx[h].at <= Len(ctx[h].op.steps)
  /\ begun \in 0..MaxOps
  /\ phase \in [Task -> {"none", "watch", "bare", "rule", "routed", "unrouted"}]
  /\ tangled \in BOOLEAN /\ excused \subseteq Task /\ left \subseteq Task
  /\ before \in Version /\ blurred \in BOOLEAN
  /\ faults \in 0..FaultBudget

Quiet == (\A h \in Handler : ~Busy(h)) /\ (\A t \in Task : phase[t] = "none")

(* A task that runs is named by the row or held by the request that is about *)
(* to name it.  None is lost but by requests that overlapped, a call that    *)
(* failed, a request or a poller cut short after the launch, a start, which  *)
(* stops nothing (harness_start, tool_provision_harness), or a launch of the *)
(* provisioning API, which names none.                                       *)
LiveTasksAreNamed ==
  \A t \in up \ excused : t = row.task \/ \E h \in Handler : Busy(h) /\ ctx[h].made = t

(* Stopped means stopped: when all is quiet and no operation began beside    *)
(* another or beside a poller, nothing runs under a row that says stopped or *)
(* deprovisioned but (1) a task a start or the provision tool launched       *)
(* another beside (harness_start, tool_provision_harness), (2) a task of the *)
(* provisioning API, which no row knows, (3) a task whose poller gave up on  *)
(* it, which deprovision then does not stop (spawn_ecs_status_poller); and   *)
(* only once something failed or was cut short (4) a task whose stop failed, *)
(* the error ignored, (5) one launched behind an error, or whose row could   *)
(* not be written, (6) one whose request or poller was cut short.            *)
DownMeansDown ==
  Quiet /\ ~tangled /\ row.status \in {"stopped", "deprovisioned"} =>
    up \subseteq excused /\ (faults = 0 => up \subseteq left)

(* Running means served: under the same conditions and without a fault, the  *)
(* task of a row that says running runs, and the one rule of its subdomain   *)
(* leads to it alone, over any history of stops, restarts, updates and       *)
(* rollbacks (spawn_ecs_status_poller, teardown_alb_routing).  A harness     *)
(* without a subdomain has no rule and no target: it is reached by its       *)
(* internal URL only (provision_specialist_harness).                         *)
RunningMeansServed ==
  Quiet /\ ~tangled /\ faults = 0 /\ row.status = "running" =>
    LET served == IF row.sub THEN {row.task} ELSE {} IN
    /\ row.task \in up /\ row.arn = IF row.sub THEN row.task ELSE None
    /\ rules = served /\ targets = served

(* The release a rollback goes to is the one the harness ran before its last *)
(* change of release, over any sequence of updates and rollbacks.  Requests  *)
(* side by side, a fault, and an update to the release that already runs     *)
(* lose it (perform_harness_update).                                         *)
RollbackGoesBack ==
  Quiet /\ ~blurred /\ faults = 0 /\ row.prev # 0 => row.prev = before

=============================================================================
