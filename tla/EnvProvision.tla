---------------------------- MODULE EnvProvision ----------------------------
(* provision_env and teardown_env (mcp/mod.rs): an isolated environment of an *)
(* app is a target group, a listener rule, a database, a secret, an ECS       *)
(* service and a row of app_deployments, made one await after the other with  *)
(* no rollback.  A teardown starts from the row; it removes the rule, target  *)
(* group and secret by the ARNs in the row, the service and database by name. *)
(*                                                                            *)
(* Calls are numbered as they begin; what a provision makes carries its       *)
(* number, so an ARN is a number and 0 is "there is none".                    *)
EXTENDS Integers, FiniteSets, Sequences

CONSTANTS
  Env,             \* full names, <app>-<env>
  Dedicated,       \* environments of compliance tenants
  DbOf,            \* the database name of an environment: - and _ fall together
  TgOf,            \* its target group's name: the first 24 characters
  Priority,        \* priorities of listener rules
  BaseReads,       \* what the app's containers read: its secret, 0, and others
  MaxOps,          \* bound on calls
  FaultBudget      \* bound on failing requests, failing statements and crashes

ASSUME NameAssumption ==
  /\ Dedicated \subseteq Env
  /\ DOMAIN DbOf = Env /\ DOMAIN TgOf = Env
ASSUME PriorityAssumption == Priority \subseteq Nat
ASSUME BaseAssumption == 0 \in BaseReads /\ BaseReads \cap 1..MaxOps = {}
ASSUME BoundAssumption == MaxOps \in Nat /\ FaultBudget \in Nat

VARIABLES
  ops,             \* the calls begun: where they are and what they hold
  rows,            \* provisions that have a row of app_deployments
  tg,              \* target groups, by name
  rules,           \* provisions whose listener rule is there
  db,              \* databases, by name
  secret,          \* secrets, by environment
  service,         \* ECS services, by environment
  faults

aws == <<tg, rules, db, secret, service>>
vars == <<ops, rows, aws, faults>>

Op == 1..MaxOps
DbName == {DbOf[e] : e \in Env}
TgName == {TgOf[e] : e \in Env}

Init ==
  /\ ops = <<>> /\ rows = {} /\ rules = {}
  /\ tg = [x \in TgName |-> 0] /\ db = [d \in DbName |-> 0]
  /\ secret = [e \in Env |-> 0] /\ service = [e \in Env |-> 0]
  /\ faults = 0

-----------------------------------------------------------------------------
(* Calls.                                                                    *)

Ended == {"done", "failed"}
Live(n) == ops[n].at \notin Ended
Provisions == {n \in DOMAIN ops : ops[n].kind = "provision"}
Teardowns == {n \in DOMAIN ops : ops[n].kind = "teardown"}
SameNames(m, n) == ops[m].env = ops[n].env \/ DbOf[ops[m].env] = DbOf[ops[n].env]

\* quiet: no teardown was at work on its names when the provision began.
Start(kind, e, at, row) ==
  /\ Len(ops) < MaxOps
  /\ ops' = Append(ops, [kind |-> kind, env |-> e, at |-> at, row |-> row,
       tg |-> 0, pri |-> 0, db |-> 0, reads |-> {}, clean |-> TRUE,
       quiet |-> \A t \in Teardowns :
                   Live(t) => ops[t].env # e /\ DbOf[ops[t].env] # DbOf[e]])

At(n, step) == n \in DOMAIN ops /\ ops[n].at = step
Goto(n, step) == ops' = [ops EXCEPT ![n].at = step]
Fine == UNCHANGED faults
Fault == faults < FaultBudget /\ faults' = faults + 1

\* A request of a provision fails: the call returns, what was made stays.
GiveUp(n) == Goto(n, "failed")

\* A request of a teardown fails: it is logged and the teardown goes on.
Skip(n, step) == ops' = [ops EXCEPT ![n].at = step, ![n].clean = FALSE]

-----------------------------------------------------------------------------
(* provision_env.                                                            *)

\* The app, its service and secret, its tenant's plan are read.
BeginProvision(e) ==
  /\ Start("provision", e, "target group", 0)
  /\ UNCHANGED <<rows, aws, faults>>

\* Creating a target group that is there returns it.
TargetGroupArn(n) == LET x == TgOf[ops[n].env] IN IF tg[x] = 0 THEN n ELSE tg[x]

\* setup_service_routing.
CreateTargetGroup(n) ==
  LET arn == TargetGroupArn(n) IN
  /\ At(n, "target group")
  /\ \/ /\ Fine /\ tg' = [tg EXCEPT ![TgOf[ops[n].env]] = arn]
        /\ ops' = [ops EXCEPT ![n].at = "priority", ![n].tg = arn]
     \/ Fault /\ GiveUp(n) /\ UNCHANGED tg
  /\ UNCHANGED <<rows, rules, db, secret, service>>

\* Mutant: one past the last in use, whatever the listener allows.
PriorityPastLast ==
  LET used == {ops[r].pri : r \in rules} IN
  IF used = {} THEN Priority ELSE {p + 1 : p \in {q \in used : \A o \in used : o <= q}}

FreePriority == Priority \ {ops[r].pri : r \in rules}

\* next_available_priority; when it fails the target group is left.
FindPriority(n) ==
  /\ At(n, "priority")
  /\ \/ /\ Fine
        /\ \E p \in FreePriority :
             /\ \A q \in FreePriority : p <= q
             /\ ops' = [ops EXCEPT ![n].at = "rule", ![n].pri = p]
     \/ Fine /\ FreePriority = {} /\ GiveUp(n)
     \/ Fault /\ GiveUp(n)
  /\ UNCHANGED <<rows, aws>>

\* The listener refuses a priority in use and a target group that is gone.
CreateRule(n) ==
  LET e == ops[n].env
      ok == ops[n].pri \in FreePriority /\ tg[TgOf[e]] = ops[n].tg
  IN
  /\ At(n, "rule")
  /\ \/ /\ Fine /\ ok /\ rules' = rules \cup {n}
        /\ Goto(n, IF e \in Dedicated THEN "task definition" ELSE "database")
     \/ Fine /\ ~ok /\ Goto(n, "undo") /\ UNCHANGED rules
     \/ Fault /\ Goto(n, "undo") /\ UNCHANGED rules
  /\ UNCHANGED <<rows, tg, db, secret, service>>

\* A target group is not deleted while a rule forwards to it.
Forwarded(arn) == \E r \in rules : ops[r].tg = arn
WithoutTg(n) ==
  IF Forwarded(ops[n].tg) THEN tg ELSE [x \in TgName |-> IF tg[x] = ops[n].tg THEN 0 ELSE tg[x]]

UndoTargetGroup(n) ==
  /\ At(n, "undo") /\ GiveUp(n)
  /\ \/ Fine /\ tg' = WithoutTg(n)
     \/ Fault /\ UNCHANGED tg
  /\ UNCHANGED <<rows, rules, db, secret, service>>

\* create_named_database looks for the database and takes one that exists.
FindDatabase(n) ==
  LET d == db[DbOf[ops[n].env]] IN
  /\ At(n, "database")
  /\ \/ /\ Fine
        /\ ops' = [ops EXCEPT ![n].at = IF d = 0 THEN "create database" ELSE "secret",
                              ![n].db = d]
     \/ Fault /\ GiveUp(n)
  /\ UNCHANGED <<rows, aws>>

CreateDatabase(n) ==
  LET x == DbOf[ops[n].env] IN
  /\ At(n, "create database")
  /\ \/ /\ Fine /\ db[x] = 0 /\ db' = [db EXCEPT ![x] = n]
        /\ ops' = [ops EXCEPT ![n].at = "secret", ![n].db = n]
     \/ Fine /\ db[x] # 0 /\ GiveUp(n) /\ UNCHANGED db
     \/ Fault /\ GiveUp(n) /\ UNCHANGED db
  /\ UNCHANGED <<rows, tg, rules, secret, service>>

\* clone_secret creates; a secret with the name that is there refuses it.
CloneSecret(n) ==
  LET e == ops[n].env IN
  /\ At(n, "secret")
  /\ \/ /\ Fine /\ secret[e] = 0 /\ secret' = [secret EXCEPT ![e] = n]
        /\ Goto(n, "task definition")
     \/ Fine /\ secret[e] # 0 /\ GiveUp(n) /\ UNCHANGED secret
     \/ Fault /\ GiveUp(n) /\ UNCHANGED secret
  /\ UNCHANGED <<rows, tg, rules, db, service>>

\* clone_containers_with_secret_swap: what read the secret of the app reads that
\* of the environment, or the one the operator handed to the call.
Repointed(n) == {IF s = 0 THEN n ELSE s : s \in BaseReads}

\* The live task definition of the app is loaded, and cloned under the name of
\* the environment; clones are not kept track of.
CloneTaskDef(n) ==
  /\ At(n, "task definition")
  /\ \/ Fine /\ ops' = [ops EXCEPT ![n].at = "service", ![n].reads = Repointed(n)]
     \/ Fault /\ GiveUp(n)
  /\ UNCHANGED <<rows, aws>>

\* ECS refuses a name in use and a target group no load balancer uses.
ServiceAccepted(n) == service[ops[n].env] = 0 /\ Forwarded(ops[n].tg)

\* Mutant: a refused service is only logged.
ServiceStepWarns(n) ==
  \/ Fine /\ ServiceAccepted(n) /\ service' = [service EXCEPT ![ops[n].env] = n] /\ Goto(n, "row")
  \/ Fine /\ ~ServiceAccepted(n) /\ Goto(n, "row") /\ UNCHANGED service
  \/ Fault /\ Goto(n, "row") /\ UNCHANGED service

ServiceStep(n) ==
  \/ Fine /\ ServiceAccepted(n) /\ service' = [service EXCEPT ![ops[n].env] = n] /\ Goto(n, "row")
  \/ Fine /\ ~ServiceAccepted(n) /\ GiveUp(n) /\ UNCHANGED service
  \/ Fault /\ GiveUp(n) /\ UNCHANGED service

CreateService(n) ==
  /\ At(n, "service") /\ ServiceStep(n)
  /\ UNCHANGED <<rows, tg, rules, db, secret>>

\* The row, then the row of app_services, whose failure also fails the call.
InsertRow(n) ==
  /\ At(n, "row")
  /\ \/ Fine /\ rows' = rows \cup {n} /\ Goto(n, "done")
     \/ Fault /\ rows' = rows \cup {n} /\ GiveUp(n)
     \/ Fault /\ GiveUp(n) /\ UNCHANGED rows
  /\ UNCHANGED aws

-----------------------------------------------------------------------------
(* teardown_env.                                                             *)

\* Any row of the tenant with the name.
BeginTeardown(e) ==
  /\ \E r \in rows : ops[r].env = e /\ Start("teardown", e, "delete service", r)
  /\ UNCHANGED <<rows, aws, faults>>

\* Mutant: the target group goes before the rule.
FollowingTgFirst(step, e) ==
  CASE step = "delete service" -> "delete target group"
    [] step = "delete target group" -> "delete rule"
    [] step = "delete rule" -> IF e \in Dedicated THEN "delete row" ELSE "drop database"
    [] step = "drop database" -> "delete secret"
    [] step = "delete secret" -> "delete row"

\* The rule goes first: a target group in use is not deleted.  A dedicated
\* database and its secret are the operator's.
Following(step, e) ==
  CASE step = "delete service" -> "delete rule"
    [] step = "delete rule" -> "delete target group"
    [] step = "delete target group" -> IF e \in Dedicated THEN "delete row" ELSE "drop database"
    [] step = "drop database" -> "delete secret"
    [] step = "delete secret" -> "delete row"

\* A step that is done or fails, and the next one in either case.
BestEffort(n, step, var, gone) ==
  LET next == Following(step, ops[n].env) IN
  /\ At(n, step)
  /\ \/ Fine /\ var' = gone /\ Goto(n, next)
     \/ Fault /\ UNCHANGED var /\ Skip(n, next)
  /\ UNCHANGED rows

DeleteService(n) ==
  /\ BestEffort(n, "delete service", service, [service EXCEPT ![ops[n].env] = 0])
  /\ UNCHANGED <<tg, rules, db, secret>>

\* The rule and the target group are the ones in the row.
DeleteRule(n) ==
  /\ BestEffort(n, "delete rule", rules, rules \ {ops[n].row})
  /\ UNCHANGED <<tg, db, secret, service>>

DeleteTargetGroup(n) ==
  /\ BestEffort(n, "delete target group", tg, WithoutTg(ops[n].row))
  /\ UNCHANGED <<rules, db, secret, service>>

\* Mutant: the database is kept.
KeepDatabase(n) == db

Dropped(n) == [db EXCEPT ![DbOf[ops[n].env]] = 0]

DropDatabase(n) ==
  /\ BestEffort(n, "drop database", db, Dropped(n))
  /\ UNCHANGED <<tg, rules, secret, service>>

DeleteSecret(n) ==
  LET e == ops[n].env IN
  /\ BestEffort(n, "delete secret", secret,
                [secret EXCEPT ![e] = IF @ = ops[n].row THEN 0 ELSE @])
  /\ UNCHANGED <<tg, rules, db, service>>

\* The only step whose failure fails the teardown.
DeleteRow(n) ==
  /\ At(n, "delete row")
  /\ \/ Fine /\ rows' = rows \ {ops[n].row} /\ Goto(n, "done")
     \/ Fault /\ GiveUp(n) /\ UNCHANGED rows
  /\ UNCHANGED aws

\* The process dies, or the request times out: all that was done stays.
Cut(n) ==
  /\ n \in DOMAIN ops /\ Live(n) /\ Fault
  /\ ops' = [ops EXCEPT ![n].at = "failed", ![n].clean = FALSE]
  /\ UNCHANGED <<rows, aws>>

Provision(n) ==
  \/ CreateTargetGroup(n) \/ FindPriority(n) \/ CreateRule(n) \/ UndoTargetGroup(n)
  \/ FindDatabase(n) \/ CreateDatabase(n) \/ CloneSecret(n)
  \/ CloneTaskDef(n) \/ CreateService(n) \/ InsertRow(n)

Teardown(n) ==
  \/ DeleteService(n) \/ DeleteRule(n) \/ DeleteTargetGroup(n)
  \/ DropDatabase(n) \/ DeleteSecret(n) \/ DeleteRow(n)

Next ==
  \/ \E e \in Env : BeginProvision(e) \/ BeginTeardown(e)
  \/ \E n \in Op : Provision(n) \/ Teardown(n) \/ Cut(n)

Spec == Init /\ [][Next]_vars

-----------------------------------------------------------------------------
(* Properties.                                                               *)

Number == 0..MaxOps
Steps == {"target group", "priority", "rule", "undo", "database", "create database",
          "secret", "task definition", "service", "row", "delete service", "delete rule",
          "delete target group", "drop database", "delete secret", "delete row"} \cup Ended

Call == [kind : {"provision", "teardown"}, env : Env, at : Steps, row : Number,
         tg : Number, pri : Priority \cup {0}, db : Number, reads : SUBSET (Number \cup BaseReads),
         clean : BOOLEAN, quiet : BOOLEAN]

\* Every variable is what the code stores in it: a row, a rule, a secret and a
\* service are those of a call that began (mcp/mod.rs, app_deployments).
TypeOK ==
  /\ ops \in Seq(Call) /\ Len(ops) <= MaxOps
  /\ rows \subseteq DOMAIN ops /\ rules \subseteq DOMAIN ops
  /\ tg \in [TgName -> Number] /\ db \in [DbName -> Number]
  /\ secret \in [Env -> Number] /\ service \in [Env -> Number]
  /\ faults \in 0..FaultBudget

Whole(r) ==
  LET e == ops[r].env IN
  /\ service[e] = r /\ r \in rules /\ tg[TgOf[e]] = ops[r].tg
  /\ ops[r].reads \cap 0..MaxOps = {r}
  /\ e \notin Dedicated => secret[e] = r /\ db[DbOf[e]] = ops[r].db

\* A teardown with its name or its database's was at work when the provision
\* began, or began later.
Disturbed(r) == ~ops[r].quiet \/ \E t \in Teardowns : r < t /\ SameNames(r, t)

\* An environment that has a row has its service, rule, target group, secret
\* and database, and reads that secret and never the app's, whatever other
\* provisions of it, or of one with the same target group, failed half way:
\* only a teardown takes them (provision_env has no rollback that could hit
\* another call's resources).
EnvIsWhole == \A r \in rows : Disturbed(r) \/ Whole(r)

\* A teardown none of whose requests failed has left nothing that its row
\* named, save a target group another environment or attempt also got: later
\* calls do not bring it back (teardown_env deletes the rule before the group).
TeardownLeavesNothing ==
  \A t \in Teardowns : ops[t].at = "done" /\ ops[t].clean =>
    LET r == ops[t].row
        e == ops[r].env
    IN
    /\ r \notin rows \cup rules /\ service[e] # r /\ secret[e] # r
    /\ e \notin Dedicated => db[DbOf[e]] # ops[r].db
    /\ tg[TgOf[e]] = ops[r].tg => \E q \in Provisions \ {r} : ops[q].tg = ops[r].tg

\* "standard tenants get a fresh database": an environment's database is one
\* that an earlier call made only if that call ended without a whole
\* environment, or its teardown failed somewhere or overlapped this one, or the
\* two names differ in - and _ only.
FreshDatabase ==
  \A r \in rows : ops[r].env \notin Dedicated /\ ops[r].db # r =>
    LET q == ops[r].db IN
    \/ ops[q].at # "done" \/ Disturbed(r) \/ ops[q].env # ops[r].env
    \/ \E t \in Teardowns : ops[t].row = q /\ ~ops[t].clean
=============================================================================
