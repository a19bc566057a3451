------------------------- MODULE EnvProvision_proofs -------------------------
(* Safety of EnvProvision for every set of environments, names, priorities    *)
(* and any number of calls and faults.                                        *)
EXTENDS EnvProvision, TLAPS

-----------------------------------------------------------------------------
(* The inductive invariant.                                                  *)

ToRow == {"task definition", "service", "row"}
ToSecret == {"database", "create database", "secret"}
ToRule == {"target group", "priority", "rule", "undo"}
ToDatabase == ToRule \cup {"database", "create database"}
ProvisionSteps == ToRule \cup ToSecret \cup ToRow \cup Ended
TeardownSteps == {"delete service", "delete rule", "delete target group", "drop database",
                  "delete secret", "delete row"} \cup Ended

(* What a call holds at each of its steps. *)
ProvisionHolds(n, o) ==
  /\ o.at \in ProvisionSteps /\ o.row = 0
  /\ o.at = "target group" => o.tg = 0
  /\ o.at \in ProvisionSteps \ {"target group", "failed"} => o.tg # 0
  /\ o.at \in ToSecret => o.env \notin Dedicated
  /\ o.at \in ToRow \cup {"secret", "done"} /\ o.env \notin Dedicated => o.db # 0
  /\ o.at \in {"service", "row", "done"} => o.reads \cap 0..MaxOps = {n}

TeardownHolds(n, o) ==
  /\ o.at \in TeardownSteps /\ o.tg = 0 /\ o.db = 0
  /\ o.at \in {"drop database", "delete secret"} => o.env \notin Dedicated

CallsHold ==
  \A n \in DOMAIN ops :
    IF ops[n].kind = "provision" THEN ProvisionHolds(n, ops[n]) ELSE TeardownHolds(n, ops[n])

(* A provision that got as far as its row. *)
Finished(r) ==
  /\ r \in Provisions /\ ops[r].at \in Ended /\ ops[r].tg # 0
  /\ ops[r].env \notin Dedicated => ops[r].db # 0
  /\ ops[r].reads \cap 0..MaxOps = {r}

(* Rows are of finished provisions; a teardown began after the provision of   *)
(* its row, and of the same name.                                             *)
RowsFinished == \A r \in rows : Finished(r)
TeardownsFollow ==
  \A t \in Teardowns :
    /\ Finished(ops[t].row) /\ ops[t].row < t /\ ops[ops[t].row].env = ops[t].env

(* A teardown a quiet provision could have met had ended when it began.       *)
QuietMeansEnded ==
  \A n \in Provisions, t \in Teardowns :
    ops[n].quiet /\ t < n /\ SameNames(n, t) => ops[t].at \in Ended

(* An ARN or a database is the number of a call that has made it.             *)
MadeTg(a) == a # 0 => a \in DOMAIN ops /\ ops[a].at # "target group"
MadeDb(a) == a # 0 => a \in DOMAIN ops /\ ops[a].at \notin ToDatabase /\ ops[a].db = a
ArnsAreMade ==
  /\ \A n \in DOMAIN ops : MadeTg(ops[n].tg) /\ MadeDb(ops[n].db)
  /\ \A x \in TgName : MadeTg(tg[x])
  /\ \A x \in DbName : MadeDb(db[x])

(* A rule forwards to the target group with the name of its environment.      *)
RulesForward ==
  \A r \in rules :
    /\ r \in Provisions /\ ops[r].at \notin ToRule /\ ops[r].tg # 0
    /\ tg[TgOf[ops[r].env]] = ops[r].tg

(* What a provision has made is there until its row is torn down, or a        *)
(* teardown of its name gets in its way.                                      *)
Built(n, steps) == n \in rows \/ ops[n].at \in steps
HasTeardown(n) == \E t \in Teardowns : ops[t].row = n
SecretDeleted(n) ==
  \E t \in Teardowns :
    ops[t].row = n /\ (ops[t].clean => ops[t].at \in {"delete row", "done", "failed"})

RulesStay ==
  \A n \in Provisions : Built(n, ToSecret \cup ToRow) => n \in rules \/ HasTeardown(n)
ServicesStay ==
  \A n \in Provisions : Built(n, {"row"}) => service[ops[n].env] = n \/ Disturbed(n)
DatabasesStay ==
  \A n \in Provisions :
    ops[n].env \notin Dedicated /\ Built(n, ToRow \cup {"secret"}) =>
      db[DbOf[ops[n].env]] = ops[n].db \/ Disturbed(n)
SecretsStay ==
  \A n \in Provisions :
    ops[n].env \notin Dedicated /\ Built(n, ToRow \cup {"done"}) =>
      secret[ops[n].env] = n \/ SecretDeleted(n)
DedicatedBringTheirs == \A e \in Dedicated : secret[e] = 0

(* What a teardown without a failed request has taken away before step at     *)
(* stays away.                                                               *)
GoneAt(t, at) ==
  LET r == ops[t].row
      e == ops[t].env
  IN
  /\ at # "delete service" => service[e] # r
  /\ at \notin {"delete service", "delete rule"} => r \notin rules
  /\ at \notin {"delete service", "delete rule", "delete target group"} =>
       (tg[TgOf[e]] = ops[r].tg => \E q \in Provisions \ {r} : ops[q].tg = ops[r].tg)
  /\ at \in {"delete secret", "delete row"} \cup Ended /\ e \notin Dedicated =>
       db[DbOf[e]] # ops[r].db
  /\ at \in {"delete row"} \cup Ended => secret[e] # r
  /\ at = "done" => r \notin rows
Gone(t) == GoneAt(t, ops[t].at)
TeardownsTake == \A t \in Teardowns : ops[t].clean => Gone(t)

IInv ==
  /\ TypeOK /\ CallsHold /\ RowsFinished /\ TeardownsFollow /\ QuietMeansEnded
  /\ ArnsAreMade /\ RulesForward
  /\ RulesStay /\ ServicesStay /\ DatabasesStay /\ SecretsStay /\ DedicatedBringTheirs
  /\ TeardownsTake

-----------------------------------------------------------------------------
(* What a step of a call does.                                               *)

(* Call n goes on to be o. *)
Moves(n, o) ==
  /\ n \in DOMAIN ops /\ ops[n].at \notin Ended
  /\ o \in Call /\ ops' = [ops EXCEPT ![n] = o]
  /\ o.kind = ops[n].kind /\ o.env = ops[n].env
  /\ o.row = ops[n].row /\ o.quiet = ops[n].quiet
  /\ o.clean => ops[n].clean
  /\ IF o.kind = "provision" THEN ProvisionHolds(n, o) ELSE TeardownHolds(n, o)
  /\ o.at # "target group"
  /\ ops[n].at # "target group" => o.tg = ops[n].tg
  /\ ops[n].at \notin ToRule => o.at \notin ToRule
  /\ ops[n].at \notin ToDatabase => o.at \notin ToDatabase /\ o.db = ops[n].db
  /\ ops[n].at = "delete row" => o.at \in Ended
  /\ o.tg \in {ops[n].tg, n} \cup {tg[x] : x \in TgName}
  /\ \/ o.db \in {ops[n].db} \cup {db[x] : x \in DbName}
     \/ (o.db = n /\ o.at \notin ToDatabase)

(* It puts nothing but its own number into a table. *)
Puts(n, o) ==
  /\ rows' \subseteq rows \cup {n} /\ rules' \subseteq rules \cup {n}
  /\ tg' \in [TgName -> Number] /\ db' \in [DbName -> Number]
  /\ secret' \in [Env -> Number] /\ service' \in [Env -> Number]
  /\ \A x \in TgName : tg'[x] \in {tg[x], 0} \/ (tg'[x] = n /\ ops[n].at = "target group")
  /\ \A x \in DbName : db'[x] \in {db[x], 0} \/
       (db'[x] = n /\ ops[n].at = "create database" /\ o.at \notin ToDatabase /\ o.db = n)
  /\ \A e \in Env : service'[e] \in {service[e], 0, n} /\ secret'[e] \in {secret[e], 0, n}

(* It takes nothing of another call away, but for a teardown.                 *)
Takes(n, o) ==
  /\ \A r \in rules \ rules' : n \in Teardowns /\ ops[n].row = r
  /\ \A r \in rules : tg'[TgOf[ops[r].env]] = tg[TgOf[ops[r].env]]
  /\ \A e \in Env : service'[e] # service[e] =>
       service[e] = 0 \/ (n \in Teardowns /\ ops[n].env = e)
  /\ \A x \in DbName : db'[x] # db[x] =>
       db[x] = 0 \/ (n \in Teardowns /\ DbOf[ops[n].env] = x)
  /\ \A e \in Env : secret'[e] # secret[e] =>
       \/ secret[e] = 0
       \/ n \in Teardowns /\ secret[e] = ops[n].row /\ o.at = "delete row"
  /\ \A e \in Dedicated : secret'[e] \in {secret[e], 0}

(* What a provision has when it goes on. *)
Makes(n, o) ==
  LET e == o.env IN
  /\ n \in rows' => o.at \in Ended /\ o.tg # 0 /\ o.reads \cap 0..MaxOps = {n}
                     /\ (e \notin Dedicated => o.db # 0)
  /\ n \in rules' \ rules => o.at \notin ToRule /\ o.tg # 0 /\ tg'[TgOf[e]] = o.tg
  /\ n \in rows' \/ o.at \in ToSecret \cup ToRow =>
       ops[n].at \in ToSecret \cup ToRow \/ n \in rules'
  /\ n \in rows' \/ o.at = "row" => ops[n].at = "row" \/ service'[e] = n
  /\ e \notin Dedicated /\ (n \in rows' \/ o.at \in ToRow \cup {"secret"}) =>
       ops[n].at \in ToRow \cup {"secret"} \/ db'[DbOf[e]] = o.db
  /\ e \notin Dedicated /\ (n \in rows' \/ o.at \in ToRow \cup {"done"}) =>
       ops[n].at \in ToRow \/ secret'[e] = n

Step(n, o) ==
  /\ Moves(n, o) /\ Puts(n, o) /\ Takes(n, o) /\ faults' \in 0..FaultBudget
  /\ n \in Provisions => Makes(n, o)
  /\ n \in Teardowns =>
       /\ n \notin rows' \cup rules' /\ \A e \in Env : secret'[e] \in {secret[e], 0}
       /\ \A at : o.clean /\ at = o.at => GoneAt(n, at)'

(* What every such step leaves as it is. *)
LEMMA Others ==
  ASSUME IInv, NEW n, NEW o, Moves(n, o)
  PROVE  /\ ops' \in Seq(Call) /\ Len(ops') = Len(ops) /\ DOMAIN ops' = DOMAIN ops
         /\ ops'[n] = o /\ \A m \in DOMAIN ops \ {n} : ops'[m] = ops[m]
         /\ Provisions' = Provisions /\ Teardowns' = Teardowns
         /\ n \in DOMAIN ops /\ ops[n] \in Call
         /\ \A m \in DOMAIN ops : ops'[m].env = ops[m].env /\ ops'[m].row = ops[m].row
                                  /\ ops'[m].quiet = ops[m].quiet
<1>1. ops \in Seq(Call) /\ n \in DOMAIN ops /\ ops' = [ops EXCEPT ![n] = o] /\ o \in Call
  BY DEF IInv, TypeOK, Moves
<1>2. ops' \in Seq(Call) /\ Len(ops') = Len(ops) /\ DOMAIN ops' = DOMAIN ops
      /\ ops'[n] = o /\ \A m \in DOMAIN ops \ {n} : ops'[m] = ops[m]
  BY <1>1
<1>3. ops[n] \in Call
  BY <1>1
<1>4. Provisions' = Provisions /\ Teardowns' = Teardowns
  <2>1. \A m \in DOMAIN ops : ops'[m].kind = ops[m].kind
    BY <1>2 DEF Moves
  <2>2. QED
    BY <1>2, <2>1 DEF Provisions, Teardowns
<1>5. QED
  BY <1>1, <1>2, <1>3, <1>4 DEF Moves

(* Every call is a provision or a teardown. *)
LEMMA Kinds ==
  ASSUME IInv
  PROVE  \A n \in DOMAIN ops :
           /\ n \in Nat \ {0} /\ n \in Op /\ ops[n] \in Call /\ ops[n].env \in Env
           /\ n \in Provisions \/ n \in Teardowns
           /\ ~ (n \in Provisions /\ n \in Teardowns)
           /\ n \in Provisions => ProvisionHolds(n, ops[n])
           /\ n \in Teardowns => TeardownHolds(n, ops[n])
<1>1. ops \in Seq(Call) /\ Len(ops) <= MaxOps
  BY DEF IInv, TypeOK
<1>2. ASSUME NEW n \in DOMAIN ops
      PROVE  n \in Nat \ {0} /\ n \in Op /\ ops[n] \in Call
  <2>1. Len(ops) \in Nat /\ n \in 1..Len(ops) /\ ops[n] \in Call
    BY <1>1
  <2>2. QED
    BY <1>1, <2>1, BoundAssumption DEF Op
<1>3. \A n \in DOMAIN ops : ops[n].kind \in {"provision", "teardown"} /\ ops[n].env \in Env
  BY <1>2 DEF Call
<1>4. QED
  BY <1>2, <1>3 DEF IInv, CallsHold, Provisions, Teardowns

-----------------------------------------------------------------------------
(* What stays true of the calls.                                             *)

LEMMA FinishedStays ==
  ASSUME IInv, NEW n, NEW o, Moves(n, o), NEW r, Finished(r)
  PROVE  Finished(r)' /\ r # n /\ r \in DOMAIN ops /\ ops'[r] = ops[r]
<1>1. r # n /\ r \in DOMAIN ops
  BY DEF Finished, Moves, Provisions
<1>2. ops'[r] = ops[r] /\ Provisions' = Provisions
  BY <1>1, Others
<1>3. QED
  BY <1>1, <1>2 DEF Finished

LEMMA DisturbedStays ==
  ASSUME IInv, NEW n, NEW o, Moves(n, o), NEW m \in DOMAIN ops, Disturbed(m)
  PROVE  Disturbed(m)'
<1>1. /\ Teardowns' = Teardowns /\ Teardowns \subseteq DOMAIN ops
      /\ \A k \in DOMAIN ops : ops'[k].env = ops[k].env /\ ops'[k].quiet = ops[k].quiet
  BY Others DEF Teardowns
<1>2. QED
  BY <1>1 DEF Disturbed, SameNames

LEMMA MadeStays ==
  ASSUME IInv, NEW n, NEW o, Moves(n, o), NEW a
  PROVE  (MadeTg(a) => MadeTg(a)') /\ (MadeDb(a) => MadeDb(a)')
<1>1. DOMAIN ops' = DOMAIN ops /\ ops'[n] = o /\ \A m \in DOMAIN ops \ {n} : ops'[m] = ops[m]
  BY Others
<1>2. CASE a = n
  BY <1>1, <1>2 DEF Moves, MadeTg, MadeDb
<1>3. CASE a # n
  BY <1>1, <1>3 DEF MadeTg, MadeDb
<1>4. QED
  BY <1>2, <1>3

(* A live teardown of the names of a provision disturbs it. *)
LEMMA LiveDisturbs ==
  ASSUME IInv, NEW m \in Provisions, NEW t \in Teardowns, SameNames(m, t), ops[t].at \notin Ended
  PROVE  Disturbed(m)
<1>1. m \in Nat /\ t \in Nat /\ m # t
  BY Kinds DEF Provisions, Teardowns
<1>2. CASE m < t
  BY <1>2 DEF Disturbed
<1>3. CASE t < m
  BY <1>3 DEF IInv, QuietMeansEnded, Disturbed
<1>4. QED
  BY <1>1, <1>2, <1>3

LEMMA RowDisturbs ==
  ASSUME IInv, NEW t \in Teardowns
  PROVE  Disturbed(ops[t].row)
BY DEF IInv, TeardownsFollow, Disturbed, SameNames

-----------------------------------------------------------------------------
(* Each part of the invariant under such a step.                             *)

LEMMA CallsHoldStays ==
  ASSUME IInv, NEW n, NEW o, Moves(n, o)
  PROVE  CallsHold'
<1>1. DOMAIN ops' = DOMAIN ops /\ ops'[n] = o /\ \A m \in DOMAIN ops \ {n} : ops'[m] = ops[m]
  BY Others
<1>2. ASSUME NEW m \in DOMAIN ops
      PROVE  IF ops'[m].kind = "provision" THEN ProvisionHolds(m, ops'[m])
             ELSE TeardownHolds(m, ops'[m])
  <2>1. CASE m = n
    BY <1>1, <2>1 DEF Moves
  <2>2. CASE m # n
    BY <1>1, <2>2 DEF IInv, CallsHold
  <2>3. QED
    BY <2>1, <2>2
<1>3. QED
  BY <1>1, <1>2 DEF CallsHold

LEMMA RowsFinishedStays ==
  ASSUME IInv, NEW n, NEW o, Step(n, o)
  PROVE  RowsFinished'
<1>1. SUFFICES ASSUME NEW r \in rows' PROVE Finished(r)'
  BY DEF RowsFinished
<1>2. CASE r \in rows
  BY <1>2, FinishedStays DEF IInv, RowsFinished, Step
<1>3. CASE r = n
  <2>1. n \in DOMAIN ops /\ ops'[n] = o /\ Provisions' = Provisions
    BY Others DEF Step
  <2>2. n \in Provisions
    BY <1>3, <2>1, Kinds DEF Step
  <2>3. QED
    BY <1>3, <2>1, <2>2 DEF Step, Makes, Finished
<1>4. QED
  BY <1>2, <1>3 DEF Step, Puts

LEMMA TeardownsFollowStays ==
  ASSUME IInv, NEW n, NEW o, Moves(n, o)
  PROVE  TeardownsFollow'
<1>1. /\ Teardowns' = Teardowns /\ Teardowns \subseteq DOMAIN ops
      /\ \A m \in DOMAIN ops : ops'[m].env = ops[m].env /\ ops'[m].row = ops[m].row
  BY Others DEF Teardowns
<1>2. ASSUME NEW t \in Teardowns
      PROVE  /\ Finished(ops[t].row)' /\ ops'[t].row < t
             /\ ops'[ops'[t].row].env = ops'[t].env
  <2>1. /\ Finished(ops[t].row) /\ ops[t].row < t /\ ops[ops[t].row].env = ops[t].env
    BY DEF IInv, TeardownsFollow
  <2>2. Finished(ops[t].row)' /\ ops'[ops[t].row] = ops[ops[t].row]
    <3> DEFINE r == ops[t].row
    <3>1. Finished(r)
      BY <2>1
    <3>2. r' = r
      BY <1>1
    <3> HIDE DEF r
    <3>3. \A q : Finished(q) => (Finished(q)' /\ ops'[q] = ops[q])
      BY FinishedStays
    <3>4. Finished(r)' /\ ops'[r] = ops[r]
      BY <3>1, <3>2, <3>3 DEF Finished
    <3>5. QED
      BY <3>4 DEF r
  <2>3. QED
    BY <1>1, <2>1, <2>2
<1>3. QED
  BY <1>1, <1>2 DEF TeardownsFollow

LEMMA QuietStays ==
  ASSUME IInv, NEW n, NEW o, Moves(n, o)
  PROVE  QuietMeansEnded'
<1>1. /\ Provisions' = Provisions /\ Teardowns' = Teardowns
      /\ \A m \in DOMAIN ops : ops'[m].env = ops[m].env /\ ops'[m].quiet = ops[m].quiet
      /\ \A m \in DOMAIN ops \ {n} : ops'[m] = ops[m]
      /\ Teardowns \subseteq DOMAIN ops /\ Provisions \subseteq DOMAIN ops
  BY Others DEF Teardowns, Provisions
<1>2. ASSUME NEW m \in Provisions, NEW t \in Teardowns,
             ops'[m].quiet, t < m, SameNames(m, t)'
      PROVE  ops'[t].at \in Ended
  <2>1. ops[m].quiet /\ SameNames(m, t)
    BY <1>1, <1>2 DEF SameNames
  <2>2. ops[t].at \in Ended
    BY <1>2, <2>1 DEF IInv, QuietMeansEnded
  <2>3. t # n
    BY <2>2 DEF Moves
  <2>4. QED
    BY <1>1, <2>2, <2>3
<1>3. QED
  BY <1>1, <1>2 DEF QuietMeansEnded

LEMMA ArnsStay ==
  ASSUME IInv, NEW n, NEW o, Step(n, o)
  PROVE  ArnsAreMade'
<1>1. /\ Moves(n, o) /\ DOMAIN ops' = DOMAIN ops /\ n \in DOMAIN ops /\ ops'[n] = o
      /\ \A m \in DOMAIN ops \ {n} : ops'[m] = ops[m]
  BY Others DEF Step
<1>2. \A a : (MadeTg(a) => MadeTg(a)') /\ (MadeDb(a) => MadeDb(a)')
  BY <1>1, MadeStays
<1>3. MadeTg(n)'
  BY <1>1 DEF MadeTg, Moves
<1>4. ASSUME NEW a, a = o.tg PROVE MadeTg(a)'
  <2>1. MadeTg(ops[n].tg) /\ \A x \in TgName : MadeTg(tg[x])
    BY <1>1 DEF IInv, ArnsAreMade
  <2>2. a \in {ops[n].tg, n} \cup {tg[x] : x \in TgName}
    BY <1>1, <1>4 DEF Moves
  <2>3. MadeTg(a) \/ a = n
    BY <2>1, <2>2
  <2>4. QED
    BY <1>2, <1>3, <2>3
<1>5. ASSUME NEW a, a = o.db PROVE MadeDb(a)'
  <2>1. MadeDb(ops[n].db) /\ \A x \in DbName : MadeDb(db[x])
    BY <1>1 DEF IInv, ArnsAreMade
  <2>2. CASE o.db \in {ops[n].db} \cup {db[x] : x \in DbName}
    <3>1. MadeDb(a)
      BY <1>5, <2>1, <2>2
    <3>2. QED
      BY <1>2, <3>1
  <2>3. CASE o.db = n /\ o.at \notin ToDatabase
    BY <1>1, <1>5, <2>3 DEF MadeDb
  <2>4. QED
    BY <1>1, <2>2, <2>3 DEF Moves
<1>6. ASSUME NEW m \in DOMAIN ops, NEW a
      PROVE  (a = ops'[m].tg => MadeTg(a)') /\ (a = ops'[m].db => MadeDb(a)')
  <2>1. CASE m = n
    BY <1>1, <1>4, <1>5, <2>1
  <2>2. CASE m # n
    <3>1. ops'[m] = ops[m] /\ MadeTg(ops[m].tg) /\ MadeDb(ops[m].db)
      BY <1>1, <2>2 DEF IInv, ArnsAreMade
    <3>2. QED
      BY <1>2, <3>1
  <2>3. QED
    BY <2>1, <2>2
<1>7. ASSUME NEW x \in TgName, NEW a, a = tg'[x] PROVE MadeTg(a)'
  <2>1. a \in {tg[x], 0, n} /\ MadeTg(tg[x])
    BY <1>7 DEF Step, Puts, IInv, ArnsAreMade
  <2>2. MadeTg(0)'
    BY DEF MadeTg
  <2>3. QED
    BY <1>2, <1>3, <2>1, <2>2
<1>8. ASSUME NEW x \in DbName, NEW a, a = db'[x] PROVE MadeDb(a)'
  <2>1. MadeDb(db[x])
    BY DEF IInv, ArnsAreMade
  <2>2. MadeDb(0)'
    BY DEF MadeDb
  <2>3. a \in {db[x], 0} \/ a = o.db
    BY <1>8 DEF Step, Puts
  <2>4. QED
    BY <1>2, <1>5, <2>1, <2>2, <2>3
<1>9. QED
  BY <1>1, <1>6, <1>7, <1>8 DEF ArnsAreMade

LEMMA RulesForwardStays ==
  ASSUME IInv, NEW n, NEW o, Step(n, o)
  PROVE  RulesForward'
<1>1. /\ Moves(n, o) /\ ops'[n] = o /\ n \in DOMAIN ops /\ Provisions' = Provisions
      /\ \A m \in DOMAIN ops \ {n} : ops'[m] = ops[m]
  BY Others DEF Step
<1>2. ASSUME NEW r \in rules'
      PROVE  /\ r \in Provisions' /\ ops'[r].at \notin ToRule /\ ops'[r].tg # 0
             /\ tg'[TgOf[ops'[r].env]] = ops'[r].tg
  <2>1. CASE r \in rules
    <3>1. /\ r \in Provisions /\ ops[r].at \notin ToRule /\ ops[r].tg # 0
          /\ tg[TgOf[ops[r].env]] = ops[r].tg /\ r \in DOMAIN ops
      BY <2>1 DEF IInv, RulesForward, Provisions
    <3>2. tg'[TgOf[ops[r].env]] = ops[r].tg
      BY <2>1, <3>1 DEF Step, Takes
    <3>3. ops'[r].at \notin ToRule /\ ops'[r].tg = ops[r].tg /\ ops'[r].env = ops[r].env
      <4>1. CASE r = n
        BY <1>1, <3>1, <4>1 DEF Moves, ToRule
      <4>2. CASE r # n
        BY <1>1, <3>1, <4>2
      <4>3. QED
        BY <4>1, <4>2
    <3>4. QED
      BY <1>1, <3>1, <3>2, <3>3
  <2>2. CASE r = n /\ n \notin rules
    <3>1. n \in Provisions
      BY <1>1, <1>2, <2>2, Kinds DEF Step
    <3>2. o.at \notin ToRule /\ o.tg # 0 /\ tg'[TgOf[o.env]] = o.tg
      BY <1>2, <2>2, <3>1 DEF Step, Makes
    <3>3. QED
      BY <1>1, <2>2, <3>1, <3>2
  <2>3. QED
    BY <1>2, <2>1, <2>2 DEF Step, Puts
<1>3. QED
  BY <1>2 DEF RulesForward

(* The state of a provision that was there before, or is the one that moves.  *)
LEMMA BuiltBefore ==
  ASSUME IInv, NEW n, NEW o, Step(n, o), NEW m \in Provisions, NEW steps
  PROVE  /\ m # n => (Built(m, steps)' => Built(m, steps)) /\ ops'[m] = ops[m]
         /\ ops'[n] = o /\ (Built(n, steps)' => (n \in rows' \/ o.at \in steps))
         /\ ops'[m].env = ops[m].env /\ ops[m].env \in Env /\ m \in DOMAIN ops
         /\ m = n => m \notin rows /\ Makes(n, o) /\ o.env = ops[n].env
<1>1. /\ Moves(n, o) /\ ops'[n] = o
      /\ \A k \in DOMAIN ops \ {n} : ops'[k] = ops[k]
      /\ \A k \in DOMAIN ops : ops'[k].env = ops[k].env
  BY Others DEF Step
<1>2. m \in DOMAIN ops /\ ops[m].env \in Env
  BY Kinds DEF Provisions
<1>3. n \notin rows
  BY <1>1 DEF Moves, IInv, RowsFinished, Finished
<1>4. QED
  BY <1>1, <1>2, <1>3 DEF Built, Step, Puts, Moves

LEMMA RulesStayStays ==
  ASSUME IInv, NEW n, NEW o, Step(n, o)
  PROVE  RulesStay'
<1> DEFINE steps == ToSecret \cup ToRow
<1>1. /\ Provisions' = Provisions /\ Teardowns' = Teardowns /\ Teardowns \subseteq DOMAIN ops
      /\ \A m \in DOMAIN ops : ops'[m].row = ops[m].row
  BY Others DEF Step, Teardowns
<1>2. ASSUME NEW m \in Provisions, Built(m, steps)'
      PROVE  m \in rules' \/ HasTeardown(m)'
  <2>1. \/ m \in rules \/ HasTeardown(m) \/ m \in rules'
    <3>1. CASE m = n
      <4>1. ops[n].at \in steps \/ n \in rules'
        BY <1>2, <3>1, BuiltBefore DEF Makes
      <4>2. CASE ops[n].at \in steps
        BY <3>1, <4>2 DEF IInv, RulesStay, Built
      <4>3. QED
        BY <3>1, <4>1, <4>2
    <3>2. CASE m # n
      BY <1>2, <3>2, BuiltBefore DEF IInv, RulesStay
    <3>3. QED
      BY <3>1, <3>2
  <2>2. HasTeardown(m) => HasTeardown(m)'
    BY <1>1 DEF HasTeardown
  <2>3. m \in rules \ rules' => HasTeardown(m)'
    BY <1>1 DEF HasTeardown, Step, Takes
  <2>4. QED
    BY <2>1, <2>2, <2>3
<1>3. QED
  BY <1>1, <1>2 DEF RulesStay

LEMMA ServicesStayStays ==
  ASSUME IInv, NEW n, NEW o, Step(n, o)
  PROVE  ServicesStay'
<1>1. Moves(n, o) /\ Provisions' = Provisions /\ n \in DOMAIN ops
  BY Others DEF Step
<1>2. ASSUME NEW m \in Provisions, Built(m, {"row"})'
      PROVE  service'[ops'[m].env] = m \/ Disturbed(m)'
  <2> DEFINE e == ops[m].env
  <2>1. m \in DOMAIN ops /\ e \in Env /\ ops'[m].env = e /\ m # 0
    BY BuiltBefore, Kinds
  <2>2. service[e] = m \/ Disturbed(m) \/ service'[e] = m
    <3>1. CASE m = n
      <4>1. ops[n].at = "row" \/ service'[e] = n
        BY <1>2, <3>1, BuiltBefore DEF Makes
      <4>2. CASE ops[n].at = "row"
        BY <3>1, <4>2 DEF IInv, ServicesStay, Built
      <4>3. QED
        BY <3>1, <4>1, <4>2
    <3>2. CASE m # n
      BY <1>2, <3>2, BuiltBefore DEF IInv, ServicesStay
    <3>3. QED
      BY <3>1, <3>2
  <2>3. CASE service[e] = m /\ service'[e] # m
    <3>1. n \in Teardowns /\ ops[n].env = e
      BY <2>1, <2>3 DEF Step, Takes
    <3>2. Disturbed(m)
      BY <1>1, <3>1, LiveDisturbs DEF SameNames, Moves
    <3>3. QED
      BY <1>1, <2>1, <3>2, DisturbedStays
  <2>4. QED
    BY <1>1, <2>1, <2>2, <2>3, DisturbedStays
<1>3. QED
  BY <1>1, <1>2 DEF ServicesStay

LEMMA DatabasesStayStays ==
  ASSUME IInv, NEW n, NEW o, Step(n, o)
  PROVE  DatabasesStay'
<1> DEFINE steps == ToRow \cup {"secret"}
<1>1. Moves(n, o) /\ Provisions' = Provisions /\ n \in DOMAIN ops
  BY Others DEF Step
<1>2. ASSUME NEW m \in Provisions, ops'[m].env \notin Dedicated, Built(m, steps)'
      PROVE  db'[DbOf[ops'[m].env]] = ops'[m].db \/ Disturbed(m)'
  <2> DEFINE e == ops[m].env
             x == DbOf[e]
  <2>1. m \in DOMAIN ops /\ e \in Env /\ ops'[m].env = e /\ x \in DbName /\ e \notin Dedicated
    BY <1>2, BuiltBefore DEF DbName
  <2> HIDE DEF x
  <2>2. \/ db[x] = ops[m].db /\ ops[m].db # 0 /\ ops'[m].db = ops[m].db
        \/ Disturbed(m) \/ db'[x] = ops'[m].db
    <3>1. CASE m = n
      <4>1. ops[n].at \in steps \/ db'[x] = o.db
        BY <1>2, <2>1, <3>1, BuiltBefore DEF Makes, x
      <4>2. CASE ops[n].at \in steps
        <5>1. db[x] = ops[n].db \/ Disturbed(n)
          BY <2>1, <3>1, <4>2 DEF IInv, DatabasesStay, Built, x
        <5>2. ops[n].db # 0
          BY <2>1, <3>1, <4>2, Kinds DEF ProvisionHolds
        <5>3. o.db = ops[n].db /\ ops'[n] = o
          BY <1>1, <3>1, <4>2, BuiltBefore DEF Moves, ToDatabase, ToRule, ToRow
        <5>4. QED
          BY <3>1, <5>1, <5>2, <5>3
      <4>3. QED
        BY <3>1, <4>1, <4>2, BuiltBefore
    <3>2. CASE m # n
      <4>1. Built(m, steps) /\ ops'[m] = ops[m]
        BY <1>2, <3>2, BuiltBefore
      <4>2. db[x] = ops[m].db \/ Disturbed(m)
        BY <2>1, <4>1 DEF IInv, DatabasesStay, x
      <4>3. ops[m].db # 0
        <5>1. CASE m \in rows
          BY <2>1, <5>1 DEF IInv, RowsFinished, Finished
        <5>2. CASE ops[m].at \in steps
          BY <2>1, <5>2, Kinds DEF ProvisionHolds
        <5>3. QED
          BY <4>1, <5>1, <5>2 DEF Built
      <4>4. QED
        BY <4>1, <4>2, <4>3
    <3>3. QED
      BY <3>1, <3>2
  <2>3. CASE db[x] = ops[m].db /\ ops[m].db # 0 /\ ops'[m].db = ops[m].db /\ db'[x] # db[x]
    <3>1. n \in Teardowns /\ DbOf[ops[n].env] = x
      BY <2>1, <2>3 DEF Step, Takes
    <3>2. Disturbed(m)
      BY <1>1, <3>1, LiveDisturbs DEF SameNames, Moves, x
    <3>3. QED
      BY <1>1, <2>1, <3>2, DisturbedStays
  <2>4. QED
    BY <1>1, <2>1, <2>2, <2>3, DisturbedStays DEF x
<1>3. QED
  BY <1>1, <1>2 DEF DatabasesStay

LEMMA SecretsStayStays ==
  ASSUME IInv, NEW n, NEW o, Step(n, o)
  PROVE  SecretsStay' /\ DedicatedBringTheirs'
<1> DEFINE steps == ToRow \cup {"done"}
<1>1. /\ Moves(n, o) /\ Provisions' = Provisions /\ n \in DOMAIN ops
      /\ Teardowns' = Teardowns /\ Teardowns \subseteq DOMAIN ops /\ ops'[n] = o
      /\ \A m \in DOMAIN ops : ops'[m].row = ops[m].row
      /\ \A m \in DOMAIN ops \ {n} : ops'[m] = ops[m]
  BY Others DEF Step, Teardowns
<1>2. ASSUME NEW m, SecretDeleted(m) PROVE SecretDeleted(m)'
  <2>1. PICK t \in Teardowns :
          ops[t].row = m /\ (ops[t].clean => ops[t].at \in {"delete row", "done", "failed"})
    BY <1>2 DEF SecretDeleted
  <2>2. ops'[t].row = m /\ (ops'[t].clean => ops'[t].at \in {"delete row", "done", "failed"})
    <3>1. CASE t = n
      BY <1>1, <2>1, <3>1 DEF Moves, Ended
    <3>2. CASE t # n
      BY <1>1, <2>1, <3>2
    <3>3. QED
      BY <3>1, <3>2
  <2>3. QED
    BY <1>1, <2>2 DEF SecretDeleted
<1>3. ASSUME NEW m \in Provisions, ops'[m].env \notin Dedicated, Built(m, steps)'
      PROVE  secret'[ops'[m].env] = m \/ SecretDeleted(m)'
  <2> DEFINE e == ops[m].env
  <2>1. m \in DOMAIN ops /\ e \in Env /\ ops'[m].env = e /\ m # 0 /\ e \notin Dedicated
    BY <1>3, BuiltBefore, Kinds
  <2>2. secret[e] = m \/ SecretDeleted(m) \/ secret'[e] = m
    <3>1. CASE m = n
      <4>1. ops[n].at \in ToRow \/ secret'[e] = n
        BY <1>3, <2>1, <3>1, BuiltBefore DEF Makes
      <4>2. CASE ops[n].at \in ToRow
        BY <2>1, <3>1, <4>2 DEF IInv, SecretsStay, Built
      <4>3. QED
        BY <3>1, <4>1, <4>2
    <3>2. CASE m # n
      BY <1>3, <2>1, <3>2, BuiltBefore DEF IInv, SecretsStay
    <3>3. QED
      BY <3>1, <3>2
  <2>3. CASE secret[e] = m /\ secret'[e] # m
    <3>1. n \in Teardowns /\ m = ops[n].row /\ o.at = "delete row"
      BY <2>1, <2>3 DEF Step, Takes
    <3>2. QED
      BY <1>1, <3>1 DEF SecretDeleted
  <2>4. QED
    BY <1>2, <2>1, <2>2, <2>3
<1>4. SecretsStay'
  BY <1>1, <1>3 DEF SecretsStay
<1>5. DedicatedBringTheirs'
  BY DEF Step, Takes, IInv, DedicatedBringTheirs
<1>6. QED
  BY <1>4, <1>5

(* What is gone does not come back: the row's provision has ended, and the    *)
(* call that moves puts its own number, which was nowhere before.             *)
LEMMA GoneStays ==
  ASSUME IInv, NEW n, NEW o, Moves(n, o), Puts(n, o), NEW t \in Teardowns, NEW at, GoneAt(t, at)
  PROVE  GoneAt(t, at)'
<1> DEFINE r == ops[t].row
           e == ops[t].env
<1>1. /\ Provisions' = Provisions /\ n \in DOMAIN ops /\ t \in DOMAIN ops
      /\ Provisions \subseteq DOMAIN ops
      /\ \A m \in DOMAIN ops : ops'[m].row = ops[m].row /\ ops'[m].env = ops[m].env
      /\ \A m \in DOMAIN ops \ {n} : ops'[m] = ops[m]
  BY Others DEF Teardowns, Provisions
<1>2. Finished(r) /\ ops[r].env = e /\ e \in Env
  BY <1>1, Kinds DEF IInv, TeardownsFollow
<1>3. r # n /\ r \in Provisions /\ r \in DOMAIN ops /\ r # 0 /\ ops'[r] = ops[r]
  BY <1>1, <1>2, FinishedStays, Kinds DEF Finished
<1>4. ops'[t].row = r /\ ops'[t].env = e
  BY <1>1
<1>5. TgOf[e] \in TgName /\ DbOf[e] \in DbName
  BY <1>2 DEF TgName, DbName
<1> HIDE DEF r, e
<1>6. service[e] # r => service'[e] # r
  BY <1>2, <1>3 DEF Puts
<1>7. r \notin rules => r \notin rules'
  BY <1>3 DEF Puts
<1>8. (tg[TgOf[e]] = ops[r].tg => \E q \in Provisions \ {r} : ops[q].tg = ops[r].tg) =>
      (tg'[TgOf[e]] = ops[r].tg => \E q \in Provisions \ {r} : ops'[q].tg = ops[r].tg)
  <2> SUFFICES ASSUME tg[TgOf[e]] = ops[r].tg =>
                        \E q \in Provisions \ {r} : ops[q].tg = ops[r].tg,
                      tg'[TgOf[e]] = ops[r].tg
               PROVE  \E q \in Provisions \ {r} : ops'[q].tg = ops[r].tg
    OBVIOUS
  <2>1. ops[r].tg # 0 /\ MadeTg(ops[r].tg)
    BY <1>2, <1>3 DEF Finished, IInv, ArnsAreMade
  <2>2. ~ (ops[r].tg = n /\ ops[n].at = "target group")
    BY <2>1 DEF MadeTg
  <2>3. tg[TgOf[e]] = ops[r].tg
    BY <1>5, <2>1, <2>2 DEF Puts
  <2>4. PICK q \in Provisions \ {r} : ops[q].tg = ops[r].tg
    BY <2>3
  <2>5. ops'[q].tg = ops[q].tg
    <3>1. CASE q = n
      <4>1. ops[n].at # "target group"
        BY <2>1, <2>4, <3>1, Kinds, <1>1 DEF ProvisionHolds
      <4>2. o.tg = ops[n].tg /\ ops'[n] = o
        BY <1>1, <4>1, Others DEF Moves
      <4>3. QED
        BY <3>1, <4>2
    <3>2. CASE q # n
      BY <1>1, <3>2
    <3>3. QED
      BY <3>1, <3>2
  <2>6. QED
    BY <2>4, <2>5
<1>9. e \notin Dedicated => (db[DbOf[e]] # ops[r].db => db'[DbOf[e]] # ops[r].db)
  <2> SUFFICES ASSUME e \notin Dedicated, db'[DbOf[e]] = ops[r].db
               PROVE  db[DbOf[e]] = ops[r].db
    OBVIOUS
  <2>1. ops[r].db # 0 /\ MadeDb(ops[r].db)
    BY <1>2, <1>3 DEF Finished, IInv, ArnsAreMade
  <2>2. ~ (ops[r].db = n /\ ops[n].at = "create database")
    BY <2>1 DEF MadeDb, ToDatabase
  <2>3. QED
    BY <1>5, <2>1, <2>2 DEF Puts
<1>10. secret[e] # r => secret'[e] # r
  BY <1>2, <1>3 DEF Puts
<1>11. r \notin rows => r \notin rows'
  BY <1>3 DEF Puts
<1>12. QED
  BY <1>1, <1>3, <1>4, <1>6, <1>7, <1>8, <1>9, <1>10, <1>11 DEF GoneAt, r, e

LEMMA TeardownsTakeStays ==
  ASSUME IInv, NEW n, NEW o, Step(n, o)
  PROVE  TeardownsTake'
<1>1. /\ Moves(n, o) /\ Puts(n, o) /\ Teardowns' = Teardowns /\ n \in DOMAIN ops /\ ops'[n] = o
      /\ \A m \in DOMAIN ops \ {n} : ops'[m] = ops[m]
      /\ Teardowns \subseteq DOMAIN ops
  BY Others DEF Step, Teardowns
<1>2. ASSUME NEW t \in Teardowns, ops'[t].clean, NEW at, at = ops'[t].at
      PROVE  GoneAt(t, at)'
  <2>1. CASE t = n
    BY <1>1, <1>2, <2>1 DEF Step
  <2>2. CASE t # n
    <3>1. ops'[t] = ops[t]
      BY <1>1, <2>2
    <3>2. GoneAt(t, at)
      BY <1>2, <3>1 DEF IInv, TeardownsTake, Gone
    <3>3. QED
      BY <1>1, <3>2, GoneStays
  <2>3. QED
    BY <2>1, <2>2
<1>3. QED
  BY <1>1, <1>2 DEF TeardownsTake, Gone

LEMMA TypesStay ==
  ASSUME IInv, NEW n, NEW o, Step(n, o)
  PROVE  TypeOK'
<1>1. ops' \in Seq(Call) /\ Len(ops') = Len(ops) /\ DOMAIN ops' = DOMAIN ops /\ n \in DOMAIN ops
  BY Others DEF Step
<1>2. rows' \subseteq DOMAIN ops' /\ rules' \subseteq DOMAIN ops'
  BY <1>1 DEF Step, Puts, IInv, TypeOK
<1>3. QED
  BY <1>1, <1>2 DEF Step, Puts, IInv, TypeOK

LEMMA StepKeeps ==
  ASSUME IInv, NEW n, NEW o, Step(n, o)
  PROVE  IInv'
<1>1. Moves(n, o)
  BY DEF Step
<1>2. TypeOK' /\ CallsHold' /\ RowsFinished' /\ TeardownsFollow' /\ QuietMeansEnded'
  BY <1>1, TypesStay, CallsHoldStays, RowsFinishedStays, TeardownsFollowStays, QuietStays
<1>3. ArnsAreMade' /\ RulesForward' /\ TeardownsTake'
  BY ArnsStay, RulesForwardStays, TeardownsTakeStays
<1>4. RulesStay' /\ ServicesStay' /\ DatabasesStay' /\ SecretsStay' /\ DedicatedBringTheirs'
  BY RulesStayStays, ServicesStayStays, DatabasesStayStays, SecretsStayStays
<1>5. QED
  BY <1>2, <1>3, <1>4 DEF IInv

-----------------------------------------------------------------------------
(* The actions of a provision are such steps.                                *)

(* Which calls are at which steps. *)
LEMMA AtProvision ==
  ASSUME IInv, NEW n, NEW step, At(n, step),
         step \in ToRule \cup ToSecret \cup ToRow
  PROVE  /\ n \in Provisions /\ n \notin Teardowns /\ n \in DOMAIN ops /\ ops[n] \in Call
         /\ ops[n].at = step /\ step \notin Ended /\ ProvisionHolds(n, ops[n])
         /\ ops[n].env \in Env /\ n \in Nat \ {0} /\ n \in Number /\ n \notin rows
         /\ ops[n].kind = "provision"
         /\ (step \in ToRule => n \notin rules)
<1>1. n \in DOMAIN ops /\ ops[n].at = step
  BY DEF At
<1>2. step \notin Ended /\ step \notin TeardownSteps
  BY DEF ToRule, ToSecret, ToRow, Ended, TeardownSteps
<1>3. n \notin Teardowns
  BY <1>1, <1>2, Kinds DEF TeardownHolds
<1>4. n \notin rows
  BY <1>1, <1>2 DEF IInv, RowsFinished, Finished
<1>5. n \in Number
  BY <1>1, Kinds, BoundAssumption DEF Op, Number
<1>6. step \in ToRule => n \notin rules
  BY <1>1 DEF IInv, RulesForward
<1>7. QED
  BY <1>1, <1>2, <1>3, <1>4, <1>5, <1>6, Kinds DEF Provisions

LEMMA AtTeardown ==
  ASSUME IInv, NEW n, NEW step, At(n, step), step \in TeardownSteps \ Ended
  PROVE  /\ n \in Teardowns /\ n \notin Provisions /\ n \in DOMAIN ops /\ ops[n] \in Call
         /\ ops[n].at = step /\ TeardownHolds(n, ops[n])
         /\ ops[n].env \in Env /\ n \in Nat \ {0} /\ n \notin rows \cup rules
         /\ ops[n].kind = "teardown"
<1>1. n \in DOMAIN ops /\ ops[n].at = step
  BY DEF At
<1>2. step \notin ProvisionSteps
  BY DEF ToRule, ToSecret, ToRow, Ended, TeardownSteps, ProvisionSteps
<1>3. n \notin Provisions
  BY <1>1, <1>2, Kinds DEF ProvisionHolds
<1>4. n \notin rows \cup rules
  BY <1>3 DEF IInv, RowsFinished, Finished, RulesForward
<1>5. QED
  BY <1>1, <1>3, <1>4, Kinds DEF Teardowns

(* The count of faults. *)
LEMMA FaultsType ==
  ASSUME IInv, Fine \/ Fault
  PROVE  faults' \in 0..FaultBudget
BY BoundAssumption DEF IInv, TypeOK, Fine, Fault

(* A provision that fails, or goes on in what it remembers only. *)
LEMMA PlainProvision ==
  ASSUME IInv, NEW n \in Provisions, NEW o, Moves(n, o), UNCHANGED <<rows, aws>>, Fine \/ Fault,
         o.at \in ToSecret \cup ToRow => ops[n].at \in ToSecret \cup ToRow,
         o.at # "row", o.at # "done",
         o.env \notin Dedicated /\ o.at \in ToRow \cup {"secret"} =>
           ops[n].at \in ToRow \cup {"secret"} \/ db[DbOf[o.env]] = o.db,
         o.at \in ToRow => ops[n].at \in ToRow
  PROVE  IInv'
<1>1. n \notin Teardowns /\ n \in DOMAIN ops /\ n \notin rows
  BY Kinds DEF Provisions, Moves, IInv, RowsFinished, Finished
<1>2. UNCHANGED <<rows, tg, rules, db, secret, service>>
  BY DEF aws
<1>3. Puts(n, o)
  BY <1>2 DEF Puts, IInv, TypeOK
<1>4. Takes(n, o)
  BY <1>2 DEF Takes
<1>5. Makes(n, o)
  BY <1>1, <1>2 DEF Makes
<1>6. Step(n, o)
  BY <1>1, <1>3, <1>4, <1>5, FaultsType DEF Step
<1>7. QED
  BY <1>6, StepKeeps

LEMMA GiveUpMoves ==
  ASSUME IInv, NEW n, NEW step \in ToRule \cup ToSecret \cup ToRow, At(n, step), GiveUp(n)
  PROVE  \E o : /\ Moves(n, o) /\ o.at = "failed" /\ o.env = ops[n].env
                /\ o.tg = ops[n].tg /\ o.db = ops[n].db /\ o.reads = ops[n].reads
<1>1. /\ n \in DOMAIN ops /\ ops[n] \in Call /\ ops[n].kind = "provision"
      /\ ops[n].at = step /\ step \notin Ended /\ ProvisionHolds(n, ops[n])
  BY AtProvision
<1> DEFINE o == [ops[n] EXCEPT !.at = "failed"]
<1>2. /\ o \in Call /\ o.at = "failed" /\ o.kind = ops[n].kind /\ o.env = ops[n].env
      /\ o.row = ops[n].row /\ o.tg = ops[n].tg /\ o.db = ops[n].db
      /\ o.reads = ops[n].reads /\ o.clean = ops[n].clean /\ o.quiet = ops[n].quiet
  BY <1>1 DEF Call, Steps, Ended
<1>3. ops' = [ops EXCEPT ![n] = o]
  BY DEF GiveUp, Goto
<1> HIDE DEF o
<1>4. ProvisionHolds(n, o)
  BY <1>1, <1>2 DEF ProvisionHolds, ProvisionSteps, Ended, ToSecret, ToRow
<1>5. "failed" \notin ToRule /\ "failed" \notin ToDatabase /\ "failed" \in Ended
  BY DEF Ended, ToRule, ToDatabase
<1>6. Moves(n, o)
  BY <1>1, <1>2, <1>3, <1>4, <1>5 DEF Moves
<1>7. QED
  BY <1>2, <1>6

LEMMA GiveUpKeeps ==
  ASSUME IInv, NEW n, NEW step \in ToRule \cup ToSecret \cup ToRow, At(n, step), GiveUp(n),
         UNCHANGED <<rows, aws>>, Fine \/ Fault
  PROVE  IInv'
<1>1. PICK o : Moves(n, o) /\ o.at = "failed"
  BY GiveUpMoves
<1>2. n \in Provisions
  BY AtProvision
<1>3. "failed" \notin ToSecret \cup ToRow \cup {"row", "done", "secret"}
  BY DEF ToSecret, ToRow
<1>4. QED
  BY <1>1, <1>2, <1>3, PlainProvision

LEMMA CreateTargetGroupKeeps ==
  ASSUME IInv, NEW n, CreateTargetGroup(n)
  PROVE  IInv'
<1> DEFINE x == TgOf[ops[n].env]
           arn == TargetGroupArn(n)
           o == [ops[n] EXCEPT !.at = "priority", !.tg = arn]
<1>1. At(n, "target group") /\ "target group" \in ToRule \cup ToSecret \cup ToRow
  BY DEF CreateTargetGroup, ToRule
<1>2. /\ n \in Provisions /\ n \notin Teardowns /\ n \in DOMAIN ops /\ ops[n] \in Call
      /\ ops[n].at = "target group" /\ ProvisionHolds(n, ops[n]) /\ ops[n].env \in Env
      /\ n \in Nat \ {0} /\ n \in Number /\ n \notin rows /\ n \notin rules
      /\ ops[n].kind = "provision"
  BY <1>1, AtProvision DEF ToRule
<1>3. UNCHANGED <<rows, rules, db, secret, service>>
  BY DEF CreateTargetGroup
<1>4. CASE /\ Fine /\ tg' = [tg EXCEPT ![x] = arn]
           /\ ops' = [ops EXCEPT ![n].at = "priority", ![n].tg = arn]
  <2>1. tg \in [TgName -> Number] /\ x \in TgName
    BY <1>2 DEF IInv, TypeOK, TgName
  <2>2. /\ arn \in Number /\ arn # 0 /\ arn \in {n, tg[x]} /\ (tg[x] # 0 => arn = tg[x])
    BY <1>2, <2>1 DEF TargetGroupArn
  <2>3. ops' = [ops EXCEPT ![n] = o]
    BY <1>4
  <2> HIDE DEF arn
  <2>4. /\ o \in Call /\ o.at = "priority" /\ o.kind = ops[n].kind /\ o.env = ops[n].env
        /\ o.row = ops[n].row /\ o.tg = arn /\ o.db = ops[n].db
        /\ o.reads = ops[n].reads /\ o.clean = ops[n].clean /\ o.quiet = ops[n].quiet
    BY <1>2, <2>2 DEF Call, Steps
  <2> HIDE DEF o
  <2>5. ProvisionHolds(n, o)
    BY <1>2, <2>2, <2>4 DEF ProvisionHolds, ProvisionSteps, Ended, ToSecret, ToRow, ToRule
  <2>6. ops[n].at \in ToRule /\ ops[n].at \notin Ended
    BY <1>2 DEF ToRule, Ended
  <2>7. Moves(n, o)
    BY <1>2, <2>1, <2>2, <2>3, <2>4, <2>5, <2>6 DEF Moves, ToDatabase
  <2>8. \A y \in TgName : tg'[y] = IF y = x THEN arn ELSE tg[y]
    BY <1>4, <2>1
  <2>9. Puts(n, o)
    <3>1. \A y \in TgName : tg'[y] \in {tg[y], 0} \/ (tg'[y] = n /\ ops[n].at = "target group")
      BY <1>2, <2>2, <2>8
    <3>2. tg' \in [TgName -> Number]
      BY <1>4, <2>1, <2>2
    <3>3. QED
      BY <1>3, <3>1, <3>2 DEF Puts, IInv, TypeOK
  <2>10. Takes(n, o)
    <3>1. \A r \in rules : tg'[TgOf[ops[r].env]] = tg[TgOf[ops[r].env]]
      <4>1. TAKE r \in rules
      <4>2. ops[r].env \in Env /\ tg[TgOf[ops[r].env]] # 0
        BY Kinds DEF IInv, TypeOK, RulesForward
      <4>3. TgOf[ops[r].env] \in TgName
        BY <4>2 DEF TgName
      <4>4. QED
        BY <2>2, <2>8, <4>2, <4>3
    <3>2. QED
      BY <1>3, <3>1 DEF Takes
  <2>11. Makes(n, o)
    BY <1>2, <1>3, <2>4 DEF Makes, ToSecret, ToRow
  <2>12. Step(n, o)
    BY <1>2, <1>4, <2>7, <2>9, <2>10, <2>11, FaultsType DEF Step
  <2>13. QED
    BY <2>12, StepKeeps
<1>5. CASE Fault /\ GiveUp(n) /\ UNCHANGED tg
  BY <1>1, <1>3, <1>5, GiveUpKeeps DEF aws
<1>6. QED
  BY <1>4, <1>5 DEF CreateTargetGroup

LEMMA FindPriorityKeeps ==
  ASSUME IInv, NEW n, FindPriority(n)
  PROVE  IInv'
<1>1. At(n, "priority") /\ "priority" \in ToRule \cup ToSecret \cup ToRow
  BY DEF FindPriority, ToRule
<1>2. /\ n \in Provisions /\ n \in DOMAIN ops /\ ops[n] \in Call
      /\ ops[n].at = "priority" /\ ProvisionHolds(n, ops[n])
      /\ ops[n].kind = "provision"
  BY <1>1, AtProvision DEF ToRule
<1>3. UNCHANGED <<rows, aws>>
  BY DEF FindPriority
<1>4. ASSUME Fine, NEW p \in FreePriority, ops' = [ops EXCEPT ![n].at = "rule", ![n].pri = p]
      PROVE  IInv'
  <2> DEFINE o == [ops[n] EXCEPT !.at = "rule", !.pri = p]
  <2>1. ops' = [ops EXCEPT ![n] = o]
    BY <1>4
  <2>2. p \in Priority
    BY DEF FreePriority
  <2>3. /\ o \in Call /\ o.at = "rule" /\ o.kind = ops[n].kind /\ o.env = ops[n].env
        /\ o.row = ops[n].row /\ o.tg = ops[n].tg /\ o.db = ops[n].db
        /\ o.reads = ops[n].reads /\ o.clean = ops[n].clean /\ o.quiet = ops[n].quiet
    BY <1>2, <2>2 DEF Call, Steps
  <2> HIDE DEF o
  <2>4. ProvisionHolds(n, o)
    BY <1>2, <2>3 DEF ProvisionHolds, ProvisionSteps, Ended, ToSecret, ToRow, ToRule
  <2>5. ops[n].at \in ToRule /\ ops[n].at \notin Ended
    BY <1>2 DEF ToRule, Ended
  <2>6. Moves(n, o)
    BY <1>2, <2>1, <2>3, <2>4, <2>5 DEF Moves, ToDatabase
  <2>7. o.at \notin ToSecret \cup ToRow /\ o.at # "row" /\ o.at # "done" /\ o.at # "secret"
    BY <2>3 DEF ToSecret, ToRow
  <2>8. QED
    BY <1>2, <1>3, <1>4, <2>6, <2>7, PlainProvision
<1>5. CASE GiveUp(n) /\ (Fine \/ Fault)
  BY <1>1, <1>3, <1>5, GiveUpKeeps
<1>6. QED
  BY <1>4, <1>5 DEF FindPriority

LEMMA CreateRuleKeeps ==
  ASSUME IInv, NEW n, CreateRule(n)
  PROVE  IInv'
<1> DEFINE e == ops[n].env
           ok == ops[n].pri \in FreePriority /\ tg[TgOf[e]] = ops[n].tg
           next == IF e \in Dedicated THEN "task definition" ELSE "database"
<1>1. At(n, "rule") /\ "rule" \in ToRule \cup ToSecret \cup ToRow
  BY DEF CreateRule, ToRule
<1>2. /\ n \in Provisions /\ n \notin Teardowns /\ n \in DOMAIN ops /\ ops[n] \in Call
      /\ ops[n].at = "rule" /\ ProvisionHolds(n, ops[n]) /\ ops[n].env \in Env
      /\ n \in Nat \ {0} /\ n \in Number /\ n \notin rows /\ n \notin rules
      /\ ops[n].kind = "provision"
  BY <1>1, AtProvision DEF ToRule
<1>3. UNCHANGED <<rows, tg, db, secret, service>>
  BY DEF CreateRule
<1>4. ops[n].at \in ToRule /\ ops[n].at \notin Ended /\ ops[n].tg # 0
  BY <1>2 DEF ToRule, Ended, ProvisionHolds, ProvisionSteps
<1>5. CASE Fine /\ ok /\ rules' = rules \cup {n} /\ Goto(n, next)
  <2> DEFINE o == [ops[n] EXCEPT !.at = next]
  <2>1. ops' = [ops EXCEPT ![n] = o]
    BY <1>5 DEF Goto
  <2>2. next \in {"task definition", "database"}
    OBVIOUS
  <2>3. next = "database" => e \notin Dedicated
    OBVIOUS
  <2>4. next = "task definition" => e \in Dedicated
    OBVIOUS
  <2> HIDE DEF next
  <2>5. /\ o \in Call /\ o.at = next /\ o.kind = ops[n].kind /\ o.env = ops[n].env
        /\ o.row = ops[n].row /\ o.tg = ops[n].tg /\ o.db = ops[n].db
        /\ o.reads = ops[n].reads /\ o.clean = ops[n].clean /\ o.quiet = ops[n].quiet
    BY <1>2, <2>2 DEF Call, Steps
  <2> HIDE DEF o
  <2>6. ProvisionHolds(n, o)
    BY <1>2, <1>4, <2>2, <2>3, <2>4, <2>5
       DEF ProvisionHolds, ProvisionSteps, Ended, ToSecret, ToRow, ToRule
  <2>7. o.at \notin ToRule /\ o.at # "target group" /\ o.at \notin Ended
    BY <2>2, <2>5 DEF ToRule, Ended
  <2>8. Moves(n, o)
    BY <1>2, <1>4, <2>1, <2>5, <2>6, <2>7 DEF Moves, ToDatabase
  <2>9. Puts(n, o)
    BY <1>3, <1>5 DEF Puts, IInv, TypeOK
  <2>10. Takes(n, o)
    BY <1>3, <1>5 DEF Takes
  <2>11. Makes(n, o)
    <3>1. n \notin rows' /\ n \in rules' /\ tg'[TgOf[o.env]] = o.tg /\ o.tg # 0
      BY <1>2, <1>3, <1>4, <1>5, <2>5
    <3>2. o.at # "row" /\ o.at # "secret" /\ o.at # "done"
      BY <2>2, <2>5
    <3>3. o.env \notin Dedicated => o.at \notin ToRow
      BY <2>2, <2>4, <2>5 DEF ToRow
    <3>4. QED
      BY <2>7, <3>1, <3>2, <3>3 DEF Makes
  <2>12. Step(n, o)
    BY <1>2, <1>5, <2>8, <2>9, <2>10, <2>11, FaultsType DEF Step
  <2>13. QED
    BY <2>12, StepKeeps
<1>6. CASE Goto(n, "undo") /\ UNCHANGED rules /\ (Fine \/ Fault)
  <2> DEFINE o == [ops[n] EXCEPT !.at = "undo"]
  <2>1. ops' = [ops EXCEPT ![n] = o]
    BY <1>6 DEF Goto
  <2>2. /\ o \in Call /\ o.at = "undo" /\ o.kind = ops[n].kind /\ o.env = ops[n].env
        /\ o.row = ops[n].row /\ o.tg = ops[n].tg /\ o.db = ops[n].db
        /\ o.reads = ops[n].reads /\ o.clean = ops[n].clean /\ o.quiet = ops[n].quiet
    BY <1>2 DEF Call, Steps
  <2> HIDE DEF o
  <2>3. ProvisionHolds(n, o)
    BY <1>2, <1>4, <2>2 DEF ProvisionHolds, ProvisionSteps, Ended, ToSecret, ToRow, ToRule
  <2>4. Moves(n, o)
    BY <1>2, <1>4, <2>1, <2>2, <2>3 DEF Moves, ToDatabase
  <2>5. o.at \notin ToSecret \cup ToRow /\ o.at # "row" /\ o.at # "done" /\ o.at # "secret"
    BY <2>2 DEF ToSecret, ToRow
  <2>6. UNCHANGED <<rows, aws>>
    BY <1>3, <1>6 DEF aws
  <2>7. QED
    BY <1>2, <1>6, <2>4, <2>5, <2>6, PlainProvision
<1>7. QED
  BY <1>5, <1>6 DEF CreateRule

(* Deleting a target group that is not in use. *)
LEMMA Without ==
  ASSUME IInv, NEW n
  PROVE  /\ WithoutTg(n) \in [TgName -> Number]
         /\ \A x \in TgName : WithoutTg(n)[x] \in {tg[x], 0}
         /\ \A r \in rules : WithoutTg(n)[TgOf[ops[r].env]] = tg[TgOf[ops[r].env]]
         /\ ~Forwarded(ops[n].tg) => \A x \in TgName : tg[x] = ops[n].tg => WithoutTg(n)[x] = 0
<1>1. tg \in [TgName -> Number] /\ 0 \in Number
  BY BoundAssumption DEF IInv, TypeOK, Number
<1>2. CASE Forwarded(ops[n].tg)
  BY <1>1, <1>2 DEF WithoutTg
<1>3. CASE ~Forwarded(ops[n].tg)
  <2>1. WithoutTg(n) = [x \in TgName |-> IF tg[x] = ops[n].tg THEN 0 ELSE tg[x]]
    BY <1>3 DEF WithoutTg
  <2>2. ASSUME NEW r \in rules
        PROVE  WithoutTg(n)[TgOf[ops[r].env]] = tg[TgOf[ops[r].env]]
    <3>1. tg[TgOf[ops[r].env]] = ops[r].tg /\ ops[r].env \in Env
      BY Kinds DEF IInv, TypeOK, RulesForward
    <3>2. ops[r].tg # ops[n].tg /\ TgOf[ops[r].env] \in TgName
      BY <1>3, <3>1 DEF Forwarded, TgName
    <3>3. QED
      BY <2>1, <3>1, <3>2
  <2>3. QED
    BY <1>1, <2>1, <2>2
<1>4. QED
  BY <1>2, <1>3

LEMMA UndoTargetGroupKeeps ==
  ASSUME IInv, NEW n, UndoTargetGroup(n)
  PROVE  IInv'
<1>1. At(n, "undo") /\ "undo" \in ToRule \cup ToSecret \cup ToRow /\ GiveUp(n)
  BY DEF UndoTargetGroup, ToRule
<1>2. n \in Provisions /\ n \notin Teardowns /\ n \notin rows /\ n \notin rules
  BY <1>1, AtProvision DEF ToRule
<1>3. UNCHANGED <<rows, rules, db, secret, service>>
  BY DEF UndoTargetGroup
<1>4. CASE Fine /\ tg' = WithoutTg(n)
  <2>1. PICK o : Moves(n, o) /\ o.at = "failed"
    BY <1>1, GiveUpMoves
  <2>2. Puts(n, o)
    BY <1>3, <1>4, Without DEF Puts, IInv, TypeOK
  <2>3. Takes(n, o)
    BY <1>3, <1>4, Without DEF Takes
  <2>4. Makes(n, o)
    BY <1>2, <1>3, <2>1 DEF Makes, ToSecret, ToRow
  <2>5. Step(n, o)
    BY <1>2, <1>4, <2>1, <2>2, <2>3, <2>4, FaultsType DEF Step
  <2>6. QED
    BY <2>5, StepKeeps
<1>5. CASE Fault /\ UNCHANGED tg
  BY <1>1, <1>3, <1>5, GiveUpKeeps DEF aws
<1>6. QED
  BY <1>4, <1>5 DEF UndoTargetGroup

LEMMA FindDatabaseKeeps ==
  ASSUME IInv, NEW n, FindDatabase(n)
  PROVE  IInv'
<1> DEFINE d == db[DbOf[ops[n].env]]
           next == IF d = 0 THEN "create database" ELSE "secret"
           o == [ops[n] EXCEPT !.at = next, !.db = d]
<1>1. At(n, "database") /\ "database" \in ToRule \cup ToSecret \cup ToRow
  BY DEF FindDatabase, ToSecret
<1>2. /\ n \in Provisions /\ n \in DOMAIN ops /\ ops[n] \in Call
      /\ ops[n].at = "database" /\ ProvisionHolds(n, ops[n]) /\ ops[n].env \in Env
      /\ ops[n].kind = "provision"
  BY <1>1, AtProvision
<1>3. UNCHANGED <<rows, aws>>
  BY DEF FindDatabase
<1>4. CASE Fine /\ ops' = [ops EXCEPT ![n].at = next, ![n].db = d]
  <2>1. ops' = [ops EXCEPT ![n] = o]
    BY <1>4
  <2>2. DbOf[ops[n].env] \in DbName /\ d \in Number
    BY <1>2 DEF IInv, TypeOK, DbName
  <2>3. next \in {"create database", "secret"} /\ (next = "secret" => d # 0)
    OBVIOUS
  <2>4. d \in {db[x] : x \in DbName}
    BY <2>2
  <2> HIDE DEF next, d
  <2>5. /\ o \in Call /\ o.at = next /\ o.kind = ops[n].kind /\ o.env = ops[n].env
        /\ o.row = ops[n].row /\ o.tg = ops[n].tg /\ o.db = d
        /\ o.reads = ops[n].reads /\ o.clean = ops[n].clean /\ o.quiet = ops[n].quiet
    BY <1>2, <2>2, <2>3 DEF Call, Steps
  <2> HIDE DEF o
  <2>6. ops[n].tg # 0 /\ ops[n].env \notin Dedicated
    BY <1>2 DEF ProvisionHolds, ProvisionSteps, ToSecret
  <2>7. ProvisionHolds(n, o)
    BY <1>2, <2>3, <2>5, <2>6 DEF ProvisionHolds, ProvisionSteps, Ended, ToSecret, ToRow, ToRule
  <2>8. /\ ops[n].at \in ToDatabase /\ ops[n].at \notin ToRule /\ ops[n].at \notin Ended
        /\ ops[n].at \in ToSecret \cup ToRow
    BY <1>2 DEF ToDatabase, ToRule, ToSecret, Ended
  <2>9. o.at \notin ToRule /\ o.at # "target group" /\ o.at # "row" /\ o.at # "done"
        /\ o.at \notin ToRow
    BY <2>3, <2>5 DEF ToRule, ToRow
  <2>10. Moves(n, o)
    BY <1>2, <2>1, <2>4, <2>5, <2>7, <2>8, <2>9 DEF Moves
  <2>11. db[DbOf[o.env]] = o.db
    BY <2>5 DEF d
  <2>12. QED
    BY <1>2, <1>3, <1>4, <2>8, <2>9, <2>10, <2>11, PlainProvision
<1>5. CASE Fault /\ GiveUp(n)
  BY <1>1, <1>3, <1>5, GiveUpKeeps
<1>6. QED
  BY <1>4, <1>5 DEF FindDatabase

LEMMA CreateDatabaseKeeps ==
  ASSUME IInv, NEW n, CreateDatabase(n)
  PROVE  IInv'
<1> DEFINE x == DbOf[ops[n].env]
           o == [ops[n] EXCEPT !.at = "secret", !.db = n]
<1>1. At(n, "create database") /\ "create database" \in ToRule \cup ToSecret \cup ToRow
  BY DEF CreateDatabase, ToSecret
<1>2. /\ n \in Provisions /\ n \notin Teardowns /\ n \in DOMAIN ops /\ ops[n] \in Call
      /\ ops[n].at = "create database" /\ ProvisionHolds(n, ops[n]) /\ ops[n].env \in Env
      /\ n \in Nat \ {0} /\ n \in Number /\ n \notin rows /\ ops[n].kind = "provision"
  BY <1>1, AtProvision
<1>3. UNCHANGED <<rows, tg, rules, secret, service>>
  BY DEF CreateDatabase
<1>4. CASE /\ Fine /\ db[x] = 0 /\ db' = [db EXCEPT ![x] = n]
           /\ ops' = [ops EXCEPT ![n].at = "secret", ![n].db = n]
  <2>1. ops' = [ops EXCEPT ![n] = o]
    BY <1>4
  <2>2. db \in [DbName -> Number] /\ x \in DbName
    BY <1>2 DEF IInv, TypeOK, DbName
  <2>3. /\ o \in Call /\ o.at = "secret" /\ o.kind = ops[n].kind /\ o.env = ops[n].env
        /\ o.row = ops[n].row /\ o.tg = ops[n].tg /\ o.db = n
        /\ o.reads = ops[n].reads /\ o.clean = ops[n].clean /\ o.quiet = ops[n].quiet
    BY <1>2 DEF Call, Steps
  <2> HIDE DEF o
  <2>4. ops[n].tg # 0 /\ ops[n].env \notin Dedicated
    BY <1>2 DEF ProvisionHolds, ProvisionSteps, ToSecret
  <2>5. ProvisionHolds(n, o)
    BY <1>2, <2>3, <2>4 DEF ProvisionHolds, ProvisionSteps, Ended, ToSecret, ToRow, ToRule
  <2>6. ops[n].at \in ToDatabase /\ ops[n].at \notin ToRule /\ ops[n].at \notin Ended
    BY <1>2 DEF ToDatabase, ToRule, Ended
  <2>7. o.at \notin ToDatabase
    BY <2>3 DEF ToDatabase, ToRule
  <2>8. Moves(n, o)
    BY <1>2, <2>1, <2>3, <2>5, <2>6, <2>7 DEF Moves, ToDatabase, ToRule
  <2>9. \A y \in DbName : db'[y] = IF y = x THEN n ELSE db[y]
    BY <1>4, <2>2
  <2>10. Puts(n, o)
    <3>1. db' \in [DbName -> Number]
      BY <1>2, <1>4, <2>2
    <3>2. \A y \in DbName : db'[y] \in {db[y], 0} \/
            (db'[y] = n /\ ops[n].at = "create database" /\ o.at \notin ToDatabase /\ o.db = n)
      BY <1>2, <2>3, <2>7, <2>9
    <3>3. QED
      BY <1>3, <3>1, <3>2 DEF Puts, IInv, TypeOK
  <2>11. Takes(n, o)
    BY <1>3, <1>4, <2>9 DEF Takes
  <2>12. Makes(n, o)
    <3>1. db'[DbOf[o.env]] = o.db
      BY <2>2, <2>3, <2>9
    <3>2. ops[n].at \in ToSecret /\ o.at \notin ToRow /\ o.at # "row" /\ o.at # "done"
      BY <1>2, <2>3 DEF ToSecret, ToRow
    <3>3. QED
      BY <1>2, <1>3, <3>1, <3>2 DEF Makes
  <2>13. Step(n, o)
    BY <1>2, <1>4, <2>8, <2>10, <2>11, <2>12, FaultsType DEF Step
  <2>14. QED
    BY <2>13, StepKeeps
<1>5. CASE GiveUp(n) /\ UNCHANGED db /\ (Fine \/ Fault)
  BY <1>1, <1>3, <1>5, GiveUpKeeps DEF aws
<1>6. QED
  BY <1>4, <1>5 DEF CreateDatabase

LEMMA CloneSecretKeeps ==
  ASSUME IInv, NEW n, CloneSecret(n)
  PROVE  IInv'
<1> DEFINE e == ops[n].env
           o == [ops[n] EXCEPT !.at = "task definition"]
<1>1. At(n, "secret") /\ "secret" \in ToRule \cup ToSecret \cup ToRow
  BY DEF CloneSecret, ToSecret
<1>2. /\ n \in Provisions /\ n \notin Teardowns /\ n \in DOMAIN ops /\ ops[n] \in Call
      /\ ops[n].at = "secret" /\ ProvisionHolds(n, ops[n]) /\ ops[n].env \in Env
      /\ n \in Nat \ {0} /\ n \in Number /\ n \notin rows /\ ops[n].kind = "provision"
  BY <1>1, AtProvision
<1>3. UNCHANGED <<rows, tg, rules, db, service>>
  BY DEF CloneSecret
<1>4. CASE Fine /\ secret[e] = 0 /\ secret' = [secret EXCEPT ![e] = n] /\ Goto(n, "task definition")
  <2>1. ops' = [ops EXCEPT ![n] = o]
    BY <1>4 DEF Goto
  <2>2. secret \in [Env -> Number]
    BY DEF IInv, TypeOK
  <2>3. /\ o \in Call /\ o.at = "task definition" /\ o.kind = ops[n].kind /\ o.env = ops[n].env
        /\ o.row = ops[n].row /\ o.tg = ops[n].tg /\ o.db = ops[n].db
        /\ o.reads = ops[n].reads /\ o.clean = ops[n].clean /\ o.quiet = ops[n].quiet
    BY <1>2 DEF Call, Steps
  <2> HIDE DEF o
  <2>4. ops[n].tg # 0 /\ ops[n].env \notin Dedicated /\ ops[n].db # 0
    BY <1>2 DEF ProvisionHolds, ProvisionSteps, ToSecret
  <2>5. ProvisionHolds(n, o)
    BY <1>2, <2>3, <2>4 DEF ProvisionHolds, ProvisionSteps, Ended, ToSecret, ToRow, ToRule
  <2>6. ops[n].at \notin ToDatabase /\ ops[n].at \notin ToRule /\ ops[n].at \notin Ended
    BY <1>2 DEF ToDatabase, ToRule, Ended
  <2>7. o.at \notin ToDatabase /\ o.at \notin ToRule
    BY <2>3 DEF ToDatabase, ToRule
  <2>8. Moves(n, o)
    BY <1>2, <2>1, <2>3, <2>5, <2>6, <2>7 DEF Moves
  <2>9. \A y \in Env : secret'[y] = IF y = e THEN n ELSE secret[y]
    BY <1>4, <2>2
  <2>10. Puts(n, o)
    <3>1. secret' \in [Env -> Number]
      BY <1>2, <1>4, <2>2
    <3>2. QED
      BY <1>3, <2>9, <3>1 DEF Puts, IInv, TypeOK
  <2>11. Takes(n, o)
    BY <1>3, <1>4, <2>4, <2>9, NameAssumption DEF Takes
  <2>12. Makes(n, o)
    <3>1. secret'[o.env] = n
      BY <1>2, <2>3, <2>9
    <3>2. ops[n].at \in ToSecret /\ ops[n].at = "secret" /\ o.at # "row"
      BY <1>2, <2>3 DEF ToSecret
    <3>3. QED
      BY <1>2, <1>3, <3>1, <3>2 DEF Makes
  <2>13. Step(n, o)
    BY <1>2, <1>4, <2>8, <2>10, <2>11, <2>12, FaultsType DEF Step
  <2>14. QED
    BY <2>13, StepKeeps
<1>5. CASE GiveUp(n) /\ UNCHANGED secret /\ (Fine \/ Fault)
  BY <1>1, <1>3, <1>5, GiveUpKeeps DEF aws
<1>6. QED
  BY <1>4, <1>5 DEF CloneSecret

LEMMA RepointedReadsOwn ==
  ASSUME NEW n \in Number \ {0}
  PROVE  /\ Repointed(n) \in SUBSET (Number \cup BaseReads)
         /\ Repointed(n) \cap 0..MaxOps = {n}
BY BaseAssumption, BoundAssumption DEF Repointed, Number

LEMMA CloneTaskDefKeeps ==
  ASSUME IInv, NEW n, CloneTaskDef(n)
  PROVE  IInv'
<1> DEFINE o == [ops[n] EXCEPT !.at = "service", !.reads = Repointed(n)]
<1>1. At(n, "task definition") /\ "task definition" \in ToRule \cup ToSecret \cup ToRow
  BY DEF CloneTaskDef, ToRow
<1>2. /\ n \in Provisions /\ n \in DOMAIN ops /\ ops[n] \in Call
      /\ ops[n].at = "task definition" /\ ProvisionHolds(n, ops[n]) /\ n \in Number \ {0}
      /\ ops[n].kind = "provision"
  BY <1>1, AtProvision
<1>3. UNCHANGED <<rows, aws>>
  BY DEF CloneTaskDef
<1>4. CASE Fine /\ ops' = [ops EXCEPT ![n].at = "service", ![n].reads = Repointed(n)]
  <2>1. ops' = [ops EXCEPT ![n] = o]
    BY <1>4
  <2>2. /\ Repointed(n) \in SUBSET (Number \cup BaseReads)
        /\ Repointed(n) \cap 0..MaxOps = {n}
    BY <1>2, RepointedReadsOwn
  <2>3. /\ o \in Call /\ o.at = "service" /\ o.kind = ops[n].kind /\ o.env = ops[n].env
        /\ o.row = ops[n].row /\ o.tg = ops[n].tg /\ o.db = ops[n].db
        /\ o.reads = Repointed(n) /\ o.clean = ops[n].clean /\ o.quiet = ops[n].quiet
    BY <1>2, <2>2 DEF Call, Steps
  <2> HIDE DEF o
  <2>4. ops[n].at \in ToRow /\ ops[n].at \notin ToDatabase /\ ops[n].at \notin ToRule
        /\ ops[n].at \notin Ended
    BY <1>2 DEF ToDatabase, ToRule, ToRow, Ended
  <2>5. o.at \notin ToDatabase /\ o.at \notin ToRule /\ o.at # "row" /\ o.at # "done"
        /\ o.at # "secret"
    BY <2>3 DEF ToDatabase, ToRule
  <2>6. ProvisionHolds(n, o)
    BY <1>2, <2>2, <2>3 DEF ProvisionHolds, ProvisionSteps, Ended, ToSecret, ToRow, ToRule
  <2>7. Moves(n, o)
    BY <1>2, <2>1, <2>3, <2>4, <2>5, <2>6 DEF Moves, ToRule
  <2>8. QED
    BY <1>2, <1>3, <1>4, <2>4, <2>5, <2>7, PlainProvision
<1>5. CASE Fault /\ GiveUp(n)
  BY <1>1, <1>3, <1>5, GiveUpKeeps
<1>6. QED
  BY <1>4, <1>5 DEF CloneTaskDef

LEMMA CreateServiceKeeps ==
  ASSUME IInv, NEW n, CreateService(n)
  PROVE  IInv'
<1> DEFINE e == ops[n].env
           o == [ops[n] EXCEPT !.at = "row"]
<1>1. At(n, "service") /\ "service" \in ToRule \cup ToSecret \cup ToRow
  BY DEF CreateService, ToRow
<1>2. /\ n \in Provisions /\ n \notin Teardowns /\ n \in DOMAIN ops /\ ops[n] \in Call
      /\ ops[n].at = "service" /\ ProvisionHolds(n, ops[n]) /\ ops[n].env \in Env
      /\ n \in Nat \ {0} /\ n \in Number /\ n \notin rows /\ ops[n].kind = "provision"
  BY <1>1, AtProvision
<1>3. UNCHANGED <<rows, tg, rules, db, secret>>
  BY DEF CreateService
<1>4. CASE /\ Fine /\ service[e] = 0 /\ service' = [service EXCEPT ![e] = n] /\ Goto(n, "row")
  <2>1. ops' = [ops EXCEPT ![n] = o]
    BY <1>4 DEF Goto
  <2>2. service \in [Env -> Number]
    BY DEF IInv, TypeOK
  <2>3. /\ o \in Call /\ o.at = "row" /\ o.kind = ops[n].kind /\ o.env = ops[n].env
        /\ o.row = ops[n].row /\ o.tg = ops[n].tg /\ o.db = ops[n].db
        /\ o.reads = ops[n].reads /\ o.clean = ops[n].clean /\ o.quiet = ops[n].quiet
    BY <1>2 DEF Call, Steps
  <2> HIDE DEF o
  <2>4. ProvisionHolds(n, o)
    BY <1>2, <2>3 DEF ProvisionHolds, ProvisionSteps, Ended, ToSecret, ToRow, ToRule
  <2>5. ops[n].at \in ToRow /\ ops[n].at \notin ToDatabase /\ ops[n].at \notin ToRule
        /\ ops[n].at \notin Ended
    BY <1>2 DEF ToDatabase, ToRule, ToRow, Ended
  <2>6. o.at \notin ToDatabase /\ o.at \notin ToRule
    BY <2>3 DEF ToDatabase, ToRule
  <2>7. Moves(n, o)
    BY <1>2, <2>1, <2>3, <2>4, <2>5, <2>6 DEF Moves, ToRule
  <2>8. \A y \in Env : service'[y] = IF y = e THEN n ELSE service[y]
    BY <1>4, <2>2
  <2>9. Puts(n, o)
    <3>1. service' \in [Env -> Number]
      BY <1>2, <1>4, <2>2
    <3>2. QED
      BY <1>3, <2>8, <3>1 DEF Puts, IInv, TypeOK
  <2>10. Takes(n, o)
    BY <1>3, <1>4, <2>8, NameAssumption DEF Takes
  <2>11. Makes(n, o)
    <3>1. service'[o.env] = n
      BY <1>2, <2>3, <2>8
    <3>2. QED
      BY <1>2, <1>3, <2>5, <3>1 DEF Makes
  <2>12. Step(n, o)
    BY <1>2, <1>4, <2>7, <2>9, <2>10, <2>11, FaultsType DEF Step
  <2>13. QED
    BY <2>12, StepKeeps
<1>5. CASE GiveUp(n) /\ UNCHANGED service /\ (Fine \/ Fault)
  BY <1>1, <1>3, <1>5, GiveUpKeeps DEF aws
<1>6. QED
  BY <1>4, <1>5 DEF CreateService, ServiceStep, ServiceAccepted

LEMMA InsertRowKeeps ==
  ASSUME IInv, NEW n, InsertRow(n)
  PROVE  IInv'
<1>1. At(n, "row") /\ "row" \in ToRule \cup ToSecret \cup ToRow
  BY DEF InsertRow, ToRow
<1>2. /\ n \in Provisions /\ n \notin Teardowns /\ n \in DOMAIN ops /\ ops[n] \in Call
      /\ ops[n].at = "row" /\ ProvisionHolds(n, ops[n]) /\ ops[n].env \in Env
      /\ n \in Nat \ {0} /\ n \in Number /\ n \notin rows /\ ops[n].kind = "provision"
  BY <1>1, AtProvision
<1>3. UNCHANGED aws /\ UNCHANGED <<tg, rules, db, secret, service>>
  BY DEF InsertRow, aws
<1>4. ASSUME NEW end \in Ended, Goto(n, end), rows' = rows \cup {n}, Fine \/ Fault
      PROVE  IInv'
  <2> DEFINE o == [ops[n] EXCEPT !.at = end]
  <2>1. ops' = [ops EXCEPT ![n] = o]
    BY <1>4 DEF Goto
  <2>2. end \in Steps
    BY DEF Steps
  <2>3. /\ o \in Call /\ o.at = end /\ o.kind = ops[n].kind /\ o.env = ops[n].env
        /\ o.row = ops[n].row /\ o.tg = ops[n].tg /\ o.db = ops[n].db
        /\ o.reads = ops[n].reads /\ o.clean = ops[n].clean /\ o.quiet = ops[n].quiet
    BY <1>2, <2>2 DEF Call
  <2> HIDE DEF o
  <2>4. /\ ops[n].tg # 0 /\ ops[n].reads \cap 0..MaxOps = {n}
        /\ ops[n].env \notin Dedicated => ops[n].db # 0
    BY <1>2 DEF ProvisionHolds, ProvisionSteps, ToRow
  <2>5. ProvisionHolds(n, o)
    <3>1. o.at = "done" \/ o.at = "failed"
      BY <2>3 DEF Ended
    <3>2. QED
      BY <1>2, <2>3, <2>4, <3>1 DEF ProvisionHolds, ProvisionSteps, Ended, ToSecret, ToRow, ToRule
  <2>6. ops[n].at \in ToRow /\ ops[n].at \notin ToDatabase /\ ops[n].at \notin ToRule
        /\ ops[n].at \notin Ended
    BY <1>2 DEF ToDatabase, ToRule, ToRow, Ended
  <2>7. o.at \notin ToDatabase /\ o.at \notin ToRule /\ o.at # "target group"
    BY <2>3 DEF ToDatabase, ToRule, Ended
  <2>8. Moves(n, o)
    BY <1>2, <2>1, <2>3, <2>5, <2>6, <2>7 DEF Moves
  <2>9. Puts(n, o)
    BY <1>3, <1>4 DEF Puts, IInv, TypeOK
  <2>10. Takes(n, o)
    BY <1>3 DEF Takes
  <2>11. Makes(n, o)
    BY <1>2, <1>3, <2>3, <2>4, <2>6 DEF Makes
  <2>12. Step(n, o)
    BY <1>2, <1>4, <2>8, <2>9, <2>10, <2>11, FaultsType DEF Step
  <2>13. QED
    BY <2>12, StepKeeps
<1>5. CASE Fine /\ rows' = rows \cup {n} /\ Goto(n, "done")
  BY <1>4, <1>5 DEF Ended
<1>6. CASE Fault /\ rows' = rows \cup {n} /\ GiveUp(n)
  BY <1>4, <1>6 DEF Ended, GiveUp
<1>7. CASE Fault /\ GiveUp(n) /\ UNCHANGED rows
  BY <1>1, <1>3, <1>7, GiveUpKeeps
<1>8. QED
  BY <1>5, <1>6, <1>7 DEF InsertRow

-----------------------------------------------------------------------------
(* The actions of a teardown are such steps.                                 *)

LEMMA TeardownKeeps ==
  ASSUME IInv, NEW n \in Teardowns, NEW o, Moves(n, o), Puts(n, o), Takes(n, o),
         rows' \subseteq rows, rules' \subseteq rules,
         \A e \in Env : secret'[e] \in {secret[e], 0}, Fine \/ Fault,
         \A at : o.clean /\ at = o.at => GoneAt(n, at)'
  PROVE  IInv'
<1>1. n \in DOMAIN ops
  BY DEF Moves
<1>2. n \notin Provisions
  BY <1>1, Kinds
<1>3. n \notin rows \cup rules
  BY <1>2 DEF IInv, RowsFinished, Finished, RulesForward
<1>4. Step(n, o)
  BY <1>2, <1>3, FaultsType DEF Step
<1>5. QED
  BY <1>4, StepKeeps

LEMMA BestEffortMoves ==
  ASSUME IInv, NEW n, NEW step \in TeardownSteps \ (Ended \cup {"delete row"}), At(n, step),
         Goto(n, Following(step, ops[n].env)) \/ Skip(n, Following(step, ops[n].env))
  PROVE  \E o : /\ Moves(n, o) /\ o.at = Following(step, ops[n].env)
                /\ (Skip(n, Following(step, ops[n].env)) => ~o.clean)
                /\ o.env = ops[n].env /\ o.row = ops[n].row
                /\ n \in Teardowns /\ ops[n].at = step /\ ops[n].env \in Env
<1> DEFINE next == Following(step, ops[n].env)
<1>1. /\ n \in Teardowns /\ n \in DOMAIN ops /\ ops[n] \in Call /\ ops[n].kind = "teardown"
      /\ ops[n].at = step /\ TeardownHolds(n, ops[n]) /\ ops[n].env \in Env
  BY AtTeardown
<1>2. step \in {"delete service", "delete rule", "delete target group", "drop database",
                "delete secret"}
  BY DEF TeardownSteps, Ended
<1>3. /\ next \in {"delete rule", "delete target group", "drop database", "delete secret",
                   "delete row"}
      /\ next \in {"drop database", "delete secret"} => ops[n].env \notin Dedicated
  BY <1>1, <1>2 DEF Following, TeardownHolds
<1>4. Goto(n, next) \/ Skip(n, next)
  OBVIOUS
<1> HIDE DEF next
<1>5. ASSUME NEW o, o \in {[ops[n] EXCEPT !.at = next], [ops[n] EXCEPT !.at = next, !.clean = FALSE]}
      PROVE  /\ o \in Call /\ o.at = next /\ o.kind = ops[n].kind /\ o.env = ops[n].env
             /\ o.row = ops[n].row /\ o.tg = ops[n].tg /\ o.db = ops[n].db
             /\ (o.clean => ops[n].clean) /\ o.quiet = ops[n].quiet
  <2>1. next \in Steps
    BY <1>3 DEF Steps
  <2>2. CASE o = [ops[n] EXCEPT !.at = next]
    BY <1>1, <2>1, <2>2 DEF Call
  <2>3. CASE o = [ops[n] EXCEPT !.at = next, !.clean = FALSE]
    BY <1>1, <2>1, <2>3 DEF Call
  <2>4. QED
    BY <1>5, <2>2, <2>3
<1>6. PICK o \in {[ops[n] EXCEPT !.at = next], [ops[n] EXCEPT !.at = next, !.clean = FALSE]} :
        ops' = [ops EXCEPT ![n] = o] /\ (Skip(n, next) => ~o.clean)
  <2>1. CASE Skip(n, next)
    <3>1. ops' = [ops EXCEPT ![n] = [ops[n] EXCEPT !.at = next, !.clean = FALSE]]
      BY <2>1 DEF Skip
    <3>2. ~ [ops[n] EXCEPT !.at = next, !.clean = FALSE].clean
      BY <1>1 DEF Call
    <3>3. QED
      BY <3>1, <3>2
  <2>2. CASE Goto(n, next) /\ ~Skip(n, next)
    <3>1. ops' = [ops EXCEPT ![n] = [ops[n] EXCEPT !.at = next]]
      BY <2>2 DEF Goto
    <3>2. QED
      BY <2>2, <3>1
  <2>3. QED
    BY <1>4, <2>1, <2>2
<1>7. /\ o \in Call /\ o.at = next /\ o.kind = ops[n].kind /\ o.env = ops[n].env
      /\ o.row = ops[n].row /\ o.tg = ops[n].tg /\ o.db = ops[n].db
      /\ (o.clean => ops[n].clean) /\ o.quiet = ops[n].quiet
  BY <1>5
<1>8. TeardownHolds(n, o)
  BY <1>1, <1>3, <1>7 DEF TeardownHolds, TeardownSteps
<1>9. ops[n].at \notin Ended \cup ToDatabase \cup {"delete row", "target group"}
  BY <1>1, <1>2 DEF Ended, ToDatabase, ToRule
<1>10. o.at \notin ToDatabase \cup ToRule \cup {"target group"}
  BY <1>3, <1>7 DEF ToDatabase, ToRule
<1>11. Moves(n, o)
  BY <1>1, <1>6, <1>7, <1>8, <1>9, <1>10 DEF Moves
<1>12. QED
  BY <1>1, <1>6, <1>7, <1>11 DEF next

(* What a clean teardown has taken away already stays away.                   *)
LEMMA CleanGone ==
  ASSUME IInv, NEW n \in Teardowns, NEW o, Moves(n, o), Puts(n, o), o.clean,
         NEW step, step = ops[n].at
  PROVE  /\ GoneAt(n, step) /\ GoneAt(n, step)'
         /\ ops'[n].row = ops[n].row /\ ops'[n].env = ops[n].env
         /\ Finished(ops[n].row) /\ ops[n].row # 0 /\ ops[ops[n].row].env = ops[n].env
         /\ ops'[ops[n].row] = ops[ops[n].row]
<1>1. ops[n].clean /\ n \in DOMAIN ops
  BY DEF Moves
<1>2. GoneAt(n, step)
  BY <1>1 DEF IInv, TeardownsTake, Gone
<1>3. GoneAt(n, step)'
  BY <1>2, GoneStays
<1> DEFINE r == ops[n].row
<1>4. Finished(r) /\ ops[r].env = ops[n].env
  BY DEF IInv, TeardownsFollow
<1>5. r # 0
  BY <1>4, Kinds DEF Finished, Provisions
<1>6. ops'[r] = ops[r]
  <2> HIDE DEF r
  <2>1. QED
    BY <1>4, FinishedStays
<1>7. ops'[n].row = ops[n].row /\ ops'[n].env = ops[n].env
  BY <1>1, Others
<1>8. QED
  BY <1>2, <1>3, <1>4, <1>5, <1>6, <1>7

(* A request of a teardown that fails changes nothing but the call. *)
LEMMA SkipKeeps ==
  ASSUME IInv, NEW n, NEW step \in TeardownSteps \ (Ended \cup {"delete row"}), At(n, step),
         Skip(n, Following(step, ops[n].env)), Fault,
         UNCHANGED <<rows, tg, rules, db, secret, service>>
  PROVE  IInv'
<1>1. PICK o : Moves(n, o) /\ ~o.clean /\ n \in Teardowns
  BY BestEffortMoves
<1>2. Puts(n, o)
  BY DEF Puts, IInv, TypeOK
<1>3. Takes(n, o)
  BY DEF Takes
<1>4. QED
  BY <1>1, <1>2, <1>3, TeardownKeeps

LEMMA DeleteServiceKeeps ==
  ASSUME IInv, NEW n, DeleteService(n)
  PROVE  IInv'
<1> DEFINE step == "delete service"
           e == ops[n].env
           r == ops[n].row
           next == Following(step, e)
<1>1. At(n, step) /\ step \in TeardownSteps \ (Ended \cup {"delete row"})
  BY DEF DeleteService, BestEffort, TeardownSteps, Ended
<1>2. UNCHANGED <<rows, tg, rules, db, secret>>
  BY DEF DeleteService, BestEffort
<1>3. CASE Fine /\ service' = [service EXCEPT ![e] = 0] /\ Goto(n, next)
  <2>1. PICK o : /\ Moves(n, o) /\ o.at = next /\ o.env = e /\ o.row = r
                 /\ n \in Teardowns /\ ops[n].at = step /\ e \in Env
    BY <1>1, <1>3, BestEffortMoves
  <2>2. service \in [Env -> Number] /\ 0 \in Number
    BY BoundAssumption DEF IInv, TypeOK, Number
  <2>3. \A y \in Env : service'[y] = IF y = e THEN 0 ELSE service[y]
    BY <1>3, <2>2
  <2>4. Puts(n, o)
    <3>1. service' \in [Env -> Number]
      BY <1>3, <2>2
    <3>2. QED
      BY <1>2, <2>3, <3>1 DEF Puts, IInv, TypeOK
  <2>5. Takes(n, o)
    BY <1>2, <2>1, <2>3, NameAssumption DEF Takes
  <2>6. ASSUME o.clean, NEW at, at = o.at PROVE GoneAt(n, at)'
    <3>1. o.at = "delete rule"
      BY <2>1 DEF Following
    <3>2. ops'[n].row = r /\ ops'[n].env = e /\ r # 0
      BY <2>1, <2>4, <2>6, CleanGone
    <3>3. service'[e] # r
      BY <2>1, <2>3, <3>2
    <3>4. QED
      BY <3>1, <3>2, <3>3, <2>6 DEF GoneAt, Ended
  <2>7. QED
    BY <1>2, <1>3, <2>1, <2>4, <2>5, <2>6, TeardownKeeps
<1>4. CASE Fault /\ UNCHANGED service /\ Skip(n, next)
  BY <1>1, <1>2, <1>4, SkipKeeps
<1>5. QED
  BY <1>3, <1>4 DEF DeleteService, BestEffort

LEMMA DeleteRuleKeeps ==
  ASSUME IInv, NEW n, DeleteRule(n)
  PROVE  IInv'
<1> DEFINE step == "delete rule"
           e == ops[n].env
           r == ops[n].row
           next == Following(step, e)
<1>1. At(n, step) /\ step \in TeardownSteps \ (Ended \cup {"delete row"})
  BY DEF DeleteRule, BestEffort, TeardownSteps, Ended
<1>2. UNCHANGED <<rows, tg, db, secret, service>>
  BY DEF DeleteRule, BestEffort
<1>3. CASE Fine /\ rules' = rules \ {r} /\ Goto(n, next)
  <2>1. PICK o : /\ Moves(n, o) /\ o.at = next /\ o.env = e /\ o.row = r
                 /\ n \in Teardowns /\ ops[n].at = step /\ e \in Env
    BY <1>1, <1>3, BestEffortMoves
  <2>2. Puts(n, o)
    BY <1>2, <1>3 DEF Puts, IInv, TypeOK
  <2>3. Takes(n, o)
    BY <1>2, <1>3, <2>1 DEF Takes
  <2>4. ASSUME o.clean, NEW at, at = o.at PROVE GoneAt(n, at)'
    <3>1. o.at = "delete target group"
      BY <2>1 DEF Following
    <3>2. ops'[n].row = r /\ ops'[n].env = e /\ GoneAt(n, step)
      BY <2>1, <2>2, <2>4, CleanGone
    <3>3. service'[e] # r /\ r \notin rules'
      BY <1>2, <1>3, <3>2 DEF GoneAt
    <3>4. QED
      BY <3>1, <3>2, <3>3, <2>4 DEF GoneAt, Ended
  <2>5. QED
    BY <1>2, <1>3, <2>1, <2>2, <2>3, <2>4, TeardownKeeps
<1>4. CASE Fault /\ UNCHANGED rules /\ Skip(n, next)
  BY <1>1, <1>2, <1>4, SkipKeeps
<1>5. QED
  BY <1>3, <1>4 DEF DeleteRule, BestEffort

LEMMA DeleteTargetGroupKeeps ==
  ASSUME IInv, NEW n, DeleteTargetGroup(n)
  PROVE  IInv'
<1> DEFINE step == "delete target group"
           e == ops[n].env
           r == ops[n].row
           next == Following(step, e)
<1>1. At(n, step) /\ step \in TeardownSteps \ (Ended \cup {"delete row"})
  BY DEF DeleteTargetGroup, BestEffort, TeardownSteps, Ended
<1>2. UNCHANGED <<rows, rules, db, secret, service>>
  BY DEF DeleteTargetGroup, BestEffort
<1>3. CASE Fine /\ tg' = WithoutTg(r) /\ Goto(n, next)
  <2>1. PICK o : /\ Moves(n, o) /\ o.at = next /\ o.env = e /\ o.row = r
                 /\ n \in Teardowns /\ ops[n].at = step /\ e \in Env
    BY <1>1, <1>3, BestEffortMoves
  <2>2. Puts(n, o)
    BY <1>2, <1>3, Without DEF Puts, IInv, TypeOK
  <2>3. Takes(n, o)
    BY <1>2, <1>3, Without DEF Takes
  <2>4. ASSUME o.clean, NEW at, at = o.at PROVE GoneAt(n, at)'
    <3>1. o.at \in {"drop database", "delete row"} /\ (o.at = "delete row" => e \in Dedicated)
      BY <2>1 DEF Following
    <3>2. /\ ops'[n].row = r /\ ops'[n].env = e /\ GoneAt(n, step)
          /\ Finished(r) /\ r # 0 /\ ops'[r] = ops[r] /\ ops[r].env = e
      BY <2>1, <2>2, <2>4, CleanGone
    <3>3. service'[e] # r /\ r \notin rules /\ r \notin rules'
      BY <1>2, <3>2 DEF GoneAt
    <3>4. Provisions' = Provisions /\ \A q \in Provisions : ops'[q] = ops[q]
      <4>1. n \notin Provisions
        BY <2>1, Kinds DEF Moves
      <4>2. Provisions' = Provisions /\ \A m \in DOMAIN ops \ {n} : ops'[m] = ops[m]
        BY <2>1, Others
      <4>3. QED
        BY <4>1, <4>2 DEF Provisions
    <3>5. ASSUME tg'[TgOf[e]] = ops[r].tg
          PROVE  \E q \in Provisions \ {r} : ops[q].tg = ops[r].tg
      <4>1. ops[r].tg # 0 /\ TgOf[e] \in TgName
        BY <2>1, <3>2 DEF Finished, TgName
      <4>2. tg[TgOf[e]] = ops[r].tg /\ Forwarded(ops[r].tg)
        BY <1>3, <3>5, <4>1, Without
      <4>3. PICK q \in rules : ops[q].tg = ops[r].tg
        BY <4>2 DEF Forwarded
      <4>4. q \in Provisions \ {r}
        BY <3>3 DEF IInv, RulesForward
      <4>5. QED
        BY <4>3, <4>4
    <3>6. tg'[TgOf[e]] = ops'[r].tg => \E q \in Provisions' \ {r} : ops'[q].tg = ops'[r].tg
      BY <3>2, <3>4, <3>5
    <3>7. o.at = "delete row" => secret'[e] # r /\ e \in Dedicated
      BY <1>2, <3>1, <3>2 DEF IInv, DedicatedBringTheirs
    <3>8. CASE at = "drop database"
      BY <3>2, <3>3, <3>6, <3>8 DEF GoneAt, Ended
    <3>9. CASE at = "delete row" /\ e \in Dedicated
      BY <3>1, <3>2, <3>3, <3>6, <3>7, <3>9, <2>4 DEF GoneAt, Ended
    <3>10. QED
      BY <3>1, <3>8, <3>9, <2>4
  <2>5. QED
    BY <1>2, <1>3, <2>1, <2>2, <2>3, <2>4, TeardownKeeps
<1>4. CASE Fault /\ UNCHANGED tg /\ Skip(n, next)
  BY <1>1, <1>2, <1>4, SkipKeeps
<1>5. QED
  BY <1>3, <1>4 DEF DeleteTargetGroup, BestEffort

LEMMA DropDatabaseKeeps ==
  ASSUME IInv, NEW n, DropDatabase(n)
  PROVE  IInv'
<1> DEFINE step == "drop database"
           e == ops[n].env
           r == ops[n].row
           next == Following(step, e)
<1>1. At(n, step) /\ step \in TeardownSteps \ (Ended \cup {"delete row"})
  BY DEF DropDatabase, BestEffort, TeardownSteps, Ended
<1>2. UNCHANGED <<rows, tg, rules, secret, service>>
  BY DEF DropDatabase, BestEffort
<1>3. CASE Fine /\ db' = Dropped(n) /\ Goto(n, next)
  <2>1. PICK o : /\ Moves(n, o) /\ o.at = next /\ o.env = e /\ o.row = r
                 /\ n \in Teardowns /\ ops[n].at = step /\ e \in Env
    BY <1>1, <1>3, BestEffortMoves
  <2>2. db \in [DbName -> Number] /\ 0 \in Number
    BY BoundAssumption DEF IInv, TypeOK, Number
  <2>3. \A y \in DbName : db'[y] = IF y = DbOf[e] THEN 0 ELSE db[y]
    BY <1>3, <2>2 DEF Dropped
  <2>4. Puts(n, o)
    <3>1. db' \in [DbName -> Number]
      BY <1>3, <2>2 DEF Dropped
    <3>2. QED
      BY <1>2, <2>3, <3>1 DEF Puts, IInv, TypeOK
  <2>5. Takes(n, o)
    BY <1>2, <2>1, <2>3, NameAssumption DEF Takes
  <2>6. ASSUME o.clean, NEW at, at = o.at PROVE GoneAt(n, at)'
    <3>1. o.at = "delete secret" /\ DbOf[e] \in DbName /\ e \notin Dedicated
      BY <1>1, <2>1, AtTeardown DEF Following, DbName, TeardownHolds
    <3>2. /\ ops'[n].row = r /\ ops'[n].env = e /\ GoneAt(n, step)'
          /\ Finished(r) /\ r # 0 /\ ops'[r] = ops[r] /\ ops[r].env = e
      BY <2>1, <2>4, <2>6, CleanGone
    <3>3. db'[DbOf[e]] # ops'[r].db
      BY <2>3, <3>1, <3>2 DEF Finished
    <3>4. QED
      BY <3>1, <3>2, <3>3, <2>6 DEF GoneAt, Ended
  <2>7. QED
    BY <1>2, <1>3, <2>1, <2>4, <2>5, <2>6, TeardownKeeps
<1>4. CASE Fault /\ UNCHANGED db /\ Skip(n, next)
  BY <1>1, <1>2, <1>4, SkipKeeps
<1>5. QED
  BY <1>3, <1>4 DEF DropDatabase, BestEffort

LEMMA DeleteSecretKeeps ==
  ASSUME IInv, NEW n, DeleteSecret(n)
  PROVE  IInv'
<1> DEFINE step == "delete secret"
           e == ops[n].env
           r == ops[n].row
           next == Following(step, e)
<1>1. At(n, step) /\ step \in TeardownSteps \ (Ended \cup {"delete row"})
  BY DEF DeleteSecret, BestEffort, TeardownSteps, Ended
<1>2. UNCHANGED <<rows, tg, rules, db, service>>
  BY DEF DeleteSecret, BestEffort
<1>3. CASE /\ Fine /\ secret' = [secret EXCEPT ![e] = IF @ = r THEN 0 ELSE @]
           /\ Goto(n, next)
  <2>1. PICK o : /\ Moves(n, o) /\ o.at = next /\ o.env = e /\ o.row = r
                 /\ n \in Teardowns /\ ops[n].at = step /\ e \in Env
    BY <1>1, <1>3, BestEffortMoves
  <2>2. secret \in [Env -> Number] /\ 0 \in Number
    BY BoundAssumption DEF IInv, TypeOK, Number
  <2>3. \A y \in Env : secret'[y] = IF y = e /\ secret[y] = r THEN 0 ELSE secret[y]
    BY <1>3, <2>2
  <2>4. o.at = "delete row"
    BY <2>1 DEF Following
  <2>5. Puts(n, o)
    <3>1. secret' \in [Env -> Number]
      BY <1>3, <2>1, <2>2
    <3>2. QED
      BY <1>2, <2>3, <3>1 DEF Puts, IInv, TypeOK
  <2>6. Takes(n, o)
    BY <1>2, <2>1, <2>3, <2>4, NameAssumption DEF Takes
  <2>7. ASSUME o.clean, NEW at, at = o.at PROVE GoneAt(n, at)'
    <3>1. /\ ops'[n].row = r /\ ops'[n].env = e /\ GoneAt(n, step)'
          /\ r # 0 /\ ops'[r] = ops[r] /\ ops[r].env = e
      BY <2>1, <2>5, <2>7, CleanGone
    <3>2. secret'[e] # r
      BY <2>1, <2>3, <3>1
    <3>3. QED
      BY <2>4, <3>1, <3>2, <2>7 DEF GoneAt, Ended
  <2>8. QED
    BY <1>2, <1>3, <2>1, <2>3, <2>5, <2>6, <2>7, TeardownKeeps
<1>4. CASE Fault /\ UNCHANGED secret /\ Skip(n, next)
  BY <1>1, <1>2, <1>4, SkipKeeps
<1>5. QED
  BY <1>3, <1>4 DEF DeleteSecret, BestEffort

LEMMA DeleteRowKeeps ==
  ASSUME IInv, NEW n, DeleteRow(n)
  PROVE  IInv'
<1> DEFINE step == "delete row"
           r == ops[n].row
<1>1. At(n, step) /\ step \in TeardownSteps \ Ended
  BY DEF DeleteRow, TeardownSteps, Ended
<1>2. /\ n \in Teardowns /\ n \in DOMAIN ops /\ ops[n] \in Call /\ ops[n].kind = "teardown"
      /\ ops[n].at = step /\ TeardownHolds(n, ops[n]) /\ ops[n].env \in Env
  BY <1>1, AtTeardown
<1>3. UNCHANGED aws /\ UNCHANGED <<tg, rules, db, secret, service>>
  BY DEF DeleteRow, aws
<1>4. ASSUME NEW end \in Ended, Goto(n, end), Fine \/ Fault,
             rows' \subseteq rows, end = "done" => r \notin rows'
      PROVE  IInv'
  <2> DEFINE o == [ops[n] EXCEPT !.at = end]
  <2>1. ops' = [ops EXCEPT ![n] = o]
    BY <1>4 DEF Goto
  <2>2. end \in Steps
    BY DEF Steps
  <2>3. /\ o \in Call /\ o.at = end /\ o.kind = ops[n].kind /\ o.env = ops[n].env
        /\ o.row = ops[n].row /\ o.tg = ops[n].tg /\ o.db = ops[n].db
        /\ o.clean = ops[n].clean /\ o.quiet = ops[n].quiet
    BY <1>2, <2>2 DEF Call
  <2> HIDE DEF o
  <2>4. /\ o.at \in Ended /\ o.at \notin ToDatabase \cup ToRule \cup {"target group"}
        /\ ops[n].at \notin Ended \cup ToDatabase \cup ToRule \cup {"target group"}
    BY <1>2, <2>3 DEF Ended, ToDatabase, ToRule
  <2>5. TeardownHolds(n, o)
    BY <1>2, <2>3, <2>4 DEF TeardownHolds, TeardownSteps, Ended
  <2>6. Moves(n, o)
    BY <1>2, <2>1, <2>3, <2>4, <2>5 DEF Moves
  <2>7. Puts(n, o)
    BY <1>3, <1>4 DEF Puts, IInv, TypeOK
  <2>8. Takes(n, o)
    BY <1>3 DEF Takes
  <2>9. ASSUME o.clean, NEW at, at = o.at PROVE GoneAt(n, at)'
    <3>1. ops'[n].row = r /\ ops'[n].env = ops[n].env /\ GoneAt(n, step)'
      BY <1>2, <2>6, <2>7, <2>9, CleanGone
    <3>2. o.at = "done" => r \notin rows'
      BY <1>4, <2>3
    <3>3. CASE o.at = "done"
      BY <3>1, <3>2, <3>3, <2>9 DEF GoneAt
    <3>4. CASE o.at = "failed"
      BY <3>1, <3>4, <2>9 DEF GoneAt, Ended
    <3>5. QED
      BY <2>4, <3>3, <3>4 DEF Ended
  <2>10. rows' \subseteq rows /\ rules' \subseteq rules /\ \A e \in Env : secret'[e] \in {secret[e], 0}
    BY <1>3, <1>4
  <2>11. QED
    BY <1>2, <1>4, <2>6, <2>7, <2>8, <2>9, <2>10, TeardownKeeps
<1>5. CASE Fine /\ rows' = rows \ {r} /\ Goto(n, "done")
  BY <1>4, <1>5 DEF Ended
<1>6. CASE Fault /\ GiveUp(n) /\ UNCHANGED rows
  BY <1>4, <1>6 DEF Ended, GiveUp
<1>7. QED
  BY <1>5, <1>6 DEF DeleteRow

LEMMA CutKeeps ==
  ASSUME IInv, NEW n, Cut(n)
  PROVE  IInv'
<1> DEFINE o == [ops[n] EXCEPT !.at = "failed", !.clean = FALSE]
<1>1. /\ n \in DOMAIN ops /\ ops[n].at \notin Ended /\ Fault /\ UNCHANGED <<rows, aws>>
      /\ ops' = [ops EXCEPT ![n] = o]
  BY DEF Cut, Live
<1>2. ops[n] \in Call
  BY <1>1, Kinds
<1>3. /\ o \in Call /\ o.at = "failed" /\ o.kind = ops[n].kind /\ o.env = ops[n].env
      /\ o.row = ops[n].row /\ o.tg = ops[n].tg /\ o.db = ops[n].db /\ o.reads = ops[n].reads
      /\ ~o.clean /\ o.quiet = ops[n].quiet
  BY <1>2 DEF Call, Steps, Ended
<1> HIDE DEF o
<1>4. /\ o.at \notin ToDatabase \cup ToRule \cup ToRow \cup ToSecret
      /\ o.at \in Ended /\ o.at \notin {"target group", "row", "done", "secret"}
  BY <1>3 DEF ToDatabase, ToRule, ToRow, ToSecret, Ended
<1>5. CASE n \in Provisions
  <2>1. ops[n].kind = "provision" /\ ProvisionHolds(n, ops[n])
    BY <1>1, <1>5, Kinds DEF Provisions
  <2>2. ProvisionHolds(n, o)
    BY <1>3, <1>4, <2>1 DEF ProvisionHolds, ProvisionSteps, Ended, ToSecret, ToRow
  <2>3. Moves(n, o)
    BY <1>1, <1>3, <1>4, <2>1, <2>2 DEF Moves
  <2>4. QED
    BY <1>1, <1>4, <1>5, <2>3, PlainProvision
<1>6. CASE n \in Teardowns
  <2>1. ops[n].kind = "teardown" /\ TeardownHolds(n, ops[n])
    BY <1>1, <1>6, Kinds DEF Teardowns
  <2>2. TeardownHolds(n, o)
    BY <1>3, <2>1 DEF TeardownHolds, TeardownSteps, Ended
  <2>3. Moves(n, o)
    BY <1>1, <1>3, <1>4, <2>1, <2>2 DEF Moves
  <2>4. UNCHANGED <<rows, tg, rules, db, secret, service>>
    BY <1>1 DEF aws
  <2>5. Puts(n, o)
    BY <2>4 DEF Puts, IInv, TypeOK
  <2>6. Takes(n, o)
    BY <2>4 DEF Takes
  <2>7. QED
    BY <1>1, <1>3, <1>6, <2>3, <2>4, <2>5, <2>6, TeardownKeeps
<1>7. QED
  BY <1>1, <1>5, <1>6, Kinds

-----------------------------------------------------------------------------
(* A call that begins.                                                       *)

(* A provision begins with nothing, a teardown with a row. *)
Begins(kind, e, at, row) ==
  \/ kind = "provision" /\ at = "target group" /\ row = 0
  \/ /\ kind = "teardown" /\ at = "delete service"
     /\ Finished(row) /\ ops[row].env = e

LEMMA StartKeeps ==
  ASSUME IInv, NEW kind, NEW e \in Env, NEW at, NEW row \in Number, Begins(kind, e, at, row),
         Start(kind, e, at, row), UNCHANGED <<rows, aws, faults>>
  PROVE  IInv'
<1> DEFINE k == Len(ops) + 1
           quiet == \A t \in Teardowns : Live(t) => ops[t].env # e /\ DbOf[ops[t].env] # DbOf[e]
           c == [kind |-> kind, env |-> e, at |-> at, row |-> row, tg |-> 0, pri |-> 0, db |-> 0,
                 reads |-> {}, clean |-> TRUE, quiet |-> quiet]
<1>1. /\ ops \in Seq(Call) /\ Len(ops) \in Nat /\ Len(ops) < MaxOps /\ DOMAIN ops = 1..Len(ops)
      /\ ops' = Append(ops, c)
  <2>1. ops' = Append(ops, c) /\ Len(ops) < MaxOps
    BY DEF Start
  <2>2. ops \in Seq(Call)
    BY DEF IInv, TypeOK
  <2> HIDE DEF c
  <2>3. QED
    BY <2>1, <2>2
<1>2. UNCHANGED <<rows, tg, rules, db, secret, service, faults>>
  BY DEF aws
<1>3. at \in {"target group", "delete service"} /\ 0 \in Number /\ at \in Steps
  <2>1. at = "target group" \/ at = "delete service"
    BY DEF Begins
  <2>2. at \in Steps
    BY <2>1 DEF Steps
  <2>3. 0 \in Number
    BY BoundAssumption DEF Number
  <2>4. QED
    BY <2>1, <2>2, <2>3
<1>4. quiet \in BOOLEAN /\ kind \in {"provision", "teardown"}
  BY DEF Begins
<1>5. /\ c \in Call /\ c.kind = kind /\ c.env = e /\ c.at = at /\ c.row = row /\ c.tg = 0
      /\ c.db = 0 /\ c.clean = TRUE /\ c.quiet = quiet
  <2> HIDE DEF quiet
  <2>1. QED
    BY <1>3, <1>4 DEF Call
<1> HIDE DEF c, quiet
<1>6. /\ ops' \in Seq(Call) /\ Len(ops') = k /\ DOMAIN ops' = DOMAIN ops \cup {k}
      /\ ops'[k] = c /\ \A m \in DOMAIN ops : ops'[m] = ops[m]
      /\ k \notin DOMAIN ops /\ k \in Nat /\ k <= MaxOps /\ k # 0
      /\ \A m \in DOMAIN ops : m < k
  <2>1. /\ ops' \in Seq(Call) /\ Len(ops') = k /\ ops'[k] = c
        /\ \A m \in 1..Len(ops) : ops'[m] = ops[m]
    BY <1>1, <1>5
  <2>2. DOMAIN ops' = 1..Len(ops')
    BY <2>1
  <2>3. QED
    BY <1>1, <2>1, <2>2, BoundAssumption
<1> HIDE DEF k
<1>7. /\ Provisions' = IF kind = "provision" THEN Provisions \cup {k} ELSE Provisions
      /\ Teardowns' = IF kind = "teardown" THEN Teardowns \cup {k} ELSE Teardowns
      /\ Provisions \subseteq DOMAIN ops /\ Teardowns \subseteq DOMAIN ops
  BY <1>5, <1>6 DEF Provisions, Teardowns
<1>8. TypeOK'
  BY <1>2, <1>6 DEF IInv, TypeOK
<1>9. CallsHold'
  <2>1. kind = "provision" => ProvisionHolds(k, c)
    BY <1>5 DEF Begins, ProvisionHolds, ProvisionSteps, ToRule, ToSecret, ToRow, Ended
  <2>2. kind = "teardown" => TeardownHolds(k, c)
    BY <1>5 DEF Begins, TeardownHolds, TeardownSteps
  <2>3. ASSUME NEW m \in DOMAIN ops'
        PROVE  IF ops'[m].kind = "provision" THEN ProvisionHolds(m, ops'[m])
               ELSE TeardownHolds(m, ops'[m])
    <3>1. CASE m = k
      BY <1>4, <1>5, <1>6, <2>1, <2>2, <3>1
    <3>2. CASE m # k
      BY <1>6, <2>3, <3>2 DEF IInv, CallsHold
    <3>3. QED
      BY <3>1, <3>2
  <2>4. QED
    BY <2>3 DEF CallsHold
<1>10. \A r : Finished(r) => Finished(r)' /\ r \in DOMAIN ops /\ ops'[r] = ops[r]
  BY <1>6, <1>7 DEF Finished
<1>11. RowsFinished'
  BY <1>2, <1>10 DEF IInv, RowsFinished
<1>12. TeardownsFollow'
  <2>1. ASSUME NEW t \in Teardowns'
        PROVE  /\ Finished(ops[t].row)' /\ ops'[t].row < t
               /\ ops'[ops'[t].row].env = ops'[t].env
    <3>1. CASE t = k
      <4>1. Finished(row) /\ ops[row].env = e /\ ops'[t].row = row /\ ops'[t].env = e
        BY <1>5, <1>6, <1>7, <2>1, <3>1 DEF Begins
      <4>2. Finished(row)' /\ row \in DOMAIN ops /\ ops'[row] = ops[row]
        BY <1>10, <4>1
      <4>3. Finished(ops[t].row)'
        <5>1. PICK q : q = row
          OBVIOUS
        <5>2. Finished(q)' /\ ops'[t].row = q
          BY <4>1, <4>2, <5>1
        <5>3. QED
          BY <5>2 DEF Finished
      <4>4. QED
        BY <1>6, <3>1, <4>1, <4>2, <4>3
    <3>2. CASE t # k
      <4>1. PICK q : q = ops[t].row
        OBVIOUS
      <4>2. t \in Teardowns /\ t \in DOMAIN ops /\ ops'[t] = ops[t]
        BY <1>6, <1>7, <2>1, <3>2
      <4>3. Finished(q) /\ q < t /\ ops[q].env = ops[t].env
        BY <4>1, <4>2 DEF IInv, TeardownsFollow
      <4>4. Finished(q)' /\ ops'[q] = ops[q] /\ ops'[t].row = q
        BY <1>10, <4>1, <4>2, <4>3
      <4>5. QED
        BY <4>2, <4>3, <4>4 DEF Finished
    <3>3. QED
      BY <3>1, <3>2
  <2>2. QED
    BY <2>1 DEF TeardownsFollow
<1>13. QuietMeansEnded'
  <2>1. ASSUME NEW m \in Provisions', NEW t \in Teardowns',
               ops'[m].quiet, t < m, SameNames(m, t)'
        PROVE  ops'[t].at \in Ended
    <3>1. CASE m = k
      <4>1. t \in DOMAIN ops /\ t \in Teardowns /\ ops'[t] = ops[t] /\ ops'[m] = c /\ quiet
        BY <1>5, <1>6, <1>7, <2>1, <3>1
      <4>2. ops[t].env = e \/ DbOf[ops[t].env] = DbOf[e]
        BY <1>5, <2>1, <4>1 DEF SameNames
      <4>3. QED
        BY <4>1, <4>2 DEF quiet, Live
    <3>2. CASE m # k
      <4>1. m \in DOMAIN ops /\ m \in Provisions /\ ops'[m] = ops[m]
        BY <1>6, <1>7, <2>1, <3>2
      <4>2. t # k
        BY <1>1, <1>6, <2>1, <4>1
      <4>3. t \in Teardowns /\ ops'[t] = ops[t]
        BY <1>6, <1>7, <2>1, <4>2
      <4>4. QED
        BY <2>1, <4>1, <4>3 DEF SameNames, IInv, QuietMeansEnded
    <3>3. QED
      BY <3>1, <3>2
  <2>2. QED
    BY <2>1 DEF QuietMeansEnded
<1>14. ArnsAreMade'
  <2>1. \A a : (MadeTg(a) => MadeTg(a)') /\ (MadeDb(a) => MadeDb(a)')
    BY <1>6 DEF MadeTg, MadeDb
  <2>2. MadeTg(0)' /\ MadeDb(0)'
    BY DEF MadeTg, MadeDb
  <2>3. ASSUME NEW a, NEW b, MadeTg(a)', MadeDb(b)', NEW m, ops'[m].tg = a, ops'[m].db = b
        PROVE  MadeTg(ops[m].tg)' /\ MadeDb(ops[m].db)'
    BY <2>3 DEF MadeTg, MadeDb
  <2>4. ASSUME NEW m \in DOMAIN ops'
        PROVE  MadeTg(ops[m].tg)' /\ MadeDb(ops[m].db)'
    <3>1. CASE m = k
      BY <1>5, <1>6, <2>2, <2>3, <3>1
    <3>2. CASE m # k
      <4>1. PICK a, b : a = ops[m].tg /\ b = ops[m].db
        OBVIOUS
      <4>2. m \in DOMAIN ops /\ ops'[m] = ops[m]
        BY <1>6, <2>4, <3>2
      <4>3. MadeTg(a)' /\ MadeDb(b)'
        BY <2>1, <4>1, <4>2 DEF IInv, ArnsAreMade
      <4>4. QED
        BY <2>3, <4>1, <4>2, <4>3
    <3>3. QED
      BY <3>1, <3>2
  <2>5. \A x \in TgName : MadeTg(tg[x])'
    <3>1. TAKE x \in TgName
    <3>2. PICK a : a = tg[x] /\ MadeTg(a)
      BY DEF IInv, ArnsAreMade
    <3>3. MadeTg(a)' /\ tg'[x] = a
      BY <1>2, <2>1, <3>2
    <3>4. QED
      BY <3>3 DEF MadeTg
  <2>6. \A x \in DbName : MadeDb(db[x])'
    <3>1. TAKE x \in DbName
    <3>2. PICK a : a = db[x] /\ MadeDb(a)
      BY DEF IInv, ArnsAreMade
    <3>3. MadeDb(a)' /\ db'[x] = a
      BY <1>2, <2>1, <3>2
    <3>4. QED
      BY <3>3 DEF MadeDb
  <2>7. QED
    BY <2>4, <2>5, <2>6 DEF ArnsAreMade, TgName, DbName
<1>15. RulesForward'
  BY <1>2, <1>6, <1>7 DEF IInv, RulesForward
<1>16. ASSUME NEW m \in Provisions
       PROVE  /\ ops'[m] = ops[m] /\ (Disturbed(m) => Disturbed(m)')
              /\ (HasTeardown(m) => HasTeardown(m)') /\ (SecretDeleted(m) => SecretDeleted(m)')
  <2>1. m \in DOMAIN ops /\ ops'[m] = ops[m] /\ Teardowns \subseteq Teardowns'
        /\ \A t \in Teardowns : ops'[t] = ops[t]
    BY <1>6, <1>7
  <2>2. QED
    BY <2>1 DEF Disturbed, HasTeardown, SecretDeleted, SameNames
<1>17. ASSUME NEW m \in Provisions' \ Provisions
       PROVE  m \notin rows' /\ ops'[m].at = "target group"
  BY <1>2, <1>5, <1>6, <1>7 DEF IInv, TypeOK, Begins
<1>18. RulesStay' /\ ServicesStay' /\ DatabasesStay' /\ SecretsStay'
  <2>1. ASSUME NEW m \in Provisions'
        PROVE  /\ (Built(m, ToSecret \cup ToRow)' => m \in rules' \/ HasTeardown(m)')
               /\ (Built(m, {"row"})' => service'[ops'[m].env] = m \/ Disturbed(m)')
               /\ (ops'[m].env \notin Dedicated /\ Built(m, ToRow \cup {"secret"})' =>
                     db'[DbOf[ops'[m].env]] = ops'[m].db \/ Disturbed(m)')
               /\ (ops'[m].env \notin Dedicated /\ Built(m, ToRow \cup {"done"})' =>
                     secret'[ops'[m].env] = m \/ SecretDeleted(m)')
    <3>1. CASE m \in Provisions
      <4>1. ops'[m] = ops[m]
        BY <1>16, <3>1
      <4>2. \A steps : Built(m, steps)' <=> Built(m, steps)
        BY <1>2, <4>1 DEF Built
      <4>3. QED
        BY <1>2, <1>16, <3>1, <4>1, <4>2
           DEF IInv, RulesStay, ServicesStay, DatabasesStay, SecretsStay
    <3>2. CASE m \notin Provisions
      <4>1. m \notin rows' /\ ops'[m].at = "target group"
        BY <1>17, <2>1, <3>2
      <4>2. QED
        BY <4>1 DEF Built, ToSecret, ToRow
    <3>3. QED
      BY <3>1, <3>2
  <2>2. QED
    BY <2>1 DEF RulesStay, ServicesStay, DatabasesStay, SecretsStay
<1>19. DedicatedBringTheirs'
  BY <1>2 DEF IInv, DedicatedBringTheirs
<1>20. TeardownsTake'
  <2>1. ASSUME NEW t \in Teardowns', ops'[t].clean
        PROVE  Gone(t)'
    <3>1. CASE t = k
      <4>1. ops'[t].at = "delete service"
        BY <1>5, <1>6, <1>7, <2>1, <3>1 DEF Begins
      <4>2. QED
        BY <4>1 DEF Gone, GoneAt, Ended
    <3>2. CASE t # k
      <4>1. t \in Teardowns /\ t \in DOMAIN ops /\ ops'[t] = ops[t]
        BY <1>6, <1>7, <2>1, <3>2
      <4>2. GoneAt(t, ops[t].at)
        BY <2>1, <4>1 DEF IInv, TeardownsTake, Gone
      <4>3. Finished(ops[t].row)
        BY <4>1 DEF IInv, TeardownsFollow
      <4>4. ops'[ops[t].row] = ops[ops[t].row]
        BY <1>10, <4>3
      <4>5. (\E q \in Provisions \ {ops[t].row} : ops[q].tg = ops[ops[t].row].tg) =>
            (\E q \in Provisions' \ {ops[t].row} : ops'[q].tg = ops[ops[t].row].tg)
        <5>1. Provisions \subseteq Provisions' /\ \A q \in Provisions : ops'[q] = ops[q]
          BY <1>6, <1>7
        <5>2. QED
          BY <5>1
      <4>6. QED
        BY <1>2, <4>1, <4>2, <4>4, <4>5 DEF Gone, GoneAt
    <3>3. QED
      BY <3>1, <3>2
  <2>2. QED
    BY <2>1 DEF TeardownsTake
<1>21. QED
  BY <1>8, <1>9, <1>11, <1>12, <1>13, <1>14, <1>15, <1>18, <1>19, <1>20 DEF IInv

-----------------------------------------------------------------------------
(* The initial state, and every step.                                        *)

LEMMA InitHolds == Init => IInv
<1> SUFFICES ASSUME Init PROVE IInv
  OBVIOUS
<1>1. ops = <<>> /\ DOMAIN ops = {} /\ rows = {} /\ rules = {}
  BY DEF Init
<1>2. Provisions = {} /\ Teardowns = {}
  BY <1>1 DEF Provisions, Teardowns
<1>3. TypeOK
  <2>1. 0 \in Number /\ 0 \in 0..FaultBudget /\ 0 <= MaxOps
    BY BoundAssumption DEF Number
  <2>2. ops \in Seq(Call) /\ Len(ops) = 0
    BY <1>1
  <2>3. QED
    BY <1>1, <2>1, <2>2 DEF Init, TypeOK
<1>4. ArnsAreMade
  BY <1>1 DEF Init, ArnsAreMade, MadeTg, MadeDb
<1>5. DedicatedBringTheirs
  BY NameAssumption DEF Init, DedicatedBringTheirs
<1>6. QED
  BY <1>1, <1>2, <1>3, <1>4, <1>5
     DEF IInv, CallsHold, RowsFinished, TeardownsFollow, QuietMeansEnded, RulesForward, RulesStay,
         ServicesStay, DatabasesStay, SecretsStay, TeardownsTake

LEMMA BeginProvisionKeeps ==
  ASSUME IInv, NEW e \in Env, BeginProvision(e)
  PROVE  IInv'
<1>1. Begins("provision", e, "target group", 0)
  BY DEF Begins
<1>2. 0 \in Number
  BY BoundAssumption DEF Number
<1>3. QED
  BY <1>1, <1>2, StartKeeps DEF BeginProvision

LEMMA BeginTeardownKeeps ==
  ASSUME IInv, NEW e \in Env, BeginTeardown(e)
  PROVE  IInv'
<1>1. PICK r \in rows : ops[r].env = e /\ Start("teardown", e, "delete service", r)
  BY DEF BeginTeardown
<1>2. Finished(r)
  BY DEF IInv, RowsFinished
<1>3. Begins("teardown", e, "delete service", r)
  BY <1>1, <1>2 DEF Begins
<1>4. r \in Number
  BY <1>2, Kinds, BoundAssumption DEF Finished, Provisions, Op, Number
<1>5. QED
  BY <1>1, <1>3, <1>4, StartKeeps DEF BeginTeardown

LEMMA NextKeeps == IInv /\ [Next]_vars => IInv'
<1> SUFFICES ASSUME IInv, [Next]_vars PROVE IInv'
  OBVIOUS
<1>1. ASSUME NEW e \in Env, BeginProvision(e) \/ BeginTeardown(e) PROVE IInv'
  BY <1>1, BeginProvisionKeeps, BeginTeardownKeeps
<1>2. ASSUME NEW n \in Op, Provision(n) PROVE IInv'
  BY <1>2, CreateTargetGroupKeeps, FindPriorityKeeps, CreateRuleKeeps, UndoTargetGroupKeeps,
     FindDatabaseKeeps, CreateDatabaseKeeps, CloneSecretKeeps, CloneTaskDefKeeps,
     CreateServiceKeeps, InsertRowKeeps DEF Provision
<1>3. ASSUME NEW n \in Op, Teardown(n) PROVE IInv'
  BY <1>3, DeleteServiceKeeps, DeleteRuleKeeps, DeleteTargetGroupKeeps, DropDatabaseKeeps,
     DeleteSecretKeeps, DeleteRowKeeps DEF Teardown
<1>4. ASSUME NEW n \in Op, Cut(n) PROVE IInv'
  BY <1>4, CutKeeps
<1>5. CASE UNCHANGED vars
  <2>1. UNCHANGED <<ops, rows, tg, rules, db, secret, service, faults>>
    BY <1>5 DEF vars, aws
  <2>2. UNCHANGED <<Provisions, Teardowns>>
    BY <2>1 DEF Provisions, Teardowns
  <2>3. \A m : (Finished(m) <=> Finished(m)') /\ (Disturbed(m) <=> Disturbed(m)')
    BY <2>1, <2>2 DEF Finished, Disturbed, SameNames
  <2>4. TypeOK' /\ CallsHold' /\ RowsFinished' /\ RulesForward' /\ DedicatedBringTheirs'
    BY <2>1, <2>2, <2>3
       DEF IInv, TypeOK, CallsHold, RowsFinished, RulesForward, DedicatedBringTheirs
  <2>5. TeardownsFollow'
    BY <2>1, <2>2 DEF IInv, TeardownsFollow, Finished
  <2>6. QuietMeansEnded' /\ ArnsAreMade'
    BY <2>1, <2>2 DEF IInv, QuietMeansEnded, SameNames, ArnsAreMade, MadeTg, MadeDb
  <2>7. \A m, steps : Built(m, steps) <=> Built(m, steps)'
    BY <2>1 DEF Built
  <2>8. \A m : (HasTeardown(m) <=> HasTeardown(m)') /\ (SecretDeleted(m) <=> SecretDeleted(m)')
    BY <2>1, <2>2 DEF HasTeardown, SecretDeleted
  <2>9. RulesStay'
    BY <2>1, <2>2, <2>7, <2>8 DEF IInv, RulesStay
  <2>10. SecretsStay'
    <3>1. SUFFICES ASSUME NEW m \in Provisions, ops[m].env \notin Dedicated,
                          Built(m, ToRow \cup {"done"})'
                   PROVE  (secret[ops[m].env] = m \/ SecretDeleted(m))'
      BY <2>1, <2>2 DEF SecretsStay
    <3>2. Built(m, ToRow \cup {"done"})
      BY <2>7, <3>1
    <3>3. secret[ops[m].env] = m \/ SecretDeleted(m)
      BY <3>1, <3>2 DEF IInv, SecretsStay
    <3>4. QED
      BY <2>1, <2>8, <3>3
  <2>11. ServicesStay'
    BY <2>1, <2>2, <2>3, <2>7 DEF IInv, ServicesStay
  <2>12. DatabasesStay'
    BY <2>1, <2>2, <2>3, <2>7 DEF IInv, DatabasesStay
  <2>13. TeardownsTake'
    <3>1. ASSUME NEW t \in Teardowns, ops[t].clean PROVE Gone(t)'
      <4>1. Gone(t)
        BY <3>1 DEF IInv, TeardownsTake
      <4>2. QED
        BY <2>1, <2>2, <4>1 DEF Gone, GoneAt
    <3>2. QED
      BY <2>1, <2>2, <3>1 DEF TeardownsTake
  <2>14. QED
    BY <2>4, <2>5, <2>6, <2>9, <2>10, <2>11, <2>12, <2>13 DEF IInv
<1>6. QED
  BY <1>1, <1>2, <1>3, <1>4, <1>5 DEF Next

-----------------------------------------------------------------------------
(* The theorems.                                                             *)

(* The state of provision_env, teardown_env and AWS is always that of calls   *)
(* with a fixed order of steps, whatever fails or dies half way.              *)
THEOREM Invariant == Spec => []IInv
  BY InitHolds, NextKeeps, PTL DEF Spec

(* Every row, rule, secret and service is that of a call that began.          *)
THEOREM TypesCorrect == Spec => []TypeOK
<1>1. IInv => TypeOK
  BY DEF IInv
<1>2. QED
  BY <1>1, Invariant, PTL

(* An environment with a row that no teardown of its names ran into has every *)
(* part of it in place and reads its own secret, whatever other provisions    *)
(* did: in what is in place it is the number of its own call.                 *)
THEOREM EnvIsAlwaysWhole == Spec => []EnvIsWhole
<1>1. ASSUME IInv PROVE EnvIsWhole
  <2>1. SUFFICES ASSUME NEW r \in rows, ~Disturbed(r) PROVE Whole(r)
    BY DEF EnvIsWhole
  <2>2. Finished(r) /\ r \in Provisions
    BY <1>1 DEF IInv, RowsFinished, Finished
  <2>3. ~HasTeardown(r) /\ ~SecretDeleted(r)
    BY <1>1, <2>1, RowDisturbs DEF HasTeardown, SecretDeleted
  <2>4. \A steps : Built(r, steps)
    BY DEF Built
  <2>5. r \in rules /\ service[ops[r].env] = r
    BY <1>1, <2>1, <2>2, <2>3, <2>4 DEF IInv, RulesStay, ServicesStay
  <2>6. ops[r].env \notin Dedicated =>
          secret[ops[r].env] = r /\ db[DbOf[ops[r].env]] = ops[r].db
    BY <1>1, <2>1, <2>2, <2>3, <2>4 DEF IInv, DatabasesStay, SecretsStay
  <2>7. tg[TgOf[ops[r].env]] = ops[r].tg
    BY <1>1, <2>5 DEF IInv, RulesForward
  <2>8. QED
    BY <2>2, <2>5, <2>6, <2>7 DEF Whole, Finished
<1>2. QED
  BY <1>1, Invariant, PTL

(* What a teardown without a failed request has deleted no later call brings  *)
(* back.                                                                      *)
THEOREM TeardownsLeaveNothing == Spec => []TeardownLeavesNothing
<1>1. ASSUME IInv PROVE TeardownLeavesNothing
  <2>1. SUFFICES ASSUME NEW t \in Teardowns, ops[t].at = "done", ops[t].clean,
                        NEW r, r = ops[t].row, NEW e, e = ops[r].env
                 PROVE  /\ r \notin rows \cup rules /\ service[e] # r /\ secret[e] # r
                        /\ e \notin Dedicated => db[DbOf[e]] # ops[r].db
                        /\ tg[TgOf[e]] = ops[r].tg =>
                             \E q \in Provisions \ {r} : ops[q].tg = ops[r].tg
    BY DEF TeardownLeavesNothing
  <2>2. GoneAt(t, "done") /\ ops[t].env = e
    BY <1>1, <2>1 DEF IInv, TeardownsTake, Gone, TeardownsFollow
  <2>3. QED
    BY <2>1, <2>2 DEF GoneAt, Ended
<1>2. QED
  BY <1>1, Invariant, PTL

(* An environment shares an earlier call's database only if that call failed,  *)
(* its teardown failed somewhere or ran beside this one, or the two names      *)
(* collide (provision_env, teardown_env).                                     *)
THEOREM DatabasesAreFresh == Spec => []FreshDatabase
<1>1. ASSUME IInv PROVE FreshDatabase
  <2>1. SUFFICES ASSUME NEW r \in rows, ops[r].env \notin Dedicated, NEW q, q = ops[r].db, q # r,
                        ops[q].at = "done", ~Disturbed(r), ops[q].env = ops[r].env,
                        \A t \in Teardowns : ops[t].row = q => ops[t].clean
                 PROVE  FALSE
    BY DEF FreshDatabase
  <2>2. Finished(r) /\ r \in Provisions /\ r \in DOMAIN ops /\ r # 0 /\ q # 0
    BY <1>1, <2>1, Kinds DEF IInv, RowsFinished, Finished, Provisions
  <2>3. secret[ops[r].env] = r /\ db[DbOf[ops[r].env]] = q
    <3>1. ~SecretDeleted(r)
      BY <1>1, <2>1, RowDisturbs DEF SecretDeleted
    <3>2. QED
      BY <1>1, <2>1, <2>2, <3>1 DEF IInv, DatabasesStay, SecretsStay, Built
  <2>4. q \in DOMAIN ops /\ ops[q].db = q
    BY <1>1, <2>1, <2>2 DEF IInv, ArnsAreMade, MadeDb
  <2>5. q \in Provisions
    BY <1>1, <2>2, <2>4, Kinds DEF TeardownHolds
  <2>6. SecretDeleted(q)
    BY <1>1, <2>1, <2>3, <2>5 DEF IInv, SecretsStay, Built
  <2>7. PICK t \in Teardowns : ops[t].row = q /\ ops[t].at \in {"delete row"} \cup Ended
    BY <2>1, <2>6 DEF SecretDeleted, Ended
  <2>8. GoneAt(t, ops[t].at) /\ ops[t].env = ops[q].env
    BY <1>1, <2>1, <2>7 DEF IInv, TeardownsTake, Gone, TeardownsFollow
  <2>9. QED
    BY <2>1, <2>3, <2>4, <2>7, <2>8 DEF GoneAt
<1>2. QED
  BY <1>1, Invariant, PTL

====
