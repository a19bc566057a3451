------------------------ MODULE AppOrchestrator_proofs ------------------------
(* Safety of AppOrchestrator for every app, any number of requests and any   *)
(* number of faults.                                                         *)
EXTENDS AppOrchestrator, TLAPS

Started(s) == cont[s] \notin {"none", "created"}

(* Where the worker is in the startup order: the services before it were     *)
(* started, those after it have no container.                                *)
StepInv ==
  /\ job \in {"insert", "services", "network", "volumes", "register", "service"} =>
       pos = 1 /\ \A s \in Service : cont[s] = "none"
  /\ job \in {"create", "start"} =>
       \A i \in 1..Len(Order) :
         /\ i < pos => Started(Order[i])
         /\ i > pos => cont[Order[i]] = "none"
  /\ job = "create" => cont[Order[pos]] = "none"

(* What a teardown still has to remove exists or was removed meanwhile.      *)
RemoveInv ==
  \A c \in Call : pc[c] = "remove" => \A s \in todo[c] : cont[s] # "none"

(* As long as no teardown met the worker or failed to remove something, it   *)
(* has what exists on its list, and behind it nothing exists.                *)
GoneInv ==
  ~leftover =>
    /\ \A c \in Call : pc[c] = "remove" =>
         job = "done" /\ \A s \in Service : Exists(s) => s \in todo[c]
    /\ dep = "deprovisioned" \/ (\E c \in Call : pc[c] \in {"volumes", "row", "rows"}) =>
         job = "done" /\ ~network /\ \A s \in Service : ~Exists(s)

IInv == TypeOK /\ StepInv /\ DependenciesFirst /\ RemoveInv /\ GoneInv

LEMMA InitInv == Init => IInv
<1> SUFFICES ASSUME Init PROVE IInv
  OBVIOUS
<1>1. 1 \in 1..Len(Order)
  BY OrderAssumption
<1>2. TypeOK
  <2>1. [action |-> "start", only |-> All, destroy |-> FALSE] \in Requests
    BY DEF Requests
  <2>2. provider \in {"docker", "ecs"} /\ faults \in 0..FaultBudget
    BY BudgetAssumption DEF Init
  <2>3. QED
    BY <1>1, <2>1, <2>2 DEF Init, TypeOK, DepStatus, SvcStatus
<1>3. StepInv /\ DependenciesFirst /\ RemoveInv /\ GoneInv
  BY DEF Init, StepInv, DependenciesFirst, RemoveInv, GoneInv
<1>4. QED
  BY <1>2, <1>3 DEF IInv

LEMMA OrderLength == Len(Order) \in Nat \ {0}
BY OrderAssumption

(* The service in hand, and what its place in the order says. *)
LEMMA InHand ==
  ASSUME TypeOK
  PROVE  /\ Current \in Service
         /\ \A i \in 1..Len(Order) : Order[i] \in Service
         /\ \A s \in Service : \E i \in 1..Len(Order) : Order[i] = s
         /\ \A i, j \in 1..Len(Order) :
              /\ Order[i] = Order[j] => i = j
              /\ Order[i] \in DependsOn[Order[j]] => i < j
BY OrderAssumption DEF TypeOK, Current

-----------------------------------------------------------------------------
(* Types, one group of actions at a time.                                    *)

LEMMA DeployTypes ==
  ASSUME TypeOK, InsertDeployment \/ Deploy
  PROVE  TypeOK'
<1> USE DEF Fine, Fault, Go
<1>0. faults' \in 0..FaultBudget
  BY BudgetAssumption
  DEF TypeOK, InsertDeployment, Deploy, RunProvision, RunProvisionAws, InsertServices, NotSpawned, CreateNetwork, CreateVolumes,
      CreateContainer, StartContainer, RegisterTaskDefinition, DeployService, RecordContainer, Finish, ServicesUp, Fail,
      Provision, RecordOutcome, vars
<1>1. Current \in Service
  BY InHand
<1>2. CASE InsertDeployment \/ InsertServices
  <2>1. CASE InsertDeployment
    BY <1>0, <2>1 DEF TypeOK, InsertDeployment, NotSpawned, DepStatus, things, callVars
  <2>2. CASE InsertServices
    <3>1. svc' \in [Service -> SvcStatus]
      BY <2>2 DEF TypeOK, InsertServices, SvcStatus
    <3>2. job' \in {"services", "network", "register", "done"} /\ pos' = pos
      BY <2>2 DEF TypeOK, InsertServices, NotSpawned, jobVars
    <3>3. lost' \in BOOLEAN
      BY <2>2 DEF TypeOK, InsertServices, NotSpawned
    <3>4. QED
      BY <1>0, <2>2, <3>1, <3>2, <3>3 DEF TypeOK, InsertServices, things, callVars
  <2>3. QED
    BY <1>2, <2>1, <2>2
<1>3. CASE CreateNetwork \/ CreateVolumes \/ DeployService
  BY <1>0, <1>3
  DEF TypeOK, CreateNetwork, CreateVolumes, DeployService, Provision, rows, callVars, history
<1>9. CASE RegisterTaskDefinition
  BY <1>0, <1>9
  DEF TypeOK, RegisterTaskDefinition, Provision, rows, things, callVars, history
<1>4. CASE CreateContainer
  BY <1>0, <1>1, <1>4 DEF TypeOK, CreateContainer, Provision, rows, callVars, history
<1>5. CASE StartContainer
  <2>1. cont' \in [Service -> {"none", "created", "up", "down", "gone"}]
    BY <1>1, <1>5 DEF TypeOK, StartContainer, Provision
  <2>2. job' \in {"create", "record", "fail"} /\ pos' \in 1..Len(Order)
    <3>1. \/ Advance
          \/ job' = "fail" /\ pos' = pos
      BY <1>5 DEF StartContainer, Provision
    <3>2. QED
      BY <3>1, OrderLength DEF TypeOK, Advance
  <2>3. QED
    BY <1>0, <1>5, <2>1, <2>2 DEF TypeOK, StartContainer, rows, callVars, history
<1>6. CASE RecordContainer
  <2>1. cid' \in [Service -> BOOLEAN] /\ svc' \in [Service -> SvcStatus]
    <3>1. \/ /\ cid' = [cid EXCEPT ![Current] = TRUE]
             /\ svc' = [svc EXCEPT ![Current] = "running"]
          \/ UNCHANGED <<cid, svc>>
      BY <1>6 DEF RecordContainer
    <3>2. cid \in [Service -> BOOLEAN] /\ svc \in [Service -> SvcStatus]
      BY DEF TypeOK
    <3>3. "running" \in SvcStatus
      BY DEF SvcStatus
    <3>4. cid' \in [Service -> BOOLEAN]
      BY <1>1, <3>1, <3>2
    <3>5. svc' \in [Service -> SvcStatus]
      BY <1>1, <3>1, <3>2, <3>3
    <3>6. QED
      BY <3>4, <3>5
  <2>2. job' \in {"record", "finish"} /\ pos' \in 1..Len(Order)
    BY <1>6, OrderLength DEF TypeOK, RecordContainer
  <2>3. QED
    BY <1>0, <1>6, <2>1, <2>2 DEF TypeOK, RecordContainer, things, callVars, history
<1>7. CASE Finish \/ Fail
  <2>1. dep' \in DepStatus
    BY <1>7 DEF TypeOK, Finish, Fail, RecordOutcome, DepStatus
  <2>2. lost' \in BOOLEAN
    BY <1>7 DEF TypeOK, Finish, Fail, RecordOutcome
  <2>3. job' \in {"services_up", "done"} /\ pos' = pos
    BY <1>7 DEF Finish, Fail
  <2>4. UNCHANGED <<provider, svc, cid, things, callVars, exposed, leftover>>
    BY <1>7 DEF Finish, Fail
  <2>5. QED
    BY <1>0, <2>1, <2>2, <2>3, <2>4 DEF TypeOK, things, callVars
<1>10. CASE ServicesUp
  BY <1>0, <1>10
  DEF TypeOK, ServicesUp, SvcStatus, things, callVars, history
<1>8. QED
  BY <1>2, <1>3, <1>4, <1>5, <1>6, <1>7, <1>9, <1>10 DEF Deploy, RunProvision, RunProvisionAws

LEMMA ControlTypes ==
  ASSUME TypeOK, NEW c \in Call, Control(c) \/ Timeout(c)
  PROVE  TypeOK'
<1> USE DEF Fine, Fault, Step, BreakOff
<1>0. faults' \in 0..FaultBudget
  BY BudgetAssumption
  DEF TypeOK, Control, Timeout, Do, Begin, ListContainers, RemoveContainer, RemoveNetwork,
      RemoveVolumes, WriteDeprovisioned, WriteServicesDeprovisioned, SelectTargets, ApplyAction,
      WriteServices, WriteDeployment
<1>1. \A d \in Call : Targets(request[d]) \subseteq Service
  BY DEF TypeOK, Targets, Requests
<1>2. \A r \in Requests : Targets(r) \subseteq Service
  BY DEF Targets, Requests
<1>3. CASE Begin(c)
  <2>1. exposed' \subseteq Service
    BY <1>1, <1>2, <1>3 DEF TypeOK, Begin
  <2>2. QED
    BY <1>0, <1>3, <2>1 DEF TypeOK, Begin, rows, things, jobVars
<1>4. CASE ListContainers(c) \/ RemoveVolumes(c)
  <2>1. exposed' \subseteq Service
    BY <1>1, <1>4 DEF TypeOK, ListContainers, RemoveVolumes, Do
  <2>2. todo' \in [Call -> SUBSET Service]
    BY <1>4 DEF TypeOK, ListContainers, RemoveVolumes, Do, LabelledContainers
  <2>3. volume' \in BOOLEAN /\ leftover' \in BOOLEAN
    BY <1>4 DEF TypeOK, ListContainers, RemoveVolumes, Do, things
  <2>4. pc' \in [Call -> {"idle", "list", "remove", "volumes", "row", "rows", "select",
                         "apply", "flip", "done"}]
    BY <1>4 DEF TypeOK, ListContainers, RemoveVolumes, Do
  <2>5. UNCHANGED <<rows, cont, network, ecs, jobVars, request, again, lost>>
    BY <1>4 DEF ListContainers, RemoveVolumes, things
  <2>6. QED
    BY <1>0, <2>1, <2>2, <2>3, <2>4, <2>5 DEF TypeOK, rows, jobVars
<1>5. CASE RemoveContainer(c) \/ RemoveNetwork(c)
  <2>1. cont' \in [Service -> {"none", "created", "up", "down", "gone"}]
    BY <1>5 DEF TypeOK, RemoveContainer, RemoveNetwork
  <2>2. todo' \in [Call -> SUBSET Service]
    BY <1>5 DEF TypeOK, RemoveContainer, RemoveNetwork
  <2>3. network' \in BOOLEAN /\ leftover' \in BOOLEAN
    BY <1>5 DEF TypeOK, RemoveContainer, RemoveNetwork
  <2>4. pc' \in [Call -> {"idle", "list", "remove", "volumes", "row", "rows", "select",
                         "apply", "flip", "done"}]
    BY <1>5 DEF TypeOK, RemoveContainer, RemoveNetwork
  <2>5. UNCHANGED <<rows, volume, ecs, jobVars, request, again, exposed, lost>>
    BY <1>5 DEF RemoveContainer, RemoveNetwork
  <2>6. QED
    BY <1>0, <2>1, <2>2, <2>3, <2>4, <2>5 DEF TypeOK, rows, jobVars
<1>6. CASE WriteDeprovisioned(c) \/ WriteServicesDeprovisioned(c) \/ WriteDeployment(c)
  BY <1>0, <1>1, <1>6
  DEF TypeOK, WriteDeprovisioned, WriteServicesDeprovisioned, WriteDeployment, Do, NewStatus,
      DepStatus, SvcStatus, things, jobVars
<1>7. CASE SelectTargets(c)
  BY <1>0, <1>1, <1>7
  DEF TypeOK, SelectTargets, Do, Matches, rows, things, jobVars
<1>8. CASE ApplyAction(c)
  <2>1. Touched(c) \subseteq Service
    BY <1>1 DEF TypeOK, Touched
  <2>2. exposed' \subseteq Service
    BY <1>1, <1>8, <2>1 DEF TypeOK, ApplyAction
  <2>3. cont' \in [Service -> {"none", "created", "up", "down", "gone"}]
    BY <1>8 DEF TypeOK, ApplyAction, Applied
  <2>4. /\ pc' \in [Call -> {"idle", "list", "remove", "volumes", "row", "rows", "select",
                            "apply", "flip", "done"}]
        /\ todo' \in [Call -> SUBSET Service] /\ again' \in [Call -> SUBSET Service]
    BY <1>8 DEF TypeOK, ApplyAction
  <2>5. UNCHANGED <<rows, network, volume, ecs, jobVars, request, leftover, lost>>
    BY <1>8 DEF ApplyAction
  <2>6. QED
    BY <1>0, <2>2, <2>3, <2>4, <2>5 DEF TypeOK, rows, jobVars
<1>9. CASE WriteServices(c)
  BY <1>0, <1>1, <1>9
  DEF TypeOK, WriteServices, NewStatus, SvcStatus, things, jobVars
<1>10. CASE Timeout(c)
  BY <1>0, <1>1, <1>10 DEF TypeOK, Timeout, rows, things, jobVars
<1>11. QED
  BY <1>3, <1>4, <1>5, <1>6, <1>7, <1>8, <1>9, <1>10 DEF Control

LEMMA CrashTypes ==
  ASSUME TypeOK, Crash
  PROVE  TypeOK'
<1>1. \A d \in Call : Targets(request[d]) \subseteq Service
  BY DEF TypeOK, Targets, Requests
<1>2. exposed' \subseteq Service
  BY <1>1 DEF TypeOK, Crash
<1>3. QED
  BY <1>2, BudgetAssumption DEF TypeOK, Crash, Fault, Go, rows, things
-----------------------------------------------------------------------------
(* The worker.                                                               *)

LEMMA DeploySteps ==
  ASSUME IInv, InsertDeployment \/ Deploy
  PROVE  StepInv' /\ DependenciesFirst' /\ RemoveInv' /\ GoneInv'
<1> USE DEF Fine, Fault, Go
<1>1. /\ Current \in Service
      /\ \A i \in 1..Len(Order) : Order[i] \in Service
      /\ \A s \in Service : \E i \in 1..Len(Order) : Order[i] = s
      /\ \A i, j \in 1..Len(Order) :
           /\ Order[i] = Order[j] => i = j
           /\ Order[i] \in DependsOn[Order[j]] => i < j
  BY InHand DEF IInv
<1>2. CASE InsertDeployment \/ InsertServices \/ CreateNetwork \/ CreateVolumes \/ RegisterTaskDefinition \/ DeployService
  <2>1. cont' = cont /\ pos' = pos /\ UNCHANGED <<todo, pc, leftover>>
    BY <1>2 DEF InsertDeployment, InsertServices, NotSpawned, CreateNetwork, CreateVolumes,
                RegisterTaskDefinition, DeployService, Provision, rows, things, jobVars, callVars, history
  <2>2. job \in {"insert", "services", "network", "volumes", "register", "service"}
    BY <1>2 DEF InsertDeployment, InsertServices, CreateNetwork, CreateVolumes, RegisterTaskDefinition, DeployService, Provision
  <2>3. job' \in {"services", "network", "volumes", "create", "register", "service",
                 "finish", "fail", "done"}
    BY <1>2, <2>2 DEF InsertDeployment, InsertServices, NotSpawned, CreateNetwork, CreateVolumes,
                      RegisterTaskDefinition, DeployService, Provision, jobVars
  <2>4. dep' \in {dep, "provisioning"}
    BY <1>2 DEF InsertDeployment, InsertServices, NotSpawned, CreateNetwork, CreateVolumes,
                RegisterTaskDefinition, DeployService, Provision, rows
  <2>5. StepInv'
    BY <1>1, <2>1, <2>2, <2>3 DEF IInv, TypeOK, StepInv
  <2>6. DependenciesFirst' /\ RemoveInv'
    BY <2>1 DEF IInv, DependenciesFirst, RemoveInv
  <2>7. GoneInv'
    BY <2>1, <2>2, <2>4 DEF IInv, GoneInv, Exists
  <2>8. QED
    BY <2>5, <2>6, <2>7
<1>3. CASE CreateContainer
  <2>1. /\ job = "create" /\ job' \in {"start", "fail"} /\ pos' = pos
        /\ cont' \in {cont, [cont EXCEPT ![Current] = "created"]}
        /\ job' = "start" => cont' = [cont EXCEPT ![Current] = "created"]
        /\ UNCHANGED <<dep, todo, pc, leftover, network>>
    BY <1>3 DEF CreateContainer, Provision, rows, callVars, history
  <2>2. cont[Current] = "none" /\ cont \in [Service -> {"none", "created", "up", "down", "gone"}]
    BY <2>1 DEF IInv, StepInv, TypeOK, Current
  <2>3. \A s \in Service : s # Current => cont'[s] = cont[s]
    BY <1>1, <2>1, <2>2
  <2>4. StepInv'
    BY <1>1, <2>1, <2>3 DEF IInv, StepInv, TypeOK, Started, Current
  <2>5. DependenciesFirst'
    <3> SUFFICES ASSUME NEW s \in Service, cont'[s] # "none", NEW d \in DependsOn[s]
                 PROVE  cont'[d] \notin {"none", "created"}
      BY DEF DependenciesFirst
    <3>1. d \in Service
      BY ServiceAssumption
    <3>2. PICK i \in 1..Len(Order), j \in 1..Len(Order) : Order[i] = d /\ Order[j] = s
      BY <1>1, <3>1
    <3>3. i < j
      BY <1>1, <3>2
    <3>4. CASE s = Current
      BY <1>1, <2>1, <2>3, <3>1, <3>2, <3>3, <3>4 DEF IInv, StepInv, TypeOK, Started, Current
    <3>5. CASE s # Current
      BY <2>2, <2>3, <3>1, <3>5 DEF IInv, DependenciesFirst
    <3>6. QED
      BY <3>4, <3>5
  <2>6. RemoveInv'
    BY <1>1, <2>1, <2>2, <2>3 DEF IInv, RemoveInv, TypeOK
  <2>7. GoneInv'
    BY <2>1 DEF IInv, GoneInv
  <2>8. QED
    BY <2>4, <2>5, <2>6, <2>7
<1>4. CASE StartContainer
  <2>1. /\ job = "start" /\ job' # "done" /\ UNCHANGED <<dep, todo, pc, leftover, network>>
        /\ \/ cont' = cont /\ job' = "fail" /\ pos' = pos
           \/ /\ cont[Current] = "created" /\ cont' = [cont EXCEPT ![Current] = "up"]
              /\ Advance \/ (job' = "fail" /\ pos' = pos)
    <3>1. /\ \/ cont' = cont /\ job' = "fail" /\ pos' = pos
             \/ /\ cont[Current] = "created" /\ cont' = [cont EXCEPT ![Current] = "up"]
                /\ Advance \/ (job' = "fail" /\ pos' = pos)
          /\ job = "start"
      BY <1>4 DEF StartContainer, Provision
    <3>2. job' # "done"
      BY <3>1 DEF Advance
    <3>3. UNCHANGED <<dep, todo, pc, leftover, network>>
      BY <1>4 DEF StartContainer, rows, callVars, history
    <3>4. QED
      BY <3>1, <3>2, <3>3
  <2>2. /\ \A s \in Service : s # Current => cont'[s] = cont[s]
        /\ cont' # cont => cont[Current] = "created" /\ cont'[Current] = "up"
    BY <1>1, <2>1 DEF IInv, TypeOK
  <2>3. StepInv'
    <3>1. CASE cont' = cont
      <4>1. job' = "fail"
        BY <1>1, <2>1, <3>1 DEF IInv, TypeOK
      <4>2. QED
        BY <4>1 DEF StepInv
    <3>2. CASE cont' # cont /\ job' = "create"
      <4>1. pos' = pos + 1 /\ pos \in Nat /\ pos + 1 \in 1..Len(Order)
        BY <2>1, <3>2, OrderLength DEF IInv, TypeOK, Advance
      <4>2. \A i \in 1..Len(Order) : i < pos + 1 => Started(Order[i])'
        <5> SUFFICES ASSUME NEW i \in 1..Len(Order), i < pos + 1
                     PROVE  Started(Order[i])'
          OBVIOUS
        <5>1. CASE i = pos
          BY <2>2, <3>2, <5>1 DEF Started, Current
        <5>2. CASE i # pos
          <6>1. i < pos
            BY <4>1, <5>2
          <6>2. Started(Order[i]) /\ Order[i] # Current
            BY <2>1, <2>2, <3>2, <6>1 DEF IInv, StepInv, Started
          <6>3. QED
            BY <1>1, <2>2, <6>2 DEF Started
        <5>3. QED
          BY <5>1, <5>2
      <4>3. \A i \in 1..Len(Order) : i > pos => cont'[Order[i]] = "none"
        <5> SUFFICES ASSUME NEW i \in 1..Len(Order), i > pos
                     PROVE  cont'[Order[i]] = "none"
          OBVIOUS
        <5>1. i # pos /\ pos \in 1..Len(Order)
          BY <4>1 DEF IInv, TypeOK
        <5>2. Order[i] # Current /\ Order[i] \in Service
          BY <1>1, <5>1 DEF Current
        <5>3. cont[Order[i]] = "none"
          BY <2>1 DEF IInv, StepInv
        <5>4. QED
          BY <2>2, <5>2, <5>3
      <4>4. QED
        BY <3>2, <4>1, <4>2, <4>3 DEF StepInv
    <3>3. CASE cont' # cont /\ job' # "create"
      BY <2>1, <3>3 DEF StepInv, Advance
    <3>4. QED
      BY <3>1, <3>2, <3>3
  <2>4. DependenciesFirst' /\ RemoveInv'
    <3>1. \A s \in Service : (cont'[s] # "none" => cont[s] # "none")
                             /\ (cont[s] \notin {"none", "created"} => cont'[s] = cont[s])
      BY <1>1, <2>2 DEF IInv, TypeOK
    <3>2. \A s \in Service : cont[s] # "none" => cont'[s] # "none"
      BY <1>1, <2>2 DEF IInv, TypeOK
    <3>3. DependenciesFirst'
      BY <3>1, ServiceAssumption DEF IInv, DependenciesFirst
    <3>4. RemoveInv'
      BY <2>1, <3>2 DEF IInv, RemoveInv, TypeOK
    <3>5. QED
      BY <3>3, <3>4
  <2>5. GoneInv'
    BY <2>1 DEF IInv, GoneInv
  <2>6. QED
    BY <2>3, <2>4, <2>5
<1>5. CASE RecordContainer \/ Finish \/ ServicesUp \/ Fail
  <2>1. cont' = cont /\ UNCHANGED <<todo, pc, leftover, network>>
    BY <1>5 DEF RecordContainer, Finish, ServicesUp, Fail, rows, things, callVars, history
  <2>2. job \in {"record", "finish", "services_up", "fail"} /\ job' \in {"record", "finish", "services_up", "done"}
    BY <1>5 DEF RecordContainer, Finish, ServicesUp, Fail
  <2>3. dep' \in {dep, "running", "error"}
    BY <1>5 DEF RecordContainer, Finish, ServicesUp, Fail, RecordOutcome
  <2>4. QED
    BY <2>1, <2>2, <2>3 DEF IInv, StepInv, DependenciesFirst, RemoveInv, GoneInv, Exists, Started
<1>6. QED
  BY <1>2, <1>3, <1>4, <1>5 DEF Deploy, RunProvision, RunProvisionAws
-----------------------------------------------------------------------------
(* The requests.                                                             *)

(* What a request may do to containers and network: it brings no container   *)
(* into being and no network.                                                *)
LEMMA ControlMakesNothing ==
  ASSUME IInv, NEW c \in Call, Control(c) \/ Timeout(c)
  PROVE  /\ UNCHANGED jobVars
         /\ \A s \in Service :
              /\ cont'[s] = cont[s] \/ (cont[s] # "none" /\ cont'[s] \in {"up", "down", "gone"})
              /\ cont[s] = "gone" => cont'[s] = "gone"
         /\ network' => network
<1> USE DEF Fine, Fault, Step, BreakOff
<1>1. UNCHANGED jobVars
  BY DEF Control, Timeout, Begin, ListContainers, RemoveContainer, RemoveNetwork, RemoveVolumes,
         WriteDeprovisioned, WriteServicesDeprovisioned, SelectTargets, ApplyAction,
         WriteServices, WriteDeployment
<1>2. network' => network
  BY DEF Control, Timeout, Begin, ListContainers, RemoveContainer, RemoveNetwork, RemoveVolumes,
         WriteDeprovisioned, WriteServicesDeprovisioned, SelectTargets, ApplyAction,
         WriteServices, WriteDeployment, things
<1>3. CASE RemoveContainer(c)
  BY <1>1, <1>2, <1>3 DEF RemoveContainer, IInv, TypeOK, RemoveInv
<1>4. CASE ApplyAction(c)
  <2>1. \/ cont' = cont
        \/ \E s \in todo[c] : Exists(s) /\ cont' \in {Applied("start", s), Applied("stop", s)}
    BY <1>4 DEF ApplyAction, Possible, Startable
  <2>2. QED
    BY <1>1, <1>2, <2>1 DEF IInv, TypeOK, Applied, Exists
<1>5. CASE ~(RemoveContainer(c) \/ ApplyAction(c))
  <2>1. cont' = cont
    BY <1>5 DEF Control, Timeout, Begin, ListContainers, RemoveNetwork, RemoveVolumes,
         WriteDeprovisioned, WriteServicesDeprovisioned, SelectTargets,
         WriteServices, WriteDeployment, things
  <2>2. QED
    BY <1>1, <1>2, <2>1
<1>6. QED
  BY <1>3, <1>4, <1>5

(* Where a teardown comes from. *)
LEMMA ControlMoves ==
  ASSUME IInv, NEW c \in Call, Control(c) \/ Timeout(c)
  PROVE  /\ \A d \in Call \ {c} : pc'[d] = pc[d] /\ todo'[d] = todo[d]
         /\ leftover => leftover'
         /\ pc'[c] = "remove" =>
              \/ pc[c] = "remove" /\ UNCHANGED <<cont, todo>>
              \/ /\ pc[c] = "remove"
                 /\ \E s \in todo[c] :
                      /\ todo'[c] = todo[c] \ {s}
                      /\ cont' = [cont EXCEPT ![s] = "gone"] \/ leftover'
              \/ /\ pc[c] = "list" /\ todo'[c] = LabelledContainers /\ cont' = cont
                 /\ job = "done" \/ leftover'
         /\ pc'[c] \in {"volumes", "row"} =>
              \/ /\ pc[c] = "remove" /\ todo[c] = {} /\ cont' = cont
                 /\ leftover' \/ network' = (network /\ \E s \in Service : cont[s] = "up")
              \/ pc[c] = "volumes"
         /\ pc'[c] = "rows" => pc[c] = "row"
         /\ dep' = "deprovisioned" => dep = "deprovisioned" \/ pc[c] = "row"
<1> USE DEF Fine, Fault, Step, BreakOff
<1>1. \A d \in Call \ {c} : pc'[d] = pc[d] /\ todo'[d] = todo[d]
  BY DEF IInv, TypeOK, Control, Timeout, Begin, ListContainers, RemoveContainer, RemoveNetwork,
         RemoveVolumes, WriteDeprovisioned, WriteServicesDeprovisioned, SelectTargets, ApplyAction,
         WriteServices, WriteDeployment, Do
<1>2. leftover => leftover'
  BY DEF Control, Timeout, Begin, ListContainers, RemoveContainer, RemoveNetwork,
         RemoveVolumes, WriteDeprovisioned, WriteServicesDeprovisioned, SelectTargets, ApplyAction,
         WriteServices, WriteDeployment, Do
<1>3. dep' = "deprovisioned" => dep = "deprovisioned" \/ pc[c] = "row"
  BY DEF Control, Timeout, Begin, ListContainers, RemoveContainer, RemoveNetwork,
         RemoveVolumes, WriteDeprovisioned, WriteServicesDeprovisioned, SelectTargets, ApplyAction,
         WriteServices, WriteDeployment, Do, NewStatus, rows
<1> pc \in [Call -> {"idle", "list", "remove", "volumes", "row", "rows", "select",
                      "apply", "flip", "done"}] /\ todo \in [Call -> SUBSET Service]
  BY DEF IInv, TypeOK
<1>4. CASE ListContainers(c)
  BY <1>1, <1>2, <1>3, <1>4 DEF ListContainers, Do, things
<1>5. CASE RemoveContainer(c)
  BY <1>1, <1>2, <1>3, <1>5 DEF RemoveContainer
<1>6. CASE RemoveNetwork(c)
  BY <1>1, <1>2, <1>3, <1>6 DEF RemoveNetwork
<1>7. CASE ~(ListContainers(c) \/ RemoveContainer(c) \/ RemoveNetwork(c))
  <2>1. /\ pc'[c] # "remove"
        /\ pc'[c] \in {"volumes", "row"} => pc[c] = "volumes"
        /\ pc'[c] = "rows" => pc[c] = "row"
    BY <1>7 DEF Control, Timeout, Begin, RemoveVolumes, WriteDeprovisioned,
         WriteServicesDeprovisioned, SelectTargets, ApplyAction, WriteServices, WriteDeployment, Do
  <2>2. QED
    BY <1>1, <1>2, <1>3, <2>1
<1>8. QED
  BY <1>4, <1>5, <1>6, <1>7

LEMMA ControlSteps ==
  ASSUME IInv, NEW c \in Call, Control(c) \/ Timeout(c)
  PROVE  StepInv' /\ DependenciesFirst' /\ RemoveInv' /\ GoneInv'
<1>1. /\ job' = job /\ pos' = pos
      /\ \A s \in Service :
           /\ cont'[s] = cont[s] \/ (cont[s] # "none" /\ cont'[s] \in {"up", "down", "gone"})
           /\ cont[s] = "gone" => cont'[s] = "gone"
      /\ network' => network
  BY ControlMakesNothing DEF jobVars
<1>2. \A i \in 1..Len(Order) : Order[i] \in Service
  BY InHand DEF IInv
<1>3. StepInv'
  <2>1. pos \in 1..Len(Order) /\ pos' \in 1..Len(Order)
    BY <1>1 DEF IInv, TypeOK
  <2>2. \A s \in Service : (cont[s] = "none" => cont'[s] = "none") /\ (Started(s) => Started(s)')
    BY <1>1 DEF Started
  <2>3. QED
    BY <1>1, <1>2, <2>1, <2>2 DEF IInv, StepInv
<1>4. DependenciesFirst'
  BY <1>1, ServiceAssumption DEF IInv, DependenciesFirst
<1>5. RemoveInv'
  <2> SUFFICES ASSUME NEW d \in Call, pc'[d] = "remove", NEW s \in todo'[d]
               PROVE  cont'[s] # "none"
    BY DEF RemoveInv
  <2>0. todo \in [Call -> SUBSET Service] /\ cont \in [Service -> {"none", "created", "up", "down", "gone"}]
    BY DEF IInv, TypeOK
  <2>1. CASE d # c
    BY <1>1, <2>0, <2>1, ControlMoves DEF IInv, RemoveInv
  <2>2. CASE d = c
    <3>1. s \in Service /\ cont[s] # "none"
      BY <2>0, <2>2, ControlMoves DEF IInv, RemoveInv, LabelledContainers, Exists
    <3>2. QED
      BY <1>1, <3>1
  <2>3. QED
    BY <2>1, <2>2
<1>6. GoneInv'
  <2> SUFFICES ASSUME ~leftover'
               PROVE  /\ \A d \in Call : pc'[d] = "remove" =>
                           job' = "done" /\ \A s \in Service : Exists(s)' => s \in todo'[d]
                      /\ dep' = "deprovisioned" \/ (\E d \in Call : pc'[d] \in {"volumes", "row", "rows"}) =>
                           job' = "done" /\ ~network' /\ \A s \in Service : ~Exists(s)'
    BY DEF GoneInv
  <2>1. ~leftover
    BY ControlMoves
  <2>2. \A s \in Service : Exists(s)' => Exists(s)
    BY <1>1 DEF Exists, IInv, TypeOK
  <2>3. ASSUME NEW d \in Call, pc'[d] = "remove"
        PROVE  job' = "done" /\ \A s \in Service : Exists(s)' => s \in todo'[d]
    <3>1. CASE d # c
      BY <1>1, <2>1, <2>2, <2>3, <3>1, ControlMoves DEF IInv, GoneInv
    <3>2. CASE d = c /\ pc[c] = "list"
      BY <1>1, <2>2, <2>3, <3>2, ControlMoves DEF LabelledContainers
    <3>3. CASE d = c /\ pc[c] = "remove" /\ UNCHANGED <<cont, todo>>
      BY <1>1, <2>1, <2>2, <3>3 DEF IInv, GoneInv
    <3>4. CASE d = c /\ pc[c] = "remove" /\ ~UNCHANGED <<cont, todo>>
      <4>1. PICK s \in todo[c] : todo'[c] = todo[c] \ {s} /\ cont' = [cont EXCEPT ![s] = "gone"]
        BY <2>3, <3>4, ControlMoves
      <4>2. \A t \in Service : Exists(t)' => t # s
        BY <4>1 DEF Exists, IInv, TypeOK
      <4>3. QED
        BY <1>1, <2>1, <2>2, <3>4, <4>1, <4>2 DEF IInv, GoneInv
    <3>5. QED
      BY <2>3, <3>1, <3>2, <3>3, <3>4, ControlMoves
  <2>4. ASSUME dep' = "deprovisioned" \/ (\E d \in Call : pc'[d] \in {"volumes", "row", "rows"})
        PROVE  job' = "done" /\ ~network' /\ \A s \in Service : ~Exists(s)'
    <3>1. CASE dep = "deprovisioned" \/ (\E d \in Call : pc[d] \in {"volumes", "row", "rows"})
      BY <1>1, <2>1, <2>2, <3>1 DEF IInv, GoneInv
    <3>2. CASE ~(dep = "deprovisioned" \/ (\E d \in Call : pc[d] \in {"volumes", "row", "rows"}))
      <4>1. /\ pc[c] = "remove" /\ todo[c] = {} /\ cont' = cont
            /\ network' = (network /\ \E s \in Service : cont[s] = "up")
        <5>1. \A d \in Call \ {c} : pc'[d] = pc[d]
          BY ControlMoves
        <5>2. dep' # "deprovisioned" /\ pc[c] \notin {"volumes", "row", "rows"}
          BY <3>2, ControlMoves
        <5>3. pc'[c] \in {"volumes", "row", "rows"}
          BY <2>4, <3>2, <5>1, <5>2
        <5>4. QED
          BY <5>2, <5>3, ControlMoves
      <4>2. job = "done" /\ \A s \in Service : ~Exists(s)
        BY <2>1, <4>1 DEF IInv, GoneInv
      <4>3. QED
        BY <1>1, <2>2, <4>1, <4>2 DEF Exists
    <3>3. QED
      BY <3>1, <3>2
  <2>5. QED
    BY <2>3, <2>4
<1>7. QED
  BY <1>3, <1>4, <1>5, <1>6

LEMMA CrashSteps ==
  ASSUME IInv, Crash
  PROVE  StepInv' /\ DependenciesFirst' /\ RemoveInv' /\ GoneInv'
<1>1. /\ job' = "done" /\ UNCHANGED <<cont, network, dep, todo, leftover>>
      /\ \A c \in Call : pc'[c] \in {pc[c], "done"}
  BY DEF Crash, Go, rows, things
<1>2. QED
  BY <1>1 DEF IInv, StepInv, DependenciesFirst, RemoveInv, GoneInv, Exists

-----------------------------------------------------------------------------
(* The inductive invariant holds in every reachable state. *)
THEOREM Inductive == Spec => []IInv
<1>1. ASSUME IInv, [Next]_vars
      PROVE  IInv'
  <2>1. CASE InsertDeployment \/ Deploy
    BY <1>1, <2>1, DeployTypes, DeploySteps DEF IInv
  <2>2. CASE \E c \in Call : Control(c) \/ Timeout(c)
    BY <1>1, <2>2, ControlTypes, ControlSteps DEF IInv
  <2>3. CASE Crash
    BY <1>1, <2>3, CrashTypes, CrashSteps DEF IInv
  <2>4. CASE UNCHANGED vars
    BY <1>1, <2>4
    DEF IInv, TypeOK, StepInv, DependenciesFirst, RemoveInv, GoneInv, Exists, Started,
        vars, rows, things, jobVars, callVars, history
  <2>5. QED
    BY <1>1, <2>1, <2>2, <2>3, <2>4 DEF Next
<1>2. QED
  BY InitInv, <1>1, PTL DEF Spec

(* Every variable of the orchestrator has its type, for every app. *)
THEOREM TypeCorrect == Spec => []TypeOK
<1>1. IInv => TypeOK
  BY DEF IInv
<1>2. QED
  BY <1>1, Inductive, PTL

(* A container is made when those it depends on were started, whatever runs  *)
(* beside the worker (deploy).                                               *)
THEOREM StartupFollowsDependencies == Spec => []DependenciesFirst
<1>1. IInv => DependenciesFirst
  BY DEF IInv
<1>2. QED
  BY <1>1, Inductive, PTL

(* A deprovisioned app is gone from Docker, recorded or not and whatever its  *)
(* provider, unless the teardown met the worker or a removal failed           *)
(* (app_control, teardown).                                                   *)
THEOREM DeprovisionIsComplete == Spec => []DeprovisionedMeansGone
<1>1. IInv => DeprovisionedMeansGone
  BY DEF IInv, GoneInv, DeprovisionedMeansGone
<1>2. QED
  BY <1>1, Inductive, PTL
-----------------------------------------------------------------------------
(* Rows and containers. A second inductive invariant, beside the first.      *)

(* Which action a request in a given place has, and whose containers it has  *)
(* still to act on.                                                          *)
PlaceInv ==
  \A c \in Call :
    /\ pc[c] \in {"list", "remove", "volumes", "row", "rows"} => request[c].action = "deprovision"
    /\ pc[c] \in {"select", "apply", "flip"} => request[c].action # "deprovision"
    /\ pc[c] = "apply" => todo[c] \subseteq Targets(request[c])

(* What two parties at work have in common is exposed.                       *)
OverlapInv ==
  \A c \in Call : Active(c) =>
    /\ job # "done" => Targets(request[c]) \subseteq exposed
    /\ \A d \in Call \ {c} : Active(d) =>
         Targets(request[c]) \cap Targets(request[d]) \subseteq exposed

(* What the worker has done: on Docker it started the services before the    *)
(* one in hand, and recorded no container before all were started; on ECS it *)
(* records none.                                                             *)
WorkerInv ==
  /\ job \in {"network", "volumes", "create", "start", "record"} => provider = "docker"
  /\ job = "services_up" => provider = "ecs"
  /\ \A s \in Service : cid[s] =>
       /\ provider = "docker" /\ svc[s] # "none"
       /\ job \in {"record", "finish", "fail", "done"}
  /\ job \in {"create", "start"} =>
       \A i \in 1..Len(Order) : i < pos => Order[i] \in exposed \/ cont[Order[i]] = "up"
  /\ job = "record" => \A s \in Service : s \in exposed \/ cont[s] = "up"

Agrees(s) ==
  /\ svc[s] = "running"       => cont[s] = "up"
  /\ svc[s] = "stopped"       => cont[s] = "down"
  /\ svc[s] = "deprovisioned" => cont[s] = "gone" \/ leftover

About(c, s) == Active(c) /\ s \in Targets(request[c])

(* How far a request about s has brought its container: where the row says,  *)
(* or already where the request will write it.                               *)
CallFits(c, s) ==
  /\ pc[c] \in {"list", "select", "flip"} => Agrees(s)
  /\ pc[c] = "remove" => s \in todo[c] \/ cont[s] = "gone" \/ leftover
  /\ pc[c] \in {"volumes", "row", "rows"} => cont[s] = "gone" \/ leftover
  /\ pc[c] = "apply" =>
       IF s \in todo[c] THEN Agrees(s) \/ again[c] = {s}
       ELSE cont[s] = IF request[c].action = "stop" THEN "down" ELSE "up"

RowFits(s) ==
  cid[s] /\ s \notin exposed =>
    /\ cont[s] \in {"up", "down", "gone"}
    /\ (\A c \in Call : ~About(c, s)) => Agrees(s)
    /\ \A c \in Call : About(c, s) => CallFits(c, s)

RowsInv == PlaceInv /\ OverlapInv /\ WorkerInv /\ \A s \in Service : RowFits(s)

LEMMA RowsInit == Init => RowsInv
BY DEF Init, RowsInv, PlaceInv, OverlapInv, WorkerInv, RowFits, Active

LEMMA TargetsAreServices ==
  ASSUME TypeOK, NEW c \in Call
  PROVE  Targets(request[c]) \subseteq Service
BY DEF TypeOK, Targets, Requests

(* The worker touches no request, and is at work. *)
LEMMA DeployFrame ==
  ASSUME InsertDeployment \/ Deploy
  PROVE  job # "done" /\ UNCHANGED <<callVars, exposed, leftover>>
BY DEF InsertDeployment, Deploy, RunProvision, RunProvisionAws, InsertServices, NotSpawned,
       CreateNetwork, CreateVolumes, CreateContainer, StartContainer, RegisterTaskDefinition,
       DeployService, RecordContainer, Finish, ServicesUp, Fail, Provision, callVars, history

(* A step of the worker that leaves the recorded services alone. *)
LEMMA DeployLeavesRows ==
  ASSUME IInv, RowsInv, InsertDeployment \/ Deploy, WorkerInv',
         \A s \in Service : cid'[s] /\ s \notin exposed =>
           \/ cid[s] /\ cont'[s] = cont[s] /\ svc'[s] = svc[s]
           \/ cont'[s] = "up" /\ svc'[s] = "running"
  PROVE  RowsInv'
<1>1. job # "done" /\ UNCHANGED <<pc, request, todo, again, exposed, leftover>>
  BY DeployFrame DEF callVars
<1>2. PlaceInv'
  BY <1>1 DEF RowsInv, PlaceInv, Targets
<1>3. \A c \in Call : Active(c)' <=> Active(c)
  BY <1>1 DEF Active
<1>4. OverlapInv'
  <2>1. \A c \in Call : Targets(request[c])' = Targets(request[c])
    BY <1>1 DEF Targets
  <2>2. QED
    BY <1>1, <1>3, <2>1 DEF RowsInv, OverlapInv
<1>5. ASSUME NEW s \in Service
      PROVE  RowFits(s)'
  <2> SUFFICES ASSUME cid'[s], s \notin exposed
               PROVE  /\ cont'[s] \in {"up", "down", "gone"}
                      /\ Agrees(s)'
                      /\ \A c \in Call : ~About(c, s)'
    BY <1>1 DEF RowFits
  <2>1. \A c \in Call : ~About(c, s)
    BY <1>1 DEF RowsInv, OverlapInv, About
  <2>2. \A c \in Call : ~About(c, s)'
    BY <1>1, <1>3, <2>1 DEF About, Targets
  <2>3. CASE cid[s] /\ cont'[s] = cont[s] /\ svc'[s] = svc[s]
    BY <1>1, <2>1, <2>2, <2>3 DEF RowsInv, RowFits, Agrees
  <2>4. CASE cont'[s] = "up" /\ svc'[s] = "running"
    BY <2>2, <2>4 DEF Agrees
  <2>5. QED
    BY <2>3, <2>4
<1>6. QED
  BY <1>2, <1>4, <1>5 DEF RowsInv

LEMMA DeployKeepsRows ==
  ASSUME IInv, RowsInv, InsertDeployment \/ Deploy
  PROVE  RowsInv'
<1> USE DEF Fine, Fault, Go
<1>1. job # "done" /\ UNCHANGED <<callVars, exposed, leftover>>
  BY DeployFrame
<1>2. /\ Current \in Service
      /\ \A i \in 1..Len(Order) : Order[i] \in Service
      /\ \A s \in Service : \E i \in 1..Len(Order) : Order[i] = s
      /\ \A i, j \in 1..Len(Order) : Order[i] = Order[j] => i = j
  BY InHand DEF IInv
<1>3. /\ provider \in {"docker", "ecs"} /\ pos \in 1..Len(Order) /\ Len(Order) \in Nat
      /\ cont \in [Service -> {"none", "created", "up", "down", "gone"}]
      /\ cid \in [Service -> BOOLEAN] /\ svc \in [Service -> SvcStatus]
  BY OrderLength DEF IInv, TypeOK
<1>4. CASE InsertDeployment \/ InsertServices \/ RegisterTaskDefinition \/ DeployService
           \/ CreateNetwork \/ CreateVolumes
  <2>1. /\ provider' = provider /\ cid' = cid /\ pos' = pos
        /\ job \in {"insert", "services", "register", "service", "network", "volumes"}
        /\ job' \notin {"start", "record", "services_up"}
        /\ job' = "network" => job = "services" /\ provider = "docker"
        /\ job' = "volumes" => job = "network"
        /\ job' = "create" => job = "volumes"
    <3>1. CASE InsertDeployment
      BY <3>1 DEF InsertDeployment, NotSpawned
    <3>2. CASE InsertServices
      BY <1>3, <3>2 DEF InsertServices, NotSpawned, jobVars
    <3>3. CASE RegisterTaskDefinition \/ DeployService \/ CreateNetwork \/ CreateVolumes
      BY <3>3 DEF RegisterTaskDefinition, DeployService, CreateNetwork, CreateVolumes, Provision, rows
    <3>4. QED
      BY <1>4, <3>1, <3>2, <3>3
  <2>2. \A s \in Service : ~cid[s]
    BY <2>1 DEF RowsInv, WorkerInv
  <2>3. pos = 1
    BY <2>1 DEF IInv, StepInv
  <2>4. WorkerInv'
    <3>1. job' \in {"network", "volumes", "create", "start", "record"} => provider' = "docker"
      BY <2>1 DEF RowsInv, WorkerInv
    <3>2. QED
      BY <2>1, <2>2, <2>3, <3>1 DEF WorkerInv
  <2>5. QED
    BY <2>1, <2>2, <2>4, DeployLeavesRows
<1>5. CASE CreateContainer
  <2>1. /\ provider' = provider /\ cid' = cid /\ pos' = pos
        /\ job = "create" /\ job' \in {"start", "fail"}
        /\ cont' \in {cont, [cont EXCEPT ![Current] = "created"]}
    BY <1>5 DEF CreateContainer, Provision, rows
  <2>2. \A s \in Service : ~cid[s]
    BY <2>1 DEF RowsInv, WorkerInv
  <2>3. \A i \in 1..Len(Order) : i < pos => cont'[Order[i]] = cont[Order[i]]
    BY <1>2, <1>3, <2>1 DEF Current
  <2>4. WorkerInv'
    BY <1>1, <2>1, <2>2, <2>3 DEF RowsInv, WorkerInv
  <2>5. QED
    BY <2>1, <2>2, <2>4, DeployLeavesRows
<1>6. CASE StartContainer
  <2>1. /\ provider' = provider /\ cid' = cid /\ job = "start"
        /\ \/ job' = "fail"
           \/ cont' = [cont EXCEPT ![Current] = "up"] /\ Advance
    BY <1>6 DEF StartContainer, Provision, rows
  <2>2. \A s \in Service : ~cid[s]
    BY <2>1 DEF RowsInv, WorkerInv
  <2>3. CASE job' = "fail"
    <3>1. WorkerInv'
      BY <2>1, <2>2, <2>3 DEF WorkerInv
    <3>2. QED
      BY <2>1, <2>2, <3>1, DeployLeavesRows
  <2>4. CASE cont' = [cont EXCEPT ![Current] = "up"] /\ Advance
    <3>1. \A i \in 1..Len(Order) : i < pos + 1 => Order[i] \in exposed \/ cont'[Order[i]] = "up"
      <4> SUFFICES ASSUME NEW i \in 1..Len(Order), i < pos + 1, Order[i] \notin exposed
                   PROVE  cont'[Order[i]] = "up"
        OBVIOUS
      <4>1. CASE i = pos
        BY <1>2, <1>3, <2>4, <4>1 DEF Current
      <4>2. CASE i # pos
        <5>1. cont[Order[i]] = "up"
          BY <1>3, <2>1, <4>2 DEF RowsInv, WorkerInv
        <5>2. QED
          BY <1>2, <1>3, <2>4, <5>1
      <4>3. QED
        BY <4>1, <4>2
    <3>2. job' \in {"create", "record"} /\ (job' = "create" => pos' = pos + 1)
      BY <2>4 DEF Advance
    <3>3. job' = "record" => \A s \in Service : s \in exposed \/ cont'[s] = "up"
      <4> SUFFICES ASSUME job' = "record", NEW s \in Service
                   PROVE  s \in exposed \/ cont'[s] = "up"
        OBVIOUS
      <4>1. PICK i \in 1..Len(Order) : Order[i] = s
        BY <1>2
      <4>2. i < pos + 1
        BY <1>3, <2>4 DEF Advance
      <4>3. QED
        BY <3>1, <4>1, <4>2
    <3>4. provider = "docker"
      BY <2>1 DEF RowsInv, WorkerInv
    <3>5. WorkerInv'
      BY <1>1, <2>1, <2>2, <3>1, <3>2, <3>3, <3>4 DEF WorkerInv
    <3>6. QED
      BY <2>1, <2>2, <3>5, DeployLeavesRows
  <2>5. QED
    BY <2>1, <2>3, <2>4
<1>7. CASE RecordContainer
  <2>1. /\ provider' = provider /\ cont' = cont /\ job = "record" /\ job' \in {"record", "finish"}
        /\ \/ UNCHANGED <<cid, svc>>
           \/ /\ cid' = [cid EXCEPT ![Current] = TRUE]
              /\ svc' = [svc EXCEPT ![Current] = "running"]
    BY <1>7 DEF RecordContainer, things
  <2>2. provider = "docker" /\ \A s \in Service : s \in exposed \/ cont[s] = "up"
    BY <2>1 DEF RowsInv, WorkerInv
  <2>3. \A s \in Service : cid'[s] =>
          \/ cid[s] /\ svc'[s] = svc[s]
          \/ svc'[s] = "running"
    BY <1>2, <1>3, <2>1
  <2>4. WorkerInv'
    <3>1. \A s \in Service : cid'[s] => svc'[s] # "none"
      BY <2>3 DEF RowsInv, WorkerInv
    <3>2. QED
      BY <1>1, <2>1, <2>2, <3>1 DEF WorkerInv
  <2>5. QED
    BY <2>1, <2>2, <2>3, <2>4, DeployLeavesRows
<1>8. CASE Finish \/ Fail \/ ServicesUp
  <2>1. /\ UNCHANGED <<provider, cid, cont>> /\ job \in {"finish", "fail", "services_up"}
        /\ job' \in {"services_up", "done"}
        /\ job' = "services_up" => job = "finish" /\ provider # "docker"
        /\ svc' = svc \/ job = "services_up"
    BY <1>8 DEF Finish, Fail, ServicesUp, things
  <2>2. job = "services_up" \/ job' = "services_up" => \A s \in Service : ~cid[s]
    BY <2>1 DEF RowsInv, WorkerInv
  <2>3. WorkerInv'
    <3>1. job' = "services_up" => provider' = "ecs"
      BY <1>3, <2>1
    <3>2. \A s \in Service : cid'[s] => provider' = "docker" /\ svc'[s] # "none" /\ job' = "done"
      BY <2>1, <2>2 DEF RowsInv, WorkerInv
    <3>3. QED
      BY <2>1, <3>1, <3>2 DEF WorkerInv
  <2>4. QED
    BY <2>1, <2>2, <2>3, DeployLeavesRows
<1>9. QED
  BY <1>4, <1>5, <1>6, <1>7, <1>8 DEF Deploy, RunProvision, RunProvisionAws

(* What a request leaves alone: the worker, the other requests, and every    *)
(* service it is not about.                                                  *)
LEMMA ControlFrame ==
  ASSUME IInv, PlaceInv, NEW c \in Call, Control(c) \/ Timeout(c)
  PROVE  /\ UNCHANGED <<provider, cid, jobVars>>
         /\ exposed \subseteq exposed' /\ (leftover => leftover')
         /\ \A d \in Call \ {c} : /\ pc'[d] = pc[d] /\ request'[d] = request[d]
                                 /\ todo'[d] = todo[d] /\ again'[d] = again[d]
         /\ request' = request \/ Begin(c)
         /\ \A s \in Service :
              /\ s \notin Targets(request[c]) => cont'[s] = cont[s] /\ svc'[s] = svc[s]
              /\ svc[s] # "none" => svc'[s] # "none"
<1> USE DEF Fine, Fault, Step, BreakOff
<1>1. UNCHANGED <<provider, cid, jobVars>>
  BY DEF Control, Timeout, Begin, ListContainers, RemoveContainer, RemoveNetwork, RemoveVolumes,
         WriteDeprovisioned, WriteServicesDeprovisioned, SelectTargets, ApplyAction,
         WriteServices, WriteDeployment, rows
<1>2. /\ exposed \subseteq exposed' /\ (leftover => leftover')
      /\ request' = request \/ Begin(c)
  <2>1. \E X : exposed' = exposed \cup X
    <3>1. exposed = exposed \cup {}
      OBVIOUS
    <3>2. CASE Begin(c) \/ ApplyAction(c)
      BY <3>1, <3>2 DEF Begin, ApplyAction
    <3>3. CASE ~(Begin(c) \/ ApplyAction(c))
      <4>1. exposed' \in {exposed, exposed \cup Targets(request[c])}
        BY <3>3
        DEF Control, Timeout, ListContainers, RemoveContainer, RemoveNetwork, RemoveVolumes,
            WriteDeprovisioned, WriteServicesDeprovisioned, SelectTargets, WriteServices,
            WriteDeployment, Do
      <4>2. QED
        BY <3>1, <4>1
    <3>4. QED
      BY <3>2, <3>3
  <2>2. leftover => leftover'
    BY DEF Control, Timeout, Begin, ListContainers, RemoveContainer, RemoveNetwork,
         RemoveVolumes, WriteDeprovisioned, WriteServicesDeprovisioned, SelectTargets, ApplyAction,
         WriteServices, WriteDeployment, Do
  <2>3. request' = request \/ Begin(c)
    BY DEF Control, Timeout, ListContainers, RemoveContainer, RemoveNetwork,
         RemoveVolumes, WriteDeprovisioned, WriteServicesDeprovisioned, SelectTargets, ApplyAction,
         WriteServices, WriteDeployment
  <2>4. QED
    BY <2>1, <2>2, <2>3
<1>3. \A d \in Call \ {c} : /\ pc'[d] = pc[d] /\ request'[d] = request[d]
                           /\ todo'[d] = todo[d] /\ again'[d] = again[d]
  BY DEF IInv, TypeOK, Control, Timeout, Begin, ListContainers, RemoveContainer, RemoveNetwork,
         RemoveVolumes, WriteDeprovisioned, WriteServicesDeprovisioned, SelectTargets, ApplyAction,
         WriteServices, WriteDeployment, Do
<1>4. ASSUME NEW s \in Service
      PROVE  /\ s \notin Targets(request[c]) => cont'[s] = cont[s] /\ svc'[s] = svc[s]
             /\ svc[s] # "none" => svc'[s] # "none"
  <2> /\ cont \in [Service -> {"none", "created", "up", "down", "gone"}]
      /\ request[c] \in Requests
    BY DEF IInv, TypeOK
  <2>1. CASE RemoveContainer(c)
    <3>1. Targets(request[c]) = Service /\ svc' = svc
      BY <2>1 DEF RemoveContainer, PlaceInv, Targets, rows
    <3>2. QED
      BY <3>1
  <2>2. CASE WriteServicesDeprovisioned(c)
    <3>1. Targets(request[c]) = Service
      BY <2>2 DEF WriteServicesDeprovisioned, Do, PlaceInv, Targets
    <3>2. svc' = svc \/ svc' = [t \in Service |-> IF svc[t] = "none" THEN "none" ELSE "deprovisioned"]
      BY <2>2 DEF WriteServicesDeprovisioned, Do
    <3>3. QED
      BY <3>1, <3>2
  <2>3. CASE ApplyAction(c)
    <3>1. svc' = svc
      BY <2>3 DEF ApplyAction, rows
    <3>2. PICK t \in todo[c] : cont' \in {cont, Applied("start", t), Applied("stop", t)}
      BY <2>3 DEF ApplyAction
    <3>3. t \in Targets(request[c])
      BY <2>3 DEF ApplyAction, PlaceInv
    <3>4. QED
      BY <3>1, <3>2, <3>3 DEF Applied
  <2>4. CASE WriteServices(c)
    <3>1. cont' = cont
      BY <2>4 DEF WriteServices, things
    <3>2. svc' = svc \/ svc' = [t \in Service |-> IF t \in RowsOf(request[c]) THEN NewStatus(request[c])
                                                 ELSE svc[t]]
      BY <2>4 DEF WriteServices
    <3>3. s \in RowsOf(request[c]) => s \in Targets(request[c])
      BY DEF RowsOf, Matches, Targets, Requests
    <3>4. NewStatus(request[c]) # "none"
      BY DEF NewStatus
    <3>5. CASE svc' = svc
      BY <3>1, <3>5
    <3>6. CASE svc' = [t \in Service |-> IF t \in RowsOf(request[c]) THEN NewStatus(request[c])
                                        ELSE svc[t]]
      BY <3>1, <3>3, <3>4, <3>6
    <3>7. QED
      BY <3>2, <3>5, <3>6
  <2>5. CASE ~(RemoveContainer(c) \/ WriteServicesDeprovisioned(c) \/ ApplyAction(c) \/ WriteServices(c))
    <3>1. cont' = cont /\ svc' = svc
      BY <2>5 DEF Control, Timeout, Begin, ListContainers, RemoveNetwork, RemoveVolumes,
         WriteDeprovisioned, SelectTargets, WriteDeployment, rows, things
    <3>2. QED
      BY <3>1
  <2>6. QED
    BY <2>1, <2>2, <2>3, <2>4, <2>5
<1>5. QED
  BY <1>1, <1>2, <1>3, <1>4

LEMMA ControlPlaces ==
  ASSUME IInv, PlaceInv, NEW c \in Call, Control(c) \/ Timeout(c)
  PROVE  PlaceInv'
<1> USE DEF Fine, Fault, Step, BreakOff
<1> /\ pc \in [Call -> {"idle", "list", "remove", "volumes", "row", "rows", "select",
                         "apply", "flip", "done"}]
    /\ todo \in [Call -> SUBSET Service] /\ request \in [Call -> Requests]
  BY DEF IInv, TypeOK
<1>1. \A d \in Call \ {c} : pc'[d] = pc[d] /\ request'[d] = request[d] /\ todo'[d] = todo[d]
  BY ControlFrame
<1> SUFFICES
      /\ pc'[c] \in {"list", "remove", "volumes", "row", "rows"} => request'[c].action = "deprovision"
      /\ pc'[c] \in {"select", "apply", "flip"} => request'[c].action # "deprovision"
      /\ pc'[c] = "apply" => todo'[c] \subseteq Targets(request'[c])
  BY <1>1 DEF PlaceInv, Targets
<1>2. CASE Begin(c)
  BY <1>2 DEF Begin
<1>3. CASE ListContainers(c) \/ RemoveNetwork(c) \/ RemoveVolumes(c)
           \/ WriteDeprovisioned(c) \/ WriteServicesDeprovisioned(c) \/ WriteDeployment(c) \/ Timeout(c)
  BY <1>3 DEF ListContainers, RemoveNetwork, RemoveVolumes, WriteDeprovisioned,
              WriteServicesDeprovisioned, WriteDeployment, Timeout, Do, PlaceInv
<1>4. CASE RemoveContainer(c)
  BY <1>4 DEF RemoveContainer, PlaceInv
<1>5. CASE SelectTargets(c)
  <2>1. \A s \in Matches(request[c]) : s \in Targets(request[c])
    BY DEF Matches, Targets, Requests
  <2>2. /\ request' = request /\ pc[c] = "select"
        /\ pc'[c] \in {"apply", "done"}
        /\ pc'[c] = "apply" => todo'[c] = {s \in Matches(request[c]) : cid[s]}
    BY <1>5 DEF SelectTargets, Do
  <2>3. QED
    BY <2>1, <2>2 DEF PlaceInv
<1>6. CASE ApplyAction(c)
  <2>1. /\ request' = request /\ pc[c] = "apply" /\ pc'[c] \in {"apply", "done"}
        /\ todo'[c] \subseteq todo[c]
    BY <1>6 DEF ApplyAction
  <2>2. QED
    BY <2>1 DEF PlaceInv
<1>7. CASE WriteServices(c)
  BY <1>7 DEF WriteServices, PlaceInv
<1>8. QED
  BY <1>2, <1>3, <1>4, <1>5, <1>6, <1>7 DEF Control

LEMMA ControlOverlaps ==
  ASSUME IInv, RowsInv, NEW c \in Call, Control(c) \/ Timeout(c)
  PROVE  OverlapInv'
<1> USE DEF Fine, Fault, Step, BreakOff
<1> /\ pc \in [Call -> {"idle", "list", "remove", "volumes", "row", "rows", "select",
                         "apply", "flip", "done"}]
    /\ request \in [Call -> Requests]
  BY DEF IInv, TypeOK
<1>1. /\ job' = job /\ exposed \subseteq exposed'
      /\ \A d \in Call \ {c} : pc'[d] = pc[d] /\ request'[d] = request[d]
      /\ request' = request \/ Begin(c)
  BY ControlFrame DEF RowsInv, jobVars
<1>2. \A d \in Call \ {c} : /\ Active(d)' <=> Active(d)
                           /\ Targets(request[d])' = Targets(request[d])
  BY <1>1 DEF Active, Targets
<1>3. CASE Begin(c)
  <2>1. PICK r \in Requests :
          /\ request' = [request EXCEPT ![c] = r]
          /\ exposed' = exposed \cup
               (IF job # "done" THEN Targets(r)
                ELSE Targets(r) \cap UNION {Targets(request[d]) : d \in {e \in Call : Active(e)}})
    BY <1>3 DEF Begin
  <2>2. Targets(request[c])' = Targets(r)
    BY <2>1 DEF Targets
  <2>3. job # "done" => Targets(r) \subseteq exposed'
    BY <2>1
  <2>4. \A d \in Call \ {c} : Active(d) => Targets(r) \cap Targets(request[d]) \subseteq exposed'
    BY <2>1
  <2>5. QED
    BY <1>1, <1>2, <2>2, <2>3, <2>4 DEF RowsInv, OverlapInv
<1>4. CASE ~Begin(c)
  <2>0. request' = request
    BY <1>1, <1>4
  <2>1. \A d \in Call : Targets(request[d])' = Targets(request[d])
    BY <2>0 DEF Targets
  <2>2. Active(c)' => Active(c)
    BY <1>4 DEF Active, Control, Timeout, ListContainers, RemoveContainer, RemoveNetwork,
         RemoveVolumes, WriteDeprovisioned, WriteServicesDeprovisioned, SelectTargets, ApplyAction,
         WriteServices, WriteDeployment, Do
  <2>3. QED
    BY <1>1, <1>2, <2>1, <2>2 DEF RowsInv, OverlapInv
<1>5. QED
  BY <1>3, <1>4

(* A step of a request keeps the container of a service it is about where    *)
(* the request or the row has it, or exposes it.                             *)
LEMMA ControlFits ==
  ASSUME IInv, RowsInv, NEW c \in Call, Control(c) \/ Timeout(c),
         NEW s \in Service, cid[s], s \notin exposed', About(c, s), CallFits(c, s),
         cont[s] \in {"up", "down", "gone"}
  PROVE  /\ cont'[s] \in {"up", "down", "gone"}
         /\ IF Active(c)' THEN CallFits(c, s)' ELSE Agrees(s)'
<1> USE DEF Fine, Fault, Step
<1> /\ pc \in [Call -> {"idle", "list", "remove", "volumes", "row", "rows", "select",
                         "apply", "flip", "done"}]
    /\ todo \in [Call -> SUBSET Service] /\ again \in [Call -> SUBSET Service]
    /\ request \in [Call -> Requests] /\ svc \in [Service -> SvcStatus]
    /\ cont \in [Service -> {"none", "created", "up", "down", "gone"}]
  BY DEF IInv, TypeOK
<1>1. ~BreakOff(c) /\ pc[c] \notin {"idle", "done"} /\ s \in Targets(request[c])
  BY DEF About, Active, BreakOff
<1>2. request[c] \in Requests /\ request' = request /\ (leftover => leftover')
  BY <1>1, ControlFrame DEF RowsInv, Begin
<1>3. PlaceInv
  BY DEF RowsInv
<1>4. svc[s] # "none"
  BY DEF RowsInv, WorkerInv
<1>5. CASE ListContainers(c)
  <2>1. /\ pc[c] = "list" /\ pc' = [pc EXCEPT ![c] = "remove"] /\ cont' = cont
        /\ todo'[c] = LabelledContainers
    BY <1>1, <1>5 DEF ListContainers, Do, things
  <2>2. QED
    BY <2>1 DEF LabelledContainers, Exists, CallFits, Active
<1>6. CASE RemoveContainer(c)
  <2>1. PICK t \in todo[c] :
          /\ pc[c] = "remove" /\ pc' = pc /\ todo' = [todo EXCEPT ![c] = @ \ {t}]
          /\ cont' = [cont EXCEPT ![t] = "gone"] \/ (cont' = cont /\ leftover')
    BY <1>6 DEF RemoveContainer
  <2>2. s \in todo[c] \/ cont[s] = "gone" \/ leftover
    BY <2>1 DEF CallFits
  <2>3. s \in todo'[c] \/ cont'[s] = "gone" \/ leftover'
    BY <1>2, <2>1, <2>2
  <2>4. cont'[s] \in {"up", "down", "gone"}
    BY <2>1
  <2>5. QED
    BY <2>1, <2>3, <2>4 DEF CallFits, Active
<1>7. CASE RemoveNetwork(c)
  <2>1. /\ pc[c] = "remove" /\ todo[c] = {} /\ cont' = cont
        /\ pc'[c] \in {"volumes", "row"}
    BY <1>7 DEF RemoveNetwork
  <2>2. QED
    BY <1>2, <2>1 DEF CallFits, Active
<1>8. CASE RemoveVolumes(c) \/ WriteDeprovisioned(c)
  <2>1. pc[c] \in {"volumes", "row"} /\ pc'[c] \in {"row", "rows"} /\ cont' = cont
    BY <1>1, <1>8 DEF RemoveVolumes, WriteDeprovisioned, Do, things
  <2>2. QED
    BY <1>2, <2>1 DEF CallFits, Active
<1>9. CASE WriteServicesDeprovisioned(c)
  <2>1. /\ pc[c] = "rows" /\ pc'[c] = "done" /\ cont' = cont
        /\ svc' = [t \in Service |-> IF svc[t] = "none" THEN "none" ELSE "deprovisioned"]
    BY <1>1, <1>9 DEF WriteServicesDeprovisioned, Do, things
  <2>2. svc'[s] = "deprovisioned"
    BY <1>4, <2>1
  <2>3. QED
    BY <1>2, <2>1, <2>2 DEF CallFits, Active, Agrees
<1>10. CASE SelectTargets(c)
  <2>1. /\ pc[c] = "select" /\ cont' = cont /\ svc' = svc
        /\ \/ pc'[c] = "apply" /\ todo'[c] = {t \in Matches(request[c]) : cid[t]}
           \/ pc'[c] = "done"
    BY <1>1, <1>10 DEF SelectTargets, Do, rows, things
  <2>2. s \in Matches(request[c])
    BY <1>1, <1>2, <1>3, <1>4, <2>1 DEF PlaceInv, Targets, Matches
  <2>3. QED
    BY <1>2, <2>1, <2>2 DEF CallFits, Active, Agrees
<1>11. CASE ApplyAction(c)
  <2>1. pc[c] = "apply" /\ svc' = svc /\ request[c].action # "deprovision"
    BY <1>3, <1>11 DEF ApplyAction, rows, PlaceInv
  <2>2. PICK t \in todo[c] :
     \/ /\ again[c] = {} /\ again' = [again EXCEPT ![c] = {t}]
        /\ cont' \in {cont, Applied("stop", t)}
        /\ UNCHANGED <<pc, todo>>
     \/ LET action == IF request[c].action = "stop" THEN "stop" ELSE "start" IN
        /\ again[c] = IF request[c].action = "restart" THEN {t} ELSE {}
        /\ again' = [again EXCEPT ![c] = {}]
        /\ \/ /\ Possible(action, t) /\ cont' = Applied(action, t)
              /\ todo' = [todo EXCEPT ![c] = @ \ {t}] /\ UNCHANGED pc
           \/ /\ pc' = [pc EXCEPT ![c] = "done"] /\ exposed' = exposed \cup Touched(c)
              /\ UNCHANGED cont
    BY <1>1, <1>11 DEF ApplyAction
  <2>3. t \in Service
    BY <2>2
  <2>4. CASE /\ again[c] = {} /\ again' = [again EXCEPT ![c] = {t}]
             /\ cont' \in {cont, Applied("stop", t)} /\ UNCHANGED <<pc, todo>>
    <3>1. Active(c)' /\ pc'[c] = "apply" /\ todo'[c] = todo[c] /\ again'[c] = {t}
      BY <2>1, <2>4 DEF Active
    <3>2. cont'[s] \in {"up", "down", "gone"} /\ (s # t => cont'[s] = cont[s])
      BY <2>3, <2>4 DEF Applied
    <3>3. CASE s = t
      BY <1>2, <3>1, <3>2, <3>3 DEF CallFits
    <3>4. CASE s # t
      <4>1. again[c] # {s}
        BY <2>4
      <4>2. QED
        BY <1>2, <2>1, <3>1, <3>2, <3>4, <4>1 DEF CallFits, Agrees
    <3>5. QED
      BY <3>3, <3>4
  <2>5. CASE /\ again[c] = (IF request[c].action = "restart" THEN {t} ELSE {})
             /\ again' = [again EXCEPT ![c] = {}]
             /\ Possible(IF request[c].action = "stop" THEN "stop" ELSE "start", t)
             /\ cont' = Applied(IF request[c].action = "stop" THEN "stop" ELSE "start", t)
             /\ todo' = [todo EXCEPT ![c] = @ \ {t}] /\ UNCHANGED pc
    <3>1. Active(c)' /\ pc'[c] = "apply" /\ todo'[c] = todo[c] \ {t}
      BY <2>1, <2>5 DEF Active
    <3>2. CASE s = t
      <4>1. cont[s] # "gone"
        BY <2>5, <3>2 DEF Possible, Startable, Exists
      <4>2. cont'[s] = IF request[c].action = "stop" THEN "down" ELSE "up"
        BY <2>5, <3>2, <4>1 DEF Applied
      <4>3. QED
        BY <1>2, <3>1, <3>2, <4>2 DEF CallFits
    <3>3. CASE s # t
      <4>1. cont'[s] = cont[s] /\ again[c] # {s}
        BY <2>3, <2>5, <3>3 DEF Applied
      <4>2. QED
        BY <1>2, <2>1, <3>1, <3>3, <4>1 DEF CallFits, Agrees
    <3>4. QED
      BY <3>2, <3>3
  <2>6. CASE /\ pc' = [pc EXCEPT ![c] = "done"] /\ exposed' = exposed \cup Touched(c)
             /\ UNCHANGED cont
    <3>1. s \in todo[c] /\ s \notin again[c]
      BY <1>1, <2>6 DEF Touched
    <3>2. Agrees(s)
      BY <2>1, <3>1 DEF CallFits
    <3>3. QED
      BY <1>2, <2>1, <2>6, <3>2 DEF Agrees, Active
  <2>7. QED
    BY <2>2, <2>4, <2>5, <2>6
<1>12. CASE WriteServices(c)
  <2>1. /\ pc[c] = "apply" /\ todo[c] = {} /\ cont' = cont /\ pc'[c] \in {"flip", "done"}
        /\ svc' = [t \in Service |-> IF t \in RowsOf(request[c]) THEN NewStatus(request[c]) ELSE svc[t]]
    BY <1>1, <1>12 DEF WriteServices, things
  <2>2. s \in RowsOf(request[c])
    BY <1>1, <1>2, <1>3, <1>4, <2>1 DEF PlaceInv, Targets, RowsOf, Matches
  <2>3. svc'[s] = NewStatus(request[c])
    BY <2>1, <2>2
  <2>4. cont[s] = IF request[c].action = "stop" THEN "down" ELSE "up"
    BY <2>1 DEF CallFits
  <2>5. Agrees(s)'
    BY <2>1, <2>3, <2>4 DEF Agrees, NewStatus
  <2>6. QED
    BY <2>1, <2>5 DEF CallFits
<1>13. CASE WriteDeployment(c)
  <2>1. pc[c] = "flip" /\ pc'[c] = "done" /\ cont' = cont /\ svc' = svc
    BY <1>1, <1>13 DEF WriteDeployment, Do, things
  <2>2. QED
    BY <1>2, <2>1 DEF CallFits, Active, Agrees
<1>14. QED
  BY <1>1, <1>5, <1>6, <1>7, <1>8, <1>9, <1>10, <1>11, <1>12, <1>13
  DEF Control, Timeout, Begin

LEMMA ControlKeepsRows ==
  ASSUME IInv, RowsInv, NEW c \in Call, Control(c) \/ Timeout(c)
  PROVE  RowsInv'
<1>1. PlaceInv' /\ OverlapInv'
  BY ControlPlaces, ControlOverlaps DEF RowsInv
<1>2. /\ UNCHANGED <<provider, cid, job, pos>>
      /\ exposed \subseteq exposed' /\ (leftover => leftover')
      /\ \A d \in Call \ {c} : /\ pc'[d] = pc[d] /\ request'[d] = request[d]
                              /\ todo'[d] = todo[d] /\ again'[d] = again[d]
      /\ request' = request \/ Begin(c)
      /\ \A s \in Service :
           /\ s \notin Targets(request[c]) => cont'[s] = cont[s] /\ svc'[s] = svc[s]
           /\ svc[s] # "none" => svc'[s] # "none"
  BY ControlFrame DEF RowsInv, jobVars
<1>3. ASSUME NEW s \in Service, ~About(c, s)
      PROVE  cont'[s] = cont[s] /\ svc'[s] = svc[s]
  <2>1. CASE Active(c)
    BY <1>2, <1>3, <2>1 DEF About
  <2>2. CASE ~Active(c)
    <3>1. Begin(c)
      BY <2>2 DEF Control, Timeout, ListContainers, RemoveContainer, RemoveNetwork,
           RemoveVolumes, WriteDeprovisioned, WriteServicesDeprovisioned, SelectTargets, ApplyAction,
           WriteServices, WriteDeployment, Do, Active
    <3>2. QED
      BY <3>1 DEF Begin, rows, things
  <2>3. QED
    BY <2>1, <2>2
<1>4. WorkerInv'
  <2>1. \A s \in Service : job # "done" /\ s \notin exposed => cont'[s] = cont[s]
    BY <1>3 DEF RowsInv, OverlapInv, About
  <2>2. \A i \in 1..Len(Order) : Order[i] \in Service
    BY InHand DEF IInv
  <2>3. QED
    BY <1>2, <2>1, <2>2 DEF RowsInv, WorkerInv
<1>5. ASSUME NEW s \in Service
      PROVE  RowFits(s)'
  <2> SUFFICES ASSUME cid[s], s \notin exposed'
               PROVE  /\ cont'[s] \in {"up", "down", "gone"}
                      /\ (\A d \in Call : ~About(d, s)') => Agrees(s)'
                      /\ \A d \in Call : About(d, s)' => CallFits(d, s)'
    BY <1>2 DEF RowFits
  <2>1. /\ s \notin exposed /\ cont[s] \in {"up", "down", "gone"}
        /\ (\A d \in Call : ~About(d, s)) => Agrees(s)
        /\ \A d \in Call : About(d, s) => CallFits(d, s)
    BY <1>2 DEF RowsInv, RowFits
  <2>2. \A d \in Call \ {c} : About(d, s)' <=> About(d, s)
    BY <1>2 DEF About, Active, Targets
  <2>3. CASE About(c, s)
    <3>1. /\ cont'[s] \in {"up", "down", "gone"}
          /\ IF Active(c)' THEN CallFits(c, s)' ELSE Agrees(s)'
      BY <2>1, <2>3, ControlFits
    <3>2. \A d \in Call \ {c} : ~About(d, s)'
      BY <2>1, <2>2, <2>3 DEF RowsInv, OverlapInv, About
    <3>3. Active(c)' => About(c, s)'
      <4>1. request' = request
        BY <1>2, <2>3 DEF About, Active, Begin
      <4>2. QED
        BY <2>3, <4>1 DEF About, Targets
    <3>4. About(c, s)' => Active(c)'
      BY DEF About
    <3>5. QED
      BY <3>1, <3>2, <3>3, <3>4
  <2>4. CASE ~About(c, s)
    <3>1. cont'[s] = cont[s] /\ svc'[s] = svc[s]
      BY <1>3, <2>4
    <3>2. Agrees(s) => Agrees(s)'
      BY <1>2, <3>1 DEF Agrees
    <3>3. ASSUME NEW d \in Call \ {c}, About(d, s)'
          PROVE  CallFits(d, s)'
      <4>1. CallFits(d, s)
        BY <2>1, <2>2, <3>3
      <4>2. QED
        BY <1>2, <3>1, <3>2, <4>1 DEF CallFits
    <3>4. ASSUME About(c, s)'
          PROVE  Agrees(s) /\ CallFits(c, s)'
      <4>1. \A d \in Call \ {c} : ~About(d, s)'
        BY <1>1, <3>4 DEF OverlapInv, About
      <4>2. Agrees(s)
        BY <2>1, <2>2, <2>4, <4>1
      <4>3. Begin(c)
        <5>1. Active(c)' => Active(c) \/ Begin(c)
          BY DEF Active, Control, Timeout, ListContainers, RemoveContainer, RemoveNetwork,
           RemoveVolumes, WriteDeprovisioned, WriteServicesDeprovisioned, SelectTargets, ApplyAction,
           WriteServices, WriteDeployment, Do
        <5>2. Active(c) => request' = request
          BY <1>2 DEF Active, Begin
        <5>3. QED
          BY <2>4, <3>4, <5>1, <5>2 DEF About, Targets
      <4>4. pc'[c] \in {"list", "select"}
        BY <4>3 DEF Begin, Step, IInv, TypeOK
      <4>5. QED
        BY <3>2, <4>2, <4>4 DEF CallFits
    <3>5. (\A d \in Call : ~About(d, s)') => Agrees(s)'
      BY <2>1, <2>2, <2>4, <3>2
    <3>6. QED
      BY <2>1, <3>1, <3>3, <3>4, <3>5
  <2>5. QED
    BY <2>3, <2>4
<1>6. QED
  BY <1>1, <1>4, <1>5 DEF RowsInv

LEMMA CrashKeepsRows ==
  ASSUME IInv, RowsInv, Crash
  PROVE  RowsInv'
<1>1. /\ job' = "done" /\ UNCHANGED <<provider, svc, cid, cont, leftover, request, todo>>
      /\ \A c \in Call : ~Active(c)'
      /\ \A c \in Call : pc'[c] \in {pc[c], "done"}
      /\ exposed \subseteq exposed'
      /\ \A c \in Call : Active(c) => Targets(request[c]) \subseteq exposed'
  BY DEF Crash, Go, Active, rows, things
<1>2. PlaceInv'
  <2>1. \A c \in Call : Targets(request[c])' = Targets(request[c])
    BY <1>1 DEF Targets
  <2>2. QED
    BY <1>1, <2>1 DEF RowsInv, PlaceInv
<1>3. OverlapInv' /\ WorkerInv'
  BY <1>1 DEF RowsInv, OverlapInv, WorkerInv
<1>4. ASSUME NEW s \in Service
      PROVE  RowFits(s)'
  <2>1. s \notin exposed' => s \notin exposed /\ \A c \in Call : ~About(c, s)
    BY <1>1 DEF About
  <2>2. \A c \in Call : ~About(c, s)'
    BY <1>1 DEF About
  <2>3. QED
    BY <1>1, <2>1, <2>2 DEF RowsInv, RowFits, Agrees
<1>5. QED
  BY <1>2, <1>3, <1>4 DEF RowsInv

(* Where every request, the worker and every recorded container stand. *)
THEOREM RowsInductive == Spec => []RowsInv
<1>1. ASSUME IInv, RowsInv, [Next]_vars
      PROVE  RowsInv'
  <2>1. CASE InsertDeployment \/ Deploy
    BY <1>1, <2>1, DeployKeepsRows
  <2>2. CASE \E c \in Call : Control(c) \/ Timeout(c)
    BY <1>1, <2>2, ControlKeepsRows
  <2>3. CASE Crash
    BY <1>1, <2>3, CrashKeepsRows
  <2>4. CASE UNCHANGED vars
    BY <1>1, <2>4
    DEF RowsInv, PlaceInv, OverlapInv, WorkerInv, RowFits, About, CallFits, Agrees, Active, Targets,
        vars, rows, things, jobVars, callVars, history
  <2>5. QED
    BY <1>1, <2>1, <2>2, <2>3, <2>4 DEF Next
<1>2. QED
  BY RowsInit, Inductive, <1>1, PTL DEF Spec

(* The rows tell what the containers do once nothing is in flight, after any *)
(* number of requests, unless one about the service overlapped another or    *)
(* the worker, or ended half way (app_control).                              *)
THEOREM RowsAlwaysMatch == Spec => []RowsMatchContainers
<1>1. RowsInv => RowsMatchContainers
  BY DEF RowsInv, RowFits, About, Agrees, RowsMatchContainers
<1>2. QED
  BY <1>1, RowsInductive, PTL

=============================================================================
