--------------------------- MODULE AppOrchestrator ---------------------------
(* One deployment of an app (services/app_orchestrator.rs with              *)
(* provisioning/app_deploy.rs): deploy_app records it and provisions it in   *)
(* the background, app_control operates on it meanwhile. Docker and ECS are  *)
(* external: a call fails, succeeds, or succeeds with its answer lost.       *)
EXTENDS Integers, Sequences, FiniteSets

CONSTANTS
  Service,         \* the services of the AppSpec
  DependsOn,       \* depends_on of each
  Order,           \* what startup_order makes of it
  Call,            \* requests to app_control
  All,             \* the target of a request that names no service
  Providers,       \* subset of {"docker", "ecs"}
  FaultBudget      \* bound on failing calls and statements, timeouts, crashes

ASSUME ServiceAssumption ==
  /\ IsFiniteSet(Service) /\ All \notin Service
  /\ DependsOn \in [Service -> SUBSET Service]
ASSUME OrderAssumption ==
  /\ Order \in Seq(Service) /\ Len(Order) > 0
  /\ \A s \in Service : \E i \in 1..Len(Order) : Order[i] = s
  /\ \A i, j \in 1..Len(Order) :
       /\ Order[i] = Order[j] => i = j
       /\ Order[i] \in DependsOn[Order[j]] => i < j
ASSUME BudgetAssumption == Providers \subseteq {"docker", "ecs"} /\ FaultBudget \in Nat

VARIABLES
  provider, dep,   \* app_deployments: provider, status
  svc, cid,        \* app_services: status, whether container_id is recorded
  cont,            \* the container of each service
  network, volume, \* the app's Docker network and named volumes
  ecs,             \* the ECS service that runs the app's task
  job, pos,        \* deploy_app and its worker: place, service in Order
  pc, request,     \* each app_control: place, arguments
  todo, again,     \* containers it has still to act on, to start again
  exposed,         \* history: services of calls that overlapped or ended half way
  leftover,        \* history: a teardown overlapped the worker or failed to remove
  lost,            \* history: the outcome of the deploy was not recorded
  faults

rows == <<provider, dep, svc, cid>>
things == <<cont, network, volume, ecs>>
jobVars == <<job, pos>>
callVars == <<pc, request, todo, again>>
history == <<exposed, leftover, lost>>
vars == <<rows, things, jobVars, callVars, history, faults>>

DepStatus == {"none", "provisioning", "running", "stopped", "error", "deprovisioned"}
SvcStatus == {"none", "provisioning", "running", "stopped", "deprovisioned"}
Requests == [action : {"start", "stop", "restart"}, only : Service \cup {All}, destroy : {FALSE}]
            \cup [action : {"deprovision"}, only : Service \cup {All}, destroy : BOOLEAN]

Init ==
  /\ provider \in Providers /\ dep = "none"
  /\ svc = [s \in Service |-> "none"] /\ cid = [s \in Service |-> FALSE]
  /\ cont = [s \in Service |-> "none"]
  /\ network = FALSE /\ volume = FALSE /\ ecs = FALSE
  /\ job = "insert" /\ pos = 1
  /\ pc = [c \in Call |-> "idle"]
  /\ request = [c \in Call |-> [action |-> "start", only |-> All, destroy |-> FALSE]]
  /\ todo = [c \in Call |-> {}] /\ again = [c \in Call |-> {}]
  /\ exposed = {} /\ leftover = FALSE /\ lost = FALSE
  /\ faults = 0

Fine == UNCHANGED faults
Fault == faults < FaultBudget /\ faults' = faults + 1

Exists(s) == cont[s] \in {"created", "up", "down"}
Active(c) == pc[c] \notin {"idle", "done"}

-----------------------------------------------------------------------------
(* deploy_app: the rows, then the worker (run_provision, run_provision_aws). *)

Go(place) == job' = place /\ UNCHANGED pos

\* The handler returns an error, or is dropped, before it spawns the worker.
NotSpawned == Fault /\ Go("done") /\ lost' = TRUE

InsertDeployment ==
  /\ job = "insert"
  /\ \/ Fine /\ dep' = "provisioning" /\ Go("services") /\ UNCHANGED lost
     \/ NotSpawned /\ UNCHANGED dep
  /\ UNCHANGED <<provider, svc, cid, things, callVars, exposed, leftover>>

InsertServices ==
  /\ job = "services"
  /\ \/ \E s \in Service :
          /\ svc[s] = "none" /\ svc' = [svc EXCEPT ![s] = "provisioning"]
          /\ Fine /\ UNCHANGED <<jobVars, lost>>
     \/ /\ \A s \in Service : svc[s] # "none"
        /\ Go(IF provider = "docker" THEN "network" ELSE "register")
        /\ Fine /\ UNCHANGED <<svc, lost>>
     \/ NotSpawned /\ UNCHANGED svc
  /\ UNCHANGED <<provider, dep, cid, things, callVars, exposed, leftover>>

\* A call of the worker: it goes on, or to the failure, with or without effect.
Provision(place, effect, unchanged, next) ==
  /\ job = place
  /\ \/ Fine /\ effect /\ next
     \/ Fault /\ (effect \/ unchanged) /\ Go("fail")

CreateNetwork ==
  /\ Provision("network", network' = TRUE, network' = network, Go("volumes"))
  /\ UNCHANGED <<rows, cont, volume, ecs, callVars, history>>

CreateVolumes ==
  /\ Provision("volumes", volume' = TRUE, volume' = volume, Go("create"))
  /\ UNCHANGED <<rows, cont, network, ecs, callVars, history>>

\* Mutant: services are taken in an order of their own.
CurrentReversed == Order[Len(Order) + 1 - pos]

Current == Order[pos]

\* create_container, with the service's image at hand; Docker makes a volume
\* it does not find.
CreateContainer ==
  LET s == Current IN
  /\ Provision("create", cont' = [cont EXCEPT ![s] = "created"] /\ volume' = TRUE,
               UNCHANGED <<cont, volume>>, Go("start"))
  /\ UNCHANGED <<rows, network, ecs, callVars, history>>

\* Mutant: the loop runs one service too far.
AdvanceTooFar == IF pos <= Len(Order) THEN job' = "create" /\ pos' = pos + 1
                                      ELSE job' = "record" /\ pos' = 1

Advance == IF pos < Len(Order) THEN job' = "create" /\ pos' = pos + 1
                               ELSE job' = "record" /\ pos' = 1

StartContainer ==
  LET s == Current IN
  /\ \/ /\ cont[s] = "created" /\ network
        /\ Provision("start", cont' = [cont EXCEPT ![s] = "up"], cont' = cont, Advance)
     \/ /\ job = "start" /\ ~(cont[s] = "created" /\ network)
        /\ Go("fail") /\ Fine /\ UNCHANGED cont
  /\ UNCHANGED <<rows, network, volume, ecs, callVars, history>>

\* On AWS all services become containers of one task definition; one that no
\* service runs is not kept track of.
RegisterTaskDefinition ==
  /\ Provision("register", TRUE, TRUE, Go("service"))
  /\ UNCHANGED <<rows, things, callVars, history>>

\* The ECS service with the app's name is updated or created.
DeployService ==
  /\ Provision("service", ecs' = TRUE, ecs' = ecs, Go("finish"))
  /\ UNCHANGED <<rows, cont, network, volume, callVars, history>>

\* One UPDATE per container; its failure is ignored.
RecordContainer ==
  LET s == Current IN
  /\ job = "record"
  /\ \/ Fine /\ cid' = [cid EXCEPT ![s] = TRUE] /\ svc' = [svc EXCEPT ![s] = "running"]
     \/ Fault /\ UNCHANGED <<cid, svc>>
  /\ IF pos < Len(Order) THEN job' = "record" /\ pos' = pos + 1
                         ELSE job' = "finish" /\ pos' = 1
  /\ UNCHANGED <<provider, dep, things, callVars, history>>

\* Mutant: a failed deploy leaves no trace in the row.
RecordSuccess(status) ==
  /\ Fine /\ UNCHANGED lost
  /\ dep' = IF status = "error" THEN dep ELSE status

\* The outcome in the deployment's row; its failure is ignored.
RecordOutcome(status) ==
  \/ Fine /\ dep' = status /\ UNCHANGED lost
  \/ Fault /\ lost' = TRUE /\ UNCHANGED dep

Finish ==
  /\ job = "finish" /\ RecordOutcome("running")
  /\ Go(IF provider = "docker" THEN "done" ELSE "services_up")
  /\ UNCHANGED <<provider, svc, cid, things, callVars, exposed, leftover>>

\* On AWS the services' rows follow the deployment's.
ServicesUp ==
  /\ job = "services_up" /\ Go("done")
  /\ \/ Fine /\ svc' = [s \in Service |-> "running"]
     \/ Fault /\ UNCHANGED svc
  /\ UNCHANGED <<provider, dep, cid, things, callVars, history>>

Fail ==
  /\ job = "fail" /\ RecordOutcome("error") /\ Go("done")
  /\ UNCHANGED <<provider, svc, cid, things, callVars, exposed, leftover>>

RunProvision ==
  CreateNetwork \/ CreateVolumes \/ CreateContainer \/ StartContainer \/ RecordContainer

RunProvisionAws == RegisterTaskDefinition \/ DeployService \/ ServicesUp

\* The worker runs on from where the rows are in, and ends in either outcome.
Deploy == InsertServices \/ RunProvision \/ RunProvisionAws \/ Finish \/ Fail

-----------------------------------------------------------------------------
(* app_control.                                                              *)

Step(c, place) == pc' = [pc EXCEPT ![c] = place]

\* The services a request is about; a deprovision is about all of them.
Targets(r) == IF r.only = All \/ r.action = "deprovision" THEN Service ELSE {r.only}

\* Services whose row the statements of a request touch.
Matches(r) == {s \in Service : svc[s] # "none" /\ r.only \in {All, s}}

\* A call returns an error: its targets are where it left them.
BreakOff(c) ==
  /\ Fault /\ Step(c, "done")
  /\ exposed' = exposed \cup Targets(request[c])

\* Statement or call of a request: it takes effect, or ends the request.
Do(c, place, next, effect, unchanged) ==
  /\ pc[c] = place
  /\ \/ Fine /\ effect /\ Step(c, next) /\ UNCHANGED exposed
     \/ (effect \/ unchanged) /\ BreakOff(c)

\* Any tenant may ask for anything in any state; only the row has to exist.
Begin(c) ==
  /\ pc[c] = "idle" /\ dep # "none"
  /\ \E r \in Requests :
       LET others == {d \in Call : Active(d)}
           shared == IF job # "done" THEN Targets(r)
                     ELSE Targets(r) \cap UNION {Targets(request[d]) : d \in others}
       IN  /\ request' = [request EXCEPT ![c] = r]
           /\ Step(c, IF r.action = "deprovision" THEN "list" ELSE "select")
           /\ exposed' = exposed \cup shared
  /\ UNCHANGED <<rows, things, jobVars, todo, again, leftover, lost, faults>>

\* Mutant: teardown goes by the recorded containers, not by their label.
RecordedContainers == {s \in Service : Exists(s) /\ cid[s]}

LabelledContainers == {s \in Service : Exists(s)}

ListContainers(c) ==
  /\ Do(c, "list", "remove", todo' = [todo EXCEPT ![c] = LabelledContainers], todo' = todo)
  /\ leftover' = (leftover \/ job # "done")
  /\ UNCHANGED <<rows, things, jobVars, request, again, lost>>

\* remove_container with force; its failure is ignored.
RemoveContainer(c) ==
  /\ pc[c] = "remove"
  /\ \E s \in todo[c] :
       /\ todo' = [todo EXCEPT ![c] = @ \ {s}]
       /\ \/ Fine /\ cont' = [cont EXCEPT ![s] = "gone"] /\ UNCHANGED leftover
          \/ Fault /\ leftover' = TRUE /\ UNCHANGED cont
  /\ UNCHANGED <<rows, network, volume, ecs, jobVars, pc, request, again, exposed, lost>>

\* Docker keeps a network that a running container uses; the error is ignored.
RemoveNetwork(c) ==
  /\ pc[c] = "remove" /\ todo[c] = {}
  /\ \/ /\ network' = (network /\ \E s \in Service : cont[s] = "up")
        /\ Fine /\ UNCHANGED leftover
     \/ Fault /\ leftover' = TRUE /\ UNCHANGED network
  /\ Step(c, IF request[c].destroy THEN "volumes" ELSE "row")
  /\ UNCHANGED <<rows, cont, volume, ecs, jobVars, request, todo, again, exposed, lost>>

\* Only the listing can fail the request; Docker keeps a volume in use.
RemoveVolumes(c) ==
  /\ Do(c, "volumes", "row",
        volume' = (volume /\ \E s \in Service : Exists(s)), volume' = volume)
  /\ UNCHANGED <<rows, cont, network, ecs, jobVars, request, todo, again, leftover, lost>>

WriteDeprovisioned(c) ==
  /\ Do(c, "row", "rows", dep' = "deprovisioned", dep' = dep)
  /\ UNCHANGED <<provider, svc, cid, things, jobVars, request, todo, again, leftover, lost>>

WriteServicesDeprovisioned(c) ==
  /\ Do(c, "rows", "done",
        svc' = [s \in Service |-> IF svc[s] = "none" THEN "none" ELSE "deprovisioned"],
        svc' = svc)
  /\ UNCHANGED <<provider, dep, cid, things, jobVars, request, todo, again, leftover, lost>>

\* The containers the rows name; with no row at all the request ends.
SelectTargets(c) ==
  LET r == request[c] IN
  /\ \/ /\ Matches(r) # {}
        /\ Do(c, "select", "apply",
              todo' = [todo EXCEPT ![c] = {s \in Matches(r) : cid[s]}], todo' = todo)
     \/ /\ pc[c] = "select" /\ Matches(r) = {} /\ Step(c, "done")
        /\ Fine /\ UNCHANGED <<todo, exposed>>
  /\ UNCHANGED <<rows, things, jobVars, request, again, leftover, lost>>

\* A container that was removed, or whose network was, cannot be started.
Startable(s) == Exists(s) /\ (cont[s] = "up" \/ network)

\* What the Docker call of an action does to the container of s.
Applied(action, s) ==
  CASE action = "start" -> [cont EXCEPT ![s] = "up"]
    [] action = "stop"  -> [cont EXCEPT ![s] = IF @ = "up" THEN "down" ELSE @]

Possible(action, s) == IF action = "start" THEN Startable(s) ELSE Exists(s)

\* What a request that Docker refuses half way has acted on, its rows unwritten.
Touched(c) == (Targets(request[c]) \ todo[c]) \cup again[c]

\* start and stop; an error ends the request where it is, and a restart stops
\* the container whatever comes of it before it starts it.
ApplyAction(c) ==
  LET r == request[c] IN
  /\ pc[c] = "apply"
  /\ \E s \in todo[c] :
       \/ /\ r.action = "restart" /\ again[c] = {}
          /\ again' = [again EXCEPT ![c] = {s}]
          /\ \/ Fine /\ cont' = IF Exists(s) THEN Applied("stop", s) ELSE cont
             \/ Fault /\ UNCHANGED cont
          /\ UNCHANGED <<pc, todo, exposed>>
       \/ LET action == IF r.action = "stop" THEN "stop" ELSE "start" IN
          /\ again[c] = IF r.action = "restart" THEN {s} ELSE {}
          /\ again' = [again EXCEPT ![c] = {}]
          /\ \/ /\ Possible(action, s) /\ cont' = Applied(action, s)
                /\ todo' = [todo EXCEPT ![c] = @ \ {s}]
                /\ Fine /\ UNCHANGED <<pc, exposed>>
             \/ /\ Possible(action, s) /\ BreakOff(c) /\ cont' \in {cont, Applied(action, s)}
                /\ UNCHANGED todo
             \/ /\ ~Possible(action, s) /\ Step(c, "done")
                /\ exposed' = exposed \cup Touched(c)
                /\ Fine /\ UNCHANGED <<cont, todo>>
  /\ UNCHANGED <<rows, network, volume, ecs, jobVars, request, leftover, lost>>

NewStatus(r) == IF r.action = "stop" THEN "stopped" ELSE "running"

\* Mutant: the rows of all services follow a request about one.
RowsOfAll(r) == {s \in Service : svc[s] # "none"}

RowsOf(r) == Matches(r)

WriteServices(c) ==
  LET r == request[c] IN
  /\ pc[c] = "apply" /\ todo[c] = {}
  /\ \/ /\ svc' = [s \in Service |-> IF s \in RowsOf(r) THEN NewStatus(r) ELSE svc[s]]
        /\ \/ Fine /\ Step(c, IF r.only = All THEN "flip" ELSE "done") /\ UNCHANGED exposed
           \/ BreakOff(c)
     \/ BreakOff(c) /\ UNCHANGED svc
  /\ UNCHANGED <<provider, dep, cid, things, jobVars, request, todo, again, leftover, lost>>

\* Only a request about the whole app flips the deployment.
WriteDeployment(c) ==
  /\ Do(c, "flip", "done", dep' = NewStatus(request[c]), dep' = dep)
  /\ UNCHANGED <<provider, svc, cid, things, jobVars, request, todo, again, leftover, lost>>

Control(c) ==
  \/ Begin(c) \/ ListContainers(c) \/ RemoveContainer(c) \/ RemoveNetwork(c)
  \/ RemoveVolumes(c) \/ WriteDeprovisioned(c) \/ WriteServicesDeprovisioned(c)
  \/ SelectTargets(c) \/ ApplyAction(c) \/ WriteServices(c) \/ WriteDeployment(c)

-----------------------------------------------------------------------------
\* The timeout layer drops a request between two of its awaits.
Timeout(c) ==
  /\ Active(c) /\ BreakOff(c)
  /\ UNCHANGED <<rows, things, jobVars, request, todo, again, leftover, lost>>

\* The platform goes down with everything it was doing.
Crash ==
  /\ job # "done" \/ \E c \in Call : Active(c)
  /\ Fault /\ Go("done")
  /\ lost' = (lost \/ job # "done")
  /\ pc' = [c \in Call |-> IF Active(c) THEN "done" ELSE pc[c]]
  /\ exposed' = exposed \cup UNION {Targets(request[c]) : c \in {d \in Call : Active(d)}}
  /\ UNCHANGED <<rows, things, request, todo, again, leftover>>

Next ==
  \/ InsertDeployment \/ Deploy
  \/ \E c \in Call : Control(c) \/ Timeout(c)
  \/ Crash

Spec == Init /\ [][Next]_vars
FairSpec == Spec /\ WF_vars(Deploy)

-----------------------------------------------------------------------------
(* Properties.                                                               *)

(* Every variable has its type, and the worker a service in hand. *)
TypeOK ==
  /\ provider \in {"docker", "ecs"} /\ dep \in DepStatus
  /\ svc \in [Service -> SvcStatus] /\ cid \in [Service -> BOOLEAN]
  /\ cont \in [Service -> {"none", "created", "up", "down", "gone"}]
  /\ network \in BOOLEAN /\ volume \in BOOLEAN /\ ecs \in BOOLEAN
  /\ job \in {"insert", "services", "network", "volumes", "create", "start", "register", "service",
              "record", "finish", "services_up", "fail", "done"}
  /\ pos \in 1..Len(Order)
  /\ pc \in [Call -> {"idle", "list", "remove", "volumes", "row", "rows", "select",
                      "apply", "flip", "done"}]
  /\ request \in [Call -> Requests]
  /\ todo \in [Call -> SUBSET Service] /\ again \in [Call -> SUBSET Service]
  /\ exposed \subseteq Service /\ leftover \in BOOLEAN /\ lost \in BOOLEAN
  /\ faults \in 0..FaultBudget

(* A service's container is first made when those it depends on were started,*)
(* whatever is stopped or torn down meanwhile (startup_order, deploy).       *)
DependenciesFirst ==
  \A s \in Service : cont[s] # "none" =>
    \A d \in DependsOn[s] : cont[d] \notin {"none", "created"}

(* A deprovisioned app has no container and no network in Docker, also when   *)
(* its deploy failed or died half way and no row names its containers. The    *)
(* exceptions are a teardown that overlapped the worker and a removal that    *)
(* failed: there is no third one (teardown goes by label, app_control). What  *)
(* runs on ECS is not part of the teardown: see DeprovisionedIsShutDown.      *)
DeprovisionedMeansGone ==
  dep = "deprovisioned" /\ ~leftover => ~network /\ \A s \in Service : ~Exists(s)

(* Once nothing is in flight the row of a recorded service agrees with its   *)
(* container, after any sequence of start, stop, restart and deprovision of  *)
(* the app or of one service, unless a call about it overlapped, broke off,  *)
(* or acted on it and was then refused by Docker for another service.        *)
RowsMatchContainers ==
  job = "done" /\ (\A c \in Call : ~Active(c)) =>
    \A s \in Service : cid[s] /\ s \notin exposed =>
      /\ svc[s] = "running"       => cont[s] = "up"
      /\ svc[s] = "stopped"       => cont[s] = "down"
      /\ svc[s] = "deprovisioned" => cont[s] = "gone" \/ leftover

(* Provisioning ends: the row leaves the status 'provisioning', unless the   *)
(* platform went down or could not write (run_provision).                    *)
ProvisioningEnds == dep = "provisioning" ~> dep # "provisioning" \/ lost

-----------------------------------------------------------------------------
(* Statements of the repository that runs refute.                            *)

(* deprovision shuts the app down, on AWS as well (docs/MCP.md, app_control): *)
(* nothing of it runs once the row says so. The code removes what Docker has, *)
(* and the ECS service runs on (AwsAppProvisioner::teardown has no caller).   *)
DeprovisionedIsShutDown == dep = "deprovisioned" /\ ~leftover => ~ecs

=============================================================================
