--------------------------- MODULE ManifestDeploy ---------------------------
(* The deploy verb (mcp/mod.rs): a request is checked against the in-memory *)
(* in-flight map, then a background job builds every image of the manifest  *)
(* through CodeBuild, runs the release command, repoints the app's ECS      *)
(* services by digest and writes one receipt. build_image pushes to the     *)
(* same registry tags, and app_redeploy restarts the same services.         *)
(* A job is cut at each await. CodeBuild, ECR and ECS are external.         *)
EXTENDS Integers, FiniteSets, Sequences

CONSTANTS
  Deploy, ImageBuild, Redeploy,   \* requests, one identifier each
  Forced,                         \* the redeploys called with force=true
  App, Service, Image, Ref,
  TargetOf,       \* the app of each deploy and redeploy
  RefOf,          \* the git ref of each deploy and image build
  ImageOf,        \* the image of each image build
  Order,          \* manifest.build_order(): the images, bases first
  BaseOf,         \* the image injected as BASE_IMAGE, or None
  HasRelease,     \* whether the manifest has a release command
  ServicesOf,     \* aws_meta.ecs_services of each app
  ContainersOf,   \* the image repositories a service's containers use
  Ref0,           \* the ref whose images the registry holds at the start
  FaultBudget,    \* bound on failing calls and crashes
  None, AtTag     \* no value; a container image given by its moving tag

Job == Deploy \cup ImageBuild
Request == Job \cup Redeploy
Check == Image \cup Service \cup {"release"}

ASSUME RequestAssumption ==
  /\ Deploy \cap ImageBuild = {} /\ Job \cap Redeploy = {}
  /\ Forced \subseteq Redeploy /\ None \notin Request
  /\ TargetOf \in [Deploy \cup Redeploy -> App]
  /\ RefOf \in [Job -> Ref] /\ Ref0 \in Ref
  /\ ImageOf \in [ImageBuild -> Image]
  /\ FaultBudget \in Nat
ASSUME ManifestAssumption ==
  /\ Order \in Seq(Image) /\ Len(Order) >= 1
  /\ BaseOf \in [Image -> Image \cup {None}]
  /\ \A n \in 1..Len(Order) : BaseOf[Order[n]] # None =>
       \E m \in 1..(n - 1) : Order[m] = BaseOf[Order[n]]
  /\ HasRelease \in BOOLEAN
\* The unwrap_or_else of tool_deploy gives every app at least one service, and
\* provisioning gives an environment services of its own.
ASSUME ServiceAssumption ==
  /\ ServicesOf \in [App -> Seq(Service)]
  /\ \A a \in App : Len(ServicesOf[a]) >= 1
  /\ \A a, b \in App : \A i \in 1..Len(ServicesOf[a]), j \in 1..Len(ServicesOf[b]) :
       ServicesOf[a][i] = ServicesOf[b][j] => a = b /\ i = j
  /\ ContainersOf \in [Service -> SUBSET Image]
ASSUME ValueAssumption ==
  /\ Image \cap Service = {} /\ "release" \notin Image \cup Service
  /\ None \notin Ref /\ None \notin Image

VARIABLES
  pc,        \* where each request is
  step,      \* its position in the build order or in the list of services
  bad,       \* its failed checks: all_ok is bad = {}; for a redeploy, pinned services
  pins,      \* of a deploy: the digest each image is pinned to
  seen,      \* of a deploy: the containers read from the current service
  rolled, unchanged, \* services of a request, as its receipt lists them
  answer,    \* the deploy a rejected one is told to poll
  receipt,   \* the outcome in operation_receipts
  inflight,  \* state.in_flight_deploys
  build,     \* CodeBuild: the latest build of each job
  tag,       \* ECR: the digest the tag of each image points at
  task,      \* ECS: the release task of each deploy
  trial,     \* ECS: the containers that task was given
  td,        \* ECS: the containers of each service's task definition
  overlap, frozen, stale, \* ghosts, see below
  faults

cvars == <<pc, step, bad>>
lvars == <<pins, seen, rolled, unchanged, answer>>
platform == <<pc, step, bad, pins, seen, rolled, unchanged, answer, inflight>>
cloud == <<build, tag, task, trial, td>>
ghosts == <<overlap, frozen, stale>>
vars == <<pc, step, bad, pins, seen, rolled, unchanged, answer, receipt, inflight,
          build, tag, task, trial, td, overlap, frozen, stale, faults>>

\* An image's digest tells the ref it was built from and the ref of its base.
Digest == [ref : Ref, base : Ref \cup {None}]
ImageRef == Digest \cup {AtTag}
Containers == UNION {[c -> ImageRef] : c \in SUBSET Image}

BuildsOf(j) == IF j \in Deploy THEN Order ELSE <<ImageOf[j]>>
Building(j) == BuildsOf(j)[step[j]]
Services(r) == ServicesOf[TargetOf[r]]
ServiceSet(a) == {ServicesOf[a][i] : i \in 1..Len(ServicesOf[a])}
Rolling(r) == Services(r)[step[r]]
Primary(d) == Services(d)[1]
ServicesBefore(r, n) == {Services(r)[i] : i \in {j \in 1..Len(Services(r)) : j < n}}
PastServices(r) == ServicesBefore(r, step[r])

BaseRef(i) == IF BaseOf[i] = None THEN None ELSE tag[BaseOf[i]].ref

NoPins == [i \in Image |-> None]

\* clone_containers_with_image_pins
WithPins(containers, p) ==
  [i \in DOMAIN containers |-> IF p[i] = None THEN containers[i] ELSE p[i]]

Init ==
  /\ pc = [r \in Request |-> "idle"]
  /\ step = [r \in Request |-> 1]
  /\ bad = [r \in Request |-> {}]
  /\ pins = [d \in Deploy |-> NoPins]
  /\ seen = [d \in Deploy |-> [i \in {} |-> None]]
  /\ rolled = [r \in Request |-> {}]
  /\ unchanged = [d \in Deploy |-> {}]
  /\ answer = [d \in Deploy |-> None]
  /\ receipt = [r \in Request |-> "none"]
  /\ inflight = [a \in App |-> None]
  /\ build = [j \in Job |-> "none"]
  /\ tag = [i \in Image |-> [ref |-> Ref0, base |-> IF BaseOf[i] = None THEN None ELSE Ref0]]
  /\ task = [d \in Deploy |-> "none"]
  /\ trial = [d \in Deploy |-> [i \in {} |-> None]]
  /\ td = [s \in Service |-> [i \in ContainersOf[s] |-> AtTag]]
  /\ overlap = [j \in Job |-> {}]
  /\ frozen = {}
  /\ stale = {}
  /\ faults = 0

Fault == faults < FaultBudget /\ faults' = faults + 1
NoFault == UNCHANGED faults

Goto(r, label) == pc' = [pc EXCEPT ![r] = label]

\* A failed check of a deploy or an image build ends its work: emit comes next.
Fail(j, check) ==
  /\ bad' = [bad EXCEPT ![j] = @ \cup {check}]
  /\ Goto(j, "emit")
  /\ UNCHANGED step

-----------------------------------------------------------------------------
(* The tool handlers. *)

\* Mutant: the map is not consulted.
MayStartDeployAlways(existing) == existing \in Deploy \cup {None}

MayStartDeploy(existing) == existing = None

ToolDeploy(d) ==
  LET a == TargetOf[d] IN
  /\ pc[d] = "idle"
  /\ \/ /\ MayStartDeploy(inflight[a])
        /\ inflight' = [inflight EXCEPT ![a] = d]
        /\ Goto(d, "build")
        /\ UNCHANGED answer
     \/ /\ ~MayStartDeploy(inflight[a])
        /\ answer' = [answer EXCEPT ![d] = inflight[a]]
        /\ Goto(d, "rejected")
        /\ UNCHANGED inflight
  /\ UNCHANGED <<step, bad, pins, seen, rolled, unchanged, receipt, cloud, ghosts, faults>>

\* build_image starts its build before it answers; a failed start is an error.
ToolBuildImage(b) ==
  /\ pc[b] = "idle"
  /\ \/ NoFault /\ Goto(b, "wait") /\ build' = [build EXCEPT ![b] = "running"]
     \/ Fault /\ Goto(b, "rejected") /\ UNCHANGED build
  /\ UNCHANGED <<step, bad, lvars, receipt, inflight, tag, task, trial, td, ghosts>>

-----------------------------------------------------------------------------
(* Building: start, poll, read the digest of the tag. *)

StartBuild(d) ==
  /\ pc[d] = "build"
  /\ \/ /\ NoFault
        /\ build' = [build EXCEPT ![d] = "running"]
        /\ Goto(d, "wait") /\ UNCHANGED <<step, bad>>
     \/ Fault /\ Fail(d, Building(d)) /\ UNCHANGED build
  /\ UNCHANGED <<lvars, receipt, inflight, tag, task, trial, td, ghosts>>

\* The positions a job that is building has pushed.
Pushed(j) == {n \in 1..Len(BuildsOf(j)) :
                n < step[j] \/ (n = step[j] /\ pc[j] = "wait" /\ build[j] = "succeeded")}

\* CodeBuild pulls the base, builds and pushes: the tag moves. The ghost
\* overlap records the jobs still building that had pushed this image before.
CodeBuildPush(j) ==
  LET i == Building(j) IN
  /\ build[j] = "running"
  /\ tag' = [tag EXCEPT ![i] = [ref |-> RefOf[j], base |-> BaseRef(i)]]
  /\ build' = [build EXCEPT ![j] = "succeeded"]
  /\ overlap' = [k \in Job |->
       IF k # j /\ pc[k] \in {"build", "wait"} /\ \E n \in Pushed(k) : BuildsOf(k)[n] = i
       THEN overlap[k] \cup {i} ELSE overlap[k]]
  /\ UNCHANGED <<platform, receipt, task, trial, td, frozen, stale, faults>>

CodeBuildFail(j) ==
  /\ build[j] = "running" /\ Fault
  /\ build' = [build EXCEPT ![j] = "failed"]
  /\ UNCHANGED <<platform, receipt, tag, task, trial, td, ghosts>>

\* read_digest: by tag; None when ECR cannot be read.
ReadDigest(i) == {tag[i]}

AfterBuild(j) ==
  IF step[j] < Len(BuildsOf(j))
  THEN Goto(j, "build") /\ step' = [step EXCEPT ![j] = @ + 1]
  ELSE /\ Goto(j, IF j \in ImageBuild THEN "emit"
                  ELSE IF HasRelease THEN "release" ELSE "roll")
       /\ step' = [step EXCEPT ![j] = 1]

\* Mutant: a build in progress counts as done.
BuildDoneEarly(j) == build[j] \in {"running", "succeeded"}

BuildDone(j) == build[j] = "succeeded"

PollSucceeded(j) ==
  LET i == Building(j) IN
  /\ pc[j] = "wait" /\ BuildDone(j)
  /\ \/ /\ NoFault
        /\ \E digest \in ReadDigest(i) :
             pins' = [d \in Deploy |-> IF d = j THEN [pins[d] EXCEPT ![i] = digest] ELSE pins[d]]
     \/ Fault /\ UNCHANGED pins
  /\ AfterBuild(j)
  /\ UNCHANGED <<bad, seen, rolled, unchanged, answer, receipt, inflight, cloud, ghosts>>

PollFailed(j) ==
  /\ pc[j] = "wait" /\ build[j] = "failed" /\ Fail(j, Building(j))
  /\ UNCHANGED <<lvars, receipt, inflight, cloud, ghosts, faults>>

\* The poll window closes while CodeBuild goes on.
PollTimeout(j) ==
  /\ pc[j] = "wait" /\ build[j] = "running" /\ Fail(j, Building(j))
  /\ UNCHANGED <<lvars, receipt, inflight, cloud, ghosts, faults>>

-----------------------------------------------------------------------------
(* The release phase: a one-shot task on the primary service's definition.  *)

RunRelease(d) ==
  /\ pc[d] = "release"
  /\ \/ /\ NoFault
        /\ task' = [task EXCEPT ![d] = "running"]
        /\ trial' = [trial EXCEPT ![d] = WithPins(td[Primary(d)], pins[d])]
        /\ Goto(d, "relwait") /\ UNCHANGED <<step, bad>>
     \/ Fault /\ Fail(d, "release") /\ UNCHANGED <<task, trial>>
  /\ UNCHANGED <<lvars, receipt, inflight, build, tag, td, ghosts>>

\* The task stops with exit code 0 or another, or without one.
ReleaseExits(d) ==
  /\ task[d] = "running"
  /\ \E exit \in {"zero", "nonzero", "noexit"} : task' = [task EXCEPT ![d] = exit]
  /\ UNCHANGED <<platform, receipt, build, tag, trial, td, ghosts, faults>>

\* Mutant: only a non-zero exit code aborts.
ReleaseGateNonzeroOnly(status) == status # "nonzero"

\* release_gate, and the time limit of the poll.
ReleaseGate(status) == status = "zero"

PollRelease(d) ==
  /\ pc[d] = "relwait"
  /\ \/ ReleaseGate(task[d]) /\ Goto(d, "roll") /\ UNCHANGED <<step, bad>>
     \/ ~ReleaseGate(task[d]) /\ Fail(d, "release")
  /\ UNCHANGED <<lvars, receipt, inflight, cloud, ghosts, faults>>

-----------------------------------------------------------------------------
(* Rolling the services one after the other; a failure moves on to the next. *)

NextService(d) ==
  /\ step' = [step EXCEPT ![d] = @ + 1]
  /\ Goto(d, IF step[d] < Len(Services(d)) THEN "roll" ELSE "emit")

\* Mutant: all_ok is not cleared on a failing service.
ServiceFailedSilently(d) == UNCHANGED bad /\ NextService(d)

ServiceFailed(d) ==
  bad' = [bad EXCEPT ![d] = @ \cup {Rolling(d)}] /\ NextService(d)

DescribeService(d) ==
  LET s == Rolling(d) IN
  /\ pc[d] = "roll"
  /\ \/ /\ NoFault /\ WithPins(td[s], pins[d]) = td[s]
        /\ unchanged' = [unchanged EXCEPT ![d] = @ \cup {s}]
        /\ NextService(d) /\ UNCHANGED <<bad, seen>>
     \/ /\ NoFault /\ WithPins(td[s], pins[d]) # td[s]
        /\ seen' = [seen EXCEPT ![d] = td[s]]
        /\ Goto(d, "update") /\ UNCHANGED <<step, bad, unchanged>>
     \/ Fault /\ ServiceFailed(d) /\ UNCHANGED <<seen, unchanged>>
  /\ UNCHANGED <<pins, rolled, answer, receipt, inflight, cloud, ghosts>>

\* register_task_definition, then update_service. The ghost stale records the
\* redeploys that have already looked at this service.
Repoint(d) ==
  LET s == Rolling(d) IN
  /\ td' = [td EXCEPT ![s] = WithPins(seen[d], pins[d])]
  /\ stale' = stale \cup {<<r, s>> : r \in {x \in Redeploy :
       pc[x] = "restart" \/ (pc[x] = "check" /\ s \in PastServices(x))}}

UpdateService(d) ==
  /\ pc[d] = "update"
  /\ \/ /\ NoFault /\ Repoint(d) /\ NextService(d)
        /\ rolled' = [rolled EXCEPT ![d] = @ \cup {Rolling(d)}] /\ UNCHANGED bad
     \/ Fault /\ ServiceFailed(d) /\ Repoint(d) /\ UNCHANGED rolled
     \/ Fault /\ ServiceFailed(d) /\ UNCHANGED <<rolled, td, stale>>
  /\ UNCHANGED <<pins, seen, unchanged, answer, receipt, inflight, build, tag,
                 task, trial, overlap, frozen>>

-----------------------------------------------------------------------------
(* The receipt, and the end of a job. *)

DeployOutcome(d) ==
  CASE bad[d] # {} -> "failed"
    [] bad[d] = {} /\ rolled[d] = {} /\ unchanged[d] # {} -> "nochanges"
    [] OTHER -> "rolled"

Outcome(j) == IF j \in Deploy THEN DeployOutcome(j)
              ELSE IF bad[j] = {} THEN "built" ELSE "failed"

\* proof::emit; its result is discarded.
Emit(j) ==
  /\ pc[j] = "emit"
  /\ \/ NoFault /\ receipt' = [receipt EXCEPT ![j] = Outcome(j)]
     \/ Fault /\ UNCHANGED receipt
  /\ Goto(j, "exit")
  /\ UNCHANGED <<step, bad, lvars, inflight, cloud, ghosts>>

\* Mutant: the entry is cleared on the success path only.
ExitClearsOnSuccess(j) ==
  /\ pc[j] = "exit" /\ Goto(j, "done")
  /\ inflight' = IF j \in Deploy /\ bad[j] = {}
                 THEN [inflight EXCEPT ![TargetOf[j]] = None] ELSE inflight
  /\ UNCHANGED <<step, bad, lvars, receipt, cloud, ghosts, faults>>

\* InFlightGuard::drop
Exit(j) ==
  /\ pc[j] = "exit" /\ Goto(j, "done")
  /\ inflight' = IF j \in Deploy THEN [inflight EXCEPT ![TargetOf[j]] = None] ELSE inflight
  /\ UNCHANGED <<step, bad, lvars, receipt, cloud, ghosts, faults>>

-----------------------------------------------------------------------------
(* app_redeploy: look at every service, then force a new deployment of each. *)

RedeployWouldNoop(s) == \E i \in ContainersOf[s] : td[s][i] # AtTag

\* Mutant: only an image equal to what its tag names now counts as pinned.
PinnedServiceIfCurrent(s) == IF \E i \in ContainersOf[s] : td[s][i] = tag[i] THEN {s} ELSE {}

PinnedService(s) == IF RedeployWouldNoop(s) THEN {s} ELSE {}

ToolAppRedeploy(r) ==
  /\ pc[r] = "idle"
  /\ Goto(r, IF r \in Forced THEN "restart" ELSE "check")
  /\ UNCHANGED <<step, bad, lvars, receipt, inflight, cloud, ghosts, faults>>

\* A lookup error counts as no image: nothing pinned.
RedeployCheck(r) ==
  LET s == Rolling(r) IN
  /\ pc[r] = "check"
  /\ \/ NoFault /\ bad' = [bad EXCEPT ![r] = @ \cup PinnedService(s)] /\ UNCHANGED stale
     \/ Fault /\ stale' = stale \cup {<<r, s>>} /\ UNCHANGED bad
  /\ \/ /\ step[r] < Len(Services(r))
        /\ step' = [step EXCEPT ![r] = @ + 1] /\ UNCHANGED <<pc, receipt>>
     \/ /\ step[r] = Len(Services(r)) /\ bad'[r] = {}
        /\ step' = [step EXCEPT ![r] = 1] /\ Goto(r, "restart") /\ UNCHANGED receipt
     \/ /\ step[r] = Len(Services(r)) /\ bad'[r] # {}
        /\ receipt' = [receipt EXCEPT ![r] = "blocked"]
        /\ Goto(r, "done") /\ UNCHANGED step
  /\ UNCHANGED <<lvars, inflight, cloud, overlap, frozen>>

\* The first failing call returns an error: the services before it have restarted.
RedeployRestart(r) ==
  LET s == Rolling(r) IN
  /\ pc[r] = "restart"
  /\ \/ /\ NoFault
        /\ rolled' = [rolled EXCEPT ![r] = @ \cup {s}]
        /\ frozen' = IF RedeployWouldNoop(s) THEN frozen \cup {<<r, s>>} ELSE frozen
        /\ IF step[r] < Len(Services(r))
           THEN step' = [step EXCEPT ![r] = @ + 1] /\ UNCHANGED <<pc, receipt>>
           ELSE /\ Goto(r, "done") /\ UNCHANGED step
                /\ receipt' = [receipt EXCEPT ![r] = "restarted"]
     \/ Fault /\ Goto(r, "done") /\ UNCHANGED <<step, rolled, receipt, frozen>>
  /\ UNCHANGED <<bad, pins, seen, unchanged, answer, inflight, cloud, overlap, stale>>

-----------------------------------------------------------------------------
(* The platform process dies: background jobs and the map go, AWS goes on.  *)

Idle == {"idle", "done", "rejected", "lost"}

Crash ==
  /\ Fault
  /\ \E r \in Request : pc[r] \notin Idle
  /\ pc' = [r \in Request |-> IF pc[r] \in Idle THEN pc[r] ELSE "lost"]
  /\ inflight' = [a \in App |-> None]
  /\ UNCHANGED <<step, bad, lvars, receipt, cloud, ghosts>>

JobStep(j) == PollSucceeded(j) \/ PollFailed(j) \/ PollTimeout(j) \/ Emit(j) \/ Exit(j)
DeployStep(d) ==
  \/ StartBuild(d) \/ RunRelease(d) \/ PollRelease(d)
  \/ DescribeService(d) \/ UpdateService(d) \/ JobStep(d)
RedeployStep(r) == RedeployCheck(r) \/ RedeployRestart(r)

Next ==
  \/ \E d \in Deploy : ToolDeploy(d) \/ DeployStep(d) \/ ReleaseExits(d)
  \/ \E b \in ImageBuild : ToolBuildImage(b) \/ JobStep(b)
  \/ \E j \in Job : CodeBuildPush(j) \/ CodeBuildFail(j)
  \/ \E r \in Redeploy : ToolAppRedeploy(r) \/ RedeployStep(r)
  \/ Crash

Spec == Init /\ [][Next]_vars

\* A spawned job keeps running: every call has a deadline and every poll a cap.
\* Nothing is assumed of CodeBuild, of the release task or of the callers.
FairSpec == Spec /\ \A d \in Deploy : WF_vars(DeployStep(d))

-----------------------------------------------------------------------------
(* Properties.                                                               *)

Live == {"build", "wait", "release", "relwait", "roll", "update", "emit", "exit"}
PcStates == Live \cup {"idle", "done", "rejected", "lost", "check", "restart"}

(* Every variable has its type. *)
TypeOK ==
  /\ pc \in [Request -> PcStates]
  /\ step \in [Request -> Nat \ {0}]
  /\ bad \in [Request -> SUBSET Check]
  /\ pins \in [Deploy -> [Image -> Digest \cup {None}]]
  /\ seen \in [Deploy -> Containers]
  /\ rolled \in [Request -> SUBSET Service]
  /\ unchanged \in [Deploy -> SUBSET Service]
  /\ answer \in [Deploy -> Deploy \cup {None}]
  /\ receipt \in [Request -> {"none", "rolled", "nochanges", "failed", "built", "blocked", "restarted"}]
  /\ inflight \in [App -> Deploy \cup {None}]
  /\ build \in [Job -> {"none", "running", "succeeded", "failed"}]
  /\ tag \in [Image -> Digest]
  /\ task \in [Deploy -> {"none", "running", "zero", "nonzero", "noexit"}]
  /\ trial \in [Deploy -> Containers]
  /\ td \in [Service -> Containers]
  /\ \A s \in Service : td[s] \in [ContainersOf[s] -> ImageRef]
  /\ overlap \in [Job -> SUBSET Image]
  /\ frozen \subseteq Redeploy \X Service
  /\ stale \subseteq Redeploy \X Service
  /\ faults \in 0..FaultBudget

(* At most one job works on an app at any time: the map entry of an app is   *)
(* taken before the job starts, names it until it ends and is removed by no  *)
(* other job (tool_deploy, InFlightGuard).                                   *)
OneDeployPerApp ==
  /\ \A d \in Deploy : pc[d] \in Live => inflight[TargetOf[d]] = d
  /\ \A a \in App : inflight[a] # None =>
       TargetOf[inflight[a]] = a /\ pc[inflight[a]] \in Live

Pinned(d, s) == WithPins(td[s], pins[d]) = td[s]

(* A deploy about to write a receipt without a failed check has every        *)
(* service of its app on exactly the digests it pinned, although it read and *)
(* wrote them one at a time and answers can be lost (run_deploy_to_receipt). *)
VerifiedServicesPinned ==
  \A d \in Deploy : pc[d] \in {"emit", "exit"} /\ bad[d] = {} =>
    \A s \in ServiceSet(TargetOf[d]) : Pinned(d, s)

(* The release gate: a service is only repointed by a deploy whose builds    *)
(* all succeeded and whose release task stopped with exit code 0, and the    *)
(* primary service gets exactly the containers that task was run with.       *)
Released(d) == bad[d] \cap (Image \cup {"release"}) = {} /\ (HasRelease => task[d] = "zero")
RollsAreReleased ==
  [][\A s \in Service : td'[s] # td[s] =>
       \E d \in Deploy : /\ pc[d] = "update" /\ Rolling(d) = s /\ Released(d)
                         /\ HasRelease /\ s = Primary(d) => td'[s] = trial[d]]_vars

(* A pin names the deploy's own ref, base included, unless another job       *)
(* pushed the same image or base after this one did and before it was read:  *)
(* nothing but the moving tag can go wrong between a build and its pin.      *)
Own(d, i) == pins[d][i].ref = RefOf[d] /\ (BaseOf[i] # None => pins[d][i].base = RefOf[d])
StrayPinsOverlap ==
  \A d \in Deploy, i \in Image : pins[d][i] # None /\ ~Own(d, i) =>
    {i, BaseOf[i]} \cap overlap[d] # {}

(* An unforced app_redeploy restarts a digest-pinned service only if a       *)
(* deploy pinned it after the guard had looked, or the look failed.          *)
FrozenRestartsAreStale ==
  \A r \in Redeploy \ Forced, s \in Service : <<r, s>> \in frozen => <<r, s>> \in stale

(* The in-flight entry of an app is always removed again, whatever CodeBuild *)
(* and the release task do, and through failing calls and a crash.           *)
InFlightIsCleared ==
  \A a \in App, d \in Deploy : inflight[a] = d ~> inflight[a] # d
-----------------------------------------------------------------------------
(* The inductive invariant behind the safety properties.                     *)

Rollout == {"roll", "update"}

\* The position of a request lies in the list it walks.
StepInv ==
  /\ \A r \in Request : pc[r] = "idle" => step[r] = 1
  /\ \A d \in Deploy : pc[d] \in {"release", "relwait"} => step[d] = 1
  /\ \A j \in Job : pc[j] \in {"build", "wait"} \/ build[j] = "running"
       => step[j] \in 1..Len(BuildsOf(j))
  /\ \A d \in Deploy : pc[d] \in Rollout => step[d] \in 1..Len(Services(d))
  /\ \A r \in Redeploy : pc[r] \in {"check", "restart"} => step[r] \in 1..Len(Services(r))

\* A build only runs on while its job waits for it or after the job gave up.
BuildInv ==
  \A j \in Job : build[j] = "running" => pc[j] \in {"wait", "emit", "exit", "done", "lost"}

\* Nothing has failed before the rollout, and nothing but services in it.
ReleasedInv ==
  \A d \in Deploy :
    /\ pc[d] \in {"idle", "build", "wait", "release", "relwait"} => bad[d] = {}
    /\ pc[d] \in Rollout => Released(d)

\* No one else touches the primary service between its trial and its roll, or
\* a service between its read and its update.
TrialInv ==
  \A d \in Deploy : pc[d] \in Rollout \cup {"relwait"} /\ HasRelease /\ step[d] = 1
    => trial[d] = WithPins(td[Primary(d)], pins[d])
SeenInv == \A d \in Deploy : pc[d] = "update" => seen[d] = td[Rolling(d)]

\* The services a deploy has passed are pinned or count as failed.
ProgressInv ==
  \A d \in Deploy : pc[d] \in Rollout =>
    \A s \in PastServices(d) : s \in bad[d] \/ Pinned(d, s)

IInv ==
  /\ TypeOK /\ StepInv /\ BuildInv /\ OneDeployPerApp
  /\ ReleasedInv /\ TrialInv /\ SeenInv /\ ProgressInv /\ VerifiedServicesPinned
-----------------------------------------------------------------------------
(* Statements of the repository that runs refute.                            *)

(* "because the image is digest-pinned a moving-tag drift can never ship a   *)
(* stale image": a service is never repointed at an image of another ref.    *)
NeverShipsAnotherRef ==
  [][\A s \in Service : td'[s] # td[s] => \E d \in Deploy :
       /\ pc[d] = "update" /\ Rolling(d) = s
       /\ \A i \in ContainersOf[s] : td'[s][i] = AtTag \/ td'[s][i] = td[s][i]
                                       \/ td'[s][i].ref = RefOf[d]]_vars
=============================================================================
