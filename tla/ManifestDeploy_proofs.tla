----------------------- MODULE ManifestDeploy_proofs -----------------------
(* Safety of ManifestDeploy for every set of requests, apps, services and   *)
(* images, every manifest and every bound on faults.                        *)
EXTENDS ManifestDeploy, TLAPS

(* The lists a request walks: images to build, services to visit. *)
LEMMA Lists ==
  /\ \A j \in Job : /\ Len(BuildsOf(j)) \in Nat \ {0}
                    /\ \A n \in 1..Len(BuildsOf(j)) : BuildsOf(j)[n] \in Image
  /\ \A r \in Deploy \cup Redeploy :
       /\ Len(Services(r)) \in Nat \ {0}
       /\ \A n \in 1..Len(Services(r)) : Services(r)[n] \in Service
<1>1. ASSUME NEW j \in Job
      PROVE  /\ Len(BuildsOf(j)) \in Nat \ {0}
             /\ \A n \in 1..Len(BuildsOf(j)) : BuildsOf(j)[n] \in Image
  <2>1. CASE j \in Deploy
    BY <2>1, ManifestAssumption DEF BuildsOf
  <2>2. CASE j \notin Deploy
    BY <2>2, RequestAssumption DEF BuildsOf, Job
  <2>3. QED
    BY <2>1, <2>2
<1>2. ASSUME NEW r \in Deploy \cup Redeploy
      PROVE  /\ Len(Services(r)) \in Nat \ {0}
             /\ \A n \in 1..Len(Services(r)) : Services(r)[n] \in Service
  <2>1. TargetOf[r] \in App
    BY RequestAssumption
  <2>2. ServicesOf[TargetOf[r]] \in Seq(Service) /\ Len(ServicesOf[TargetOf[r]]) >= 1
    BY <2>1, ServiceAssumption
  <2>3. QED
    BY <2>2 DEF Services
<1>3. QED
  BY <1>1, <1>2

(* A service is visited by the requests of one app only, at one position. *)
LEMMA OneAppPerService ==
  ASSUME NEW d \in Deploy \cup Redeploy, NEW e \in Deploy \cup Redeploy,
         NEW m \in 1..Len(Services(d)), NEW n \in 1..Len(Services(e)),
         Services(d)[m] = Services(e)[n]
  PROVE  TargetOf[d] = TargetOf[e] /\ m = n
BY RequestAssumption, ServiceAssumption DEF Services

(* Repinning keeps the containers and, done twice, changes nothing more. *)
LEMMA WithPinsType ==
  ASSUME NEW C \in SUBSET Image, NEW c \in [C -> ImageRef],
         NEW p \in [Image -> Digest \cup {None}]
  PROVE  WithPins(c, p) \in [C -> ImageRef]
BY DEF WithPins, ImageRef

LEMMA WithPinsIdempotent ==
  ASSUME NEW c, NEW p
  PROVE  WithPins(WithPins(c, p), p) = WithPins(c, p)
<1>1. DOMAIN WithPins(c, p) = DOMAIN c
  BY DEF WithPins
<1>2. ASSUME NEW i \in DOMAIN c
      PROVE  WithPins(c, p)[i] = IF p[i] = None THEN c[i] ELSE p[i]
  BY DEF WithPins
<1>3. QED
  BY <1>1, <1>2 DEF WithPins

-----------------------------------------------------------------------------
(* Type correctness. *)
LEMMA InitTypes == Init => TypeOK
<1> SUFFICES ASSUME Init PROVE TypeOK
  OBVIOUS
<1>1. \A i \in Image : [ref |-> Ref0, base |-> IF BaseOf[i] = None THEN None ELSE Ref0] \in Digest
  BY RequestAssumption DEF Digest
<1>2. tag \in [Image -> Digest]
  BY <1>1 DEF Init
<1>3. seen \in [Deploy -> Containers] /\ trial \in [Deploy -> Containers]
  <2>1. [i \in {} |-> None] \in Containers
    BY DEF Containers
  <2>2. QED
    BY <2>1 DEF Init
<1>4. /\ td \in [Service -> Containers]
      /\ \A s \in Service : td[s] \in [ContainersOf[s] -> ImageRef]
  <2>1. ASSUME NEW s \in Service
        PROVE /\ td[s] \in [ContainersOf[s] -> ImageRef]
              /\ td[s] \in Containers
    <3>1. ContainersOf[s] \in SUBSET Image
      BY ServiceAssumption
    <3>2. td[s] \in [ContainersOf[s] -> ImageRef]
      BY DEF Init, ImageRef
    <3>3. QED
      BY <3>1, <3>2 DEF Containers
  <2>2. QED
    BY <2>1 DEF Init
<1>5. pins \in [Deploy -> [Image -> Digest \cup {None}]]
  BY DEF Init, NoPins
<1>6. pc \in [Request -> PcStates]
  BY DEF Init, PcStates
<1>7. faults \in 0..FaultBudget
  BY RequestAssumption DEF Init
<1>8. /\ step \in [Request -> Nat \ {0}]
      /\ bad \in [Request -> SUBSET Check]
      /\ rolled \in [Request -> SUBSET Service]
      /\ unchanged \in [Deploy -> SUBSET Service]
      /\ answer \in [Deploy -> Deploy \cup {None}]
      /\ inflight \in [App -> Deploy \cup {None}]
  BY DEF Init
<1>9. QED
  BY <1>2, <1>3, <1>4, <1>5, <1>6, <1>7, <1>8 DEF Init, TypeOK

LEMMA FaultTypes ==
  ASSUME TypeOK, Fault \/ NoFault
  PROVE  faults' \in 0..FaultBudget
BY RequestAssumption DEF TypeOK, Fault, NoFault

(* What the current position gives while a list is walked. *)
LEMMA BuildingType ==
  ASSUME StepInv, NEW j \in Job, pc[j] \in {"build", "wait"} \/ build[j] = "running"
  PROVE  step[j] \in 1..Len(BuildsOf(j)) /\ Building(j) \in Image
BY Lists DEF StepInv, Building

LEMMA RollingType ==
  ASSUME StepInv, NEW d \in Deploy, pc[d] \in Rollout
  PROVE  step[d] \in 1..Len(Services(d)) /\ Rolling(d) \in Service
BY Lists DEF StepInv, Rolling

LEMMA RedeployingType ==
  ASSUME StepInv, NEW r \in Redeploy, pc[r] \in {"check", "restart"}
  PROVE  step[r] \in 1..Len(Services(r)) /\ Rolling(r) \in Service
BY Lists DEF StepInv, Rolling

LEMMA GotoType ==
  ASSUME TypeOK, NEW r \in Request, NEW l \in PcStates, Goto(r, l)
  PROVE  pc' \in [Request -> PcStates]
<1>1. pc \in [Request -> PcStates]
  BY DEF TypeOK
<1>2. QED
  BY <1>1 DEF Goto

LEMMA HandlerTypes ==
  ASSUME TypeOK, 
         \/ \E d \in Deploy : ToolDeploy(d)
         \/ \E b \in ImageBuild : ToolBuildImage(b)
         \/ \E r \in Redeploy : ToolAppRedeploy(r)
         \/ Crash
  PROVE  TypeOK'
<1>0. /\ {"build", "wait", "rejected", "check", "restart", "lost"} \subseteq PcStates
      /\ Deploy \subseteq Request /\ ImageBuild \subseteq Job /\ Job \subseteq Request
      /\ Redeploy \subseteq Request
  BY DEF PcStates, Live, Request, Job
<1> USE DEF TypeOK, lvars, cloud, ghosts
<1>1. ASSUME NEW d \in Deploy, ToolDeploy(d) PROVE TypeOK'
  <2>1. TargetOf[d] \in App /\ inflight[TargetOf[d]] \in Deploy \cup {None}
    BY RequestAssumption
  <2>2. pc' \in [Request -> PcStates]
    <3>1. Goto(d, "build") \/ Goto(d, "rejected")
      BY <1>1 DEF ToolDeploy
    <3>2. QED
      BY <1>0, <3>1, GotoType
  <2>3. inflight' \in [App -> Deploy \cup {None}]
    BY <1>1, <2>1 DEF ToolDeploy
  <2>4. answer' \in [Deploy -> Deploy \cup {None}]
    <3>1. answer' = answer \/ answer' = [answer EXCEPT ![d] = inflight[TargetOf[d]]]
      BY <1>1 DEF ToolDeploy
    <3>2. QED
      BY <2>1, <3>1
  <2>5. QED
    BY <1>1, <2>2, <2>3, <2>4 DEF ToolDeploy
<1>2. ASSUME NEW b \in ImageBuild, ToolBuildImage(b) PROVE TypeOK'
  <2>1. faults' \in 0..FaultBudget
    BY <1>2, FaultTypes DEF ToolBuildImage
  <2>2. pc' \in [Request -> PcStates]
    <3>1. Goto(b, "wait") \/ Goto(b, "rejected")
      BY <1>2 DEF ToolBuildImage
    <3>2. QED
      BY <1>0, <3>1, GotoType
  <2>3. build' \in [Job -> {"none", "running", "succeeded", "failed"}]
    BY <1>0, <1>2 DEF ToolBuildImage
  <2>4. QED
    BY <1>2, <2>1, <2>2, <2>3 DEF ToolBuildImage
<1>3. ASSUME NEW r \in Redeploy, ToolAppRedeploy(r) PROVE TypeOK'
  <2>1. pc' \in [Request -> PcStates]
    BY <1>0, <1>3, GotoType DEF ToolAppRedeploy
  <2>2. QED
    BY <1>3, <2>1 DEF ToolAppRedeploy
<1>4. CASE Crash
  <2>1. faults' \in 0..FaultBudget
    BY <1>4, FaultTypes DEF Crash
  <2>2. pc' \in [Request -> PcStates] /\ inflight' \in [App -> Deploy \cup {None}]
    BY <1>0, <1>4 DEF Crash
  <2>3. QED
    BY <1>4, <2>1, <2>2 DEF Crash
<1>5. QED
  BY <1>1, <1>2, <1>3, <1>4

LEMMA CloudTypes ==
  ASSUME TypeOK, StepInv, 
         \/ \E j \in Job : CodeBuildPush(j) \/ CodeBuildFail(j)
         \/ \E d \in Deploy : ReleaseExits(d)
  PROVE  TypeOK'
<1> USE DEF TypeOK, platform
<1>1. ASSUME NEW j \in Job, CodeBuildPush(j) PROVE TypeOK'
  <2>1. Building(j) \in Image
    BY <1>1, BuildingType DEF CodeBuildPush
  <2>2. BaseRef(Building(j)) \in Ref \cup {None}
    BY <2>1, ManifestAssumption DEF BaseRef, Digest
  <2>3. tag' \in [Image -> Digest]
    <3>1. [ref |-> RefOf[j], base |-> BaseRef(Building(j))] \in Digest
      BY <2>2, RequestAssumption DEF Digest
    <3>2. QED
      BY <1>1, <3>1 DEF CodeBuildPush
  <2>4. overlap' \in [Job -> SUBSET Image]
    BY <1>1, <2>1 DEF CodeBuildPush
  <2>5. build' \in [Job -> {"none", "running", "succeeded", "failed"}]
    BY <1>1 DEF CodeBuildPush
  <2>6. QED
    BY <1>1, <2>3, <2>4, <2>5 DEF CodeBuildPush
<1>2. ASSUME NEW j \in Job, CodeBuildFail(j) PROVE TypeOK'
  <2>1. faults' \in 0..FaultBudget
    BY <1>2, FaultTypes DEF CodeBuildFail
  <2>2. QED
    BY <1>2, <2>1 DEF CodeBuildFail, ghosts
<1>3. ASSUME NEW d \in Deploy, ReleaseExits(d) PROVE TypeOK'
  BY <1>3 DEF ReleaseExits, ghosts
<1>4. QED
  BY <1>1, <1>2, <1>3

LEMMA FailTypes ==
  ASSUME TypeOK, NEW j \in Request, NEW c \in Check, Fail(j, c)
  PROVE  /\ pc' \in [Request -> PcStates]
         /\ bad' \in [Request -> SUBSET Check]
         /\ step' = step
<1>1. bad \in [Request -> SUBSET Check]
  BY DEF TypeOK
<1>2. "emit" \in PcStates
  BY DEF PcStates, Live
<1>3. bad' = [bad EXCEPT ![j] = bad[j] \cup {c}]
  BY DEF Fail
<1>4. bad' \in [Request -> SUBSET Check]
  BY <1>1, <1>3
<1>5. QED
  BY <1>2, <1>4, GotoType DEF Fail

LEMMA BuildTypes ==
  ASSUME TypeOK, StepInv, NEW j \in Job,
         \/ j \in Deploy /\ StartBuild(j)
         \/ PollSucceeded(j) \/ PollFailed(j) \/ PollTimeout(j)
         \/ Emit(j) \/ Exit(j)
  PROVE  TypeOK'
<1> USE DEF TypeOK, Goto, lvars, cloud, ghosts
<1>0. /\ "wait" \in PcStates /\ "build" \in PcStates /\ "emit" \in PcStates /\ "release" \in PcStates
      /\ "roll" \in PcStates /\ "exit" \in PcStates /\ "done" \in PcStates /\ j \in Request
  BY DEF PcStates, Live, Request
<1>1. CASE j \in Deploy /\ StartBuild(j)
  <2>1. faults' \in 0..FaultBudget
    BY <1>1, FaultTypes DEF StartBuild
  <2>2. Building(j) \in Check
    BY <1>1, BuildingType DEF StartBuild, Check
  <2>3. pc' \in [Request -> PcStates] /\ bad' \in [Request -> SUBSET Check]
    <3>1. CASE Fail(j, Building(j))
      BY <1>0, <2>2, <3>1, FailTypes
    <3>2. CASE Goto(j, "wait") /\ UNCHANGED <<step, bad>>
      BY <1>0, <3>2, GotoType
    <3>3. QED
      BY <1>1, <3>1, <3>2 DEF StartBuild
  <2>4. build' \in [Job -> {"none", "running", "succeeded", "failed"}] /\ step' = step
    BY <1>1 DEF StartBuild, Fail
  <2>5. QED
    BY <1>1, <2>1, <2>3, <2>4 DEF StartBuild
<1>2. CASE PollSucceeded(j)
  <2>1. faults' \in 0..FaultBudget
    BY <1>2, FaultTypes DEF PollSucceeded
  <2>2. Building(j) \in Image
    BY <1>2, BuildingType DEF PollSucceeded
  <2>3. pins' \in [Deploy -> [Image -> Digest \cup {None}]]
    <3>1. tag[Building(j)] \in Digest
      BY <2>2
    <3>2. \/ pins' = pins
          \/ pins' = [d \in Deploy |-> IF d = j THEN [pins[d] EXCEPT ![Building(j)] = tag[Building(j)]]
                                       ELSE pins[d]]
      BY <1>2 DEF PollSucceeded, ReadDigest
    <3>3. ASSUME NEW d \in Deploy
          PROVE  pins'[d] \in [Image -> Digest \cup {None}]
      BY <3>1, <3>2
    <3>4. QED
      BY <3>2, <3>3
  <2>4. pc' \in [Request -> PcStates] /\ step' \in [Request -> Nat \ {0}]
    <3>1. step[j] + 1 \in Nat \ {0} /\ 1 \in Nat \ {0}
      BY <1>0
    <3>2. step' \in [Request -> Nat \ {0}]
      BY <1>0, <1>2, <3>1 DEF PollSucceeded, AfterBuild
    <3>3. \E l \in PcStates : Goto(j, l)
      BY <1>0, <1>2 DEF PollSucceeded, AfterBuild
    <3>4. QED
      BY <1>0, <3>2, <3>3, GotoType
  <2>5. QED
    BY <1>2, <2>1, <2>3, <2>4 DEF PollSucceeded
<1>3. CASE PollFailed(j) \/ PollTimeout(j)
  <2>1. Building(j) \in Check
    BY <1>3, BuildingType DEF PollFailed, PollTimeout, Check
  <2>2. pc' \in [Request -> PcStates] /\ bad' \in [Request -> SUBSET Check]
    BY <1>0, <1>3, <2>1, FailTypes DEF PollFailed, PollTimeout
  <2>3. QED
    BY <1>3, <2>2 DEF PollFailed, PollTimeout, Fail
<1>4. CASE Emit(j)
  <2>1. faults' \in 0..FaultBudget
    BY <1>4, FaultTypes DEF Emit
  <2>2. Outcome(j) \in {"rolled", "nochanges", "failed", "built"}
    BY DEF Outcome, DeployOutcome
  <2>3. pc' \in [Request -> PcStates]
    BY <1>0, <1>4 DEF Emit
  <2>4. receipt' = receipt \/ receipt' = [receipt EXCEPT ![j] = Outcome(j)]
    BY <1>4 DEF Emit
  <2>5. receipt' \in [Request -> {"none", "rolled", "nochanges", "failed", "built", "blocked", "restarted"}]
    BY <1>0, <2>2, <2>4
  <2>6. QED
    BY <1>4, <2>1, <2>3, <2>5 DEF Emit
<1>5. CASE Exit(j)
  <2>1. pc' \in [Request -> PcStates]
    BY <1>0, <1>5 DEF Exit
  <2>2. inflight' \in [App -> Deploy \cup {None}]
    BY <1>5 DEF Exit
  <2>3. QED
    BY <1>5, <2>1, <2>2 DEF Exit
<1>6. QED
  BY <1>1, <1>2, <1>3, <1>4, <1>5

LEMMA RolloutTypes ==
  ASSUME TypeOK, StepInv, SeenInv, NEW d \in Deploy,
         RunRelease(d) \/ PollRelease(d) \/ DescribeService(d) \/ UpdateService(d)
  PROVE  TypeOK'
<1> USE DEF TypeOK, Goto, lvars, cloud, ghosts
<1>0. /\ "relwait" \in PcStates /\ "emit" \in PcStates /\ "roll" \in PcStates
      /\ "update" \in PcStates /\ d \in Request /\ d \in Deploy \cup Redeploy
  BY DEF PcStates, Live, Request, Job
<1>1. "release" \in Check
  BY DEF Check
<1>2. ASSUME NEW s \in Service PROVE ContainersOf[s] \in SUBSET Image /\ td[s] \in Containers
  BY ServiceAssumption DEF Containers
<1>3. CASE RunRelease(d)
  <2>1. faults' \in 0..FaultBudget
    BY <1>3, FaultTypes DEF RunRelease
  <2>2. Primary(d) \in Service
    BY <1>0, Lists DEF Primary
  <2>3. WithPins(td[Primary(d)], pins[d]) \in Containers
    <3>1. ContainersOf[Primary(d)] \in SUBSET Image
      BY <1>2, <2>2
    <3>2. td[Primary(d)] \in [ContainersOf[Primary(d)] -> ImageRef]
      BY <2>2
    <3>3. WithPins(td[Primary(d)], pins[d]) \in [ContainersOf[Primary(d)] -> ImageRef]
      BY <3>1, <3>2, WithPinsType
    <3>4. QED
      BY <3>1, <3>3 DEF Containers
  <2>4. /\ task' \in [Deploy -> {"none", "running", "zero", "nonzero", "noexit"}]
        /\ trial' \in [Deploy -> Containers] /\ step' = step
    <3>1. task' = task \/ task' = [task EXCEPT ![d] = "running"]
      BY <1>3 DEF RunRelease
    <3>2. trial' = trial \/ trial' = [trial EXCEPT ![d] = WithPins(td[Primary(d)], pins[d])]
      BY <1>3 DEF RunRelease
    <3>3. step' = step
      BY <1>3 DEF RunRelease, Fail
    <3>4. trial' \in [Deploy -> Containers]
      BY <2>3, <3>2
    <3>5. QED
      BY <3>1, <3>3, <3>4
  <2>5. pc' \in [Request -> PcStates] /\ bad' \in [Request -> SUBSET Check]
    <3>1. CASE Fail(d, "release")
      BY <1>0, <1>1, <3>1, FailTypes
    <3>2. CASE Goto(d, "relwait") /\ UNCHANGED <<step, bad>>
      BY <1>0, <3>2, GotoType
    <3>3. QED
      BY <1>3, <3>1, <3>2 DEF RunRelease
  <2>6. QED
    BY <1>3, <2>1, <2>4, <2>5 DEF RunRelease
<1>4. CASE PollRelease(d)
  <2>1. /\ pc' \in [Request -> PcStates] /\ bad' \in [Request -> SUBSET Check] /\ step' = step
    <3>1. CASE Fail(d, "release")
      BY <1>0, <1>1, <3>1, FailTypes
    <3>2. CASE Goto(d, "roll") /\ UNCHANGED <<step, bad>>
      BY <1>0, <3>2, GotoType
    <3>3. QED
      BY <1>4, <3>1, <3>2 DEF PollRelease
  <2>2. QED
    BY <1>4, <2>1 DEF PollRelease
<1>5. ASSUME NextService(d)
      PROVE pc' \in [Request -> PcStates] /\ step' \in [Request -> Nat \ {0}]
  BY <1>0, <1>5 DEF NextService
<1>6. ASSUME Rolling(d) \in Service, ServiceFailed(d) PROVE bad' \in [Request -> SUBSET Check]
  BY <1>0, <1>6 DEF ServiceFailed, Check
<1>7. CASE DescribeService(d)
  <2>1. faults' \in 0..FaultBudget
    BY <1>7, FaultTypes DEF DescribeService
  <2>2. Rolling(d) \in Service
    BY <1>7, RollingType DEF DescribeService, Rollout
  <2>3. unchanged' \in [Deploy -> SUBSET Service] /\ seen' \in [Deploy -> Containers]
    <3>1. unchanged' = unchanged \/ unchanged' = [unchanged EXCEPT ![d] = unchanged[d] \cup {Rolling(d)}]
      BY <1>7 DEF DescribeService
    <3>2. seen' = seen \/ seen' = [seen EXCEPT ![d] = td[Rolling(d)]]
      BY <1>7 DEF DescribeService
    <3>3. td[Rolling(d)] \in Containers
      BY <1>2, <2>2
    <3>4. unchanged' \in [Deploy -> SUBSET Service]
      BY <2>2, <3>1
    <3>5. seen' \in [Deploy -> Containers]
      BY <3>2, <3>3
    <3>6. QED
      BY <3>4, <3>5
  <2>4. bad' \in [Request -> SUBSET Check]
    BY <1>6, <1>7, <2>2 DEF DescribeService
  <2>5. pc' \in [Request -> PcStates] /\ step' \in [Request -> Nat \ {0}]
    BY <1>0, <1>5, <1>7 DEF DescribeService, ServiceFailed
  <2>6. QED
    BY <1>7, <2>1, <2>3, <2>4, <2>5 DEF DescribeService
<1>8. CASE UpdateService(d)
  <2>1. faults' \in 0..FaultBudget
    BY <1>8, FaultTypes DEF UpdateService
  <2>2. Rolling(d) \in Service
    BY <1>8, RollingType DEF UpdateService, Rollout
  <2>3. WithPins(seen[d], pins[d]) \in [ContainersOf[Rolling(d)] -> ImageRef]
    BY <1>2, <1>8, <2>2, WithPinsType DEF UpdateService, SeenInv
  <2>4. td' = td \/ td' = [td EXCEPT ![Rolling(d)] = WithPins(seen[d], pins[d])]
    BY <1>8 DEF UpdateService, Repoint
  <2>5. td' \in [Service -> Containers]
    <3>1. WithPins(seen[d], pins[d]) \in Containers
      BY <1>2, <2>2, <2>3 DEF Containers
    <3>2. QED
      BY <2>4, <3>1
  <2>6. ASSUME NEW s \in Service PROVE td'[s] \in [ContainersOf[s] -> ImageRef]
    <3>1. td'[s] = td[s] \/ (s = Rolling(d) /\ td'[s] = WithPins(seen[d], pins[d]))
      BY <2>4
    <3>2. QED
      BY <2>3, <3>1
  <2>7. stale' \subseteq Redeploy \X Service
    BY <1>8, <2>2 DEF UpdateService, Repoint
  <2>8. rolled' \in [Request -> SUBSET Service]
    BY <1>0, <1>8, <2>2 DEF UpdateService
  <2>9. bad' \in [Request -> SUBSET Check]
    BY <1>6, <1>8, <2>2 DEF UpdateService
  <2>10. pc' \in [Request -> PcStates] /\ step' \in [Request -> Nat \ {0}]
    BY <1>5, <1>8 DEF UpdateService, ServiceFailed
  <2>11. QED
    BY <1>8, <2>1, <2>5, <2>6, <2>7, <2>8, <2>9, <2>10 DEF UpdateService
<1>9. QED
  BY <1>3, <1>4, <1>7, <1>8

LEMMA RedeployTypes ==
  ASSUME TypeOK, StepInv, NEW r \in Redeploy, RedeployCheck(r) \/ RedeployRestart(r)
  PROVE  TypeOK'
<1> USE DEF TypeOK, lvars, cloud
<1>0. {"restart", "done"} \subseteq PcStates /\ r \in Request
  BY DEF PcStates, Request
<1>1. Rolling(r) \in Service /\ step[r] \in Nat \ {0}
  BY <1>0, RedeployingType DEF RedeployCheck, RedeployRestart
<1>2. faults' \in 0..FaultBudget
  BY FaultTypes DEF RedeployCheck, RedeployRestart
<1>3. step' \in [Request -> Nat \ {0}]
  <2>1. step' = step \/ \E n \in Nat \ {0} : step' = [step EXCEPT ![r] = n]
    <3>1. step[r] + 1 \in Nat \ {0} /\ 1 \in Nat \ {0}
      BY <1>1
    <3>2. QED
      BY <3>1 DEF RedeployCheck, RedeployRestart
  <2>2. QED
    BY <2>1
<1>4. pc' \in [Request -> PcStates]
  <2>1. pc' = pc \/ Goto(r, "restart") \/ Goto(r, "done")
    BY DEF RedeployCheck, RedeployRestart
  <2>2. QED
    BY <1>0, <2>1, GotoType
<1>5. receipt' \in [Request -> {"none", "rolled", "nochanges", "failed", "built", "blocked", "restarted"}]
  <2>1. \/ receipt' = receipt
        \/ receipt' = [receipt EXCEPT ![r] = "blocked"]
        \/ receipt' = [receipt EXCEPT ![r] = "restarted"]
    BY DEF RedeployCheck, RedeployRestart
  <2>2. QED
    BY <1>0, <2>1
<1>6. CASE RedeployCheck(r)
  <2>1. PinnedService(Rolling(r)) \in SUBSET Check
    BY <1>1 DEF PinnedService, Check
  <2>2. bad' = bad \/ bad' = [bad EXCEPT ![r] = bad[r] \cup PinnedService(Rolling(r))]
    BY <1>6 DEF RedeployCheck
  <2>3. bad' \in [Request -> SUBSET Check]
    <3>1. bad[r] \in SUBSET Check
      BY <1>0
    <3>2. bad[r] \cup PinnedService(Rolling(r)) \in SUBSET Check
      BY <2>1, <3>1
    <3>3. QED
      BY <1>0, <2>2, <3>2
  <2>4. stale' \subseteq Redeploy \X Service
    BY <1>1, <1>6 DEF RedeployCheck
  <2>5. QED
    BY <1>2, <1>3, <1>4, <1>5, <1>6, <2>3, <2>4 DEF RedeployCheck
<1>7. CASE RedeployRestart(r)
  <2>1. rolled' = rolled \/ rolled' = [rolled EXCEPT ![r] = rolled[r] \cup {Rolling(r)}]
    BY <1>7 DEF RedeployRestart
  <2>2. rolled' \in [Request -> SUBSET Service]
    <3>1. rolled[r] \in SUBSET Service
      BY <1>0
    <3>2. rolled[r] \cup {Rolling(r)} \in SUBSET Service
      BY <1>1, <3>1
    <3>3. QED
      BY <1>0, <2>1, <3>2
  <2>3. frozen' \subseteq Redeploy \X Service
    BY <1>1, <1>7 DEF RedeployRestart
  <2>4. QED
    BY <1>2, <1>3, <1>4, <1>5, <1>7, <2>2, <2>3 DEF RedeployRestart
<1>8. QED
  BY <1>6, <1>7

(* The steps a deploy takes, those of an image build among them. *)
LEMMA NextSplit ==
  ASSUME Next
  PROVE  \/ \E d \in Deploy : ToolDeploy(d)
         \/ \E b \in ImageBuild : ToolBuildImage(b)
         \/ \E r \in Redeploy : ToolAppRedeploy(r)
         \/ Crash
         \/ \E j \in Job : CodeBuildPush(j) \/ CodeBuildFail(j)
         \/ \E d \in Deploy : ReleaseExits(d)
         \/ \E d \in Deploy : StartBuild(d)
         \/ \E j \in Job : JobStep(j)
         \/ \E d \in Deploy : RunRelease(d) \/ PollRelease(d)
         \/ \E d \in Deploy : DescribeService(d) \/ UpdateService(d)
         \/ \E r \in Redeploy : RedeployCheck(r) \/ RedeployRestart(r)
BY DEF Next, DeployStep, RedeployStep, Job

LEMMA NextTypes ==
  ASSUME TypeOK, StepInv, SeenInv, [Next]_vars
  PROVE  TypeOK'
<1>1. CASE Next
  BY <1>1, NextSplit, HandlerTypes, CloudTypes, BuildTypes, RolloutTypes, RedeployTypes
     DEF JobStep, Job
<1>2. CASE UNCHANGED vars
  BY <1>2 DEF vars, TypeOK
<1>3. QED
  BY <1>1, <1>2

(* A position stays inside its list. *)
LEMMA StepKept ==
  ASSUME TypeOK, StepInv, BuildInv, [Next]_vars
  PROVE  StepInv'
<1> USE DEF StepInv, BuildInv, Rollout, Job, Request
<1>0. pc \in [Request -> PcStates] /\ step \in [Request -> Nat \ {0}] /\ build \in [Job -> {"none", "running", "succeeded", "failed"}]
  BY DEF TypeOK
<1>1. ASSUME NEW d \in Deploy, ToolDeploy(d) PROVE StepInv'
  <2>1. Goto(d, "build") \/ Goto(d, "rejected")
    BY <1>1 DEF ToolDeploy
  <2>2. QED
    BY <1>0, <1>1, <2>1, Lists, RequestAssumption DEF ToolDeploy, Goto, cloud
<1>2. ASSUME NEW b \in ImageBuild, ToolBuildImage(b) PROVE StepInv'
  BY <1>0, <1>2, Lists DEF ToolBuildImage, Goto, lvars
<1>3. ASSUME NEW r \in Redeploy, ToolAppRedeploy(r) PROVE StepInv'
  BY <1>0, <1>3, Lists, RequestAssumption DEF ToolAppRedeploy, Goto, cloud
<1>4. CASE Crash
  BY <1>0, <1>4 DEF Crash, Idle, lvars, cloud
<1>5. ASSUME NEW j \in Job, CodeBuildPush(j) PROVE StepInv'
  BY <1>0, <1>5 DEF CodeBuildPush, platform
<1>6. ASSUME NEW j \in Job, CodeBuildFail(j) PROVE StepInv'
  BY <1>0, <1>6 DEF CodeBuildFail, platform
<1>7. ASSUME NEW d \in Deploy, ReleaseExits(d) PROVE StepInv'
  BY <1>0, <1>7 DEF ReleaseExits, platform
<1>8. ASSUME NEW d \in Deploy, StartBuild(d) PROVE StepInv'
  BY <1>0, <1>8 DEF StartBuild, Goto, Fail, lvars
<1>9. ASSUME NEW j \in Job, PollSucceeded(j) PROVE StepInv'
  <2>1. build[j] # "running" /\ UNCHANGED build
    BY <1>9 DEF PollSucceeded, BuildDone, cloud
  <2>2. \/ step[j] < Len(BuildsOf(j)) /\ Goto(j, "build") /\ step' = [step EXCEPT ![j] = @ + 1]
        \/ step' = [step EXCEPT ![j] = 1] /\ (Goto(j, "emit") \/ Goto(j, "release") \/ Goto(j, "roll"))
    BY <1>9 DEF PollSucceeded, AfterBuild
  <2>3. step[j] \in 1..Len(BuildsOf(j)) /\ Len(BuildsOf(j)) \in Nat
    BY <1>9, Lists DEF PollSucceeded
  <2>4. \A x \in Request : x # j => pc'[x] = pc[x] /\ step'[x] = step[x]
    BY <1>0, <2>2 DEF Goto
  <2>5. \/ pc'[j] = "build" /\ step'[j] \in 1..Len(BuildsOf(j))
        \/ pc'[j] \in {"emit", "release", "roll"} /\ step'[j] = 1
    BY <1>0, <2>2, <2>3 DEF Goto
  <2>6. j \in Deploy => Len(Services(j)) \in Nat \ {0}
    BY Lists
  <2>7. /\ \A r \in Request : pc'[r] = "idle" => step'[r] = 1
        /\ \A d \in Deploy : pc'[d] \in {"release", "relwait"} => step'[d] = 1
        /\ \A k \in Job : pc'[k] \in {"build", "wait"} \/ build'[k] = "running"
             => step'[k] \in 1..Len(BuildsOf(k))
    BY <2>1, <2>4, <2>5
  <2>8. ASSUME NEW d \in Deploy, pc'[d] \in Rollout PROVE step'[d] \in 1..Len(Services(d))
    BY <2>4, <2>5, <2>6, <2>8
  <2>9. ASSUME NEW r \in Redeploy, pc'[r] \in {"check", "restart"}
        PROVE  step'[r] \in 1..Len(Services(r))
    BY <2>4, <2>9, RequestAssumption
  <2>10. QED
    BY <2>7, <2>8, <2>9
<1>10. ASSUME NEW j \in Job, PollFailed(j) PROVE StepInv'
  BY <1>0, <1>10 DEF PollFailed, Goto, Fail, lvars, cloud
<1>11. ASSUME NEW j \in Job, PollTimeout(j) PROVE StepInv'
  BY <1>0, <1>11 DEF PollTimeout, Goto, Fail, lvars, cloud
<1>12. ASSUME NEW j \in Job, Emit(j) PROVE StepInv'
  BY <1>0, <1>12 DEF Emit, Goto, lvars, cloud
<1>13. ASSUME NEW j \in Job, Exit(j) PROVE StepInv'
  BY <1>0, <1>13 DEF Exit, Goto, lvars, cloud
<1>14. ASSUME NEW d \in Deploy, RunRelease(d) PROVE StepInv'
  BY <1>0, <1>14 DEF RunRelease, Goto, Fail, lvars
<1>15. ASSUME NEW d \in Deploy, PollRelease(d) PROVE StepInv'
  <2>1. Goto(d, "roll") \/ Goto(d, "emit")
    BY <1>15 DEF PollRelease, Fail
  <2>2. QED
    BY <1>0, <1>15, <2>1, Lists, RequestAssumption DEF PollRelease, Goto, Fail, cloud
<1>16. ASSUME NEW d \in Deploy, DescribeService(d) PROVE StepInv'
  BY <1>0, <1>16 DEF DescribeService, ServiceFailed, NextService, Goto, cloud
<1>17. ASSUME NEW d \in Deploy, UpdateService(d) PROVE StepInv'
  <2>1. NextService(d) /\ UNCHANGED build
    BY <1>17 DEF UpdateService, ServiceFailed
  <2>2. step[d] \in 1..Len(Services(d)) /\ Len(Services(d)) \in Nat
    BY <1>17, Lists DEF UpdateService
  <2>3. \A x \in Request : x # d => pc'[x] = pc[x] /\ step'[x] = step[x]
    BY <1>0, <2>1 DEF NextService, Goto
  <2>4. \/ pc'[d] = "roll" /\ step'[d] \in 1..Len(Services(d))
        \/ pc'[d] = "emit"
    BY <1>0, <2>1, <2>2 DEF NextService, Goto
  <2>5. build[d] # "running"
    BY <1>17 DEF UpdateService
  <2>6. QED
    BY <1>0, <2>1, <2>3, <2>4, <2>5, RequestAssumption
<1>18. ASSUME NEW r \in Redeploy, RedeployCheck(r) PROVE StepInv'
  <2>1. step[r] \in 1..Len(Services(r)) /\ Len(Services(r)) \in Nat
    BY <1>18, Lists DEF RedeployCheck
  <2>2. \A x \in Request : x # r => pc'[x] = pc[x] /\ step'[x] = step[x]
    BY <1>0, <1>18 DEF RedeployCheck, Goto
  <2>3. (pc'[r] \in {"check", "restart"} /\ step'[r] \in 1..Len(Services(r))) \/ pc'[r] = "done"
    BY <1>0, <1>18, <2>1 DEF RedeployCheck, Goto
  <2>4. UNCHANGED build
    BY <1>18 DEF RedeployCheck, cloud
  <2>5. QED
    BY <1>0, <2>2, <2>3, <2>4, RequestAssumption
<1>19. ASSUME NEW r \in Redeploy, RedeployRestart(r) PROVE StepInv'
  BY <1>0, <1>19 DEF RedeployRestart, Goto, cloud
<1>20. CASE UNCHANGED vars
  BY <1>20 DEF vars
<1>21. QED
  BY <1>1, <1>2, <1>3, <1>4, <1>5, <1>6, <1>7, <1>8, <1>9, <1>10, <1>11, <1>12, <1>13, <1>14, <1>15, <1>16, <1>17, <1>18, <1>19, <1>20, NextSplit DEF JobStep

LEMMA BuildKept ==
  ASSUME TypeOK, BuildInv, [Next]_vars
  PROVE  BuildInv'
<1> USE DEF BuildInv, Job, Request
<1>0. pc \in [Request -> PcStates] /\ build \in [Job -> {"none", "running", "succeeded", "failed"}]
  BY DEF TypeOK
<1>1. ASSUME NEW d \in Deploy, ToolDeploy(d) PROVE BuildInv'
  <2>1. Goto(d, "build") \/ Goto(d, "rejected")
    BY <1>1 DEF ToolDeploy
  <2>2. QED
    BY <1>0, <1>1, <2>1 DEF ToolDeploy, Goto, cloud
<1>2. ASSUME NEW b \in ImageBuild, ToolBuildImage(b) PROVE BuildInv'
  BY <1>0, <1>2 DEF ToolBuildImage, Goto, lvars
<1>3. ASSUME NEW r \in Redeploy, ToolAppRedeploy(r) PROVE BuildInv'
  BY <1>0, <1>3 DEF ToolAppRedeploy, Goto, cloud
<1>4. CASE Crash
  BY <1>0, <1>4 DEF Crash, Idle, lvars, cloud
<1>5. ASSUME NEW j \in Job, CodeBuildPush(j) PROVE BuildInv'
  BY <1>0, <1>5 DEF CodeBuildPush, platform
<1>6. ASSUME NEW j \in Job, CodeBuildFail(j) PROVE BuildInv'
  BY <1>0, <1>6 DEF CodeBuildFail, platform
<1>7. ASSUME NEW d \in Deploy, ReleaseExits(d) PROVE BuildInv'
  BY <1>0, <1>7 DEF ReleaseExits, platform
<1>8. ASSUME NEW d \in Deploy, StartBuild(d) PROVE BuildInv'
  BY <1>0, <1>8 DEF StartBuild, Goto, Fail, lvars
<1>9. ASSUME NEW j \in Job, PollSucceeded(j) PROVE BuildInv'
  BY <1>0, <1>9 DEF PollSucceeded, BuildDone, AfterBuild, Goto, cloud
<1>10. ASSUME NEW j \in Job, PollFailed(j) PROVE BuildInv'
  BY <1>0, <1>10 DEF PollFailed, Goto, Fail, lvars, cloud
<1>11. ASSUME NEW j \in Job, PollTimeout(j) PROVE BuildInv'
  BY <1>0, <1>11 DEF PollTimeout, Goto, Fail, lvars, cloud
<1>12. ASSUME NEW j \in Job, Emit(j) PROVE BuildInv'
  BY <1>0, <1>12 DEF Emit, Goto, lvars, cloud
<1>13. ASSUME NEW j \in Job, Exit(j) PROVE BuildInv'
  BY <1>0, <1>13 DEF Exit, Goto, lvars, cloud
<1>14. ASSUME NEW d \in Deploy, RunRelease(d) PROVE BuildInv'
  BY <1>0, <1>14 DEF RunRelease, Goto, Fail, lvars
<1>15. ASSUME NEW d \in Deploy, PollRelease(d) PROVE BuildInv'
  BY <1>0, <1>15 DEF PollRelease, Goto, Fail, lvars, cloud
<1>16. ASSUME NEW d \in Deploy, DescribeService(d) PROVE BuildInv'
  BY <1>0, <1>16 DEF DescribeService, ServiceFailed, NextService, Goto, cloud
<1>17. ASSUME NEW d \in Deploy, UpdateService(d) PROVE BuildInv'
  BY <1>0, <1>17 DEF UpdateService, Repoint, ServiceFailed, NextService, Goto
<1>18. ASSUME NEW r \in Redeploy, RedeployCheck(r) PROVE BuildInv'
  BY <1>0, <1>18 DEF RedeployCheck, Goto, lvars, cloud
<1>19. ASSUME NEW r \in Redeploy, RedeployRestart(r) PROVE BuildInv'
  BY <1>0, <1>19 DEF RedeployRestart, Goto, cloud
<1>20. CASE UNCHANGED vars
  BY <1>20 DEF vars
<1>21. QED
  BY <1>1, <1>2, <1>3, <1>4, <1>5, <1>6, <1>7, <1>8, <1>9, <1>10, <1>11, <1>12, <1>13, <1>14, <1>15, <1>16, <1>17, <1>18, <1>19, <1>20, NextSplit DEF JobStep

LEMMA MarkerKept ==
  ASSUME TypeOK, OneDeployPerApp, [Next]_vars
  PROVE  OneDeployPerApp'
<1> USE DEF OneDeployPerApp, Live, Job, Request
<1>0. pc \in [Request -> PcStates] /\ inflight \in [App -> Deploy \cup {None}]
  BY DEF TypeOK
<1>1. ASSUME NEW d \in Deploy, ToolDeploy(d) PROVE OneDeployPerApp'
  <2>0. TargetOf[d] \in App /\ None \notin Deploy
    BY RequestAssumption DEF Request, Job
  <2>1. CASE inflight[TargetOf[d]] = None
    <3>1. Goto(d, "build") /\ inflight' = [inflight EXCEPT ![TargetOf[d]] = d]
      BY <1>1, <2>1 DEF ToolDeploy, MayStartDeploy
    <3>2. QED
      BY <1>0, <1>1, <2>0, <2>1, <3>1, RequestAssumption DEF ToolDeploy, Goto
  <2>2. CASE inflight[TargetOf[d]] # None
    <3>1. Goto(d, "rejected") /\ inflight' = inflight
      BY <1>1, <2>2 DEF ToolDeploy, MayStartDeploy
    <3>2. QED
      BY <1>0, <1>1, <2>0, <3>1 DEF ToolDeploy, Goto
  <2>3. QED
    BY <2>1, <2>2
<1>2. ASSUME NEW b \in ImageBuild, ToolBuildImage(b) PROVE OneDeployPerApp'
  BY <1>0, <1>2, RequestAssumption DEF ToolBuildImage, Goto, lvars
<1>3. ASSUME NEW r \in Redeploy, ToolAppRedeploy(r) PROVE OneDeployPerApp'
  BY <1>0, <1>3 DEF ToolAppRedeploy, Goto, cloud
<1>4. CASE Crash
  BY <1>0, <1>4 DEF Crash, Idle, lvars, cloud
<1>5. ASSUME NEW j \in Job, CodeBuildPush(j) PROVE OneDeployPerApp'
  BY <1>0, <1>5 DEF CodeBuildPush, platform
<1>6. ASSUME NEW j \in Job, CodeBuildFail(j) PROVE OneDeployPerApp'
  BY <1>0, <1>6 DEF CodeBuildFail, platform
<1>7. ASSUME NEW d \in Deploy, ReleaseExits(d) PROVE OneDeployPerApp'
  BY <1>0, <1>7 DEF ReleaseExits, platform
<1>8. ASSUME NEW d \in Deploy, StartBuild(d) PROVE OneDeployPerApp'
  BY <1>0, <1>8 DEF StartBuild, Goto, Fail, lvars
<1>9. ASSUME NEW j \in Job, PollSucceeded(j) PROVE OneDeployPerApp'
  BY <1>0, <1>9 DEF PollSucceeded, BuildDone, AfterBuild, Goto, cloud
<1>10. ASSUME NEW j \in Job, PollFailed(j) PROVE OneDeployPerApp'
  BY <1>0, <1>10 DEF PollFailed, Goto, Fail, lvars, cloud
<1>11. ASSUME NEW j \in Job, PollTimeout(j) PROVE OneDeployPerApp'
  BY <1>0, <1>11 DEF PollTimeout, Goto, Fail, lvars, cloud
<1>12. ASSUME NEW j \in Job, Emit(j) PROVE OneDeployPerApp'
  BY <1>0, <1>12 DEF Emit, Goto, lvars, cloud
<1>13. ASSUME NEW j \in Job, Exit(j) PROVE OneDeployPerApp'
  BY <1>0, <1>13 DEF Exit, Goto, lvars, cloud
<1>14. ASSUME NEW d \in Deploy, RunRelease(d) PROVE OneDeployPerApp'
  BY <1>0, <1>14 DEF RunRelease, Goto, Fail, lvars
<1>15. ASSUME NEW d \in Deploy, PollRelease(d) PROVE OneDeployPerApp'
  BY <1>0, <1>15 DEF PollRelease, Goto, Fail, lvars, cloud
<1>16. ASSUME NEW d \in Deploy, DescribeService(d) PROVE OneDeployPerApp'
  BY <1>0, <1>16 DEF DescribeService, ServiceFailed, NextService, Goto, cloud
<1>17. ASSUME NEW d \in Deploy, UpdateService(d) PROVE OneDeployPerApp'
  BY <1>0, <1>17 DEF UpdateService, Repoint, ServiceFailed, NextService, Goto
<1>18. ASSUME NEW r \in Redeploy, RedeployCheck(r) PROVE OneDeployPerApp'
  BY <1>0, <1>18 DEF RedeployCheck, Goto, lvars, cloud
<1>19. ASSUME NEW r \in Redeploy, RedeployRestart(r) PROVE OneDeployPerApp'
  BY <1>0, <1>19 DEF RedeployRestart, Goto, cloud
<1>20. CASE UNCHANGED vars
  BY <1>20 DEF vars
<1>21. QED
  BY <1>1, <1>2, <1>3, <1>4, <1>5, <1>6, <1>7, <1>8, <1>9, <1>10, <1>11, <1>12, <1>13, <1>14, <1>15, <1>16, <1>17, <1>18, <1>19, <1>20, NextSplit DEF JobStep

LEMMA ReleasedKept ==
  ASSUME TypeOK, StepInv, ReleasedInv, [Next]_vars
  PROVE  ReleasedInv'
<1> USE DEF ReleasedInv, Released, Rollout, Job, Request
<1>0. pc \in [Request -> PcStates] /\ bad \in [Request -> SUBSET Check] /\ DOMAIN task = Deploy
  BY DEF TypeOK
<1>1. ASSUME NEW d \in Deploy, ToolDeploy(d) PROVE ReleasedInv'
  <2>1. Goto(d, "build") \/ Goto(d, "rejected")
    BY <1>1 DEF ToolDeploy
  <2>2. QED
    BY <1>0, <1>1, <2>1 DEF ToolDeploy, Goto, cloud
<1>2. ASSUME NEW b \in ImageBuild, ToolBuildImage(b) PROVE ReleasedInv'
  BY <1>0, <1>2 DEF ToolBuildImage, Goto, lvars
<1>3. ASSUME NEW r \in Redeploy, ToolAppRedeploy(r) PROVE ReleasedInv'
  BY <1>0, <1>3 DEF ToolAppRedeploy, Goto, cloud
<1>4. CASE Crash
  BY <1>0, <1>4 DEF Crash, Idle, lvars, cloud
<1>5. ASSUME NEW j \in Job, CodeBuildPush(j) PROVE ReleasedInv'
  BY <1>0, <1>5 DEF CodeBuildPush, platform
<1>6. ASSUME NEW j \in Job, CodeBuildFail(j) PROVE ReleasedInv'
  BY <1>0, <1>6 DEF CodeBuildFail, platform
<1>7. ASSUME NEW d \in Deploy, ReleaseExits(d) PROVE ReleasedInv'
  BY <1>0, <1>7 DEF ReleaseExits, platform
<1>8. ASSUME NEW d \in Deploy, StartBuild(d) PROVE ReleasedInv'
  BY <1>0, <1>8 DEF StartBuild, Goto, Fail, lvars
<1>9. ASSUME NEW j \in Job, PollSucceeded(j) PROVE ReleasedInv'
  BY <1>0, <1>9 DEF PollSucceeded, BuildDone, AfterBuild, Goto, cloud
<1>10. ASSUME NEW j \in Job, PollFailed(j) PROVE ReleasedInv'
  BY <1>0, <1>10 DEF PollFailed, Goto, Fail, lvars, cloud
<1>11. ASSUME NEW j \in Job, PollTimeout(j) PROVE ReleasedInv'
  BY <1>0, <1>11 DEF PollTimeout, Goto, Fail, lvars, cloud
<1>12. ASSUME NEW j \in Job, Emit(j) PROVE ReleasedInv'
  BY <1>0, <1>12 DEF Emit, Goto, lvars, cloud
<1>13. ASSUME NEW j \in Job, Exit(j) PROVE ReleasedInv'
  BY <1>0, <1>13 DEF Exit, Goto, lvars, cloud
<1>14. ASSUME NEW d \in Deploy, RunRelease(d) PROVE ReleasedInv'
  BY <1>0, <1>14 DEF RunRelease, Goto, Fail, lvars
<1>15. ASSUME NEW d \in Deploy, PollRelease(d) PROVE ReleasedInv'
  BY <1>0, <1>15 DEF PollRelease, Goto, Fail, lvars, cloud, ReleaseGate
<1>16. ASSUME NEW d \in Deploy, DescribeService(d) PROVE ReleasedInv'
  BY <1>0, <1>16, RollingType, ValueAssumption DEF DescribeService, ServiceFailed, NextService, Goto, cloud
<1>17. ASSUME NEW d \in Deploy, UpdateService(d) PROVE ReleasedInv'
  BY <1>0, <1>17, RollingType, ValueAssumption DEF UpdateService, Repoint, ServiceFailed, NextService, Goto
<1>18. ASSUME NEW r \in Redeploy, RedeployCheck(r) PROVE ReleasedInv'
  BY <1>0, <1>18 DEF RedeployCheck, Goto, lvars, cloud
<1>19. ASSUME NEW r \in Redeploy, RedeployRestart(r) PROVE ReleasedInv'
  BY <1>0, <1>19 DEF RedeployRestart, Goto, cloud
<1>20. CASE UNCHANGED vars
  BY <1>20 DEF vars
<1>21. QED
  BY <1>1, <1>2, <1>3, <1>4, <1>5, <1>6, <1>7, <1>8, <1>9, <1>10, <1>11, <1>12, <1>13, <1>14, <1>15, <1>16, <1>17, <1>18, <1>19, <1>20, NextSplit DEF JobStep

(* A deploy at work is the only one to repoint the services of its app. *)
LEMMA OthersRoll ==
  ASSUME TypeOK, StepInv, OneDeployPerApp,
         NEW e \in Deploy, UpdateService(e), NEW d \in Deploy, d # e, pc[d] \in Live,
         NEW n \in 1..Len(Services(d))
  PROVE  td'[Services(d)[n]] = td[Services(d)[n]]
<1>1. pc[e] \in Live /\ pc[e] \in Rollout
  BY DEF UpdateService, Live, Rollout
<1>2. TargetOf[d] # TargetOf[e]
  BY <1>1 DEF OneDeployPerApp
<1>3. Services(d)[n] # Rolling(e)
  BY <1>1, <1>2, RollingType, OneAppPerService DEF Rolling
<1>4. td' = td \/ td' = [td EXCEPT ![Rolling(e)] = WithPins(seen[e], pins[e])]
  BY DEF UpdateService, Repoint
<1>5. td \in [Service -> Containers] /\ Services(d)[n] \in Service
  BY Lists DEF TypeOK
<1>6. QED
  BY <1>3, <1>4, <1>5

(* What a deploy itself does to the service it updates. *)
LEMMA OwnRoll ==
  ASSUME TypeOK, StepInv, SeenInv, NEW d \in Deploy, UpdateService(d)
  PROVE  /\ Rolling(d) \in Service /\ step[d] \in 1..Len(Services(d)) /\ NextService(d)
         /\ td'[Rolling(d)] = WithPins(td[Rolling(d)], pins[d]) \/ Rolling(d) \in bad'[d]
         /\ \A s \in Service : s # Rolling(d) => td'[s] = td[s]
         /\ UNCHANGED pins
         /\ bad[d] \subseteq bad'[d]
<1>1. Rolling(d) \in Service /\ step[d] \in 1..Len(Services(d))
  BY RollingType DEF UpdateService, Rollout
<1>2. seen[d] = td[Rolling(d)] /\ NextService(d) /\ UNCHANGED pins
  BY DEF UpdateService, SeenInv, ServiceFailed
<1>3. /\ td \in [Service -> Containers] /\ bad \in [Request -> SUBSET Check] /\ d \in Request
  BY DEF TypeOK, Request, Job
<1>4. td' = td \/ td' = [td EXCEPT ![Rolling(d)] = WithPins(seen[d], pins[d])]
  BY DEF UpdateService, Repoint
<1>5. \/ td' = [td EXCEPT ![Rolling(d)] = WithPins(seen[d], pins[d])] /\ bad' = bad
      \/ bad' = [bad EXCEPT ![d] = bad[d] \cup {Rolling(d)}]
  BY DEF UpdateService, Repoint, ServiceFailed
<1>6. QED
  BY <1>1, <1>2, <1>3, <1>4, <1>5

LEMMA Before ==
  ASSUME NEW d \in Deploy
  PROVE  /\ ServicesBefore(d, 1) = {}
         /\ \A n \in 1..Len(Services(d)) :
              ServicesBefore(d, n + 1) = ServicesBefore(d, n) \cup {Services(d)[n]}
         /\ ServicesBefore(d, Len(Services(d)) + 1) = ServiceSet(TargetOf[d])
<1>1. Len(Services(d)) \in Nat
  BY Lists
<1>2. QED
  BY <1>1 DEF ServicesBefore, ServiceSet, Services

(* A step of the system is a step of the job of a deploy, or leaves that job, *)
(* what it knows and the services of its app as they were.                   *)
Undisturbed(d) ==
  /\ pc'[d] = pc[d] /\ step'[d] = step[d] /\ bad'[d] = bad[d]
  /\ pins'[d] = pins[d] /\ seen'[d] = seen[d] /\ trial'[d] = trial[d]
  /\ \A n \in 1..Len(Services(d)) : td'[Services(d)[n]] = td[Services(d)[n]]

LEMMA OwnStepOrUndisturbed ==
  ASSUME TypeOK, StepInv, OneDeployPerApp, [Next]_vars, NEW d \in Deploy, pc'[d] \in Live
  PROVE  ToolDeploy(d) \/ DeployStep(d) \/ Undisturbed(d)
<1> USE DEF Undisturbed, Goto
<1>0. /\ d \in Request /\ d \notin ImageBuild /\ d \notin Redeploy
      /\ pc \in [Request -> PcStates] /\ step \in [Request -> Nat \ {0}]
      /\ bad \in [Request -> SUBSET Check] /\ DOMAIN pins = Deploy /\ DOMAIN seen = Deploy
      /\ DOMAIN trial = Deploy
  BY RequestAssumption DEF TypeOK, Request, Job
<1>1. ASSUME NEW e \in Deploy, ToolDeploy(e), e # d PROVE Undisturbed(d)
  <2>1. Goto(e, "build") \/ Goto(e, "rejected")
    BY <1>1 DEF ToolDeploy
  <2>2. UNCHANGED <<step, bad, pins, seen, trial, td>>
    BY <1>1 DEF ToolDeploy, cloud
  <2>3. QED
    BY <1>0, <1>1, <2>1, <2>2
<1>2. ASSUME NEW b \in ImageBuild, ToolBuildImage(b) PROVE Undisturbed(d)
  BY <1>0, <1>2 DEF ToolBuildImage, lvars
<1>3. ASSUME NEW r \in Redeploy, ToolAppRedeploy(r) PROVE Undisturbed(d)
  BY <1>0, <1>3 DEF ToolAppRedeploy, lvars, cloud
<1>4. CASE Crash
  BY <1>0, <1>4 DEF Crash, Live, Idle
<1>5. ASSUME NEW j \in Job, CodeBuildPush(j) PROVE Undisturbed(d)
  BY <1>0, <1>5 DEF CodeBuildPush, platform
<1>6. ASSUME NEW j \in Job, CodeBuildFail(j) PROVE Undisturbed(d)
  BY <1>0, <1>6 DEF CodeBuildFail, platform
<1>7. ASSUME NEW e \in Deploy, ReleaseExits(e) PROVE Undisturbed(d)
  BY <1>0, <1>7 DEF ReleaseExits, platform
<1>8. ASSUME NEW e \in Deploy, StartBuild(e), e # d PROVE Undisturbed(d)
  BY <1>0, <1>8 DEF StartBuild, Fail, lvars
<1>9. ASSUME NEW j \in Job, PollSucceeded(j), j # d PROVE Undisturbed(d)
  <2>1. pins'[d] = pins[d]
    BY <1>9 DEF PollSucceeded, lvars
  <2>2. UNCHANGED <<bad, seen, trial, td>> /\ pc'[d] = pc[d] /\ step'[d] = step[d]
    BY <1>0, <1>9 DEF PollSucceeded, AfterBuild, cloud
  <2>3. QED
    BY <2>1, <2>2
<1>10. ASSUME NEW j \in Job, PollFailed(j), j # d PROVE Undisturbed(d)
  BY <1>0, <1>10 DEF PollFailed, Fail, lvars, cloud
<1>11. ASSUME NEW j \in Job, PollTimeout(j), j # d PROVE Undisturbed(d)
  BY <1>0, <1>11 DEF PollTimeout, Fail, lvars, cloud
<1>12. ASSUME NEW j \in Job, Emit(j), j # d PROVE Undisturbed(d)
  BY <1>0, <1>12 DEF Emit, lvars, cloud
<1>13. ASSUME NEW j \in Job, Exit(j), j # d PROVE Undisturbed(d)
  BY <1>0, <1>13 DEF Exit, lvars, cloud
<1>14. ASSUME NEW e \in Deploy, RunRelease(e), e # d PROVE Undisturbed(d)
  BY <1>0, <1>14 DEF RunRelease, Fail, lvars
<1>15. ASSUME NEW e \in Deploy, PollRelease(e), e # d PROVE Undisturbed(d)
  BY <1>0, <1>15 DEF PollRelease, Fail, lvars, cloud
<1>16. ASSUME NEW e \in Deploy, DescribeService(e), e # d PROVE Undisturbed(d)
  BY <1>0, <1>16 DEF DescribeService, ServiceFailed, NextService, cloud
<1>17. ASSUME NEW e \in Deploy, UpdateService(e), e # d PROVE Undisturbed(d)
  <2>1. UNCHANGED <<pins, seen, trial>> /\ NextService(e)
    BY <1>17 DEF UpdateService, ServiceFailed
  <2>2. pc'[d] = pc[d] /\ step'[d] = step[d] /\ bad'[d] = bad[d]
    BY <1>0, <1>17 DEF UpdateService, ServiceFailed, NextService
  <2>3. QED
    BY <1>17, <2>1, <2>2, OthersRoll
<1>18. ASSUME NEW r \in Redeploy, RedeployCheck(r) PROVE Undisturbed(d)
  BY <1>0, <1>18 DEF RedeployCheck, lvars, cloud
<1>19. ASSUME NEW r \in Redeploy, RedeployRestart(r) PROVE Undisturbed(d)
  BY <1>0, <1>19 DEF RedeployRestart, cloud
<1>20. CASE UNCHANGED vars
  BY <1>20 DEF vars
<1>21. QED
  BY <1>1, <1>2, <1>3, <1>4, <1>5, <1>6, <1>7, <1>8, <1>9, <1>10, <1>11, <1>12, <1>13, <1>14, <1>15, <1>16, <1>17, <1>18, <1>19, <1>20, NextSplit DEF JobStep, DeployStep

(* What the release task was run with is what the primary service will get. *)
LEMMA TrialKept ==
  ASSUME TypeOK, StepInv, OneDeployPerApp, SeenInv, TrialInv, [Next]_vars
  PROVE  TrialInv'
<1> SUFFICES ASSUME NEW d \in Deploy, pc'[d] \in Rollout \cup {"relwait"}, HasRelease, step'[d] = 1 PROVE trial'[d] = WithPins(td'[Primary(d)], pins'[d])
  BY DEF TrialInv
<1> USE DEF Rollout
<1>0. d \in Request /\ pc \in [Request -> PcStates] /\ step \in [Request -> Nat \ {0}] /\ DOMAIN trial = Deploy
  BY DEF TypeOK, Request, Job
<1>1. CASE ToolDeploy(d)
  <2>1. pc'[d] \in {"build", "rejected"}
    BY <1>0, <1>1 DEF ToolDeploy, Goto
  <2>2. QED
    BY <2>1
<1>2. CASE StartBuild(d)
  BY <1>0, <1>2 DEF StartBuild, Goto, Fail
<1>3. CASE PollSucceeded(d)
  BY <1>0, <1>3 DEF PollSucceeded, AfterBuild, Goto, cloud
<1>4. CASE PollFailed(d)
  BY <1>0, <1>4 DEF PollFailed, Goto, Fail, cloud
<1>5. CASE PollTimeout(d)
  BY <1>0, <1>5 DEF PollTimeout, Goto, Fail, cloud
<1>6. CASE Emit(d)
  BY <1>0, <1>6 DEF Emit, Goto, lvars, cloud
<1>7. CASE Exit(d)
  BY <1>0, <1>7 DEF Exit, Goto
<1>8. CASE RunRelease(d)
  BY <1>0, <1>8, RequestAssumption, Lists DEF RunRelease, Goto, Fail, lvars
<1>9. CASE PollRelease(d)
  BY <1>0, <1>9 DEF PollRelease, Goto, Fail, lvars, cloud, TrialInv
<1>10. CASE DescribeService(d)
  BY <1>0, <1>10 DEF DescribeService, ServiceFailed, NextService, Goto, cloud, TrialInv
<1>11. CASE UpdateService(d)
  <2>1. step'[d] = step[d] + 1
    BY <1>0, <1>11, OwnRoll DEF NextService
  <2>2. QED
    BY <1>0, <2>1
<1>12. CASE Undisturbed(d)
  <2>1. Primary(d) = Services(d)[1] /\ 1 \in 1..Len(Services(d))
    BY Lists DEF Primary
  <2>2. QED
    BY <1>12, <2>1 DEF Undisturbed, TrialInv
<1>13. QED
  BY OwnStepOrUndisturbed, <1>1, <1>2, <1>3, <1>4, <1>5, <1>6, <1>7, <1>8, <1>9, <1>10, <1>11, <1>12 DEF Live, Rollout, DeployStep, JobStep

(* A deploy updates a service from the containers it has read. *)
LEMMA SeenKept ==
  ASSUME TypeOK, StepInv, OneDeployPerApp, SeenInv, [Next]_vars
  PROVE  SeenInv'
<1> SUFFICES ASSUME NEW d \in Deploy, pc'[d] = "update" PROVE seen'[d] = td'[Services(d)[step'[d]]]
  BY DEF SeenInv, Rolling
<1> USE DEF Rolling
<1>0. d \in Request /\ pc \in [Request -> PcStates] /\ step \in [Request -> Nat \ {0}] /\ DOMAIN seen = Deploy
  BY DEF TypeOK, Request, Job
<1>1. CASE ToolDeploy(d)
  <2>1. pc'[d] \in {"build", "rejected"}
    BY <1>0, <1>1 DEF ToolDeploy, Goto
  <2>2. QED
    BY <2>1
<1>2. CASE StartBuild(d)
  BY <1>0, <1>2 DEF StartBuild, Goto, Fail
<1>3. CASE PollSucceeded(d)
  BY <1>0, <1>3 DEF PollSucceeded, AfterBuild, Goto, cloud
<1>4. CASE PollFailed(d)
  BY <1>0, <1>4 DEF PollFailed, Goto, Fail, cloud
<1>5. CASE PollTimeout(d)
  BY <1>0, <1>5 DEF PollTimeout, Goto, Fail, cloud
<1>6. CASE Emit(d)
  BY <1>0, <1>6 DEF Emit, Goto, lvars, cloud
<1>7. CASE Exit(d)
  BY <1>0, <1>7 DEF Exit, Goto
<1>8. CASE RunRelease(d)
  BY <1>0, <1>8 DEF RunRelease, Goto, Fail, lvars
<1>9. CASE PollRelease(d)
  BY <1>0, <1>9 DEF PollRelease, Goto, Fail, lvars, cloud
<1>10. CASE DescribeService(d)
  BY <1>0, <1>10 DEF DescribeService, ServiceFailed, NextService, Goto, cloud
<1>11. CASE UpdateService(d)
  <2>1. pc'[d] # "update"
    BY <1>0, <1>11, OwnRoll DEF NextService, Goto
  <2>2. QED
    BY <2>1
<1>12. CASE Undisturbed(d)
  <2>1. step[d] \in 1..Len(Services(d))
    BY <1>12, RollingType DEF Undisturbed, Rollout
  <2>2. QED
    BY <1>12, <2>1 DEF Undisturbed, SeenInv
<1>13. QED
  BY OwnStepOrUndisturbed, <1>1, <1>2, <1>3, <1>4, <1>5, <1>6, <1>7, <1>8, <1>9, <1>10, <1>11, <1>12 DEF Live, Rollout, DeployStep, JobStep

(* A service stays pinned when it is not the one updated. *)
LEMMA RolledServices ==
  ASSUME TypeOK, StepInv, SeenInv, NEW d \in Deploy, DescribeService(d) \/ UpdateService(d),
         pc'[d] # "update",
         \A s \in PastServices(d) : s \in bad[d] \/ Pinned(d, s)
  PROVE  /\ \A s \in ServicesBefore(d, step[d] + 1) : s \in bad'[d] \/ Pinned(d, s)'
         /\ step[d] \in 1..Len(Services(d)) /\ NextService(d)
<1>0. /\ pc \in [Request -> PcStates] /\ bad \in [Request -> SUBSET Check]
      /\ d \in Request /\ pc[d] \in Rollout
  BY DEF TypeOK, Request, Job, DescribeService, UpdateService, Rollout
<1>1. step[d] \in 1..Len(Services(d)) /\ Rolling(d) \in Service
  BY <1>0, RollingType
<1>2. ServicesBefore(d, step[d] + 1) = PastServices(d) \cup {Rolling(d)}
  BY <1>1, Before DEF PastServices, Rolling
<1>3. NextService(d) /\ UNCHANGED pins /\ bad[d] \subseteq bad'[d]
  <2>1. CASE DescribeService(d)
    BY <1>0, <2>1 DEF DescribeService, ServiceFailed, Goto
  <2>2. CASE UpdateService(d)
    BY <2>2, OwnRoll
  <2>3. QED
    BY <2>1, <2>2
<1>4. \A s \in Service \ {Rolling(d)} : td'[s] = td[s]
  <2>1. CASE DescribeService(d)
    BY <2>1 DEF DescribeService, cloud
  <2>2. CASE UpdateService(d)
    BY <2>2, OwnRoll
  <2>3. QED
    BY <2>1, <2>2
<1>5. ASSUME NEW s \in {Rolling(d)} PROVE s \in bad'[d] \/ Pinned(d, s)'
  <2>1. CASE DescribeService(d)
    <3>1. \/ WithPins(td[Rolling(d)], pins[d]) = td[Rolling(d)]
          \/ bad' = [bad EXCEPT ![d] = @ \cup {Rolling(d)}]
      BY <1>0, <2>1 DEF DescribeService, ServiceFailed, Goto
    <3>2. td' = td
      BY <2>1 DEF DescribeService, cloud
    <3>3. QED
      BY <1>0, <1>3, <3>1, <3>2 DEF Pinned
  <2>2. CASE UpdateService(d)
    <3>1. td'[Rolling(d)] = WithPins(td[Rolling(d)], pins[d]) \/ Rolling(d) \in bad'[d]
      BY <2>2, OwnRoll
    <3>2. QED
      BY <1>3, <3>1, WithPinsIdempotent DEF Pinned
  <2>3. QED
    BY <2>1, <2>2
<1>6. ASSUME NEW s \in PastServices(d) PROVE s \in bad'[d] \/ Pinned(d, s)'
  <2>1. s \in Service
    BY Lists DEF PastServices, ServicesBefore
  <2>2. CASE s = Rolling(d)
    BY <1>5, <2>2
  <2>3. CASE s # Rolling(d)
    BY <1>3, <1>4, <2>1, <2>3 DEF Pinned
  <2>4. QED
    BY <2>2, <2>3
<1>7. QED
  BY <1>1, <1>2, <1>3, <1>5, <1>6

(* The services a deploy has passed are pinned or count as failed. *)
LEMMA ProgressKept ==
  ASSUME TypeOK, StepInv, OneDeployPerApp, SeenInv, ProgressInv, [Next]_vars
  PROVE  ProgressInv'
<1> SUFFICES ASSUME NEW d \in Deploy, pc'[d] \in Rollout PROVE \A s \in PastServices(d)' : s \in bad'[d] \/ Pinned(d, s)'
  BY DEF ProgressInv
<1> USE DEF Rollout
<1>0. d \in Request /\ pc \in [Request -> PcStates] /\ step \in [Request -> Nat \ {0}] /\ bad \in [Request -> SUBSET Check]
  BY DEF TypeOK, Request, Job
<1>1. CASE ToolDeploy(d)
  <2>1. pc'[d] \in {"build", "rejected"}
    BY <1>0, <1>1 DEF ToolDeploy, Goto
  <2>2. QED
    BY <2>1
<1>2. CASE StartBuild(d)
  BY <1>0, <1>2 DEF StartBuild, Goto, Fail
<1>3. CASE PollSucceeded(d)
  <2>1. step'[d] = 1
    BY <1>0, <1>3 DEF PollSucceeded, AfterBuild, Goto, cloud
  <2>2. PastServices(d)' = {}
    BY <2>1, Before DEF PastServices, ServicesBefore, Services
  <2>3. QED
    BY <2>2
<1>4. CASE PollFailed(d)
  BY <1>0, <1>4 DEF PollFailed, Goto, Fail, cloud
<1>5. CASE PollTimeout(d)
  BY <1>0, <1>5 DEF PollTimeout, Goto, Fail, cloud
<1>6. CASE Emit(d)
  BY <1>0, <1>6 DEF Emit, Goto, lvars, cloud
<1>7. CASE Exit(d)
  BY <1>0, <1>7 DEF Exit, Goto
<1>8. CASE RunRelease(d)
  BY <1>0, <1>8 DEF RunRelease, Goto, Fail, lvars
<1>9. CASE PollRelease(d)
  <2>1. step'[d] = 1
    BY <1>0, <1>9 DEF PollRelease, Fail, Goto, StepInv
  <2>2. PastServices(d)' = {}
    BY <2>1, Before DEF PastServices, ServicesBefore, Services
  <2>3. QED
    BY <2>2
<1>10. CASE DescribeService(d)
  <2>1. CASE pc'[d] = "update"
    <3>1. pc[d] = "roll" /\ UNCHANGED <<step, bad, td, pins>>
      BY <1>0, <1>10, <2>1 DEF DescribeService, ServiceFailed, NextService, Goto, cloud
    <3>2. PastServices(d)' = PastServices(d)
      BY <3>1 DEF PastServices, ServicesBefore, Services
    <3>3. QED
      BY <3>1, <3>2 DEF ProgressInv, Pinned
  <2>2. CASE pc'[d] # "update"
    <3>1. /\ \A s \in ServicesBefore(d, step[d] + 1) : s \in bad'[d] \/ Pinned(d, s)'
          /\ NextService(d)
      BY <1>10, <2>2, RolledServices DEF ProgressInv, DescribeService
    <3>2. step'[d] = step[d] + 1
      BY <1>0, <3>1 DEF NextService
    <3>3. PastServices(d)' = ServicesBefore(d, step[d] + 1)
      BY <3>2 DEF PastServices, ServicesBefore, Services
    <3>4. QED
      BY <3>1, <3>3
  <2>3. QED
    BY <2>1, <2>2
<1>11. CASE UpdateService(d)
  <2>1. pc'[d] # "update"
    BY <1>0, <1>11, OwnRoll DEF NextService, Goto
  <2>2. /\ \A s \in ServicesBefore(d, step[d] + 1) : s \in bad'[d] \/ Pinned(d, s)'
        /\ NextService(d)
    BY <1>11, <2>1, RolledServices DEF ProgressInv, UpdateService
  <2>3. step'[d] = step[d] + 1
    BY <1>0, <2>2 DEF NextService
  <2>4. PastServices(d)' = ServicesBefore(d, step[d] + 1)
    BY <2>3 DEF PastServices, ServicesBefore, Services
  <2>5. QED
    BY <2>2, <2>4
<1>12. CASE Undisturbed(d)
  <2>1. \A n \in 1..Len(Services(d)) : Pinned(d, Services(d)[n])' <=> Pinned(d, Services(d)[n])
    BY <1>12 DEF Undisturbed, Pinned
  <2>2. PastServices(d)' = PastServices(d)
    BY <1>12 DEF Undisturbed, PastServices, ServicesBefore, Services
  <2>3. PastServices(d) \subseteq {Services(d)[n] : n \in 1..Len(Services(d))}
    BY DEF PastServices, ServicesBefore
  <2>4. QED
    BY <1>12, <2>1, <2>2, <2>3 DEF Undisturbed, ProgressInv
<1>13. QED
  BY OwnStepOrUndisturbed, <1>1, <1>2, <1>3, <1>4, <1>5, <1>6, <1>7, <1>8, <1>9, <1>10, <1>11, <1>12 DEF Live, Rollout, DeployStep, JobStep

(* A deploy that ends without a failed check has pinned every service. *)
LEMMA VerifiedKept ==
  ASSUME TypeOK, StepInv, OneDeployPerApp, SeenInv, ProgressInv, VerifiedServicesPinned, [Next]_vars
  PROVE  VerifiedServicesPinned'
<1> SUFFICES ASSUME NEW d \in Deploy, pc'[d] \in {"emit", "exit"}, bad'[d] = {} PROVE \A s \in ServiceSet(TargetOf[d]) : Pinned(d, s)'
  BY DEF VerifiedServicesPinned
<1> USE DEF ServiceSet
<1>0. d \in Request /\ pc \in [Request -> PcStates] /\ step \in [Request -> Nat \ {0}] /\ bad \in [Request -> SUBSET Check]
  BY DEF TypeOK, Request, Job
<1>1. CASE ToolDeploy(d)
  <2>1. pc'[d] \in {"build", "rejected"}
    BY <1>0, <1>1 DEF ToolDeploy, Goto
  <2>2. QED
    BY <2>1
<1>2. CASE StartBuild(d)
  BY <1>0, <1>2 DEF StartBuild, Goto, Fail
<1>3. CASE PollSucceeded(d)
  <2>1. pc'[d] # "emit" /\ pc'[d] # "exit"
    BY <1>0, <1>3, RequestAssumption DEF PollSucceeded, AfterBuild, Goto
  <2>2. QED
    BY <2>1
<1>4. CASE PollFailed(d)
  BY <1>0, <1>4 DEF PollFailed, Goto, Fail, cloud
<1>5. CASE PollTimeout(d)
  BY <1>0, <1>5 DEF PollTimeout, Goto, Fail, cloud
<1>6. CASE Emit(d)
  BY <1>0, <1>6 DEF Emit, Goto, lvars, cloud, VerifiedServicesPinned, Pinned
<1>7. CASE Exit(d)
  BY <1>0, <1>7 DEF Exit, Goto
<1>8. CASE RunRelease(d)
  BY <1>0, <1>8 DEF RunRelease, Goto, Fail, lvars
<1>9. CASE PollRelease(d)
  BY <1>0, <1>9 DEF PollRelease, Goto, Fail, lvars, cloud
<1>10. CASE DescribeService(d)
  <2>1. pc'[d] # "update" /\ step[d] = Len(Services(d))
    BY <1>0, <1>10, RollingType DEF DescribeService, Rollout, ServiceFailed, NextService, Goto
  <2>2. /\ \A s \in ServicesBefore(d, step[d] + 1) : s \in bad'[d] \/ Pinned(d, s)'
        /\ step[d] \in 1..Len(Services(d))
    BY <1>10, <2>1, RolledServices DEF ProgressInv, DescribeService, UpdateService, Rollout
  <2>3. ServicesBefore(d, step[d] + 1) = ServiceSet(TargetOf[d])
    BY <2>1, Before
  <2>4. QED
    BY <2>2, <2>3
<1>11. CASE UpdateService(d)
  <2>1. pc'[d] # "update" /\ step[d] = Len(Services(d))
    BY <1>0, <1>11, OwnRoll DEF NextService, Goto
  <2>2. /\ \A s \in ServicesBefore(d, step[d] + 1) : s \in bad'[d] \/ Pinned(d, s)'
        /\ step[d] \in 1..Len(Services(d))
    BY <1>11, <2>1, RolledServices DEF ProgressInv, DescribeService, UpdateService, Rollout
  <2>3. ServicesBefore(d, step[d] + 1) = ServiceSet(TargetOf[d])
    BY <2>1, Before
  <2>4. QED
    BY <2>2, <2>3
<1>12. CASE Undisturbed(d)
  <2>1. \A s \in ServiceSet(TargetOf[d]) : td'[s] = td[s]
    BY <1>12 DEF Undisturbed, Services
  <2>2. QED
    BY <1>12, <2>1 DEF Undisturbed, VerifiedServicesPinned, Pinned
<1>13. QED
  BY OwnStepOrUndisturbed, <1>1, <1>2, <1>3, <1>4, <1>5, <1>6, <1>7, <1>8, <1>9, <1>10, <1>11, <1>12 DEF Live, Rollout, DeployStep, JobStep

-----------------------------------------------------------------------------
(* The inductive invariant holds initially. *)
LEMMA InitSafe == Init => IInv
<1> SUFFICES ASSUME Init PROVE IInv
  OBVIOUS
<1>1. TypeOK
  BY InitTypes
<1>2. /\ \A r \in Request : pc[r] = "idle" /\ step[r] = 1 /\ bad[r] = {}
      /\ \A j \in Job : build[j] = "none" /\ j \in Request
      /\ \A a \in App : inflight[a] = None
  BY DEF Init, Request, Job
<1>3. StepInv /\ BuildInv /\ OneDeployPerApp
  BY <1>2 DEF StepInv, BuildInv, OneDeployPerApp, Rollout, Live, Request, Job
<1>4. ReleasedInv /\ TrialInv /\ SeenInv /\ ProgressInv /\ VerifiedServicesPinned
  BY <1>2 DEF ReleasedInv, TrialInv, SeenInv, ProgressInv, VerifiedServicesPinned,
              Rollout, Request, Job
<1>5. QED
  BY <1>1, <1>3, <1>4 DEF IInv

(* Every reachable state satisfies the inductive invariant. *)
THEOREM Inductive == Spec => []IInv
<1>1. Init => IInv
  BY InitSafe
<1>2. IInv /\ [Next]_vars => IInv'
  BY NextTypes, StepKept, BuildKept, MarkerKept, ReleasedKept, TrialKept, SeenKept,
     ProgressKept, VerifiedKept DEF IInv
<1>3. QED
  BY <1>1, <1>2, PTL DEF Spec

(* Every variable of the deploy verb keeps its type, whatever the manifest. *)
THEOREM TypeCorrect == Spec => []TypeOK
<1>1. IInv => TypeOK
  BY DEF IInv
<1>2. QED
  BY Inductive, <1>1, PTL

(* The in-flight guard of tool_deploy: at most one job works on an app at    *)
(* any time, for any number of requests, apps and crashes.                   *)
THEOREM OneJobPerApp == Spec => []OneDeployPerApp
<1>1. IInv => OneDeployPerApp
  BY DEF IInv
<1>2. QED
  BY Inductive, <1>1, PTL

(* A deploy that is about to write a receipt without a failed check has      *)
(* every service of its app on the digests it pinned.                        *)
THEOREM VerifiedMeansPinned == Spec => []VerifiedServicesPinned
<1>1. IInv => VerifiedServicesPinned
  BY DEF IInv
<1>2. QED
  BY Inductive, <1>1, PTL

(* Only the rollout of a deploy changes what a service runs. *)
LEMMA OnlyRollsChange ==
  ASSUME [Next]_vars, NEW s \in Service, td'[s] # td[s]
  PROVE  \E d \in Deploy : UpdateService(d)
<1>1. ASSUME NEW d \in Deploy, ToolDeploy(d) PROVE td' = td
  BY <1>1 DEF ToolDeploy, cloud
<1>2. ASSUME NEW b \in ImageBuild, ToolBuildImage(b) PROVE td' = td
  BY <1>2 DEF ToolBuildImage
<1>3. ASSUME NEW r \in Redeploy, ToolAppRedeploy(r) PROVE td' = td
  BY <1>3 DEF ToolAppRedeploy, cloud
<1>4. Crash => td' = td
  BY DEF Crash, cloud
<1>5. ASSUME NEW j \in Job, CodeBuildPush(j) \/ CodeBuildFail(j) PROVE td' = td
  BY <1>5 DEF CodeBuildPush, CodeBuildFail
<1>6. ASSUME NEW d \in Deploy, ReleaseExits(d) PROVE td' = td
  BY <1>6 DEF ReleaseExits
<1>7. ASSUME NEW d \in Deploy, StartBuild(d) \/ RunRelease(d) \/ PollRelease(d) \/ DescribeService(d) PROVE td' = td
  BY <1>7 DEF StartBuild, RunRelease, PollRelease, DescribeService, cloud
<1>8. ASSUME NEW j \in Job, JobStep(j) PROVE td' = td
  BY <1>8 DEF JobStep, PollSucceeded, PollFailed, PollTimeout, Emit, Exit, cloud
<1>9. ASSUME NEW r \in Redeploy, RedeployStep(r) PROVE td' = td
  BY <1>9 DEF RedeployStep, RedeployCheck, RedeployRestart, cloud
<1>10. UNCHANGED vars => td' = td
  BY DEF vars
<1>11. QED
  BY <1>1, <1>2, <1>3, <1>4, <1>5, <1>6, <1>7, <1>8, <1>9, <1>10, NextSplit DEF JobStep, RedeployStep

(* What an update does is released, and it gives the primary service what    *)
(* the release task was run with.                                            *)
LEMMA RollIsReleased ==
  ASSUME IInv, [Next]_vars, NEW s \in Service, td'[s] # td[s]
  PROVE  \E d \in Deploy : /\ pc[d] = "update" /\ Rolling(d) = s /\ Released(d)
                           /\ HasRelease /\ s = Primary(d) => td'[s] = trial[d]
<1>1. PICK d \in Deploy : UpdateService(d)
  BY OnlyRollsChange
<1>2. pc[d] = "update" /\ pc[d] \in Rollout
  BY <1>1 DEF UpdateService, Rollout
<1>3. Rolling(d) = s
  BY <1>1, OwnRoll DEF IInv
<1>4. Released(d)
  BY <1>2 DEF IInv, ReleasedInv
<1>5. ASSUME HasRelease, s = Primary(d) PROVE td'[s] = trial[d]
  <2>1. step[d] \in 1..Len(Services(d)) /\ 1 \in 1..Len(Services(d))
    BY <1>2, RollingType, Lists DEF IInv
  <2>2. step[d] = 1
    BY <1>3, <1>5, <2>1, OneAppPerService DEF Rolling, Primary
  <2>3. trial[d] = WithPins(seen[d], pins[d])
    BY <1>2, <1>3, <1>5, <2>2 DEF IInv, TrialInv, SeenInv
  <2>4. td' = td \/ td' = [td EXCEPT ![Rolling(d)] = WithPins(seen[d], pins[d])]
    BY <1>1 DEF UpdateService, Repoint
  <2>5. DOMAIN td = Service
    BY DEF IInv, TypeOK
  <2>6. QED
    BY <1>3, <2>3, <2>4, <2>5
<1>6. QED
  BY <1>2, <1>3, <1>4, <1>5

(* The release gate: a service changes only by a deploy whose builds all     *)
(* succeeded and whose release task exited with 0, and the primary service   *)
(* gets exactly what that task was run with.                                 *)
THEOREM RollsReleased == Spec => RollsAreReleased
<1>1. IInv /\ [Next]_vars =>
        [\A s \in Service : td'[s] # td[s] =>
           \E d \in Deploy : /\ pc[d] = "update" /\ Rolling(d) = s /\ Released(d)
                             /\ HasRelease /\ s = Primary(d) => td'[s] = trial[d]]_vars
  BY RollIsReleased
<1>2. QED
  BY Inductive, <1>1, PTL DEF Spec, RollsAreReleased

-----------------------------------------------------------------------------
(* The redeploy guard. What it saw unpinned is unpinned still, or stale.     *)
Looked(r) == IF pc[r] = "restart" THEN ServiceSet(TargetOf[r])
             ELSE IF pc[r] = "check" THEN PastServices(r) \ bad[r] ELSE {}
GuardInv ==
  /\ FrozenRestartsAreStale
  /\ \A r \in Redeploy \ Forced : \A s \in Looked(r) :
       RedeployWouldNoop(s) => <<r, s>> \in stale

(* What the redeploys and the services are left with by everything but the   *)
(* steps of a redeploy, an update and a crash.                               *)
GuardFrame ==
  /\ UNCHANGED <<td, frozen, stale>>
  /\ \A r \in Redeploy : pc'[r] = pc[r] /\ step'[r] = step[r] /\ bad'[r] = bad[r]

LEMMA FrameKeepsGuard == ASSUME GuardInv, GuardFrame PROVE GuardInv'
<1>1. \A r \in Redeploy : Looked(r)' = Looked(r)
  BY DEF GuardFrame, Looked, PastServices, ServicesBefore, ServiceSet, Services
<1>2. \A s : RedeployWouldNoop(s)' = RedeployWouldNoop(s)
  BY DEF GuardFrame, RedeployWouldNoop
<1>3. QED
  BY <1>1, <1>2 DEF GuardInv, FrozenRestartsAreStale, GuardFrame

LEMMA OthersFrame ==
  ASSUME TypeOK, NEW j \in Job,
         \/ j \in Deploy /\ (ToolDeploy(j) \/ StartBuild(j) \/ RunRelease(j) \/ PollRelease(j)
                             \/ DescribeService(j) \/ ReleaseExits(j))
         \/ j \in ImageBuild /\ ToolBuildImage(j)
         \/ CodeBuildPush(j) \/ CodeBuildFail(j) \/ JobStep(j)
  PROVE  GuardFrame
<1> USE DEF Goto, Fail, lvars, cvars, platform, cloud, ghosts, GuardFrame
<1>0. /\ pc \in [Request -> PcStates] /\ step \in [Request -> Nat \ {0}]
      /\ bad \in [Request -> SUBSET Check] /\ j \notin Redeploy /\ Redeploy \subseteq Request
  BY RequestAssumption DEF TypeOK, Request
<1>1. CASE j \in Deploy /\ ToolDeploy(j)
  BY <1>0, <1>1 DEF ToolDeploy
<1>2. CASE StartBuild(j)
  BY <1>0, <1>2 DEF StartBuild
<1>3. CASE RunRelease(j)
  BY <1>0, <1>3 DEF RunRelease
<1>4. CASE PollRelease(j)
  BY <1>0, <1>4 DEF PollRelease
<1>5. CASE DescribeService(j)
  BY <1>0, <1>5 DEF DescribeService, ServiceFailed, NextService
<1>6. CASE ReleaseExits(j)
  BY <1>6 DEF ReleaseExits
<1>7. CASE ToolBuildImage(j)
  BY <1>0, <1>7 DEF ToolBuildImage
<1>8. CASE CodeBuildPush(j) \/ CodeBuildFail(j)
  BY <1>8 DEF CodeBuildPush, CodeBuildFail
<1>9. CASE PollSucceeded(j)
  BY <1>0, <1>9 DEF PollSucceeded, AfterBuild
<1>10. CASE PollFailed(j) \/ PollTimeout(j)
  BY <1>0, <1>10 DEF PollFailed, PollTimeout
<1>11. CASE Emit(j)
  BY <1>0, <1>11 DEF Emit
<1>12. CASE Exit(j)
  BY <1>0, <1>12 DEF Exit
<1>13. QED
  BY <1>1, <1>2, <1>3, <1>4, <1>5, <1>6, <1>7, <1>8, <1>9, <1>10, <1>11, <1>12 DEF JobStep

(* A service that is repointed is noted as stale for whoever looked at it.   *)
LEMMA UpdateKeepsGuard ==
  ASSUME TypeOK, GuardInv, NEW d \in Deploy, UpdateService(d)
  PROVE  GuardInv'
<1>0. /\ td \in [Service -> Containers] /\ pc \in [Request -> PcStates]
      /\ step \in [Request -> Nat \ {0}] /\ bad \in [Request -> SUBSET Check]
      /\ d \notin Redeploy /\ Redeploy \subseteq Request
  BY RequestAssumption DEF TypeOK, Request, Job
<1>1. \A r \in Redeploy : pc'[r] = pc[r] /\ step'[r] = step[r] /\ bad'[r] = bad[r]
  BY <1>0 DEF UpdateService, ServiceFailed, NextService, Goto
<1>2. frozen' = frozen /\ stale \subseteq stale'
  BY DEF UpdateService, Repoint
<1>3. \A r \in Redeploy : Looked(r)' = Looked(r)
  BY <1>1 DEF Looked, PastServices, ServicesBefore, ServiceSet, Services
<1>4. ASSUME NEW r \in Redeploy \ Forced, NEW s \in Looked(r), RedeployWouldNoop(s)'
      PROVE  <<r, s>> \in stale'
  <2>1. CASE td'[s] = td[s]
    <3>1. RedeployWouldNoop(s)
      BY <1>4, <2>1 DEF RedeployWouldNoop
    <3>2. QED
      BY <1>2, <3>1 DEF GuardInv
  <2>2. CASE td'[s] # td[s]
    <3>0. s \in Service
      BY Lists DEF Looked, PastServices, ServicesBefore, ServiceSet, Services
    <3>1. Repoint(d) /\ s = Rolling(d)
      <4>1. Repoint(d)
        BY <2>2 DEF UpdateService
      <4>2. td' = [td EXCEPT ![Rolling(d)] = WithPins(seen[d], pins[d])]
        BY <4>1 DEF Repoint
      <4>3. QED
        BY <1>0, <2>2, <3>0, <4>1, <4>2
    <3>2. pc[r] = "restart" \/ (pc[r] = "check" /\ s \in PastServices(r))
      BY <1>4 DEF Looked
    <3>3. QED
      BY <3>1, <3>2 DEF Repoint
  <2>3. QED
    BY <2>1, <2>2
<1>5. QED
  BY <1>2, <1>3, <1>4 DEF GuardInv, FrozenRestartsAreStale

LEMMA CheckKeepsGuard ==
  ASSUME TypeOK, StepInv, GuardInv, NEW r \in Redeploy, RedeployCheck(r)
  PROVE  GuardInv'
<1> DEFINE s == Rolling(r)
<1>0. /\ pc \in [Request -> PcStates] /\ step \in [Request -> Nat \ {0}]
      /\ bad \in [Request -> SUBSET Check] /\ Redeploy \subseteq Request
  BY DEF TypeOK, Request
<1>1. /\ pc[r] = "check" /\ UNCHANGED <<td, frozen>> /\ stale \subseteq stale'
      /\ \A q \in Redeploy : q # r => pc'[q] = pc[q] /\ step'[q] = step[q] /\ bad'[q] = bad[q]
  BY <1>0 DEF RedeployCheck, cloud, Goto
<1>2. \A x : RedeployWouldNoop(x)' = RedeployWouldNoop(x)
  BY <1>1 DEF RedeployWouldNoop
<1>3. step[r] \in 1..Len(Services(r)) /\ Len(Services(r)) \in Nat
  BY <1>1, Lists DEF StepInv
<1>4. bad[r] \subseteq bad'[r] /\ (RedeployWouldNoop(s) => s \in bad'[r] \/ <<r, s>> \in stale')
  BY <1>0 DEF RedeployCheck, PinnedService
<1>5. Looked(r)' \subseteq (PastServices(r) \cup {s}) \ bad'[r]
  <2>1. CASE step[r] < Len(Services(r)) /\ step' = [step EXCEPT ![r] = @ + 1] /\ UNCHANGED pc
    <3>1. step'[r] = step[r] + 1 /\ pc'[r] = "check"
      BY <1>0, <1>1, <2>1
    <3>2. Looked(r)' = {Services(r)[i] : i \in {j \in 1..Len(Services(r)) : j < step[r] + 1}} \ bad'[r]
      BY <3>1 DEF Looked, PastServices, ServicesBefore, Services
    <3>3. \A i \in 1..Len(Services(r)) : i < step[r] + 1 => i < step[r] \/ i = step[r]
      BY <1>3
    <3>4. QED
      BY <3>2, <3>3 DEF PastServices, ServicesBefore, Rolling
  <2>2. CASE step[r] = Len(Services(r)) /\ bad'[r] = {} /\ Goto(r, "restart")
    <3>1. pc'[r] = "restart"
      BY <1>0, <2>2 DEF Goto
    <3>2. Looked(r)' = {Services(r)[i] : i \in 1..Len(Services(r))}
      BY <3>1 DEF Looked, ServiceSet, Services
    <3>3. \A i \in 1..Len(Services(r)) : i < step[r] \/ i = step[r]
      BY <1>3, <2>2
    <3>4. QED
      BY <2>2, <3>2, <3>3 DEF PastServices, ServicesBefore, Rolling
  <2>3. CASE Goto(r, "done")
    <3>1. pc'[r] = "done"
      BY <1>0, <2>3 DEF Goto
    <3>2. QED
      BY <3>1 DEF Looked
  <2>4. QED
    BY <2>1, <2>2, <2>3 DEF RedeployCheck
<1>6. \A q \in Redeploy : q # r => Looked(q)' = Looked(q)
  BY <1>1 DEF Looked, PastServices, ServicesBefore, ServiceSet, Services
<1>7. ASSUME NEW q \in Redeploy \ Forced, NEW x \in Looked(q)', RedeployWouldNoop(x)
      PROVE  <<q, x>> \in stale'
  <2>1. CASE q # r
    BY <1>1, <1>6, <1>7, <2>1 DEF GuardInv
  <2>2. CASE q = r /\ x = s
    BY <1>4, <1>5, <1>7, <2>2
  <2>3. CASE q = r /\ x # s
    <3>1. x \in PastServices(r) \ bad[r]
      BY <1>4, <1>5, <1>7, <2>3
    <3>2. x \in Looked(r)
      BY <1>1, <3>1 DEF Looked
    <3>3. QED
      BY <1>1, <1>7, <2>3, <3>2 DEF GuardInv
  <2>4. QED
    BY <2>1, <2>2, <2>3
<1>8. QED
  BY <1>1, <1>2, <1>7 DEF GuardInv, FrozenRestartsAreStale

LEMMA RestartKeepsGuard ==
  ASSUME TypeOK, StepInv, GuardInv, NEW r \in Redeploy, RedeployRestart(r)
  PROVE  GuardInv'
<1> DEFINE s == Rolling(r)
<1>0. pc \in [Request -> PcStates] /\ Redeploy \subseteq Request
  BY DEF TypeOK, Request
<1>1. /\ pc[r] = "restart" /\ UNCHANGED <<td, stale, bad>>
      /\ pc'[r] \in {"restart", "done"}
      /\ frozen' \subseteq frozen \cup (IF RedeployWouldNoop(s) THEN {<<r, s>>} ELSE {})
      /\ \A q \in Redeploy : q # r => pc'[q] = pc[q]
  BY <1>0 DEF RedeployRestart, cloud, Goto
<1>2. \A q \in Redeploy : q # r => step'[q] = step[q]
  BY DEF RedeployRestart, TypeOK, Request
<1>3. \A q \in Redeploy : Looked(q)' \subseteq Looked(q)
  <2>1. Looked(r)' \subseteq Looked(r)
    BY <1>1 DEF Looked, ServiceSet
  <2>2. \A q \in Redeploy : q # r => Looked(q)' = Looked(q)
    BY <1>1, <1>2 DEF Looked, PastServices, ServicesBefore, ServiceSet, Services
  <2>3. QED
    BY <2>1, <2>2
<1>4. s \in Looked(r)
  BY <1>1, Lists DEF StepInv, Looked, ServiceSet, Rolling, Services
<1>5. \A x : RedeployWouldNoop(x)' = RedeployWouldNoop(x)
  BY <1>1 DEF RedeployWouldNoop
<1>6. FrozenRestartsAreStale'
  BY <1>1, <1>4 DEF GuardInv, FrozenRestartsAreStale
<1>7. QED
  BY <1>1, <1>3, <1>5, <1>6 DEF GuardInv

LEMMA GuardKept ==
  ASSUME TypeOK, StepInv, GuardInv, [Next]_vars
  PROVE  GuardInv'
<1>0. pc \in [Request -> PcStates] /\ Redeploy \subseteq Request
  BY DEF TypeOK, Request
<1>1. ASSUME NEW r \in Redeploy, ToolAppRedeploy(r) PROVE GuardInv'
  <2>1. /\ UNCHANGED <<td, stale, frozen, step, bad>> /\ pc[r] = "idle"
        /\ \A q \in Redeploy : q # r => pc'[q] = pc[q]
        /\ pc'[r] = IF r \in Forced THEN "restart" ELSE "check"
    BY <1>0, <1>1 DEF ToolAppRedeploy, Goto, cloud, ghosts
  <2>2. step[r] = 1
    BY <1>0, <2>1 DEF StepInv
  <2>3. r \notin Forced => Looked(r)' = {}
    <3>1. \A j \in 1..Len(Services(r)) : ~(j < 1)
      BY Lists
    <3>2. r \notin Forced => PastServices(r)' = {}
      BY <2>1, <2>2, <3>1 DEF PastServices, ServicesBefore, Services
    <3>3. QED
      BY <2>1, <3>2 DEF Looked
  <2>4. \A q \in Redeploy : q # r => Looked(q)' = Looked(q)
    BY <2>1 DEF Looked, PastServices, ServicesBefore, ServiceSet, Services
  <2>5. \A x : RedeployWouldNoop(x)' = RedeployWouldNoop(x)
    BY <2>1 DEF RedeployWouldNoop
  <2>6. QED
    BY <2>1, <2>3, <2>4, <2>5 DEF GuardInv, FrozenRestartsAreStale
<1>2. CASE Crash
  <2>1. UNCHANGED <<td, stale, frozen, step, bad>>
    BY <1>2 DEF Crash, cloud, ghosts
  <2>2. \A r \in Redeploy : pc'[r] \in Idle
    BY <1>0, <1>2 DEF Crash, Idle
  <2>3. \A r \in Redeploy : Looked(r)' = {}
    BY <2>2 DEF Looked, Idle
  <2>4. QED
    BY <2>1, <2>3 DEF GuardInv, FrozenRestartsAreStale
<1>3. ASSUME NEW d \in Deploy, UpdateService(d) PROVE GuardInv'
  BY <1>3, UpdateKeepsGuard
<1>4. ASSUME NEW r \in Redeploy, RedeployCheck(r) \/ RedeployRestart(r) PROVE GuardInv'
  BY <1>4, CheckKeepsGuard, RestartKeepsGuard
<1>5. CASE UNCHANGED vars
  <2>1. GuardFrame
    BY <1>5 DEF vars, GuardFrame
  <2>2. QED
    BY <2>1, FrameKeepsGuard
<1>6. ASSUME NEW j \in Job,
             \/ j \in Deploy /\ (ToolDeploy(j) \/ StartBuild(j) \/ RunRelease(j) \/ PollRelease(j)
                                 \/ DescribeService(j) \/ ReleaseExits(j))
             \/ j \in ImageBuild /\ ToolBuildImage(j)
             \/ CodeBuildPush(j) \/ CodeBuildFail(j) \/ JobStep(j)
      PROVE  GuardInv'
  BY <1>6, OthersFrame, FrameKeepsGuard
<1>7. Deploy \subseteq Job /\ ImageBuild \subseteq Job
  BY DEF Job
<1>8. QED
  BY <1>1, <1>2, <1>3, <1>4, <1>5, <1>6, <1>7, NextSplit

(* The redeploy guard: an unforced app_redeploy restarts a digest-pinned     *)
(* service only if a deploy pinned it after the look, or the look failed,    *)
(* for any number of deploys and redeploys beside each other.                *)
THEOREM RedeployGuard == Spec => []FrozenRestartsAreStale
<1>1. Init => GuardInv
  BY DEF Init, GuardInv, FrozenRestartsAreStale, Looked, Request
<1>2. IInv /\ GuardInv /\ [Next]_vars => GuardInv'
  BY GuardKept DEF IInv
<1>3. GuardInv => FrozenRestartsAreStale
  BY DEF GuardInv
<1>4. QED
  BY Inductive, <1>1, <1>2, <1>3, PTL DEF Spec
-----------------------------------------------------------------------------
(* Pins and the moving tags. As long as a deploy builds, the tags it pushed  *)
(* are its own, base included, or some other job pushed over them.           *)
Mine(d, i) ==
  \/ i \in overlap[d]
  \/ /\ tag[i].ref = RefOf[d]
     /\ BaseOf[i] # None => tag[i].base = RefOf[d] \/ BaseOf[i] \in overlap[d]
TagInv ==
  \A d \in Deploy : pc[d] \in {"build", "wait"} => \A n \in Pushed(d) : Mine(d, Order[n])

(* What everything but a push and a successful poll leaves of this.          *)
TagFrame ==
  /\ UNCHANGED <<tag, overlap, pins>>
  /\ \A d \in Deploy : pc'[d] \in {"build", "wait"} =>
       \/ /\ pc[d] \in {"build", "wait"} /\ step'[d] = step[d]
          /\ pc'[d] = "wait" /\ build'[d] = "succeeded" => pc[d] = "wait" /\ build[d] = "succeeded"
       \/ pc'[d] = "build" /\ step'[d] = 1

LEMMA FrameKeepsTags ==
  ASSUME TagInv, StrayPinsOverlap, TagFrame
  PROVE  TagInv' /\ StrayPinsOverlap'
<1>1. StrayPinsOverlap'
  BY DEF TagFrame, StrayPinsOverlap, Own
<1>2. ASSUME NEW d \in Deploy, pc'[d] \in {"build", "wait"}, NEW n \in Pushed(d)'
      PROVE  Mine(d, Order[n])'
  <2>1. CASE pc'[d] = "build" /\ step'[d] = 1
    BY <1>2, <2>1 DEF Pushed
  <2>2. CASE ~(pc'[d] = "build" /\ step'[d] = 1)
    <3>1. pc[d] \in {"build", "wait"} /\ n \in Pushed(d)
      BY <1>2, <2>2 DEF TagFrame, Pushed, BuildsOf
    <3>2. Mine(d, Order[n])
      BY <3>1 DEF TagInv
    <3>3. QED
      BY <3>2 DEF Mine, TagFrame
  <2>3. QED
    BY <2>1, <2>2
<1>3. QED
  BY <1>1, <1>2 DEF TagInv

LEMMA OthersFrameTags ==
  ASSUME TypeOK, StepInv,
         \/ Crash \/ UNCHANGED vars
         \/ \E d \in Deploy : \/ ToolDeploy(d) \/ StartBuild(d) \/ RunRelease(d) \/ PollRelease(d)
                             \/ DescribeService(d) \/ UpdateService(d) \/ ReleaseExits(d)
         \/ \E b \in ImageBuild : ToolBuildImage(b)
         \/ \E r \in Redeploy : ToolAppRedeploy(r) \/ RedeployCheck(r) \/ RedeployRestart(r)
         \/ \E j \in Job : CodeBuildFail(j) \/ PollFailed(j) \/ PollTimeout(j) \/ Emit(j) \/ Exit(j)
  PROVE  TagFrame
<1> USE DEF TagFrame, Goto, Fail, lvars, platform, cloud, ghosts
<1>0. /\ pc \in [Request -> PcStates] /\ step \in [Request -> Nat \ {0}]
      /\ build \in [Job -> {"none", "running", "succeeded", "failed"}]
      /\ Deploy \subseteq Job /\ Deploy \subseteq Request /\ Job \subseteq Request
      /\ Deploy \cap Redeploy = {} /\ Redeploy \subseteq Request
      /\ Deploy \cap ImageBuild = {} /\ ImageBuild \subseteq Job
  BY RequestAssumption DEF TypeOK, Request, Job
<1>1. ASSUME NEW d \in Deploy, ToolDeploy(d) PROVE TagFrame
  <2>1. Goto(d, "build") \/ Goto(d, "rejected")
    BY <1>1 DEF ToolDeploy
  <2>2. step[d] = 1
    BY <1>0, <1>1 DEF ToolDeploy, StepInv
  <2>3. QED
    BY <1>0, <1>1, <2>1, <2>2 DEF ToolDeploy
<1>2. ASSUME NEW d \in Deploy, StartBuild(d) PROVE TagFrame
  BY <1>0, <1>2 DEF StartBuild
<1>3. ASSUME NEW d \in Deploy, RunRelease(d) PROVE TagFrame
  BY <1>0, <1>3 DEF RunRelease
<1>4. ASSUME NEW d \in Deploy, PollRelease(d) PROVE TagFrame
  BY <1>0, <1>4 DEF PollRelease
<1>5. ASSUME NEW d \in Deploy, DescribeService(d) PROVE TagFrame
  BY <1>0, <1>5 DEF DescribeService, ServiceFailed, NextService
<1>6. ASSUME NEW d \in Deploy, UpdateService(d) PROVE TagFrame
  BY <1>0, <1>6 DEF UpdateService, Repoint, ServiceFailed, NextService
<1>7. ASSUME NEW d \in Deploy, ReleaseExits(d) PROVE TagFrame
  BY <1>0, <1>7 DEF ReleaseExits
<1>8. ASSUME NEW b \in ImageBuild, ToolBuildImage(b) PROVE TagFrame
  BY <1>0, <1>8 DEF ToolBuildImage
<1>9. ASSUME NEW r \in Redeploy, ToolAppRedeploy(r) \/ RedeployCheck(r) \/ RedeployRestart(r)
      PROVE TagFrame
  <2>1. UNCHANGED <<tag, overlap, pins, build>>
    BY <1>9 DEF ToolAppRedeploy, RedeployCheck, RedeployRestart
  <2>2. \A d \in Deploy : pc'[d] = pc[d] /\ step'[d] = step[d]
    BY <1>0, <1>9 DEF ToolAppRedeploy, RedeployCheck, RedeployRestart
  <2>3. QED
    BY <2>1, <2>2
<1>10. ASSUME NEW j \in Job, CodeBuildFail(j) PROVE TagFrame
  BY <1>0, <1>10 DEF CodeBuildFail
<1>11. ASSUME NEW j \in Job, PollFailed(j) \/ PollTimeout(j) PROVE TagFrame
  BY <1>0, <1>11 DEF PollFailed, PollTimeout
<1>12. ASSUME NEW j \in Job, Emit(j) \/ Exit(j) PROVE TagFrame
  BY <1>0, <1>12 DEF Emit, Exit
<1>13. CASE Crash
  BY <1>0, <1>13 DEF Crash
<1>14. CASE UNCHANGED vars
  BY <1>14 DEF vars
<1>15. QED
  BY <1>1, <1>2, <1>3, <1>4, <1>5, <1>6, <1>7, <1>8, <1>9, <1>10, <1>11, <1>12, <1>13, <1>14

(* A push is noted by every job whose tag it takes; the tag is the pusher's  *)
(* own, and so is the base it was built on, unless that was taken from it.   *)
LEMMA PushKeepsTags ==
  ASSUME TypeOK, StepInv, BuildInv, TagInv, StrayPinsOverlap, NEW j \in Job, CodeBuildPush(j)
  PROVE  TagInv' /\ StrayPinsOverlap'
<1> DEFINE i == Building(j)
<1>1. /\ build[j] = "running" /\ UNCHANGED <<pc, step, pins>>
      /\ tag' = [tag EXCEPT ![i] = [ref |-> RefOf[j], base |-> BaseRef(i)]]
      /\ build' = [build EXCEPT ![j] = "succeeded"]
      /\ \A k \in Job : /\ overlap[k] \subseteq overlap'[k]
                        /\ k # j /\ pc[k] \in {"build", "wait"} /\ (\E n \in Pushed(k) : BuildsOf(k)[n] = i)
                             => i \in overlap'[k]
  BY DEF CodeBuildPush, platform
<1>2. Deploy \subseteq Job /\ tag \in [Image -> Digest] /\ i \in Image
  <2>1. i \in Image
    BY <1>1, BuildingType
  <2>2. QED
    BY <2>1 DEF Job, TypeOK
<1>3. StrayPinsOverlap'
  BY <1>1, <1>2 DEF StrayPinsOverlap, Own
<1>4. \A d \in Deploy : /\ BuildsOf(d) = Order
                      /\ \A n \in 1..Len(Order) : Order[n] \in Image
  BY ManifestAssumption DEF BuildsOf
<1>5. ASSUME NEW d \in Deploy, NEW x \in Image, Mine(d, x), x # i
      PROVE  Mine(d, x)'
  <2>1. tag'[x] = tag[x] /\ overlap[d] \subseteq overlap'[d]
    BY <1>1, <1>2, <1>5
  <2>2. QED
    BY <1>5, <2>1 DEF Mine
<1>6. ASSUME NEW d \in Deploy, d # j, pc'[d] \in {"build", "wait"}, NEW n \in Pushed(d)'
      PROVE  Mine(d, Order[n])'
  <2>1. n \in Pushed(d) /\ pc[d] \in {"build", "wait"}
    BY <1>1, <1>6 DEF Pushed, BuildsOf
  <2>2. Mine(d, Order[n]) /\ Order[n] \in Image
    BY <1>4, <2>1 DEF TagInv, Pushed
  <2>3. CASE Order[n] = i
    <3>1. i \in overlap'[d]
      BY <1>1, <1>2, <1>4, <1>6, <2>1, <2>3
    <3>2. QED
      BY <2>3, <3>1 DEF Mine
  <2>4. CASE Order[n] # i
    BY <1>5, <2>2, <2>4
  <2>5. QED
    BY <2>3, <2>4
<1>7. ASSUME j \in Deploy, pc'[j] \in {"build", "wait"}, NEW n \in Pushed(j)'
      PROVE  Mine(j, Order[n])'
  <2>1. pc[j] = "wait" /\ step[j] \in 1..Len(Order) /\ i = Order[step[j]]
    BY <1>1, <1>4, <1>7, BuildingType DEF BuildInv, Building
  <2>2. n \in 1..Len(Order) /\ n <= step[j]
    BY <1>1, <1>4, <1>7, <2>1 DEF Pushed, BuildsOf
  <2>3. \A m \in 1..Len(Order) : m < step[j] => Mine(j, Order[m])
    BY <1>4, <1>7, <2>1 DEF TagInv, Pushed
  <2>4. CASE Order[n] # i
    <3>1. n < step[j]
      BY <2>1, <2>2, <2>4
    <3>2. QED
      BY <1>4, <1>5, <1>7, <2>2, <2>3, <2>4, <3>1
  <2>5. CASE Order[n] = i
    <3>1. tag'[i] = [ref |-> RefOf[j], base |-> BaseRef(i)]
      BY <1>1, <1>2
    <3>2. ASSUME BaseOf[i] # None
          PROVE  BaseRef(i) = RefOf[j] \/ BaseOf[i] \in overlap[j]
      <4>1. PICK m \in 1..(step[j] - 1) : Order[m] = BaseOf[Order[step[j]]]
        BY <2>1, <3>2, ManifestAssumption
      <4>2. Mine(j, Order[m])
        BY <2>1, <2>3, <4>1
      <4>3. QED
        BY <2>1, <3>2, <4>1, <4>2 DEF Mine, BaseRef
    <3>3. QED
      BY <1>1, <1>2, <1>7, <2>5, <3>1, <3>2 DEF Mine
  <2>6. QED
    BY <2>4, <2>5
<1>8. QED
  BY <1>3, <1>6, <1>7 DEF TagInv

(* The digest a deploy pins is that of a tag it has pushed.                  *)
LEMMA PollKeepsTags ==
  ASSUME TypeOK, StepInv, TagInv, StrayPinsOverlap, NEW j \in Job, PollSucceeded(j)
  PROVE  TagInv' /\ StrayPinsOverlap'
<1> DEFINE i == Building(j)
<1>1. /\ pc[j] = "wait" /\ build[j] = "succeeded" /\ UNCHANGED <<tag, build, overlap>>
      /\ AfterBuild(j)
      /\ \/ pins' = pins
         \/ pins' = [d \in Deploy |-> IF d = j THEN [pins[d] EXCEPT ![i] = tag[i]] ELSE pins[d]]
  BY DEF PollSucceeded, BuildDone, ReadDigest, cloud, ghosts
<1>2. /\ pc \in [Request -> PcStates] /\ step \in [Request -> Nat \ {0}] /\ j \in Request
      /\ Deploy \subseteq Request /\ pins \in [Deploy -> [Image -> Digest \cup {None}]]
  BY DEF TypeOK, Request, Job
<1>3. step[j] \in 1..Len(BuildsOf(j)) /\ i \in Image
  BY <1>1, BuildingType
<1>4. j \in Deploy => BuildsOf(j) = Order /\ step[j] \in Pushed(j) /\ i = Order[step[j]]
  BY <1>1, <1>3 DEF BuildsOf, Pushed, Building
<1>5. j \in Deploy => Mine(j, i)
  BY <1>1, <1>4 DEF TagInv
<1>6. StrayPinsOverlap'
  <2> SUFFICES ASSUME NEW d \in Deploy, NEW x \in Image, pins'[d][x] # None, ~Own(d, x)'
               PROVE  {x, BaseOf[x]} \cap overlap[d] # {}
    BY <1>1 DEF StrayPinsOverlap
  <2>1. CASE d = j /\ x = i /\ pins'[d][x] = tag[i]
    BY <1>5, <2>1 DEF Own, Mine
  <2>2. CASE pins'[d][x] = pins[d][x]
    BY <2>2 DEF StrayPinsOverlap, Own
  <2>3. QED
    BY <1>1, <1>2, <2>1, <2>2
<1>7. ASSUME NEW d \in Deploy, pc'[d] \in {"build", "wait"}, NEW n \in Pushed(d)'
      PROVE  Mine(d, Order[n])'
  <2>1. Mine(d, Order[n]) => Mine(d, Order[n])'
    BY <1>1 DEF Mine
  <2>2. CASE d # j
    <3>1. pc'[d] = pc[d] /\ step'[d] = step[d]
      BY <1>1, <1>2, <2>2 DEF AfterBuild, Goto
    <3>2. n \in Pushed(d)
      BY <1>1, <1>7, <3>1 DEF Pushed, BuildsOf
    <3>3. QED
      BY <1>7, <2>1, <3>1, <3>2 DEF TagInv
  <2>3. CASE d = j
    <3>1. pc'[j] = "build" /\ step'[j] = step[j] + 1
      <4>1. CASE step[j] < Len(BuildsOf(j))
        BY <1>1, <1>2, <4>1 DEF AfterBuild, Goto
      <4>2. CASE ~(step[j] < Len(BuildsOf(j)))
        <5>1. \E l \in {"emit", "release", "roll"} : Goto(j, l)
          BY <1>1, <4>2 DEF AfterBuild
        <5>2. QED
          BY <1>2, <1>7, <2>3, <5>1 DEF Goto
      <4>3. QED
        BY <4>1, <4>2
    <3>2. n \in Pushed(j)
      BY <1>1, <1>2, <1>7, <2>3, <3>1 DEF Pushed, BuildsOf
    <3>3. QED
      BY <1>1, <2>1, <2>3, <3>2 DEF TagInv
  <2>4. QED
    BY <2>2, <2>3
<1>8. QED
  BY <1>6, <1>7 DEF TagInv

(* A pin is the deploy's own build on its own base, unless another job       *)
(* pushed over one of the two tags: for any number of deploys, environments  *)
(* and build_image calls beside each other (run_deploy_to_receipt).          *)
THEOREM StrayPinsAreOverlaps == Spec => []StrayPinsOverlap
<1>1. Init => TagInv /\ StrayPinsOverlap
  BY DEF Init, TagInv, StrayPinsOverlap, NoPins, Request, Job
<1>2. IInv /\ TagInv /\ StrayPinsOverlap /\ [Next]_vars => TagInv' /\ StrayPinsOverlap'
  <2> SUFFICES ASSUME IInv, TagInv, StrayPinsOverlap, [Next]_vars
               PROVE  TagInv' /\ StrayPinsOverlap'
    OBVIOUS
  <2>1. TypeOK /\ StepInv /\ BuildInv
    BY DEF IInv
  <2>2. ASSUME NEW j \in Job, CodeBuildPush(j) PROVE TagInv' /\ StrayPinsOverlap'
    BY <2>1, <2>2, PushKeepsTags
  <2>3. ASSUME NEW j \in Job, PollSucceeded(j) PROVE TagInv' /\ StrayPinsOverlap'
    BY <2>1, <2>3, PollKeepsTags
  <2>4. TagFrame => TagInv' /\ StrayPinsOverlap'
    BY FrameKeepsTags
  <2>5. \/ TagFrame
        \/ \E j \in Job : CodeBuildPush(j) \/ PollSucceeded(j)
    BY <2>1, NextSplit, OthersFrameTags DEF JobStep
  <2>6. QED
    BY <2>2, <2>3, <2>4, <2>5
<1>3. QED
  BY Inductive, <1>1, <1>2, PTL DEF Spec

=============================================================================
