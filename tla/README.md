# AMOS managed platform: verification project

TLA+ models of the control plane in `src/` (an axum service on PostgreSQL that
bills tenants through Stripe, deploys their applications to ECS and runs their
agent harnesses), TLC runs over small instances of them, and TLAPS proofs for
every value of the constants. `PROJECT.json` maps each definition to the source
lines it stands for and lists runs, mutants, hazards, findings and theorems.

## 1. Inventory

| Component | State | Operations | Interacts with |
|---|---|---|---|
| Billing period close (`routes/webhooks.rs`, `billing/`) | `stripe_webhook_events`, `llm_usage_records.billed`, `tenants.credits_granted_at`, credit balance | `invoice.paid` handler: dedup, overage charge, egress charge, credit reset, mark | Stripe (at-least-once delivery, idempotency keys), usage reports, plan changes |
| Subscription events (`routes/webhooks.rs`, `routes/billing.rs`, `routes/admin.rs`) | `tenants.plan`, subscription status, Stripe ids | checkout completed, subscription updated/deleted, payment failed, admin plan change | Stripe, harness provisioning |
| Credit gate and reports (`routes/sync.rs`, `billing/guards.rs`) | `tenants.credit_balance`, `llm_usage_records`, metrics | heartbeat, activity report, balance query | harnesses, which poll it |
| Usage metering (`billing/usage_metering.rs`) | none, reads CloudWatch | egress and vCPU summaries | period close |
| Manifest deploy (`mcp/mod.rs`, `provisioning/image_builder.rs`) | in-memory in-flight map, receipts | `deploy`, `build_image`, `app_redeploy`, `deploy_status` | CodeBuild, ECR tags, ECS services |
| Environments (`provisioning/env_provision.rs`) | `app_deployments` rows of environments, secrets, databases | `provision_env`, `teardown_env` | RDS, Secrets Manager, ECS, ALB |
| App orchestrator (`services/app_orchestrator.rs`) | `app_deployments.status`, container ids | deploy, start, stop, restart, deprovision, with background provisioning | Docker or ECS |
| Harness lifecycle (`routes/ui.rs`, `routes/admin.rs`, `routes/provisioning.rs`, `provisioning/`) | `harness_instances`, ALB rules | start, stop, restart, update, rollback, delete, status poller | ECS, ALB, Docker |
| Bounties and emission (`services/bounty_service.rs`) | `contribution_activities`, `emission_records` | record a contribution, nightly emission | the clock, Solana |
| Accounts (`routes/auth.rs`, `oauth/mod.rs`, `routes/admin.rs`, `routes/ui.rs`) | tenants, users, refresh tokens, OAuth codes and token pairs, reset links, API keys | register, create a user, log in and out, refresh, consent, exchange a code or a pair, reset a password | database |
| Governance (`governance/`, `routes/governance.rs`) | proposals, votes, gate checks | propose, vote, query gates | Solana (stakes), whatever moves a proposal on |
| Scopes (`rbac.rs`), receipts (`proof/`), data verbs, proxies, pages, releases, mail | tables, append-only rows | pure checks and single statements | everything above |

What is hard here: handlers are not transactions. Each is a sequence of awaits
that other handlers interleave with, a 180 s timeout layer (`server.rs`) drops a
handler between any two of them, background jobs (`tokio::spawn`) die with the
process and leave database rows behind, external calls succeed while their
answer is lost, and events arrive twice, late and out of order. What makes each
component correct:

- period close: usage is charged once, nothing is marked billed that was not
  paid for, held overages are never charged, every paid invoice refreshes credit;
- manifest deploy: one job per app, nothing ships that was not released, what is
  pinned is what was built, the receipt tells the truth and always comes;
- credit gate: a tenant out of credit is refused, and overrun is bounded;
- subscription events: the stored status follows the subscription whatever the
  order of events;
- orchestrator: the rows agree with the containers that exist, a teardown is
  complete, provisioning ends;
- harnesses: a task that runs is named by the row, a row that says stopped has
  nothing running, one that says running is routed to its task alone, a rollback
  goes to the release that ran before;
- environments: one with a row is whole and reads its own secret and database, a
  teardown leaves nothing, a failed attempt does no harm to another environment;
- emission: one award per day and contributor, within the day's pool, whichever
  platforms run it;
- accounts: what is good for one exchange is exchanged once, a reuse ends the
  user's sessions, a reset the older links, a choice of scopes is never widened,
  an organization has one owner;
- governance: the tally is the votes; the answer of a gate is a check of it.

`PROJECT.json` "hazards" lists where each of these bites, line by line.

## 2. Modules

| Module | Models | Extends |
|---|---|---|
| `Guards` | `billing/guards.rs` and the plan tiers: overage, uplift, ceiling, gate decision | Integers |
| `OverageBilling` | one tenant's period close with concurrent handlers, Stripe, usage reports, plan changes, faults and crashes | `Guards` |
| `ManifestDeploy` | the deploy, build_image and app_redeploy verbs with CodeBuild, ECR and ECS | Integers, Sequences |
| `CreditGate` | balance query, activity report and the credit harnesses share | `Guards`, FiniteSetsExt |
| `AppOrchestrator` | deploy_app with its background worker, app_control, Docker and ECS | Integers, Sequences |
| `DependencyOrders` | `startup_order` and `build_order` as functions, against the definition of a topological order | Sequences, SequencesExt |
| `SubscriptionEvents` | the subscriptions of a tenant, Stripe's events about them, the harness they start and stop | Integers, FiniteSets |
| `HarnessLifecycle` | sixteen operations on one harness, its ECS tasks, its ingress, the pollers of its tasks | Integers, Sequences |
| `Accounts` | organizations, users, every token that is good for one exchange, scopes | Integers, Sequences |
| `EnvProvision` | provision_env and teardown_env against RDS, Secrets Manager, ALB and ECS | Integers, Sequences |
| `EmissionLedger` | what the nightly emission promises, abstractly | Naturals |
| `BountyEmission` | contributions and the nightly run of several platforms; implements `EmissionLedger` | FiniteSetsExt |
| `Governance` | one proposal, its votes and its gate checks | FiniteSetsExt |
| `Books` | the last two and `CreditGate` in one state space, one of them at a time | `BountyEmission`, INSTANCE `Governance`, `CreditGate` |
| `OverageBilling_proofs`, `ManifestDeploy_proofs`, `AppOrchestrator_proofs`, `SubscriptionEvents_proofs`, `HarnessLifecycle_proofs`, `Accounts_proofs`, `EnvProvision_proofs`, `Books_proofs` | theorems | the module, TLAPS |
| `MC...` | instances of each for TLC | the module |

`OverageBilling` and `CreditGate` share the arithmetic of `Guards`, and the usage
rows that a report of `CreditGate` leaves behind are the rows `ReportUsage` adds
in `OverageBilling`. `SubscriptionEvents` takes from `OverageBilling` that an
event is handled once, and from `CreditGate` that a blocked status closes the gate.
The harness that a checkout of `SubscriptionEvents` creates is the row that
`HarnessLifecycle` begins with. `MCAppOrchestrator` and `MCManifestDeploy` compute
the orders they give to `Order` with `DependencyOrders`.

### OverageBilling

`row` is the `billed` flag of each usage row (with "absent" and "deleted"),
`logged` is `stripe_webhook_events`, `plan`, `grantedAt` and `subId` are the columns
of the tenant: the UPDATE and the SELECT of a paid invoice go by
`stripe_subscription_id`, and only the checkout's handler (`CheckoutCompleted`, here
the one UPDATE the invoices depend on) records that. `pc`, `inv`, `tier`, `since`,
`hold` are the local variables of each running handler: its place between
awaits, its event, the plan it read, the start of its egress window, the rows it
selected. `item` is Stripe's memory of
an idempotency key: a second request under the key returns the first item and
is accepted only with the same parameters. One action per statement or call of
the handler; each may fail or, where it is a call, succeed with its answer lost
(`faults` bounds how often), and `Crash` drops a handler anywhere. `IssueInvoice`
and `Deliver` are Stripe: any event not yet answered 2xx is delivered again, also
while another handler works on it. `signed` are the subscriptions whose checkout
was handled, which may come before or after the invoice. `settled`, `closed`,
`exposed`, `refreshed`, `trouble` record history and are read by no guard;
`refreshed` is what gave each invoice's period its fresh credit.

### ManifestDeploy

`pc` places every deploy, image build and redeploy between awaits; `step` is its
position in the build order or in the list of services, `bad` its failed checks
(`all_ok` is `bad = {}`), `pins`, `seen`, `rolled`, `unchanged` the job's local
variables, `inflight` the in-memory map, `receipt` the row a poll of
`deploy_status` reads. AWS is `build` (the job's latest CodeBuild build), `tag`
(what each ECR tag points at, as the ref an image and its base were built from),
`task` and `trial` (the release task and its containers) and `td` (the containers
of each service). A deploy goes build, wait, ..., release, relwait, roll, update,
..., emit, exit; build and release tasks go on after the platform stops polling
or dies (`Crash`). `overlap`, `frozen` and `stale` are history: `overlap` takes an
image when another job pushes it after this one did (`Pushed`) and before this one
is through with its builds. `ManifestAssumption` says of `Order` what `build_order`
ensures: an image comes after its base (`DependencyOrders`).

### CreditGate

`balance` and `status` are the tenant's columns. A harness goes poll (ask for the
balance; `allowed` is the answer), run (`spent` grows up to `Rate`), report, and
the handler of its report goes report (rows stored), deduct (the UPDATE with
`GREATEST(0, ...)`). Credit resets and status changes come from the webhook at
any time. `used`, `deducted`, `lost` and `late` are history. The harness is not in
`src/`: it is taken to report everything it spent once per interval, to wait for
the answer and to ask again. A report sent twice and a balance query that fails
are not modelled.

### AppOrchestrator

`dep`, `svc`, `cid` are the columns of `app_deployments` and `app_services`;
`cont`, `network`, `volume`, `ecs` what really exists. `job` and `pos` place
`deploy_app` and its spawned worker, `pc` each `app_control` request; `todo` is
the list of containers it still has to act on. Containers do not exit on their
own and starting one that runs succeeds; pulling images and the receipts and
ping-back at the end are left out. On AWS the worker registers one task
definition (`RegisterTaskDefinition`) and points one ECS service at it
(`DeployService`); `app_control` asks Docker whatever the provider, so on
AWS it finds no container to act on and changes rows only. Requests come as soon as the
row is there, also before the worker is spawned. `Order` is what `startup_order`
returns: `OrderAssumption` says what is
assumed of it, and `DependencyOrders` that the algorithm provides it.
`exposed`, `leftover` and `lost` are history. `exposed` holds the services two
parties at work had in common, and those a request had acted on (`Touched`) when
a call or Docker stopped it half way: it returns without writing their rows
(`app_orchestrator.rs:723`).

### DependencyOrders

`StartupOrder` is the queue of `AppSpec::startup_order`, `BuildOrder` the repeated
passes of `AmosManifest::build_order`, each written as a recursive function over
its rounds. The assumptions `StartupOrderSorts` and `BuildOrderSorts` compare them
with `Sorts` and `Acyclic` for every dependency graph on three services (512) and
every base relation on four images (625): what is placed is in dependency order,
and everything is placed exactly if there is no cycle, which is when the code
returns an error. TLC evaluates them with the runs of the two modules.

### SubscriptionEvents

`st`, `issued`, `pending` are Stripe: each subscription's status, and the events
not delivered yet, which arrive in any order. `subId`, `status` are the tenant's
columns, `row`, `task` those of its harness, `up` the ECS tasks that run and
`polling` those a status poller watches. `pc` and `ev` place each handler; `mine`
is the container id `stop_harness` read, `phantom` says that the handler's INSERT
was refused (the subdomain is unique) and its later UPDATEs match no row. Every
ignored error is a `Fault`. `writer`, `trouble`, `missed`, `excused` are history:
`writer` is the subscription whose event the tenant's status goes back to, `excused`
the tasks that an overlap of two checkouts or of a checkout and a deletion, a fault,
or a poller still at work may lose.
A tenant on an app tier (no harness), the Docker branch of a checkout and the
caller of `provision_harness_for_tenant` in `routes/ui.rs` are left out.

### HarnessLifecycle

Start, stop, restart, redeploy, update, rollback, delete and deploy of the
dashboard, provision, specialist, redeploy and deprovision of the admin API, the
tenant API and the MCP tools do much the same few things in different orders. An
operation is therefore a record: the sequence `steps` of its awaits, and flags
for the early returns and answers in which the handlers differ (`needsTask`,
`strict`, `sparing`, `marks`, `reports`, ...). There is one action per kind of
step, and `ctx` holds what each request has read (`read` is the container id, old
by the time it is used). `row` is `harness_instances`; `up`, `image`, `own` are ECS;
`rules`, `targets` the listener rules and the target group of the subdomain, each
named for the task it was made for; `phase` is the poller of each task, which
lives in the process and sets up the routing. `row.sub` says whether there is a
subdomain: a specialist is inserted without one (`provisioning.rs:474`), a poller
given none (phase "bare") sets up no routing and still writes running
(`SkipRouting`, `ui.rs:111`), and a platform without a router behaves the same. A
task without an address, or a SELECT of the subdomain that fails, is among the
faults of `RegisterTarget`. `ContainerProvision` and
`ContainerStop` are the provisioning API, which goes round the row. `tangled`,
`excused`, `left`, `before`, `blurred` are history: `excused` the tasks that may run
unnamed, `left` those among them for which no failure is to blame but an operation
that stops nothing or a poller that gave up.

### Accounts

`tokens` holds the rows of `refresh_tokens`, `oauth_auth_codes`, `oauth_tokens`,
`password_reset_tokens` and `api_keys` in the order they are made, with their
`kind`: all but keys are selected, marked and exchanged in statements of their
own, and that is where they fail alike. `ctx[h].at` is the statement a request is
about to run. Creating a user is one transaction whose demotion of the old owner
works on what it saw (`BeginCreate`, `CommitCreate`); registration is none and undoes
by hand (`DeleteTenant`). Scopes are three classes, those a viewer, a member, an
owner has. Hashes, signatures, PKCE and expiry are left out: they refuse a request
before it changes anything.

### EnvProvision

`ops` is the sequence of calls; a call's number names what it makes, so `tg`, `db`,
`secret`, `service` say which call made the thing of that name. A provision makes
target group, rule, database, secret, task definition, service and row one await
after the other, and each may fail, which ends the call (`GiveUp`) with everything
left as it is; only a refused rule removes its target group. A teardown starts
from a row, goes on past failures (`Skip`), and fails only if the row cannot be
deleted. `DbOf` and `TgOf` give the names the code derives; an instance makes two
environments share one.

### BountyEmission, EmissionLedger, Governance, Books

Every running platform has a scheduler (`run`) that wakes at midnight, reads the
contributions of the day on its clock and inserts one record per contributor
until one is refused. `EmissionLedger` knows only `awarded`: an award is made once
and stays. `BountyEmission!OneAwardPerDay` is `Ledger!Spec` for
`Ledger == INSTANCE EmissionLedger`, with the identity on `awarded` and everything
else hidden. `Governance` has a vote in three awaits (stake, INSERT, tally) and the
gate checks in the order of their time. These two and `CreditGate` share no row and
no lock: `Books` puts the three side by side, and its variable `part` says which of
them moves, so a behaviour is one of either, not a product of all. One run and one
module of proofs serve them, and the sums all three rest on are proved about once.

## 3. Runs

| Run | Shows |
|---|---|
| `overage_billing` | two handlers, two invoices, two rows, one fault: marks never run ahead of charges; a double charge needs a lost mark or an overlap |
| `overage_periods` | two checkouts in any order with their invoices, plan changes, an overage above the ceiling, egress, no faults, under fairness: held overages are not charged; each paid invoice is followed by fresh credit, its own or its checkout's, unless another checkout took its place |
| `manifest_deploy` | two deploys of a two-service app with a release command, a redeploy, one fault, under fairness: the in-flight guard, the release gate, the receipt, the redeploy guard |
| `manifest_tags` | an app, its environment and a build_image call on the same two tags, one fault: what a pin may name |
| `app_orchestrator` | two services on Docker or AWS, two requests of any kind, one fault, under fairness: startup order, complete teardown of what Docker has, rows against containers, provisioning ends |
| `subscription_events` | two subscriptions, two handlers, seven events, one fault: status against Stripe's, no lost ECS task, a canceled tenant's harness is down |
| `harness_lifecycle` | three operations out of sixteen, two at a time, with their pollers and one fault, with and without a subdomain: tasks against the row, routing against the row, where a rollback goes |
| `accounts` | four requests, two at a time, up to three users and four tokens, two faults: one exchange per token, what a reuse and a reset end, scopes, owners |
| `env_provision` | a shared and a dedicated environment with one target group name, three calls in any overlap, two faults: whole environments, complete teardowns, fresh databases |
| `books` | two platforms paying two contributors over three days; two votes and two gate checks on a proposal; two harnesses on shared credit and one with its own key, a reset, a status change; one fault: the ledger, the pool, the tally, the gate answers, spending after the gate closed, the overrun of a credit |
| `deploy_other_ref` | violation: an app and its environment push the same tag, and one deploy pins the image of the other's ref |
| `deprovision_aws` | violation: an app on AWS is deprovisioned and its ECS service runs on |

Each run with expect "violation" refutes one sentence of the repository; the
finding quotes it. Several passing properties hold only with an exception (a lost
mark, an overlap, a failed removal): the history variables record exactly the
events that open it, so the property says there is no other way, and its mutant
shows that it is not the exception that makes it hold. Where the exception is the
very interleaving a hazard names, the hazard's note says so: the property bounds
what that interleaving can do, and is no claim that it cannot happen.

`DownMeansDown` has the longest list, because operations leave tasks behind even
one after another and without a failure: a start and the provision tool launch
beside what runs, so deploy, start, stop ends with the first task running under
"stopped"; the provisioning API names its task in no row; a poller that gave up
leaves an error row, whose task deprovision does not stop. Only those are allowed
without a fault (`faults = 0 => up \subseteq left`). After one, so is the task of
a stop whose error was ignored (`admin.rs:1320`, `provisioning.rs:717`), of a launch
behind an error or whose row could not be written, and of a request or poller cut
short.

Bounds. Two of each actor, because every property relates at most two of them (two
handlers of one row, two jobs of one app); one or two faults, because each hazard
needs one and the second lets a recovery path fail too; two images and two
services, so that there is a base and a dependent, a first and a later service.
Seven events are one checkout (three events), a cancellation and a second
checkout. In `harness_lifecycle` the first operation makes the row, the second and
third meet in every way two of the other operations can; the constraint
`FaultsOrOverlaps` stops looking past the third beginning where a fault has
happened beside an overlap already, and `RunningMeansServed`, `DownMeansDown` and
`RollbackGoesBack` exclude such states anyway. `BlurredReleases` stops there where
a second release is out and `RollbackGoesBack` excludes the state: the other
properties do not tell releases apart. In `app_orchestrator` a deprovision names
no service (`WholeDeprovisions`): the code never looks at the one it may name. In
`accounts` four requests are a token's making, two overlapping exchanges and a
reuse; in `env_provision` three calls are two provisions and a teardown, or a
provision between two teardowns. Three days let a run of one day be at work on the
next. TLC's integers are 32 bits wide, so costs are chosen below 2^31 microcents;
the proofs have no such bound. Symmetry is used for handlers, platforms and names
that only identity tells apart, and in no run that checks liveness.

Fairness. `OverageBilling!FairSpec` asks only that a handler that could go on
goes on and that Stripe redelivers an unanswered event, the checkout's among them.
`ManifestDeploy!FairSpec` asks it of the platform's background job alone: its
calls have deadlines and its polls a cap, so `InFlightIsCleared` holds even if
CodeBuild or the release task never ends. `AppOrchestrator!FairSpec` asks it of
the provisioning worker, whose Docker and ECS calls answer or fail. No fairness
is assumed of callers, so the modules whose steps are all requests
(`SubscriptionEvents`, `HarnessLifecycle`, `Accounts`, `EnvProvision`, `Books`) have
safety only: a dropped request is never taken up again, and
the scheduler skips a day it misses.

## 4. Proofs

`OverageBilling_proofs` proves `TypeCorrect`, `ChargesStayWithinCeiling`,
`BilledRowsAreSettled` and `DoubleChargeNeedsExposure` for any finite or infinite
set of rows, subscriptions, invoices, handlers and any bound on faults, from
`RowAssumption`, `SubscriptionAssumption` and `BoundAssumption`. None of the
properties is inductive: what a handler is about to mark was selected several
steps earlier. The invariant `IInv` adds what each handler knows at each place
(`SubmitInv`, `MarkInv`, `HoldInv`: the rows it holds are charged, within the
ceiling, and either unbilled or exposed) and what Stripe's memory implies
(`SettledInv`). `Inductive` proves it by one lemma per group of actions, with
`LetGo` stating once what releasing a handler preserves.

`ManifestDeploy_proofs` proves `TypeCorrect`, `OneJobPerApp`, `VerifiedMeansPinned`,
`RollsReleased` and `RedeployGuard` for any manifest, apps, services and requests.
`IInv` relates the position of a job to its builds (`StepInv`, `BuildInv`), to the
in-flight map (`OneDeployPerApp`), to what the release task ran with (`ReleasedInv`,
`TrialInv`) and to what it read back from ECS (`SeenInv`, `ProgressInv`). Most steps
touch one job: `OwnStepOrUndisturbed` states once that the others are not
disturbed. For the redeploy guard `GuardInv` adds what a redeploy knows between
its look at the task definitions and its restart: a service it looked at that is
pinned by now was pinned in between and is recorded as stale; `GuardFrame` says which
few variables that depends on, and all other actions keep them.

`StrayPinsAreOverlaps` has an invariant of its own, `TagInv`: as long as a deploy
builds, each tag it pushed names its own image on its own base, or is in `overlap`.
It rests on the base of an image coming before it in `Order`, because a later push
of the base by another job is only seen to have come late if the image was built
after the base.

`AppOrchestrator_proofs` proves `TypeCorrect`, `StartupFollowsDependencies` and
`DeprovisionIsComplete` for any app, requests, faults and crashes; the last is
about Docker's containers and network, whichever the provider, and says nothing of
ECS. `StepInv` says which containers exist at each place of the worker,
`RemoveInv` and `GoneInv` that the list a teardown works off holds every container
there is, from the query to the row. Its assumption on `Order` is what
`DependencyOrders` checks. A second invariant, `RowsInv`, proves
`RowsAlwaysMatch`: what two parties at work have in common is exposed
(`OverlapInv`), the worker records a container when all were started
(`WorkerInv`), and a request about a service has brought its container as far as
its place in the handler says (`CallFits`), which the row will say in the end.

`SubscriptionEvents_proofs` proves `TypesCorrect`, `TasksAreNeverLost`,
`StatusAlwaysFollows` and `CanceledIsDown` for any finite set of subscriptions, any
handlers, events and faults. `TasksInv` says why a task cannot be lost: a checkout
that is past its look for a harness, without an excuse, is alone, no poller is at
work and nothing else runs (`CheckoutsAlone`); a row that is not alive is of no
running task (`RowIsRight`). `StatusInv` holds until the first overlap, fault or
event out of order. The events ahead (pending or in hand) carry the status on: the
last one of a subscription has its status at Stripe, the first payment among them
the tenant's (`StatusAhead`), and without one the two agree already (`LastIs`).

`EnvProvision_proofs` proves `TypesCorrect`, `EnvIsAlwaysWhole`,
`TeardownsLeaveNothing` and `DatabasesAreFresh` for any environments, names, number
of calls and faults. The invariant has a conjunct for each thing a provision makes:
it is there from the step that makes it until a teardown of its name reaches it
(`RulesStay`, `ServicesStay`, `DatabasesStay`, `SecretsStay`), and what a teardown
without a failed request has passed stays away (`TeardownsTake`).

`HarnessLifecycle_proofs` proves `TypeCorrect`, `NoTaskIsUnnamed`, `DownIsDown`,
`RunningIsServed` and `RollbackReturns` for any finite set of requests, any tasks,
releases, operations and faults (`HandlerAssumption`, `BoundAssumption`,
`NoneAssumption`; the requests are finite so that `Room` can count the tasks still
to be launched). That an operation is a record pays here: `OperationFacts` states
once what the order of the steps of the sixteen says (a task is recorded right
after its launch and, where the operation stops at all, after the stop; a poller
follows only where the routing was forgotten or the row is new; ...), and the
proofs use nothing else of them. `StepMoves`, `StepKeeps` and `StepRow` say what
any step of a request does to its place, to ECS and the listener, and to the row.
The invariant is in five parts. `TaskInv`: a request holds a task exactly when it
is about to record it, what it has stopped stays down or excused (`StopsHold`),
and one that began beside no other knows the row it has read (`Alone`). `DownInv`,
until an operation overlaps another or a poller: the container id it read is the
row's or down, and a row that says stopped, error or deprovisioned is of a task
that is down or still watched. `RouteInv`, until a fault besides: the rule and the
target are those the row names (`Settled`) but between the statements of a
teardown (`RequestRoutes`) and while a poller sets them up (`PollerRoutes`), none
without a subdomain, and a row that says running is served until a request stops
its task or takes its routing, after which that request goes on to set the status
(`Served`, `GoesOn`). `LeftInv`: without an overlap or a fault a task is excused
only because an operation left it running. `BackInv`: the previous tag is the one
before the last change, or an update has just remembered the tag it is about to
replace.

`Books_proofs` proves all the properties of its run and the types of its parts for
any contributors, platforms, voters, days, harnesses, resets and losses. Its `IInv`
is the conjunction of one invariant for each part. Emission: `PoolIsAlwaysKept` (the
shares of one reading add up to at most the pool: `SumScale` takes the inequality
from the shares to the sums) and `EmissionImplementsLedger` (every step of the
emission is a step of `EmissionLedger!Next` or leaves `awarded` alone). Governance:
`TallyIsAlwaysVotes`, `VerdictsAreFrozen`. `AwardsAreShares` and `VotesInv` are the
strengthenings: an award is a share of contributions that a run of its day has read;
a vote about to be counted is recorded. Credit: `BalanceFollowsUsage`,
`BreakerBoundsEachHarness` and `OverrunIsAlwaysBounded`. `LateInv` says what a harness
may still spend, given where it is and whether the gate is closed; `late <= Rate`
alone is not inductive because the next step depends on what it already spent in the
interval. The overrun needs sums over the harnesses: `Accounted` (what was used is
what was deducted, lost, and still to be reported) and `PotBounded`. The pot of a
harness is what may still be deducted for its interval: whatever it can spend while
it runs, what it spent afterwards. A harness that is let in adds `Rate` to it when
the deductions are below the credit, since the balance was positive; one that
reports moves its pot to the deductions. `SpendFrame` states once what a step of one
harness does to the two sums. The harnesses are finite (`SpendAssumption`).

The sums of the models are `MapThenSumSet`, a recursive function over subsets.
`Books_proofs` proves what is needed of it (`SumType`, `SumRemove`, `SumUpdate`,
`SumBound`, ...) from `SetInduction`, which is stated with a set in place of a
predicate and follows from the least element of a set of cardinalities (`WFMin`), so
that no induction theorem with an operator parameter is used.

`Accounts_proofs` proves `TypeCorrect` and all five properties of the run
(`TokensSpentOnce`, `SessionsEnd`, `LinksEnd`, `ChoicesKept`, `OwnerThereIs`) for any
organizations, sets of scopes, bounds, and any finite set of requests
(`HandlerAssumption`; it is finite so that `RoomInv` can count what is about to be
inserted), from `SlugAssumption`, `BoundAssumption` and `NoneAssumption`. What a
request read is old by the time it acts, so the invariant says what still holds
of it: `KnowInv` (the rows it read are there and have the kind and the user it
took them for), `UseInv` (who holds a token nobody raced for, and whether it is
marked yet), `SweepInv` and `ResetInv` (what is older than the last reuse or reset
is dead, or is about to be marked), `HeldInv` (an organization has an owner or is
being registered, by one request that nobody disturbs), `OwnerInv` (a creation of
an owner has seen every owner it will meet, or the organization is `crowned`), and
`ScopeInv` (the list of a chosen token is never the empty one). There is one lemma
per action and conjunct it can disturb; the conjuncts that depend on few variables
have a frame lemma for all others.

The invariants were checked by TLC on the instances above before they were proved.
Four properties turned out to hold only within the bounds of their runs, and the
history variables that state their exceptions were corrected:
`StatusFollowsSubscription` and `NoTaskIsLost` (a third checkout after an
overlapping pair; a poller left from an earlier harness), `RowsMatchContainers`
(three requests, the last of which Docker refuses half way through its services) and
`DownMeansDown` (two faults: a redeploy of a stopped harness fails to write
"provisioning", then its poller to write "running", and the row says stopped for a
task that runs). `StrayPinsOverlap` excused too much: `overlap` counted a
build of the job's previous position as one of the position in hand.

Only model-checked: liveness (`InFlightIsCleared`, `ProvisioningEnds`,
`PaidInvoiceRefreshesCredit`), which tlapm cannot prove, and the two algorithms of
`DependencyOrders`, recursive over their data and compared with their definition
over all small graphs. Every other property of a passing run is a theorem.

## 5. What is not modelled

- one tenant: no statement of the period close touches two; one harness, one
  deployment, one proposal: no operation relates two of them;
- Stripe forgets an idempotency key after a day, longer than its retries run;
- ECS's rollout (health checks, draining) happens in the step that repoints a
  service; ECS replacing a task on its own is left out;
- the base pull and the push of a build are one step;
- a manifest that names one image twice is treated like any other order;
- harnesses: the Docker branches (development), the branch of
  `tool_provision_harness` that inserts a row of its own, heartbeats;
- accounts: access tokens stay good until they expire, `change_password` (ends no
  session and may overwrite a concurrent reset), the JSON route that creates keys;
- environments: task definitions are cloned and never removed; the base one is
  the one read at the start of the call;
- data and storage verbs, proxies, pages, discovery and mail: one statement or
  one call per request, after which nothing of the platform's state differs, or
  nothing at all; parsing of Compose files and manifests, rendering of task
  definitions: they build values and keep no state;
- logging, summaries' wording, timings and routing.

Known divergences of code and comments, or losses the code accepts, that no run
is spent on. Where a property of section 3 has an exception for one, it is named:

- period close: the Stripe event is recorded before it is handled, so a crash in
  between loses it (`webhooks.rs:92`), and two overlapping deliveries both pass
  the check at `webhooks.rs:77`. A mark that is lost leaves its rows to the next
  invoice under another idempotency key, although the comments say a retry can
  never double-charge (`webhooks.rs:417`, `528`; `ChargedTwiceOnlyIfExposed`). An
  overage whose submission fails waits for the next invoice (`webhooks.rs:536`),
  although the comment speaks of the next retry. A paid invoice handled before its
  checkout recorded the subscription, or after another checkout replaced it,
  refreshes nothing, is answered 200 and not sent again (`webhooks.rs:398`),
  although the comment above the handler says that it fires on every successful
  payment and is the recurring refresh point (`webhooks.rs:351`): the credit then
  rests on the checkout, and an invoice whose subscription was replaced has none
  (`PaidInvoiceRefreshesCredit`). The rows are selected by the harness's mode of
  today, so usage made under an own key may be charged later (`webhooks.rs:474`).
  Deleting a harness cascades to usage that was never billed (`ui.rs:2435`);
- subscriptions: a harness whose row does not say running (being provisioned, or error
  after its poller gave up) when its subscription is deleted runs on
  (`webhooks.rs:339`; `CanceledHarnessIsDown`), and two overlapping
  checkouts leave an ECS task no row names (`webhooks.rs:669`; `NoTaskIsLost`);
- deploys: the result of emitting a receipt is discarded, so `deploy_status` may
  say 'deploying' for good (`mcp/mod.rs:1410`); a service whose digest cannot be read
  counts as unchanged and verified (`mcp/mod.rs:1414`); the summary of a failed roll
  says services were not rolled although earlier ones were (`mcp/mod.rs:1406`);
  `app_redeploy` looks for a running deploy before it starts, not while it runs
  (`mcp/mod.rs:2164`; `FrozenRestartsAreStale`);
- orchestrator: a deprovision of one service tears the whole app down
  (`app_orchestrator.rs:675`), although the verb and `docs/MCP.md:82` speak of the
  service; stopping an app on AWS changes the rows only (`app_orchestrator.rs:723`);
  deprovisioning it calls the Docker teardown and writes the row, and the ECS service
  runs on, because `AwsAppProvisioner::teardown` (`aws_app.rs:337`) has no caller
  (finding of `deprovision_aws`); on a platform without a Docker daemon it is an
  error and changes nothing;
- harnesses: `harness_start` launches with the shared database, without poller or
  routing, and stops nothing (`ui.rs:1727`; `LiveTasksAreNamed`, `DownMeansDown`);
  a specialist has no subdomain and is routed to by no rule also after a redeploy,
  while its row says running (`provisioning.rs:474`, `ui.rs:111`;
  `RunningMeansServed`); a poller writes what it found over whatever came after
  (`ui.rs:135`); an update that fails has overwritten the tag a rollback would
  need (`ui.rs:2112`; `RollbackGoesBack`);
- environments: names that agree in 24 characters share a target group, names that
  differ in `-` and `_` a database; a retry after a failure past the secret is refused
  until the secret is removed by hand; no unique key on (tenant, name) keeps two
  provisions of one environment apart (`EnvIsWhole`, `FreshDatabase`);
- accounts: two requests that hold the same token both go through
  (`auth.rs:605`; `SpentOnce`), a session under way survives a reuse (`auth.rs:588`),
  two owners may be created side by side (`admin.rs:749`; `OneOwner`), a registration
  cut between tenant and user keeps the slug for good;
- emission: a run at midnight pays the day that begins, so what is logged later
  that day is paid by no run (`bounty_service.rs:114`); a failed run is not retried,
  a scheduler still at work at midnight skips the day, `record_contribution` has no
  caller;
- governance: a failed INSERT of a proposal answers 201, one wallet may vote
  several times, a merged proposal may be cancelled (`can_transition_to`),
  `get_gates` answers with the oldest check (`governance.rs:613`;
  `GateVerdictIsFrozen` says so), the tables have no migration.

## 6. Plan

Done: 1. `OverageBilling`; 2. `ManifestDeploy`; 3. `CreditGate` and
`SubscriptionEvents`; 4. `AppOrchestrator`; 5. `HarnessLifecycle`;
6. `EnvProvision`; 7. `BountyEmission` with its refinement; 8. `Accounts` and
`Governance`; 9. `DependencyOrders`.

Proved: every invariant and every action property the passing runs check, and the
refinement of `EmissionLedger`.

Left to model, if it earns a run: a usage ledger in which a row is charged once,
implemented by `OverageBilling` without exposure; a second tenant in
`BeginCreate`'s race; the Docker branch of a harness.
