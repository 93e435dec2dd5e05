# Verification of Paul OS (agent_builder)

TLA+ specifications of this repository's own logic: who may execute what and at whose expense, how
runs, schedules, digests, Plugins, releases, certifications, specifications and generated agents move
through their states, and the algorithms they rest on. TLC checks the specifications on small
instances; TLAPS proves the safety properties of nearly all of them for every value of the constants.
`PROJECT.json` is the machine-readable index: components, runs, the mutants that show each property
can fail, the source lines behind each definition, findings, hazards and theorems.

## The system

The parts meet in one PostgreSQL database. The backend's services write in transactions at different
isolation levels, the worker's slots and the backend's own dispatchers claim and settle rows under
leases, timers (schedules, health probes, the index outbox, maintenance) move rows on, and the
browser shows copies that age. What is hard nearly everywhere is the same: state that is read before
a transaction, an external call or a lock and used after it.

| Part | State it keeps | Operations | What is hard | Module |
| --- | --- | --- | --- | --- |
| Execution service (`execution-service.ts`) | run, approval, grant rows | create and revoke grants; create, approve, reject, cancel runs, singly or in groups | `createRun` decides outside its transaction; revocation races claims | `ExecutionAuthority`, `PluginAuthority` |
| Durable worker (`apps/worker`: `store.ts`, `engine.ts`, `daemon.ts`) | leases, attempts, reservations, outcomes, slots | recover, claim, heartbeat, complete, cancel, pause, retry, start, stop | five ways to settle an attempt; slots that lost their lease; crashes | `DurableWorker` |
| In-process dispatcher (`execution/dispatcher.ts`) | the same rows, a schedule, permits | recover, resume, claim, execute, fail | other recovery rules than the worker's | `InProcessDispatcher` |
| Plugin execution (`plugin-execution.ts`, `plugin-store.ts`, `plugin-plan.ts`) | invocation rows | plan, revalidate, begin, call, record | an effect whose acknowledgement is lost | `PluginLedger` |
| Plugin transports (`plugin-runtime.ts`) | one call | narrow limits, resolve secrets, follow redirects, check the answer | redirects, aborts, cyclic schemas | `PluginCall`, `PluginSchema` |
| Plugin installations (`plugin-service.ts`) | installation state, health | install, configure, probe, enable, disable, uninstall | probes of a superseded configuration; runs admitted on an earlier state; holds that act on what they read | `PluginInstallation` |
| Release governance (`release-governance-service.ts`, the evaluator) | channel pointer, evidence, decisions | evaluate, promote, decline, roll back | snapshots older than the locks they wait for | `ReleaseGovernance`, `ReleaseContract` |
| Registry and roadmaps | versions, pins, releases | import, freeze, release; select the current version | imports at READ COMMITTED | `Registry`, `RoadmapProgram` |
| Catalog and reuse | publications, outbox, index, intakes, decisions | publish, retire, index, decide, deploy, list | late and repeated indexing; a cursor whose entry is retired | `CatalogReuse`, `CatalogPages`, `CapabilityMatch` |
| Certification, promotion, maintenance | runs, case results, lifecycles | certify, time out, reap, promote, retire, prune | late results of reaped runs | `Certification` |
| Specifications and generation | specs, sections, interpretations, jobs, permits | draft, confirm, clean up, accept, run, reap, deploy | sections saved while a job is accepted; a late success against the reap of a boot | `SpecDrafting`, `Generation` |
| Automation and learning | schedules, dispatches, candidates | serve due occurrences, take over, stage, review | leases that expire while a run is created | `AutomationScheduler`, `LearningReview` |
| Attention and digests | event ledger, cursor, snapshots, queue | append, brief, deliver, list, resolve, decide | numbers handed out before commits | `DigestDelivery`, `EventFeed`, `AttentionQueue` |
| Identity and routes | bindings, requests in flight | authenticate, authorize, handle, answer | roles revoked while a request runs; two paths to one operation | `RequestAccess` |
| Database seed (`prisma/seed.ts`) | seeded rows | seed, again after an interruption | no transaction around it | `DatabaseSeed` |
| Workstation broker (.NET, and its TypeScript rules) | order, lease, nonces, session | place, deliver, prove, execute, replay | redelivery; two languages decide alike | `WorkstationBroker` |
| Browser: query cache, Attention page, Build page | cached queries, dialogs, requests | poll, mutate, invalidate, interpret, decide, draft | answers that arrive late or never | `QueryCache`, `BuilderScreen` |
| AIM program (`packages/contracts/src/aim`, `packages/runtime/src/aim`) | manifest and its histories | edit, accept, project at a date | relations written at both ends; evidence that ages | `AimManifest`, `AimTimeline`, `DependencyCheck` |

## Modules

**Execution.** `ExecutionAuthority` is the ledger and the control plane. Its variables are columns
(the comment at each names it). Time is abstracted to what the code compares: `leaseExpired` is
`leaseExpiresAt < NOW()`, `lapsed` is `validUntil <= now`, `epoch` counts the values of `promotedAt`,
`decidedEpoch` is the epoch of a request's `decidedAt`. Each service method is one action, because it
is one transaction with the rows locked, with the two exceptions the code makes: `createRun`
(`BeginCreateRun`, `CommitCreateRun`) reads outside its transaction and `holdAffectedRuns`
(`BeginHold`, `EndHold`) reads before it locks. What the code compares field by field and never
writes afterwards is the constant `Covers[g]`. Money is counted in units: `Cost(S)` is the number of
pairs of a run of `S` and a unit of its estimate, the sum of the estimates without recursion.

`DurableWorker` extends it with slots. `slotPc` says between which store calls a slot is:

    idle -Claim-> claimed -InitialHeartbeat-> planning -BeginInvocation-> begun -CallPlugin-> calling
                     |                                                                          |
                     +--------- (no Plugin) ---------> streaming <------ReturnInvocation--------+
    streaming -ModelFinished-> publishing -Complete-> idle
    any error -> catching -CancelClaimed | PauseForPlugin | FailOrRetry | LeaseLost-> idle

Each arrow is one store call or one external call; between two of them any control-plane operation,
any other slot, an expiry, a crash (`Halt`) or a restart with recovery (`Start`) may happen.
`StoreFails` is a store call that throws. The model takes any queued run, since retry backoff and
`SKIP LOCKED` make every order possible. `InProcessDispatcher` extends the same ledger with the
backend's executor: a schedule with permits, recovery in two steps (list, then one transaction per
run), refunds, and the revalidation before publishing.

**Plugins.** `PluginAuthority` derives the calls a run may make from the dependency closure of its
entry, the grant's scopes and the installations, at creation, approval, claim and call. A run is created
as the code does it: the standing grant and then each requirement are read by statements of their own
(`BeginCreateRun`, `DeriveRequirement`), and a later transaction inserts what they found
(`CommitCreateRun`), while installations come and go. `PluginLedger`
is one plan of calls with its two append-only rows per call, repeated appends and takeovers.
`PluginCall` is one HTTP call with its limits, secret, redirects and timer; `PluginSchema` is the walk
over a schema graph and a value; `PluginInstallation` has probes that run outside the transaction that
records them; runs that are created and approved on a state of the installation read before they are
inserted (`BeginCreate` and `EndCreate`, `BeginApprove` and `EndApprove`; `late` marks one that entered the
queue when that state had passed); the hold of `configure`, `setState` and `checkHealth`, which reads
the runs when it has the installation's lock, locks them only after and acts on the states it read
(`holding`); and the recovery that queues a run again although it was asked to stop.

**Release.** `ReleaseGovernance` models a Serializable transaction as a snapshot and a commit that
needs a serial order to explain it. `ReleaseContract` is the evaluator, one queue step at a time.
`Registry` has imports that read, check and write at READ COMMITTED under the database's uniqueness
and freezing triggers. `CatalogReuse`, `CatalogPages`, `CapabilityMatch`, `RoadmapProgram` and
`Certification` follow their services in the same way; a certification run is executed case by case in
a process that may die or be reaped.

**Build.** `SpecDrafting` has editors between the read and the update of a section; `Generation`
extends it with jobs, permits, crashes and reaping. `succeed` and `fail` read the job without a lock and
update it by id, at READ COMMITTED: `ending` holds the transactions between the two, of the process
that runs the job and of a booting one that reaps it. A database failure inside `fail` itself is left out: it
leaves the job running until the next boot. `BuilderScreen` and `QueryCache` are the browser:
requests overlap, fail and answer late, and callbacks see the render that sent them. `QueryCache` has two
tables, taken from the two sides: what each hook invalidates (`Invalidates`), and which tables of the
database its route writes and which queries answer from them (`Writes`, `ShownBy`). Where the second has
more than the first, `Unrefreshed` names it. An invalidation cancels a request under way only if the query
has data, as TanStack Query does. `RequestAccess`
has the table of routes. `DatabaseSeed` commits statement by statement, boots again and binds the local roles again. `WorkstationBroker` has the C#
rules and the TypeScript ones side by side.

**People and time.** `AutomationScheduler` counts the clock, schedules and buckets in one unit.
`LearningReview` and `AttentionQueue` model what a reviewer was shown apart from what is decided.
`DigestDelivery` has sequence numbers that are taken before commits, stream locks, snapshots and
deliveries. `EventFeed` is its abstract specification: events are published with a number, and a
delivery hands out the next stretch of them, in order, once. `DeliversInOrder` in `DigestDelivery` is
that specification under the refinement mapping.

**AIM.** `AimManifest` edits a manifest one field at a time and accepts it when no check of the schema
reports an issue. `AimTimeline` projects dated histories. `DependencyCheck` is the depth-first search
with its early stop, one call or return at a time.

## Runs

A run's module instantiates component modules. In `MCExecution`, `MCProgress`, `MCDelivery`,
`MCGovernance`, `MCBuild` and `MCAlgorithms` the variable `case` names the component that moves; the
others stay switched off (their variables are 0) or as initialised, and a property speaks of one case
or of several. `MCDelivery`, `MCGovernance`, `MCBuild` and `MCAlgorithms` extend one component
(`DigestDelivery`, `ReleaseGovernance`, `Generation`, `AimManifest`), whose properties they check as
they stand, and instantiate the others. So one run asks one question of several components that do not interact in it.
Components that do interact are composed inside their modules: `DurableWorker` and
`InProcessDispatcher` extend `ExecutionAuthority`, `Generation` extends `SpecDrafting`.
Each property of a run is a conjunction of the named properties of the component modules, each with
its own comment there.

| Run | Cases | Question |
| --- | --- | --- |
| `accounting` | two runs compete for one grant, two daemons, one crash | Is the ledger exact: reservations, budget, attempts, charges, leases, one outcome by the owner, revocation? Do decisions stand? |
| `plugin_effects` | one run with a planned Plugin call, kill switch, two grants, one crash, one lost store call | Is the external effect made at most once? |
| `execution_cases` | re-approval with expiring grants and a store fault; the pointer leaves a release and returns; two backend processes recovering each other's runs | Do human decisions stand, is production work published only as approved, is the ledger exact under the dispatcher's rules? |
| `execution_progress` | worker queue; dispatcher with one permit | Is everything queued brought to rest, are permits never lost? |
| `progress` | catch-up, reclaim, digest, plan, installation, index, certification, generation, pages, broker, access, polled queries | Does what must happen happen, and are limits met exactly? |
| `delivery` | digest cursor, takeover of dispatches, learning reviews, attention queue twice | Is everything handed to a person once, in order, and decided as shown? |
| `governance` | Plugin ledger, authority and limits, installation, channel, registry with two imports, one import, lineage, index, decisions, certification, gates | Is what is called, enabled, promoted, released and certified what was governed? |
| `build` | drafting, two specifications, generation, builder, cache, listing, access, seed, broker | Is what is built and executed what was confirmed and authorized? |
| `algorithms` | manifest, call, schema, contract, match, dependencies, roadmap and prereleases, timeline, limits, stages | Do the algorithms compute what they are defined to, on every small input, and end? |
| `hold_race`, `recovery_gap`, `digest_omitted` | small instances | the three disagreements below |

Bounds. `MaxAttempts` is 2 where retries matter, so that a first attempt, a retry and the refusal of a
third happen. Two daemons, processes, workers or indexers are what takes a lease over; a second one is
enough, since they differ in nothing. Crash, fault, outage and failure bounds of 1 or 2 put one or two
of them at every possible place. `MaxEpoch` 3 lets the pointer leave a release and return. Three
writers on two streams with a digest limit of 2 make a digest overflow while a lower number is still
open. Two imports of two versions, three families with pages of one, three Skills, three dependencies,
two schema nodes, versions over two numbers (all cores with one prerelease identifier, two cores with
two), plans of two and three calls and manifests of two groups are the smallest instances
in which a cycle, a conflict, a skipped entry or a second owner exists. `MaxTime` of the broker passes
every window in `build` and reaches the longest in `progress`. Requested features only enter the match
by their number, so the first skill of `match` may have the first ones (`Initial`). In `execution_progress` a budget admits one estimate at a time and attempts cost nothing:
what is spent is the matter of `accounting`. `Histories` of the evaluator holds two of 20 samples,
where the 95th percentile leaves one out. Estimates are equal in all instances; the proofs cover the others. Deadlock is not checked: a
system whose work is all at rest may stop.

Symmetry is used in `accounting`, `plugin_effects`, `execution_cases` and `delivery`, which have no liveness property,
over runs with equal parameters, slots, processes, reviewers and candidates of one content.

Fairness. Weak fairness of the step of a process, slot, worker, timer or event loop, where the code
polls (`slotLoop`, the schedule tick, the health tick, `processPending`, `refetchInterval`) or every
wait is bounded by a timeout; leases expire by the clock. Strong fairness is used twice: for the
briefing that waits for the stream locks (PostgreSQL grants advisory locks in the order of the
requests) and for the indexer's publication (the embedding provider does not fail for ever). Nothing is
assumed of people, outages, crashes or faults, except that the instances bound their number. In
`execution_progress` there are no crashes: after one, `recovery_gap` shows what the code leaves undone.

## Findings

Each has a run whose property states what the quoted line of the repository says.

1. **Stale states in a Plugin hold** (`hold_race`, `plugin-service.ts:225`). `holdAffectedRuns` reads
   runs, then locks them, then acts on what it read: a run published in between goes from `succeeded`
   to `paused_plugin` and can be cancelled although it has an outcome.
2. **Recovery only at boot** (`recovery_gap`, `daemon.ts:37`). Claim, crash, restart, and only then
   the lease expires: no later step recovers the run.
3. **A digest that can never be delivered** (`digest_omitted`, `automation-learning-service.ts:218`).
   A snapshot with an event that is not shown is refused by every briefing and returned to the next.

The models show further behaviour that differs from what a document or a message in the code says. No
run states these; where one would contradict a property of a run, the property says what does hold.

- The same hold on a running run takes its lease away and nobody releases the reservation
  (`plugin-service.ts:243`); hence `ReservationExact` is checked and proved without Plugin runs.
- `maxRuns` is charged by the attempts of the run, not by the grant (`store.ts:505`); `ChargedOnce`
  bounds the charges from above only. A claim that meets a reserved budget pauses the run without the
  approval request of ADR 0006 (`store.ts:658`).
- `createRun` refuses the identical retry of a dispatch whose run was parked for approval, because the
  stored grant is null (`execution-service.ts:1465`).
- Attention and the review group legacy improvement candidates by different keys, so such a group can
  never be decided (`automation-learning-service.ts:156`).
- `uninstall` reads its dependants outside its transaction (`plugin-service.ts:1054`); `movePointer`
  may promote on evidence that a newer evaluation, committed while it waited, supersedes
  (`release-governance-service.ts:610`); `createDecision` may deploy a publication that is being
  retired, and the deployment is not flagged (`reuse-service.ts:884`).
- `updateSection` checks what it read and then updates by id: a generation accepted in between is
  overwritten (`spec-service.ts:503`).
- A run can enter the queue of a Plugin that is disabled by then: `createRun` and `approveRun` derive its
  state from an installation read before (`execution-service.ts:1569`, `:1609`), and the recovery of an
  expired lease queues a run again although it was asked to stop (`apps/worker/src/store.ts:393`).
  `NoRunIsMissed` says which runs these are, and
  `HeldNeverSucceeds` that one that was held never succeeds.
- A department can install a Plugin of its own while `createRun` has already bound a run of it to the
  workspace's (`execution-service.ts:730`); `NoFallback` is about the installations that were there when
  the requirement was read.
- A process that boots reaps a job another one is finishing: both read it as running, and the later update
  wins, so a job that succeeded can be shown as failed, or the reverse, with its agent ready
  (`generation-service.ts:246`, `:269`, `:306`, `:317`). `OutcomeIsFinal` says that only a transaction that
  had read the job before its end can do that, once, and none while no process has stopped.
- Some mutations change queries that their hooks do not invalidate: a certification that starts changes the
  agents of the catalog and of the family (`certification-service.ts:348`, `hooks.ts:742`), a promotion or
  rollback the published catalog and where a Plugin is used, and most the detail of a run or of an item.
  The first load of a query survives an invalidation and may show what was read before, and a user who
  loads the next page replaces the refetch. `OwnWriteShown` says that these three are all.
- A boot gives revoked bindings of the local user and of the system again (`seed.ts:1700`, `:1751`) and
  makes the local user active again (`:1644`); `RebootKeepsAgents` is about agents only.
- Two editors who save the last two sections at once leave a complete specification a draft, and two
  who attach an interpretation at once leave a section outside the lineage (`spec-service.ts:443`,
  `:460`); `CompleteIsReady` and `ConfirmedInLineage` are therefore checked with one editor.
- Two imports at once can store a cycle of pins (`registry-service.ts:475`), keep pins the manifest no
  longer declares (`:572`), and a release compares pins by version, not digest (`:798`); `NoCycle` is
  checked for one import at a time.
- A seed interrupted between a corpus version and its cases is not repaired by seeding again
  (`seed.ts:1094`), and one repeated after a day is refused by the evidence trigger (`seed.ts:1532`).
- `createDraft` can use an interpreted scope nobody saved (`App.tsx:579`); `LineageIsReviewed` is about
  drafts that record their interpretation.
- The versions' regular expression admits leading zeros (`roadmap-schemas.ts:12`), and the prereleases
  `01.a` and `1.b` then compare as equal (`roadmap-service.ts:91`); `IsTotalOrder` is about versions
  without them.
- The dependency check may name a capability that is on no cycle (`program-contract.ts:447`);
  `FindsCycles` is about whether it reports one.

## Proofs

Eight modules hold proofs. Each theorem is about the component module itself, for every value of its
constants, not about the small instances of the runs; the runs check the same definitions, and TLC
checked each inductive invariant before it was proved.

**The two executors.** `ExecutionAuthorityProofs` has what both share: facts about money (`CostType`,
`CostUnion`, `CostRemove`, ...) and what each control-plane operation does to coverage, decisions,
approvals and revocation (`Covered`, `Decided`, `ApprovalsRecorded`). `DurableWorkerProofs` has, for any
sets of runs, grants, releases, slots and daemons, any estimates and budgets, and any number of
crashes, faults and pointer moves:

- `TypeCorrect`: `TypeOK`, with `SlotBusy` (a slot that is not idle executes a run).
- `LeaseAndAttempts`, `RetriesAreBounded`: `LeaseMatchesState` and `AttemptsBounded`. Neither is
  inductive alone: `CommitCreateRun` overwrites the state of a row and `EndHold` acts on old states.
  `Fresh` says that a request in flight has no row yet, that such a row was never attempted, and that
  a hold saw only existing rows of Plugin runs.
- `ReservationNeverShort`, `ReservationNeverLeaks`: `ReservationCovers` always, and `ReservationExact`
  under `PluginRuns = {}`, both from `ReservationInv`. `CoveredReleased` also shows that the clamp at
  zero never acts.
- `BudgetNeverExceeded`: `BudgetRespected` if no attempt costs more than the estimate of its run
  (`CostCap <= Upper[r]`). It needs `ReservationCovers`, since a clamped release would break it.
- `RevocationReaches`: `RevokedWorkIsStopping`.
- `RunsAreChargedOnce`: `ChargedOnce`, from `ChargeInv`: a run that a grant was charged for has been
  attempted, so its next claim charges nothing.
- `DecisionsAreKept`, `LedgerAgrees`, `RunsAreSettledOnce`: `DecisionsStand`, `LedgerConsistent` and
  `SettledByOwner`, from `DecidedInv`, which holds run by run for the runs that need no Plugin.
- `PublishedUnderApproval`: `PublishedInApprovedEpoch`. What is inductive (`EpochInv`) is that a busy
  slot carries an epoch in which its release was approved; the pointer may move away and back.
- `PluginEffectsAreFinal`: `EffectsAreFinal`, with Plugins, holds and crashes. `EffectInv` says that
  the ledger row precedes the call: at most one slot is between the two rows of a run, and a run that
  may still be handed out has no row.

The argument has two layers. `WorkOnLedger` reduces the slot's state machine to three effects on the
ledger: it leaves it alone, renews a lease it owns (`Refreshes`), or settles its own run (`Ends`).
`LedgerSteps` adds claims, expiry, recovery and the control plane, and the invariants of the ledger are
proved over these few cases.

`InProcessDispatcherProofs` follows the same layers for the backend's executor, whose recovery refunds
what it charged: `DispatcherTypeCorrect`, `RefundsMatchCharges` (`RefundInv`: the column is the number
of charges, and every first attempt under way is among them, so a refund never meets zero) and
`DispatcherLedger`, that is `DispatcherKeepsLedger`, which run `execution_cases` checks of its instance
`Recovery` in `ExecutorsKeepLedger`.

`PluginRuns = {}` is the hypothesis of the theorems about decisions, outcomes and exact reservations.
It cannot be dropped: a hold that acts on the states it read (the first finding) moves a published run
back to a paused state, and run `hold_race` exhibits it. The theorems of Plugin runs are those that
survive it.

**Plugin calls.** `GovernanceProofs` holds what is proved of Plugins, certification, the catalog and
the broker, each as an instance with its own variables. Of `PluginLedger`, for any plan, limit, number
of workers, faults and governed changes: effects happen once and in the order of the plan and only
recorded output is used (`EffectsHappenOnceInOrder`), within the limit of the scope
(`InvocationsWithinLimit`), no row is rewritten (`LedgerIsAppendOnly`), and a success is recorded only
for a run that is held, uncancelled, granted and enabled (`SuccessesAreGoverned`). `PlanInv` rests on
the row of sequence 1 and not on the lease, which a worker may lose at any moment: a call has one such
row, so at most one worker ever acts for it (`OneHolder`), whoever holds the run by then.

`CallsAreContained` is about `PluginCall`: `CallInv` counts the requests by the redirects followed and
says that the limits of a call are those of the tool narrowed by the grant. `CallsAreAuthorized` and
`DepartmentsKeepToTheirs` are about `PluginAuthority`: `AuthorityInv` says that a run's requirements
were derived from the dependencies of its entry (`Derived`), are bound to an installation its principal
may see, the best there was when each was read (`Bound`), and are covered by its grant from the moment it
is queued; it holds of a request that is still deriving as of the run. What the entry reaches is
defined by chains of pins; that chains as long as the number of versions are enough is shown by the
pigeonhole principle, without recursion.

**The release channel.** `ReleaseGovernanceProofs` proves `ChannelIsGoverned` for any releases,
sessions, evaluations and decisions. `ChannelInv` says of every open transaction which parts of its
snapshot still describe the database (`ChannelSeen`, `DecisionsSeen`, `DeclinesSeen`, each unless the
item is in `changed`), that the snapshot is a prefix of the database (`Earlier`), and what a transaction
may conclude if it has to be placed before those that overtook it (`DeclineReadsDecisions`,
`PromotionReadsDeclines`): a decline and a promotion of one release cannot both commit on snapshots that
miss each other, because each reads what the other writes.

`PassedReleasesAreClosed` is about the evaluator, `ReleaseContract`. `ContractInv` says of its queue that
what was met is in every set closed under pins that holds the subject, and that what was left behind pins
only what was met; so the closure it certifies is the least such set, cycles of pins included. The
percentile is the smallest value that enough samples do not exceed; that there is one is counted.

**Installations, index, decisions.** `InstallationsAreProbed` is `InstallationIsProbed` for any probes,
operators and runs; it needs that a healthy result was obtained under the configuration it is filed for
(`HealthAgrees`), that what is to be enabled has its secrets (`RequestedIsBound`), and, of the
runs, that one in the queue which the transaction with the lock did not read entered it afterwards or was
asked to stop before (`HoldReads`).
`CatalogDecidesOnce` is `CatalogIsDecidedOnce` for any indexers, events, keys and racing requests;
`OutboxInv` says that no event is newer than the publication and none that is held is absent, and
`BuilderInv` that a request about to write still sees its intake undecided and that no two such requests
have one intake or key. Of the catalog's pages, `ListingSkipsNothing` rests on `PagesInv`: what
stayed listed and does not sort after the cursor was shown, whether or not the cursor's own family is
still there; `ListingShowsChampions`
follows step by step. Of the match, `CompositionsAreSaturated`: a composition that is grown belongs to
the seed that comes next, and covers at least one feature more with each Skill (`MatchInv`).

**Certification.** `CertifiedIsSound`, in `GovernanceProofs` too, proves `CertificationIsSound`. What is
inductive (`CertInv`) is that a version has at most one live run and is certifying exactly while it is a
challenger's, so a late result, a reap or a timeout finds its run ended and leaves it; that a certified
or active version passed a run; and that the run a promotion rests on is reduced to evidence with all its
cases and never pruned after that.

**Specifications and generation.** `GenerationProofs` is about `Generation`, which contains
`SpecDrafting`. `AgentsAreGeneratedOnce` needs `DraftInv` (a section of a row was confirmed no later than
its revision, no two specifications share an interpretation) and `JobInv` (one job of a specification is
going, while its agent is generating, and what the open transactions of
`ending` may still do to it). `LineagesAreKept` needs that a stored interpretation's
parent is stored and that what a specification uses is (`LineageInv`), whatever a cleanup read before:
the foreign keys refuse the deletion. A lineage is a recursive function; it is reasoned about by the
number of generations and the smallest counterexample. `OneEditorConfirms` has its hypothesis from the
code: with two editors it is false (above). With one, `DescentInv` says that an editor's copy agrees
with the row on what the update relies on, though jobs may change its status meanwhile. `PermitsAreKept`
counts the jobs of a process that hold a permit, through the resuming of a whole queue in any order.

**Browser, access and seed**, also in `GenerationProofs`. `DraftsAreReviewed` is about the Build page:
`ScreenInv` says which of the page's copies a request in flight still describes, of the requests one by
one. `OwnWritesAreShown` is about the query cache: `CacheInv` says that a query that is not polled
either holds what the hooks owe it or is asking again, that an answer under way is no older than
what was reported before it was sent, a first load included, and that a page is added only to what is
current; it uses that what a mutation writes is invalidated by its hook, polled or named by `Unrefreshed`
(`HooksRefresh`), mutation by mutation over the two tables.
`HandlersAreEntitled` goes through the phases of a request (`AccessInv`) and over the table of routes
(`OneRolePerOperation`). `SeedIsRepeatable`, of evidence, decisions and agents, is proved statement by statement, wherever an earlier boot
stopped: `SeedInv` says that results are there by the time runs are marked as evidence.

**Workstation.** `EffectsNeedBothProofs` proves that what executes was verified under both proofs, once,
within its windows, and that the C# and the TypeScript rules place and refuse alike
(`PlacementsAgree`). `BrokerInv` ties an order to the snapshot and the nonces at each stage.

**Schedules, reviews and the queue.** In `DigestDeliveryProofs`, `SchedulesCatchUpExactly` proves for any
policy, interval, window and limit that every occurrence the policy keeps has one dispatch in its
deduplication bucket, that runs answer claimed occurrences and that a settled dispatch is never
rewritten. `SchedulerInv` is about rows and the ticks that hold them; `CatchUpInv` adds that rows lie
before the next time and that the kept ones back to the first are covered. The proof showed that
`latest_only` promises less than an earlier version of `CatchUpExact` said: only the last occurrence
before the next time is certain to have a dispatch, and the property now says that.
`ReviewsDecideWhatWasShown` proves that a group decision covers what its reviewer was shown
(`LearningInv`). In `ReleaseGovernanceProofs`, `QueueHidesNothing` proves that every stopped run is in
exactly one item and that decisions cover what was shown in the generation decided (`QueueInv`; the
first part holds of every well-typed state). It
assumes at most `ShelfLimit` stopped runs and Plugins, the `take: 50` of the queries of the code: with
more, the oldest are not shown, to anyone.

**Registry.** In the same module `RegistryIsImmutable` proves for any concurrent imports and releases that
what left `experimental` keeps manifest, pins and lineage and that a release names exactly what is
stored. `RegistryInv` says what a request has read still holds when it writes, which is where READ
COMMITTED and the triggers meet: a frozen row cannot change, an experimental one may. `OneImporterClosesNoCycle`
has the hypothesis under which it is true (above): what an import checked still holds when it writes
(`SoleImport`), because releases and lifecycles leave the graph alone.

**Digest.** `DigestDeliveryProofs` proves for any writers, streams, visibility, briefings and digest
limit that the cursor skips no event (`DigestSkipsNothing`), that none is delivered twice
(`DigestDeliversOnce`), and that the digest implements `EventFeed` (`DigestImplementsFeed`). The
inductive invariant (`DigestInvariant`) has four ideas: whoever writes or reads a stream holds its lock;
committed events have their own numbers, below the sequence; a snapshot is a closed window
(`ClosedWindow`), so no event can still commit inside it; and the cursor lies at the end of what was delivered. Without the closed
windows the first is false: a lower number could commit after a higher one was delivered.

**Manifest.** `AimManifestProofs` proves for any numbers of groups, parts, anchors, agents and
milestones and any edits that in an accepted manifest hardware has one owner, coverage reads the same
from both ends and workstreams stay in their group (`AcceptedManifestAgrees`). The inductive invariant
is that an accepted manifest passes all checks; the rest is how the separate passes add up, the
equality of counts by a bijection between parts and anchors.

The same module proves of `AimTimeline` that green rests on evidence of its own and on a status source,
each within its limit (`GreenPartsAreCurrent`), that a record changes nothing shown before its date (`TheShownPastStays`) and
that progress does not fall back (`ProgressOnlyGrows`), all from `TimelineInv`: the dates of a part's
records rise, so the record in force at a time is the same before and after another is appended. And of
`DependencyCheck` that it reports an issue exactly when there is a cycle (`CyclesAreFound`): `SearchInv`
says that the calls in progress are a path, that what is visited without a cycle met depends on visited
capabilities only, and that what was met otherwise lies on a cycle. And of `RoadmapProgram` that
`compareRoadmapVersions` is a total order for any cores and prereleases of any length (`VersionsAreOrdered`): the first
difference is one and the same whichever way round, and of two in a row the earlier decides.

Assumptions. The proofs use the ASSUMEs of the modules: finite sets of runs and parts, natural
estimates, budgets and limits, `Nil` or `None` different from every id, and the typing of the constants.
Where a module is only instantiated, or is extended with constants that only some properties need, its
assumption is a definition and the hypothesis of its theorems (`PlanAssumption`, `ReuseAssumption`,
`DraftAssumption`, `ScheduleAssumption`, ...; each stands at the head of its module), and the modules of the
runs ASSUME it of their instances. Those that say more than a type: `QueueAssumption` (the 50 items
above), `WindowAssumption` (the default windows lie within the bounds), `OpsAssumption` (the
mutations are those of `hooks.ts`) and, in the theorems that count
them, `IsFiniteSet(Interps)` and `IsFiniteSet(Jobs)`.

Proved part by part. A property of a run that names several instances is proved of the component
modules: all of `ExecutorsKeepLedger`, `BoundsAreExact`, `QueueIsHonest`, `RegistryIsFrozen`,
`CallsAreGoverned`, `ListingIsFaithful`, `SpecsAreConfirmed`, `ScreensAreCurrent`, `ReachedIsAuthorized`,
`SeedingIsRepeatable` and `TimelineIsHonest` (those of `SpecDrafting` as properties of `Generation`, which
adds steps to it); of `CallIsContained` the call but not the schema; of
`SearchesAreSound` the contract, the dependencies, `Saturated` and `IsTotalOrder`.

Only model-checked:

- everything under fairness (`execution_progress`, the liveness part of `progress`, the ends of the
  algorithms): the prover has no reasoning about fairness or ENABLED;
- what folds and sorts of library operators compute: `NoVersionConflict` and `ShownInOrder` of
  `CapabilityMatch`, `CurrentIsNewest` of `RoadmapProgram`, the walk of `PluginSchema`: that takes induction over data,
  whose theorems have an operator as a parameter that the provers cannot instantiate;
- the properties of two editors or two imports at once, which are false (above).

## Not modelled

- Rows that only observers read (run events, audit events, metric samples), texts, labels, layout and
  the wire schemas and OpenAPI document of `packages/contracts`: they decide nothing.
- Outbound address policy, knowledge connectors, the model provider: a pure decision and pure I/O; the
  provider is an effect of `DurableWorker` that succeeds, fails or hangs.
- The generator CLI, a batch program without concurrency, and the heuristics that read a prompt.
- Pages of the frontend that only render the query cache (home, AIM scene, catalog, knowledge).
- Self-test and health reports; deployments other than the shadow deployment.
- Decision loops, interfaces, loader limits and the quarterly diff of the AIM program.

`PROJECT.json` has the status and the reason of each part.

## Plan

1. Proofs of the walk of `PluginSchema` and of the version conflicts of `CapabilityMatch`, by the
   smallest counterexample instead of the induction theorems.
2. An abstract life of one run (requested, authorized, executing, at rest), implemented by both
   executors, and both executors on one ledger at once.
3. Decision loops and interfaces of the AIM contract; the evaluation rows of a deployment.
