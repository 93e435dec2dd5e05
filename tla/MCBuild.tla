------------------------------ MODULE MCBuild -------------------------------
(***************************************************************************)
(* From a request to a generated agent: interpretations and                *)
(* specifications, generation jobs, the builder screen, the query cache of *)
(* the browser, who may call what, the seed of the database and the        *)
(* workstation broker.                                                     *)
(***************************************************************************)
EXTENDS Generation, Integers, TLC

VARIABLES case, designSpec, designInterp, designAsked, designEditor, designDoomed,
          interpretation, reviewed, outcomes, intake, intakes, dialog, deciding, keys,
          builderRequest, drafts, builderSpec, builderDone, saved, scopes, builderFailures,
          lost, server, q, mutation, terminalSeen, pending, failedClosed, due, ended,
          cacheFailures, mode, bindings, active, req, held, db, step, read, day, boots,
          seedDone, failed, now, brokerRequest, snapshot, order, session, handshake, consumed,
          verifiedAt, executions, deliveries

designVars == <<designSpec, designInterp, designAsked, designEditor, designDoomed>>
builderVars == <<interpretation, reviewed, outcomes, intake, intakes, dialog, deciding, keys,
                 builderRequest, drafts, builderSpec, builderDone, saved, scopes,
                 builderFailures, lost>>
cacheVars == <<server, q, mutation, terminalSeen, pending, failedClosed, due, ended,
               cacheFailures>>
accessVars == <<mode, bindings, active, req, held>>
seedVars == <<db, step, read, day, boots, seedDone, failed>>
brokerVars == <<now, brokerRequest, snapshot, order, session, handshake, consumed, verifiedAt,
                executions, deliveries>>

Drafting == INSTANCE SpecDrafting WITH
  Specs <- {"s1"}, Sections <- {"outcomes", "knowledge"}, Interps <- {"i1", "i2", "i3"},
  Editors <- {"e1"}, MaxRevision <- 2, spec <- designSpec, interp <- designInterp,
  asked <- designAsked, editor <- designEditor, doomed <- designDoomed
TwoSpecs == INSTANCE SpecDrafting WITH
  Specs <- {"s1", "s2"}, Sections <- {"outcomes", "knowledge"}, Interps <- {"i1"},
  Editors <- {"e1", "e2"}, MaxRevision <- 2, spec <- designSpec, interp <- designInterp,
  asked <- designAsked, editor <- designEditor, doomed <- designDoomed
Builder == INSTANCE BuilderScreen WITH
  MaxInterpretations <- 2, MaxScopes <- 1, MaxIntakes <- 2, MaxDecisions <- 2, MaxFailures <- 1,
  request <- builderRequest, spec <- builderSpec, done <- builderDone,
  failures <- builderFailures
Cache == INSTANCE QueryCache WITH
  Keys <- {"attention", "memory-candidates"}, Ops <- {"reviewMemory", "cancelRun"},
  Terminal <- 1, MaxVersion <- 2, MaxPages <- 1, MaxFailures <- 1, failures <- cacheFailures
Listing == INSTANCE QueryCache WITH
  Keys <- {"certification-run", "agent-catalog"}, Ops <- {"promoteAgent", "startCertification"},
  Terminal <- 1, MaxVersion <- 2, MaxPages <- 2, MaxFailures <- 1, failures <- cacheFailures
Access == INSTANCE RequestAccess WITH
  Requests <- {"q1", "q2"}, Tested <- {"shadow", "promote"}, Modes <- {"oidc_jwks"}
Seed == INSTANCE DatabaseSeed WITH MaxDay <- 2, MaxBoots <- 3, done <- seedDone
Broker == INSTANCE WorkstationBroker WITH
  MinWindow <- 2, MaxWindow <- 4, DailyWindow <- 3, AdHocWindow <- 2, LeaseTime <- 2,
  MaxTime <- 5, MaxDeliveries <- 2, request <- brokerRequest

(* What the components assume of their constants. *)
ASSUME DraftConstants == DraftAssumption
ASSUME ConcurrencyConstants == ConcurrencyAssumption
ASSUME DraftingDraftAssumption == Drafting!DraftAssumption
ASSUME TwoSpecsDraftAssumption == TwoSpecs!DraftAssumption
ASSUME BuilderBoundsAssumption == Builder!BoundsAssumption
ASSUME CacheBoundsAssumption == Cache!BoundsAssumption
ASSUME CacheOpsAssumption == Cache!OpsAssumption
ASSUME ListingBoundsAssumption == Listing!BoundsAssumption
ASSUME ListingOpsAssumption == Listing!OpsAssumption
ASSUME BrokerWindowAssumption == Broker!WindowAssumption
ASSUME AccessAssumption == Access!AccessAssumption
ASSUME SeedAssumption == Seed!SeedAssumption

(* `case` names the component that moves; the others stay switched off. *)
SuiteInit ==
  /\ case \in {"generation", "drafting", "two_specs", "builder", "cache", "listing", "access",
              "seed", "broker"}
  /\ Init
  /\ IF case = "drafting" THEN Drafting!DraftInit ELSE
     IF case = "two_specs" THEN TwoSpecs!DraftInit ELSE
       /\ designSpec = 0 /\ designInterp = 0 /\ designAsked = 0 /\ designEditor = 0
       /\ designDoomed = 0
  /\ IF case = "builder" THEN Builder!Init ELSE
       /\ interpretation = 0 /\ reviewed = 0 /\ outcomes = 0 /\ intake = 0 /\ intakes = 0
       /\ dialog = 0 /\ deciding = 0 /\ keys = 0 /\ builderRequest = 0 /\ drafts = 0
       /\ builderSpec = 0 /\ builderDone = 0 /\ saved = 0 /\ scopes = 0 /\ builderFailures = 0
       /\ lost = 0
  /\ IF case = "cache" THEN Cache!Init ELSE IF case = "listing" THEN Listing!Init ELSE
       /\ server = 0 /\ q = 0 /\ mutation = 0 /\ terminalSeen = 0 /\ pending = 0
       /\ failedClosed = 0 /\ due = 0 /\ ended = 0 /\ cacheFailures = 0
  /\ IF case = "access" THEN Access!Init ELSE
       /\ mode = 0 /\ bindings = 0 /\ active = 0 /\ req = 0 /\ held = 0
  /\ IF case = "seed" THEN Seed!Init ELSE
       /\ db = 0 /\ step = 0 /\ read = 0 /\ day = 0 /\ boots = 0 /\ seedDone = 0 /\ failed = 0
  /\ IF case = "broker" THEN Broker!Init ELSE
       /\ now = 0 /\ brokerRequest = 0 /\ snapshot = 0 /\ order = 0 /\ session = 0
       /\ handshake = 0 /\ consumed = 0 /\ verifiedAt = 0 /\ executions = 0 /\ deliveries = 0

SuiteNext ==
  \/ case = "generation" /\ Next /\ UNCHANGED <<case, designVars, builderVars, cacheVars,
         accessVars, seedVars, brokerVars>>
  \/ case = "drafting" /\ Drafting!DraftNext /\ UNCHANGED
       <<case, vars, builderVars, cacheVars, accessVars, seedVars, brokerVars>>
  \/ case = "two_specs" /\ TwoSpecs!DraftNext /\ UNCHANGED
       <<case, vars, builderVars, cacheVars, accessVars, seedVars, brokerVars>>
  \/ case = "builder" /\ Builder!Next /\ UNCHANGED
       <<case, vars, designVars, cacheVars, accessVars, seedVars, brokerVars>>
  \/ case = "cache" /\ Cache!Next /\ UNCHANGED
       <<case, vars, designVars, builderVars, accessVars, seedVars, brokerVars>>
  \/ case = "listing" /\ Listing!Next /\ UNCHANGED
       <<case, vars, designVars, builderVars, accessVars, seedVars, brokerVars>>
  \/ case = "access" /\ Access!Next /\ UNCHANGED
       <<case, vars, designVars, builderVars, cacheVars, seedVars, brokerVars>>
  \/ case = "seed" /\ Seed!Next /\ UNCHANGED
       <<case, vars, designVars, builderVars, cacheVars, accessVars, brokerVars>>
  \/ case = "broker" /\ Broker!Next /\ UNCHANGED
       <<case, vars, designVars, builderVars, cacheVars, accessVars, seedVars>>

suiteVars == <<case, vars, designVars, builderVars, cacheVars, accessVars, seedVars, brokerVars>>

SuiteSpec == SuiteInit /\ [][SuiteNext]_suiteVars

(* What a specification is attached to or was confirmed by stays, with its *)
(* ancestors, through cleanups that scanned earlier; sections are          *)
(* confirmed by descendants of the attached interpretation; a              *)
(* specification with all sections is ready to be generated; and an        *)
(* interpretation belongs to one specification, also when two editors save *)
(* at once (updateSection, deleteExpiredUnattached).                       *)
SpecsAreConfirmed ==
  /\ case = "drafting" => /\ Drafting!TypeOK
                          /\ Drafting!LineageKept
                          /\ Drafting!ConfirmedInLineage
                          /\ Drafting!SectionsConfirmed
                          /\ Drafting!CompleteIsReady
  /\ case = "two_specs" => /\ TwoSpecs!LineageKept
                           /\ TwoSpecs!SectionsConfirmed
                           /\ TwoSpecs!OneSpecPerInterpretation

(* A draft of the builder has a decision on record and a scope that a      *)
(* person saved while its interpretation was shown, whatever arrived       *)
(* meanwhile, one per visit, with sections completed in order; and once a  *)
(* mutation was reported, no query that its hook refreshes or that is      *)
(* polled settles on what was there before it, except after a first load   *)
(* or a page that was under way, nor is a decision open while the queue    *)
(* could not be read (App.tsx, hooks.ts).                                  *)
ScreensAreCurrent ==
  /\ case = "builder" => /\ Builder!LineageIsReviewed
                         /\ Builder!DraftAfterDecision
                         /\ Builder!OneDraftPerVisit
                         /\ Builder!SectionsInOrder
  /\ case = "cache" => /\ Cache!OwnWriteShown
                       /\ Cache!QueueFailsClosed
  /\ case = "listing" => Listing!OwnWriteShown

(* A handler runs only for a caller entitled to it when the request was    *)
(* authenticated, and two paths to one operation decide alike; the         *)
(* workstation executes an order once, under both proofs, read as the      *)
(* control plane reads it, and allows effects only inside the freshness    *)
(* window of the run.                                                      *)
ReachedIsAuthorized ==
  /\ [](/\ case = "access" => /\ Access!ReachedIsEntitled
                              /\ Access!NoWeakerPath
        /\ case = "broker" => /\ Broker!ExecutedUnderBothProofs
                              /\ Broker!ExecutedOnce
                              /\ Broker!LanguagesAgree)
  /\ [][case = "broker" => Broker!NoLateEffects]_suiteVars

(* Wherever the seed was interrupted and whenever it was run again,        *)
(* promotion evidence has its results, an active version is its family's   *)
(* champion by a recorded decision, and booting again revives no retired   *)
(* agent and replaces no champion.                                         *)
SeedingIsRepeatable ==
  /\ [](case = "seed" => /\ Seed!EvidenceHasResults
                         /\ Seed!ActiveIsChampion)
  /\ [][case = "seed" => Seed!RebootKeepsAgents]_suiteVars

=============================================================================
