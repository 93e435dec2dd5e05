------------------------- MODULE ExecutionAuthority -------------------------
(***************************************************************************)
(* The governed execution ledger of Paul OS: the ExecutionRun,             *)
(* ApprovalRequest, AuthorityGrant and ProductionChannel rows, and every   *)
(* control-plane operation that writes them (ExecutionService,             *)
(* ReleaseGovernanceService and PluginService of apps/backend).  The       *)
(* durable worker that executes the runs is module DurableWorker.          *)
(*                                                                         *)
(* A run, a grant and a release are identifiers.  What the code compares   *)
(* field by field and never changes afterwards (release digest, entry      *)
(* point, context digest, project, input constraints, tool and Plugin      *)
(* scopes, per-run cost ceiling) is the constant Covers[g], the runs that  *)
(* grant g covers.  Money is a natural number of units.                    *)
(***************************************************************************)
EXTENDS Integers, FiniteSets

CONSTANTS
  Runs,          \* execution run ids
  Grants,        \* authority grant ids
  Releases,      \* release bundle ids
  Slots,         \* lease owners: the worker's slot ids `${workerId}:${n}`
  Nil,           \* SQL NULL
  ReleaseOf,     \* Runs -> Releases
  Upper,         \* Runs -> Nat: estimatedUpperCostUsd
  OverCeiling,   \* runs whose estimate exceeds maxEstimatedCostUsd
  Drafts,        \* runs requested with developmentDraft
  Production,    \* runs for which productionRequired holds
  PluginRuns,    \* runs with a Plugin requirement (and one planned call)
  NeedsApproval, \* runs with requiresPluginApproval
  Covers,        \* Grants -> SUBSET Runs
  MaxRunsOf,     \* Grants -> Nat: maxRuns
  BudgetOf,      \* Grants -> Nat: totalCostBudgetUsd
  Expiring,      \* grants whose validity window may end while the system runs
  MaxAttempts,   \* maxAttempts of every run
  MaxEpoch       \* bound on production pointer moves

ASSUME RunsAssumption == IsFiniteSet(Runs) /\ Nil \notin Runs \cup Grants \cup Slots

ASSUME CostAssumption ==
  /\ Upper \in [Runs -> Nat]
  /\ MaxRunsOf \in [Grants -> Nat]
  /\ BudgetOf \in [Grants -> Nat]

ASSUME ScopeAssumption ==
  /\ ReleaseOf \in [Runs -> Releases]
  /\ Covers \in [Grants -> SUBSET Runs]
  /\ Expiring \subseteq Grants
  /\ OverCeiling \subseteq Runs
  /\ Drafts \subseteq Runs
  /\ Production \subseteq Runs
  /\ NeedsApproval \subseteq PluginRuns
  /\ PluginRuns \subseteq Runs
  \* !developmentDraft || providerKind !== 'deterministic'
  /\ Runs \ Drafts \subseteq Production

ASSUME BoundAssumption == MaxAttempts \in Nat \ {0} /\ MaxEpoch \in Nat \ {0}

VARIABLES
  runState,        \* ExecutionRun.state; "absent" before the row exists
  runGrant,        \* ExecutionRun.authorityGrantId
  attempts,        \* ExecutionRun.attempts
  leaseOwner,      \* ExecutionRun.leaseOwner
  leaseExpired,    \* leaseExpiresAt < NOW()
  cancelRequested, \* cancelRequestedAt IS NOT NULL
  approval,        \* ApprovalRequest.state; "none" before the row exists
  decidedEpoch,    \* epoch in which decidedAt of an approved request falls; 0: NULL
  outcome,         \* number of OutcomeRecord rows of the run
  grantState,      \* AuthorityGrant.state; "none" before the row exists
  lapsed,          \* validUntil <= now
  usedRuns,        \* AuthorityGrant.usedRuns
  reserved,        \* AuthorityGrant.reservedCostUsd
  spent,           \* AuthorityGrant.spentCostUsd
  channel,         \* ProductionChannel.currentReleaseId
  epoch,           \* ordinal of ProductionChannel.promotedAt
  pluginUp,        \* the PluginInstallation is ENABLED
  admitState,      \* state a createRun request in flight has decided on
  admitGrant,      \* grant a createRun request in flight has decided on
  holdSeen,        \* states read by a holdAffectedRuns transaction in flight
  holding,         \* such a transaction is in flight
  chargedRuns,     \* history: the runs ever claimed under a grant
  approvedEpochs   \* history: <<release, epoch>> a human approved

runVars    == <<runState, runGrant, attempts, leaseOwner, leaseExpired, cancelRequested>>
decideVars == <<approval, decidedEpoch, approvedEpochs>>
grantVars  == <<grantState, usedRuns, reserved, spent, chargedRuns>>
worldVars  == <<lapsed, channel, epoch>>
admitVars  == <<admitState, admitGrant>>
holdVars   == <<holdSeen, holding, pluginUp>>
ledgerVars == <<runVars, outcome, decideVars, grantVars, worldVars, admitVars, holdVars>>

RunStates == {"absent", "awaiting_approval", "queued", "running", "succeeded", "failed",
              "cancelled", "paused_budget", "paused_plugin"}
Terminal  == {"succeeded", "failed", "cancelled"}

TypeOKLedger ==
  /\ runState \in [Runs -> RunStates]
  /\ runGrant \in [Runs -> Grants \cup {Nil}]
  /\ attempts \in [Runs -> Nat]
  /\ leaseOwner \in [Runs -> Slots \cup {Nil}]
  /\ leaseExpired \in [Runs -> BOOLEAN]
  /\ cancelRequested \in [Runs -> BOOLEAN]
  /\ approval \in [Runs -> {"none", "pending", "approved", "rejected", "cancelled"}]
  /\ decidedEpoch \in [Runs -> Nat]
  /\ outcome \in [Runs -> Nat]
  /\ grantState \in [Grants -> {"none", "active", "revoked", "exhausted"}]
  /\ lapsed \in [Grants -> BOOLEAN]
  /\ usedRuns \in [Grants -> Nat]
  /\ reserved \in [Grants -> Nat]
  /\ spent \in [Grants -> Nat]
  /\ channel \in Releases
  /\ epoch \in Nat
  /\ pluginUp \in BOOLEAN
  /\ admitState \in [Runs -> {"none", "awaiting_approval", "queued", "paused_budget", "paused_plugin"}]
  /\ admitGrant \in [Runs -> Grants \cup {Nil}]
  /\ holdSeen \in [Runs -> {"none", "queued", "running"}]
  /\ holding \in BOOLEAN
  /\ chargedRuns \in [Grants -> SUBSET Runs]
  /\ approvedEpochs \subseteq (Releases \X Nat)

InitLedger ==
  /\ runState = [r \in Runs |-> "absent"]
  /\ runGrant = [r \in Runs |-> Nil]
  /\ attempts = [r \in Runs |-> 0]
  /\ leaseOwner = [r \in Runs |-> Nil]
  /\ leaseExpired = [r \in Runs |-> FALSE]
  /\ cancelRequested = [r \in Runs |-> FALSE]
  /\ approval = [r \in Runs |-> "none"]
  /\ decidedEpoch = [r \in Runs |-> 0]
  /\ outcome = [r \in Runs |-> 0]
  /\ grantState = [g \in Grants |-> "none"]
  /\ lapsed = [g \in Grants |-> FALSE]
  /\ usedRuns = [g \in Grants |-> 0]
  /\ reserved = [g \in Grants |-> 0]
  /\ spent = [g \in Grants |-> 0]
  /\ channel \in Releases
  /\ epoch = 1
  /\ pluginUp = TRUE
  /\ admitState = [r \in Runs |-> "none"]
  /\ admitGrant = [r \in Runs |-> Nil]
  /\ holdSeen = [r \in Runs |-> "none"]
  /\ holding = FALSE
  /\ chargedRuns = [g \in Grants |-> {}]
  /\ approvedEpochs = {}

-----------------------------------------------------------------------------
(* Money.  The cost of a set of runs is counted, not summed: run r         *)
(* contributes Upper[r] pairs.                                             *)

UnitsOf(r) == {r} \X (1 .. Upper[r])
Cost(S)    == Cardinality(UNION {UnitsOf(r) : r \in S})

AtLeastZero(n) == IF n < 0 THEN 0 ELSE n

RunningOn(g) == {r \in Runs : runState[r] = "running" /\ runGrant[r] = g}

(* hasProductionEpochApproval: an approved request of a non-draft run of   *)
(* the release, decided at or after promotedAt.                            *)
EpochApproved(rel) ==
  \E r \in Runs \ Drafts : /\ ReleaseOf[r] = rel
                           /\ approval[r] = "approved"
                           /\ decidedEpoch[r] = epoch

(* Mutant: a settled grant is written as expired. *)
MutantGrantStatus(g, used, committed) ==
  IF grantState[g] \notin {"active", "exhausted"} THEN grantState[g]
  ELSE IF used >= MaxRunsOf[g] \/ committed >= BudgetOf[g] THEN "expired" ELSE "active"

(* The state column that every settlement recomputes for a live grant.     *)
GrantStatus(g, used, committed) ==
  IF grantState[g] \notin {"active", "exhausted"} THEN grantState[g]
  ELSE IF used >= MaxRunsOf[g] \/ committed >= BudgetOf[g] THEN "exhausted" ELSE "active"

-----------------------------------------------------------------------------
(* Grants.                                                                 *)

CreateGrant(g) ==
  /\ grantState[g] = "none"
  /\ grantState' = [grantState EXCEPT ![g] = "active"]
  /\ UNCHANGED <<runVars, outcome, decideVars, usedRuns, reserved, spent, chargedRuns,
                 worldVars, admitVars, holdVars>>

(* Time passes validUntil.  No operation writes the state "expired".       *)
Lapse(g) ==
  /\ g \in Expiring
  /\ grantState[g] # "none"
  /\ ~lapsed[g]
  /\ lapsed' = [lapsed EXCEPT ![g] = TRUE]
  /\ UNCHANGED <<runVars, outcome, decideVars, grantVars, channel, epoch, admitVars, holdVars>>

(* Sends the runs S back to a human: a claim or a revocation withdrew      *)
(* their authority.                                                        *)
Withdraw(S) ==
  /\ runState' = [r \in Runs |-> IF r \in S THEN "awaiting_approval" ELSE runState[r]]
  /\ runGrant' = [r \in Runs |-> IF r \in S THEN Nil ELSE runGrant[r]]
  /\ approval' = [r \in Runs |-> IF r \in S THEN "pending" ELSE approval[r]]
  /\ decidedEpoch' = [r \in Runs |-> IF r \in S THEN 0 ELSE decidedEpoch[r]]
  /\ UNCHANGED approvedEpochs

RevokeGrant(g) ==
  /\ grantState[g] \in {"active", "exhausted"}
  /\ Withdraw({r \in Runs : runState[r] = "queued" /\ runGrant[r] = g})
  /\ cancelRequested' = [r \in Runs |-> cancelRequested[r] \/ r \in RunningOn(g)]
  /\ grantState' = [grantState EXCEPT ![g] = "revoked"]
  /\ UNCHANGED <<attempts, leaseOwner, leaseExpired, outcome, usedRuns, reserved, spent,
                 chargedRuns, worldVars, admitVars, holdVars>>

-----------------------------------------------------------------------------
(* Requests.  createRun reads the channel, the epoch approval, the grant   *)
(* and the Plugin installation outside the transaction that inserts the    *)
(* row, so the decision and the insert are two steps.                      *)

(* grantBlockers is empty. *)
GrantAdmits(g, r) ==
  /\ grantState[g] = "active"
  /\ ~lapsed[g]
  /\ r \in Covers[g]
  /\ usedRuns[g] < MaxRunsOf[g]
  /\ spent[g] + reserved[g] + Upper[r] <= BudgetOf[g]

CreateRunDecision(r, g) ==
  LET blocked == \/ g = Nil
                 \/ g \in Grants /\ ~GrantAdmits(g, r)
                 \/ r \in NeedsApproval
                 \/ r \in Production /\ ~EpochApproved(ReleaseOf[r])
  IN CASE r \in OverCeiling               -> "paused_budget"
       [] r \notin OverCeiling /\ r \in PluginRuns /\ ~pluginUp -> "paused_plugin"
       [] OTHER -> IF blocked THEN "awaiting_approval" ELSE "queued"

BeginCreateRun(r, g) ==
  /\ runState[r] = "absent"
  /\ admitState[r] = "none"
  /\ g \in Grants => grantState[g] # "none"
  /\ r \in Production => ReleaseOf[r] = channel
  /\ admitState' = [admitState EXCEPT ![r] = CreateRunDecision(r, g)]
  /\ admitGrant' = [admitGrant EXCEPT ![r] = IF CreateRunDecision(r, g) = "queued" THEN g ELSE Nil]
  /\ UNCHANGED <<runVars, outcome, decideVars, grantVars, worldVars, holdVars>>

CommitCreateRun(r) ==
  /\ admitState[r] # "none"
  /\ runState' = [runState EXCEPT ![r] = admitState[r]]
  /\ runGrant' = [runGrant EXCEPT ![r] = admitGrant[r]]
  /\ approval' = [approval EXCEPT ![r] =
                    IF admitState[r] = "awaiting_approval" THEN "pending" ELSE "none"]
  /\ admitState' = [admitState EXCEPT ![r] = "none"]
  /\ admitGrant' = [admitGrant EXCEPT ![r] = Nil]
  /\ UNCHANGED <<attempts, leaseOwner, leaseExpired, cancelRequested, outcome, decidedEpoch,
                 approvedEpochs, grantVars, worldVars, holdVars>>

-----------------------------------------------------------------------------
(* Human decisions.                                                        *)

Awaiting(S) == \A r \in S : runState[r] = "awaiting_approval" /\ approval[r] = "pending"

(* Creates grant g for the runs S and queues them under it. *)
Authorise(S, g) ==
  /\ grantState[g] = "none"
  /\ Awaiting(S)
  /\ S \subseteq Covers[g]
  /\ MaxRunsOf[g] > 0
  /\ \A r \in S : Upper[r] <= BudgetOf[g]
  /\ grantState' = [grantState EXCEPT ![g] = "active"]
  /\ runState' = [r \in Runs |-> IF r \in S THEN "queued" ELSE runState[r]]
  /\ runGrant' = [r \in Runs |-> IF r \in S THEN g ELSE runGrant[r]]
  /\ approval' = [r \in Runs |-> IF r \in S THEN "approved" ELSE approval[r]]
  /\ decidedEpoch' = [r \in Runs |-> IF r \in S THEN epoch ELSE decidedEpoch[r]]
  /\ approvedEpochs' = approvedEpochs \cup {<<ReleaseOf[r], epoch>> : r \in S \ Drafts}
  /\ UNCHANGED <<attempts, leaseOwner, leaseExpired, cancelRequested, outcome, usedRuns,
                 reserved, spent, chargedRuns, worldVars, admitVars, holdVars>>

ApproveRun(r, g) == Authorise({r}, g)

(* The members of a group agree on the semantic key: the release and the   *)
(* estimate among others.  A per-run Plugin approval is never grouped.     *)
Groupable(S) ==
  /\ S # {}
  /\ \A q, r \in S : ReleaseOf[q] = ReleaseOf[r] /\ Upper[q] = Upper[r]
  /\ S \cap NeedsApproval # {} => Cardinality(S) = 1

ApproveRunGroup(S, g) ==
  /\ Groupable(S)
  /\ MaxRunsOf[g] >= Cardinality(S)
  /\ BudgetOf[g] >= Cost(S)
  /\ Authorise(S, g)

Refuse(S) ==
  /\ Awaiting(S)
  /\ runState' = [r \in Runs |-> IF r \in S THEN "cancelled" ELSE runState[r]]
  /\ approval' = [r \in Runs |-> IF r \in S THEN "rejected" ELSE approval[r]]
  /\ UNCHANGED <<runGrant, attempts, leaseOwner, leaseExpired, cancelRequested, outcome,
                 decidedEpoch, approvedEpochs, grantVars, worldVars, admitVars, holdVars>>

RejectRun(r) == Refuse({r})

RejectRunGroup(S) == Groupable(S) /\ Refuse(S)

(* Mutants of the guard that throws RUN_TERMINAL. *)
MutantCancellableSucceeded(r) == runState[r] \notin {"failed", "cancelled", "absent"}

Cancellable(r) == runState[r] \notin {"succeeded", "failed", "cancelled", "absent"}

CloseRequest(state) == IF state = "pending" THEN "cancelled" ELSE state

CancelRun(r) ==
  /\ Cancellable(r)
  /\ IF runState[r] = "running"
     THEN /\ cancelRequested' = [cancelRequested EXCEPT ![r] = TRUE]
          /\ UNCHANGED <<runState, approval>>
     ELSE /\ runState' = [runState EXCEPT ![r] = "cancelled"]
          /\ approval' = [approval EXCEPT ![r] = CloseRequest(@)]
          /\ UNCHANGED cancelRequested
  /\ UNCHANGED <<runGrant, attempts, leaseOwner, leaseExpired, outcome, decidedEpoch,
                 approvedEpochs, grantVars, worldVars, admitVars, holdVars>>

-----------------------------------------------------------------------------
(* The production channel.  A promotion and a rollback differ in the       *)
(* evidence they ask for and end in the same swap.                         *)

SwapChannel(rel) ==
  /\ rel # channel
  /\ epoch < MaxEpoch
  /\ channel' = rel
  /\ epoch' = epoch + 1
  /\ UNCHANGED <<runVars, outcome, decideVars, grantVars, lapsed, admitVars, holdVars>>

-----------------------------------------------------------------------------
(* The Plugin kill switch.  disable, configure and a failed checkHealth    *)
(* run holdAffectedRuns at READ COMMITTED: it reads the affected runs,     *)
(* then locks them, then acts on the states it read.                       *)

BeginHold ==
  /\ ~holding
  /\ holding' = TRUE
  /\ holdSeen' = [r \in Runs |-> IF r \in PluginRuns /\ runState[r] \in {"queued", "running"}
                                 THEN runState[r] ELSE "none"]
  /\ UNCHANGED <<runVars, outcome, decideVars, grantVars, worldVars, admitVars, pluginUp>>

HoldPauses(r)  == holdSeen[r] = "queued"
HoldCancels(r) == holdSeen[r] = "running"

EndHold ==
  /\ holding
  /\ runState' = [r \in Runs |-> IF HoldPauses(r) THEN "paused_plugin" ELSE runState[r]]
  /\ leaseOwner' = [r \in Runs |-> IF HoldPauses(r) THEN Nil ELSE leaseOwner[r]]
  /\ leaseExpired' = [r \in Runs |-> leaseExpired[r] /\ ~HoldPauses(r)]
  /\ cancelRequested' = [r \in Runs |-> cancelRequested[r] \/ HoldCancels(r)]
  /\ holdSeen' = [r \in Runs |-> "none"]
  /\ holding' = FALSE
  /\ pluginUp' = FALSE
  /\ UNCHANGED <<runGrant, attempts, outcome, decideVars, grantVars, worldVars, admitVars>>

EnablePlugin ==
  /\ ~pluginUp
  /\ ~holding
  /\ pluginUp' = TRUE
  /\ UNCHANGED <<runVars, outcome, decideVars, grantVars, worldVars, admitVars, holdSeen, holding>>

-----------------------------------------------------------------------------
ControlPlane ==
  \/ \E g \in Grants : CreateGrant(g) \/ Lapse(g) \/ RevokeGrant(g)
  \/ \E r \in Runs, g \in Grants \cup {Nil} : BeginCreateRun(r, g)
  \/ \E r \in Runs : CommitCreateRun(r) \/ RejectRun(r) \/ CancelRun(r)
  \/ \E r \in Runs, g \in Grants : ApproveRun(r, g)
  \/ \E S \in SUBSET Runs : RejectRunGroup(S) \/ \E g \in Grants : ApproveRunGroup(S, g)
  \/ \E rel \in Releases : SwapChannel(rel)
  \/ BeginHold \/ EndHold \/ EnablePlugin
-----------------------------------------------------------------------------
(* What every executor must keep of the ledger.                            *)

(* A grant holds back exactly the upper estimates of the runs that are     *)
(* running under it: claims, completions, failures, cancellations and      *)
(* recoveries, of the worker or of a backend process, neither leak a       *)
(* reservation nor release one twice.                                      *)
ReservationExact == \A g \in Grants : reserved[g] = Cost(RunningOn(g))

(* What the runs in flight may still spend is always covered by the        *)
(* reservation, also when a Plugin hold takes a run away from its owner.   *)
ReservationCovers == \A g \in Grants : reserved[g] >= Cost(RunningOn(g))

(* A run is running exactly while a lease is written on it, and a running  *)
(* run has the grant its claim reserved from.                              *)
LeaseMatchesState ==
  \A r \in Runs : /\ runState[r] = "running" <=> leaseOwner[r] # Nil
                  /\ leaseExpired[r] => runState[r] = "running"
                  /\ runState[r] = "running" => runGrant[r] \in Grants

(* An executor whose run was recovered, cancelled or claimed by another    *)
(* never publishes: there is one outcome record, and the run is succeeded. *)
OutcomeMatchesState ==
  \A r \in Runs : outcome[r] = IF runState[r] = "succeeded" THEN 1 ELSE 0

(* Retries are bounded: failOrRetry, recovery and re-approval never hand   *)
(* a run out more than maxAttempts times.                                  *)
AttemptsBounded ==
  \A r \in Runs : /\ attempts[r] <= MaxAttempts
                  /\ runState[r] \in {"queued", "awaiting_approval"} => attempts[r] < MaxAttempts

(* Once cancellation was requested of a running run (cancelRun or          *)
(* revokeGrant), no crash, recovery, re-approval or late completion lets   *)
(* it succeed.                                                             *)
CancelledNeverSucceeds == \A r \in Runs : cancelRequested[r] => runState[r] # "succeeded"

(* Revocation reaches all work in flight: a run that is running under a    *)
(* revoked grant has been told to stop, also if its claim raced revokeGrant*)
(* or its createRun had read the grant while it was active.                *)
RevokedWorkIsStopping ==
  \A g \in Grants : grantState[g] = "revoked" => \A r \in RunningOn(g) : cancelRequested[r]

(* Somebody is asked: a run awaits approval exactly while its approval     *)
(* request is pending.                                                     *)
AwaitingIsPending ==
  \A r \in Runs : runState[r] = "awaiting_approval" <=> approval[r] = "pending"

(* succeeded, failed and cancelled are final: neither a late cancelRun nor *)
(* a late store call of a slot rewrites them.                              *)
TerminalIsFinal ==
  \A r \in Runs : runState[r] \in Terminal => runState'[r] = runState[r]

(* What a human decided stands: once cancellation was requested of a       *)
(* running run (cancelRun or revokeGrant) no crash, recovery, re-approval  *)
(* or late completion lets it succeed, and a run awaits approval exactly   *)
(* while its request is pending.                                           *)
DecisionsStand == CancelledNeverSucceeds /\ AwaitingIsPending
=============================================================================
