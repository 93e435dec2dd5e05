---------------------------- MODULE DurableWorker ----------------------------
(***************************************************************************)
(* The durable execution worker (apps/worker): daemons with a fixed number *)
(* of slots that claim queued runs, hold them under a lease, call the      *)
(* planned Plugin, stream the model, and publish, retry, pause, fail or    *)
(* cancel.  Every store call is one step (one transaction); between two    *)
(* store calls of a slot anything may happen to the rows.                  *)
(***************************************************************************)
EXTENDS ExecutionAuthority

CONSTANTS
  Daemons,    \* worker processes
  DaemonOf,   \* Slots -> Daemons
  CostCap,    \* bound on the actual cost of one attempt
  MaxHalts,   \* bound on process halts
  MaxFaults   \* bound on store calls that throw

ASSUME DaemonAssumption == DaemonOf \in [Slots -> Daemons]
ASSUME FaultAssumption == CostCap \in Nat /\ MaxHalts \in Nat /\ MaxFaults \in Nat

VARIABLES
  slotPc,     \* where the slot is between store calls
  slotRun,    \* the ClaimedRun it executes
  slotEpoch,  \* ClaimedRun.productionEpoch; 0: null
  slotSignal, \* the error the catch block of execute is about to act on
  slotCost,   \* incurredUsage(): cost observed so far in this attempt
  up,         \* the daemon accepts work
  halts,      \* process halts so far
  faults,     \* store calls that threw so far
  ledger,     \* PluginInvocation rows of the run: none, begun, or the terminal state
  effects     \* history: external Plugin calls made for the run

procVars   == <<up, halts, faults>>
slotVars   == <<slotPc, slotRun, slotEpoch, slotSignal, slotCost>>
pluginVars == <<ledger, effects>>
vars       == <<ledgerVars, slotVars, procVars, pluginVars>>

Pcs     == {"idle", "claimed", "planning", "begun", "calling", "streaming", "publishing", "catching"}
Signals == {"none", "cancelled", "retryable", "final", "plugin_down"}

TypeOKWorker ==
  /\ slotPc \in [Slots -> Pcs]
  /\ slotRun \in [Slots -> Runs \cup {Nil}]
  /\ slotEpoch \in [Slots -> Nat]
  /\ slotSignal \in [Slots -> Signals]
  /\ slotCost \in [Slots -> Nat]
  /\ up \in [Daemons -> BOOLEAN]
  /\ halts \in Nat
  /\ faults \in Nat
  /\ ledger \in [Runs -> {"none", "begun", "succeeded", "cancelled", "failed"}]
  /\ effects \in [Runs -> Nat]

TypeOK == TypeOKLedger /\ TypeOKWorker

Init ==
  /\ InitLedger
  /\ slotPc = [s \in Slots |-> "idle"]
  /\ slotRun = [s \in Slots |-> Nil]
  /\ slotEpoch = [s \in Slots |-> 0]
  /\ slotSignal = [s \in Slots |-> "none"]
  /\ slotCost = [s \in Slots |-> 0]
  /\ up = [d \in Daemons |-> TRUE]
  /\ halts = 0
  /\ faults = 0
  /\ ledger = [r \in Runs |-> "none"]
  /\ effects = [r \in Runs |-> 0]

-----------------------------------------------------------------------------
(* Slot bookkeeping.                                                       *)

Discard(s) ==
  /\ slotPc' = [slotPc EXCEPT ![s] = "idle"]
  /\ slotRun' = [slotRun EXCEPT ![s] = Nil]
  /\ slotEpoch' = [slotEpoch EXCEPT ![s] = 0]
  /\ slotSignal' = [slotSignal EXCEPT ![s] = "none"]
  /\ slotCost' = [slotCost EXCEPT ![s] = 0]

Goto(s, pc) ==
  /\ slotPc' = [slotPc EXCEPT ![s] = pc]
  /\ UNCHANGED <<slotRun, slotEpoch, slotSignal, slotCost>>

(* execute throws; its catch block will settle the attempt with the cost   *)
(* observed so far.                                                        *)
Throw(s, signal, cost) ==
  /\ slotPc' = [slotPc EXCEPT ![s] = "catching"]
  /\ slotSignal' = [slotSignal EXCEPT ![s] = signal]
  /\ slotCost' = [slotCost EXCEPT ![s] = cost]
  /\ UNCHANGED <<slotRun, slotEpoch>>

(* Mutant: the store does not compare the lease owner. *)
MutantOwns(s, r) == runState[r] = "running"

(* WHERE state = 'running' AND leaseOwner = workerId *)
Owns(s, r) == runState[r] = "running" /\ leaseOwner[r] = s

(* Mutant: only the release is compared, not the epoch. *)
MutantEpochCurrent(s, r) == r \in Production => channel = ReleaseOf[r]

(* The pointer still names the release and epoch the claim saw.            *)
EpochCurrent(s, r) ==
  r \in Production => channel = ReleaseOf[r] /\ epoch = slotEpoch[s]

AuthorityLost(s, r) ==
  LET g == runGrant[r] IN
  \/ g = Nil
  \/ g \in Grants /\ (grantState[g] = "revoked" \/ lapsed[g])
  \/ ~EpochCurrent(s, r)

-----------------------------------------------------------------------------
(* Claiming.  claimNext takes any queued run whose backoff has passed.     *)

(* Mutant: a claim does not look for a revocation. *)
MutantUnusableGrant(g, r) ==
  \/ grantState[g] = "none"
  \/ lapsed[g]
  \/ attempts[r] = 0 /\ (grantState[g] = "exhausted" \/ usedRuns[g] >= MaxRunsOf[g])

UnusableGrant(g, r) ==
  \/ grantState[g] \in {"none", "revoked"}
  \/ lapsed[g]
  \/ attempts[r] = 0 /\ (grantState[g] = "exhausted" \/ usedRuns[g] >= MaxRunsOf[g])

ClaimRejected(r) ==
  LET g == runGrant[r] IN
  \/ UnusableGrant(g, r)
  \/ r \notin Covers[g]
  \/ r \in NeedsApproval /\ approval[r] # "approved"
  \/ r \in Production /\ (channel # ReleaseOf[r] \/ ~EpochApproved(ReleaseOf[r]))

Claimable(s, r) ==
  /\ slotPc[s] = "idle"
  /\ up[DaemonOf[s]]
  /\ runState[r] = "queued"
  /\ runGrant[r] \in Grants

ClaimRefused(s, r) ==
  /\ Claimable(s, r)
  /\ ClaimRejected(r)
  /\ Withdraw({r})
  /\ UNCHANGED <<attempts, leaseOwner, leaseExpired, cancelRequested, outcome, grantVars,
                 worldVars, admitVars, holdVars, slotVars, procVars, pluginVars>>

(* Mutant: the budget check forgets what other runs have reserved. *)
MutantRemaining(g) == BudgetOf[g] - spent[g]

Remaining(g) == BudgetOf[g] - spent[g] - reserved[g]

ClaimOverBudget(s, r) ==
  /\ Claimable(s, r)
  /\ ~ClaimRejected(r)
  /\ Upper[r] > Remaining(runGrant[r])
  /\ runState' = [runState EXCEPT ![r] = "paused_budget"]
  /\ UNCHANGED <<runGrant, attempts, leaseOwner, leaseExpired, cancelRequested, outcome,
                 decideVars, grantVars, worldVars, admitVars, holdVars, slotVars, procVars,
                 pluginVars>>

Reservation(r) == Upper[r]

RunCharge(r) == IF attempts[r] = 0 THEN 1 ELSE 0

(* The reservation and the run charge that a claim makes on grant g. *)
Reserve(r, g) ==
  LET used == usedRuns[g] + RunCharge(r)
      held == reserved[g] + Reservation(r)
  IN /\ usedRuns' = [usedRuns EXCEPT ![g] = used]
     /\ reserved' = [reserved EXCEPT ![g] = held]
     /\ grantState' = [grantState EXCEPT ![g] =
                         IF used >= MaxRunsOf[g] \/ spent[g] + held >= BudgetOf[g]
                         THEN "exhausted" ELSE @]
     /\ chargedRuns' = [chargedRuns EXCEPT ![g] = @ \cup {r}]
     /\ UNCHANGED spent

ClaimGranted(s, r) ==
  /\ Claimable(s, r)
  /\ ~ClaimRejected(r)
  /\ Upper[r] <= Remaining(runGrant[r])
  /\ runState' = [runState EXCEPT ![r] = "running"]
  /\ attempts' = [attempts EXCEPT ![r] = @ + 1]
  /\ leaseOwner' = [leaseOwner EXCEPT ![r] = s]
  /\ leaseExpired' = [leaseExpired EXCEPT ![r] = FALSE]
  /\ Reserve(r, runGrant[r])
  /\ slotPc' = [slotPc EXCEPT ![s] = "claimed"]
  /\ slotRun' = [slotRun EXCEPT ![s] = r]
  /\ slotEpoch' = [slotEpoch EXCEPT ![s] = IF r \in Production THEN epoch ELSE 0]
  /\ UNCHANGED <<runGrant, cancelRequested, outcome, decideVars, worldVars, admitVars, holdVars,
                 slotSignal, slotCost, procVars, pluginVars>>

-----------------------------------------------------------------------------
(* Heartbeats.  A heartbeat renews the lease of an owned run even when the *)
(* lease has expired, and reports cancellation and lost authority.         *)

Renew(r) ==
  /\ leaseExpired' = [leaseExpired EXCEPT ![r] = FALSE]
  /\ UNCHANGED <<runState, runGrant, attempts, leaseOwner, cancelRequested, outcome, decideVars,
                 grantVars, worldVars, admitVars, holdVars, procVars, pluginVars>>

(* The work that follows the initial heartbeat: the Plugin plan, then the  *)
(* model stream.                                                           *)
FirstStage(r) == IF r \in PluginRuns THEN "planning" ELSE "streaming"

InitialHeartbeat(s) ==
  LET r == slotRun[s] IN
  /\ slotPc[s] = "claimed"
  /\ IF ~Owns(s, r)
     THEN Discard(s) /\ UNCHANGED <<ledgerVars, procVars, pluginVars>>
     ELSE /\ Renew(r)
          /\ IF cancelRequested[r] \/ AuthorityLost(s, r)
             THEN Throw(s, "cancelled", 0)
             ELSE Goto(s, FirstStage(r))

(* monitorLease, while the model stream listens to its abort signal.  A    *)
(* heartbeat during a Plugin call is part of AbortInvocation.              *)
Heartbeat(s) ==
  LET r == slotRun[s] IN
  /\ slotPc[s] \in {"streaming", "publishing"}
  /\ IF ~Owns(s, r)
     THEN /\ slotPc[s] = "streaming"
          /\ Discard(s)
          /\ UNCHANGED <<ledgerVars, procVars, pluginVars>>
     ELSE /\ Renew(r)
          /\ IF slotPc[s] = "streaming" /\ (cancelRequested[r] \/ AuthorityLost(s, r))
             THEN \E c \in slotCost[s] .. CostCap : Throw(s, "cancelled", c)
             ELSE UNCHANGED slotVars

-----------------------------------------------------------------------------
(* Settling an attempt: the run leaves "running", its lease is cleared and *)
(* its reservation is exchanged for the cost incurred (settleAttempt,      *)
(* reconcileIncurredCost; a cost of 0 is releaseGrantReservation).         *)

Settle(r, state, cost) ==
  LET g    == runGrant[r]
      held == AtLeastZero(reserved[g] - Upper[r])
      paid == spent[g] + cost
  IN /\ runState' = [runState EXCEPT ![r] = state]
     /\ leaseOwner' = [leaseOwner EXCEPT ![r] = Nil]
     /\ leaseExpired' = [leaseExpired EXCEPT ![r] = FALSE]
     /\ reserved' = [reserved EXCEPT ![g] = held]
     /\ spent' = [spent EXCEPT ![g] = paid]
     /\ grantState' = [grantState EXCEPT ![g] = GrantStatus(g, usedRuns[g], paid + held)]
     /\ UNCHANGED <<runGrant, attempts, cancelRequested, usedRuns, chargedRuns, decideVars,
                    worldVars, admitVars, holdVars, procVars, pluginVars>>

-----------------------------------------------------------------------------
(* The planned Plugin call (WorkerPluginExecutor.execute).  Sequence 1 of  *)
(* the invocation ledger is written before the external effect, sequence 2 *)
(* after it; each is preceded by a revalidation of the governed inputs.    *)

GrantUsable(r) ==
  /\ runGrant[r] \in Grants
  /\ grantState[runGrant[r]] = "active"

(* assertWorkerPluginAuthorization does not throw. *)
Authorised(s, r) ==
  /\ Owns(s, r)
  /\ ~cancelRequested[r]
  /\ r \in NeedsApproval => approval[r] = "approved"
  /\ GrantUsable(r)
  /\ ~lapsed[runGrant[r]]
  /\ pluginUp

(* Mutant: the external call is made without the sequence-1 row. *)
MutantBeginInvocation(s) ==
  LET r == slotRun[s] IN
  /\ slotPc[s] = "planning"
  /\ Owns(s, r)
  /\ pluginUp
  /\ GrantUsable(r)
  /\ ledger[r] = "none"
  /\ Goto(s, "begun")
  /\ UNCHANGED <<ledgerVars, procVars, pluginVars>>

BeginInvocation(s) ==
  LET r == slotRun[s] IN
  /\ slotPc[s] = "planning"
  /\ Owns(s, r)
  /\ pluginUp
  /\ GrantUsable(r)
  /\ ledger[r] = "none"
  /\ ledger' = [ledger EXCEPT ![r] = "begun"]
  /\ Goto(s, "begun")
  /\ UNCHANGED <<ledgerVars, procVars, effects>>

(* Which errors the plan may end in.  A failure of the transport or of the *)
(* plan is always possible; a cancellation needs a reason.                 *)
PlanSignals(s, r) ==
  {"final", "plugin_down"} \cup
  (IF cancelRequested[r] \/ AuthorityLost(s, r) THEN {"cancelled"} ELSE {})

(* The call is refused before sequence 1: another owner, a cancellation,   *)
(* inactive authority, a disabled Plugin, or an invocation already begun.  *)
RefuseInvocation(s) ==
  LET r == slotRun[s] IN
  /\ slotPc[s] = "planning"
  /\ IF Owns(s, r) THEN \E sig \in PlanSignals(s, r) : Throw(s, sig, 0) ELSE Discard(s)
  /\ UNCHANGED <<ledgerVars, procVars, pluginVars>>

CallPlugin(s) ==
  LET r == slotRun[s] IN
  /\ slotPc[s] = "begun"
  /\ Authorised(s, r)
  /\ effects' = [effects EXCEPT ![r] = @ + 1]
  /\ Goto(s, "calling")
  /\ UNCHANGED <<ledgerVars, procVars, ledger>>

(* appendInvocation accepts sequence 2 with state succeeded.               *)
ReturnInvocation(s) ==
  LET r == slotRun[s] IN
  /\ slotPc[s] = "calling"
  /\ Owns(s, r)
  /\ ~cancelRequested[r]
  /\ pluginUp
  /\ GrantUsable(r)
  /\ ledger' = [ledger EXCEPT ![r] = "succeeded"]
  /\ \E c \in 0 .. CostCap : slotCost' = [slotCost EXCEPT ![s] = c]
  /\ slotPc' = [slotPc EXCEPT ![s] = "streaming"]
  /\ UNCHANGED <<ledgerVars, slotRun, slotEpoch, slotSignal, procVars, effects>>

(* The call ends in an error: sequence 2 is written as failed or cancelled *)
(* and the error, or the reason of the abort signal, is thrown.            *)
AbortInvocation(s) ==
  LET r == slotRun[s] IN
  /\ slotPc[s] \in {"begun", "calling"}
  /\ \E l \in {"failed", "cancelled"} : ledger' = [ledger EXCEPT ![r] = l]
  /\ IF Owns(s, r) THEN \E sig \in PlanSignals(s, r) : Throw(s, sig, 0) ELSE Discard(s)
  /\ UNCHANGED <<ledgerVars, procVars, effects>>

-----------------------------------------------------------------------------
(* The model stream.                                                       *)

ModelFinished(s) ==
  /\ slotPc[s] = "streaming"
  /\ \E c \in slotCost[s] .. CostCap : slotCost' = [slotCost EXCEPT ![s] = c]
  /\ slotPc' = [slotPc EXCEPT ![s] = "publishing"]
  /\ UNCHANGED <<ledgerVars, slotRun, slotEpoch, slotSignal, procVars, pluginVars>>

(* Timeouts, provider failures and invalid output (classifyFailure).       *)
ModelFault(s) ==
  /\ slotPc[s] = "streaming"
  /\ \E sig \in {"retryable", "final"}, c \in slotCost[s] .. CostCap : Throw(s, sig, c)
  /\ UNCHANGED <<ledgerVars, procVars, pluginVars>>

-----------------------------------------------------------------------------
(* complete().  The order of the checks is the code's.                     *)

Publish(s, r) ==
  /\ outcome' = [outcome EXCEPT ![r] = @ + 1]
  /\ Settle(r, "succeeded", slotCost[s])
  /\ Discard(s)

OverReserved(s, r) == slotCost[s] > Upper[r]

OverBudget(s, r) ==
  LET g == runGrant[r] IN
  spent[g] + slotCost[s] + AtLeastZero(reserved[g] - Upper[r]) > BudgetOf[g]

(* Mutant: complete does not look for a late cancellation request. *)
MutantCompletionCancels(s, r) == ~OverReserved(s, r) /\ AuthorityLost(s, r)

CompletionCancels(s, r) ==
  cancelRequested[r] \/ (~OverReserved(s, r) /\ AuthorityLost(s, r))

CompletionThrows(s, r) == OverReserved(s, r) \/ OverBudget(s, r)

Complete(s) ==
  LET r == slotRun[s] IN
  /\ slotPc[s] = "publishing"
  /\ Owns(s, r)
  /\ CASE CompletionCancels(s, r)
            -> Settle(r, "cancelled", slotCost[s]) /\ Discard(s) /\ UNCHANGED outcome
       [] ~CompletionCancels(s, r) /\ CompletionThrows(s, r)
            -> /\ Throw(s, "retryable", slotCost[s])
               /\ UNCHANGED <<ledgerVars, procVars, pluginVars>>
       [] OTHER -> Publish(s, r)

-----------------------------------------------------------------------------
(* The catch block of execute().                                           *)

Disposes(s, r, state) ==
  /\ Settle(r, IF cancelRequested[r] THEN "cancelled" ELSE state, slotCost[s])
  /\ Discard(s)
  /\ UNCHANGED outcome

(* Mutant: a cancelled slot stops without settling its run. *)
MutantCancelClaimed(s) ==
  /\ slotPc[s] = "catching" /\ slotSignal[s] = "cancelled"
  /\ Discard(s)
  /\ UNCHANGED <<ledgerVars, procVars, pluginVars>>

CancelClaimed(s) ==
  LET r == slotRun[s] IN
  /\ slotPc[s] = "catching" /\ slotSignal[s] = "cancelled"
  /\ Owns(s, r)
  /\ Disposes(s, r, "cancelled")

PauseForPlugin(s) ==
  LET r == slotRun[s] IN
  /\ slotPc[s] = "catching" /\ slotSignal[s] = "plugin_down"
  /\ Owns(s, r)
  /\ Disposes(s, r, "paused_plugin")

(* Mutants: one attempt too many; a retry after a Plugin invocation. *)
MutantRetriableOnce(r)   == ledger[r] = "none" /\ attempts[r] <= MaxAttempts

(* A run is retried only if no Plugin invocation row exists. *)
Retriable(r) == ledger[r] = "none" /\ attempts[r] < MaxAttempts

FailOrRetry(s) ==
  LET r == slotRun[s] IN
  /\ slotPc[s] = "catching" /\ slotSignal[s] \in {"retryable", "final"}
  /\ Owns(s, r)
  /\ Disposes(s, r, IF slotSignal[s] = "retryable" /\ Retriable(r) THEN "queued" ELSE "failed")

(* The store finds no row that is running under this owner. *)
LeaseLost(s) ==
  /\ slotPc[s] \in {"publishing", "catching"}
  /\ ~Owns(s, slotRun[s])
  /\ Discard(s)
  /\ UNCHANGED <<ledgerVars, procVars, pluginVars>>

-----------------------------------------------------------------------------
(* Faults.  A store call throws: execute classifies it, and an error       *)
(* inside the catch block ends the slot's work with the lease still held.  *)

StoreFails(s) ==
  LET r == slotRun[s] IN
  /\ faults < MaxFaults
  /\ faults' = faults + 1
  /\ \/ /\ slotPc[s] \in {"claimed", "planning", "streaming", "publishing"}
        /\ Throw(s, "retryable", slotCost[s])
        /\ UNCHANGED ledger
     \/ /\ slotPc[s] \in {"begun", "calling"}
        /\ \E sig \in {"retryable", "final"} : Throw(s, sig, 0)
        /\ \E l \in {"begun", "failed"} : ledger' = [ledger EXCEPT ![r] = l]
     \/ /\ slotPc[s] = "catching"
        /\ Discard(s)
        /\ UNCHANGED ledger
  /\ UNCHANGED <<ledgerVars, up, halts, effects>>

LeaseExpires(r) ==
  /\ runState[r] = "running"
  /\ ~leaseExpired[r]
  /\ leaseExpired' = [leaseExpired EXCEPT ![r] = TRUE]
  /\ UNCHANGED <<runState, runGrant, attempts, leaseOwner, cancelRequested, outcome, decideVars,
                 grantVars, worldVars, admitVars, holdVars, slotVars, procVars, pluginVars>>

(* A crash, or a stop whose grace period ends: leases are left behind.     *)
Halt(d) ==
  /\ up[d]
  /\ halts < MaxHalts
  /\ halts' = halts + 1
  /\ up' = [up EXCEPT ![d] = FALSE]
  /\ slotPc' = [s \in Slots |-> IF DaemonOf[s] = d THEN "idle" ELSE slotPc[s]]
  /\ slotRun' = [s \in Slots |-> IF DaemonOf[s] = d THEN Nil ELSE slotRun[s]]
  /\ slotEpoch' = [s \in Slots |-> IF DaemonOf[s] = d THEN 0 ELSE slotEpoch[s]]
  /\ slotSignal' = [s \in Slots |-> IF DaemonOf[s] = d THEN "none" ELSE slotSignal[s]]
  /\ slotCost' = [s \in Slots |-> IF DaemonOf[s] = d THEN 0 ELSE slotCost[s]]
  /\ UNCHANGED <<ledgerVars, faults, pluginVars>>

(* start(): recoverExpiredLeases runs once, before the slots accept work.  *)
Expired == {r \in Runs : runState[r] = "running" /\ leaseExpired[r] /\ runGrant[r] \in Grants}

(* Mutant: recovery does not release the reservations. *)
MutantExpiredOn(g) == {}

ExpiredOn(g) == {r \in Expired : runGrant[r] = g}

Start(d) ==
  LET held(g) == AtLeastZero(reserved[g] - Cost(ExpiredOn(g))) IN
  /\ ~up[d]
  /\ up' = [up EXCEPT ![d] = TRUE]
  /\ runState' = [r \in Runs |-> IF r \notin Expired THEN runState[r]
                                 ELSE IF Retriable(r) THEN "queued" ELSE "failed"]
  /\ leaseOwner' = [r \in Runs |-> IF r \in Expired THEN Nil ELSE leaseOwner[r]]
  /\ leaseExpired' = [r \in Runs |-> leaseExpired[r] /\ r \notin Expired]
  /\ reserved' = [g \in Grants |-> held(g)]
  /\ grantState' = [g \in Grants |->
                      IF ExpiredOn(g) = {} THEN grantState[g]
                      ELSE GrantStatus(g, usedRuns[g], spent[g] + held(g))]
  /\ UNCHANGED <<runGrant, attempts, cancelRequested, outcome, usedRuns, spent, chargedRuns,
                 decideVars, worldVars, admitVars, holdVars, slotVars, halts, faults, pluginVars>>

-----------------------------------------------------------------------------
Claim(s) == \E r \in Runs : ClaimRefused(s, r) \/ ClaimOverBudget(s, r) \/ ClaimGranted(s, r)

Work(s) ==
  \/ InitialHeartbeat(s)
  \/ BeginInvocation(s) \/ RefuseInvocation(s) \/ CallPlugin(s)
  \/ ReturnInvocation(s) \/ AbortInvocation(s)
  \/ ModelFinished(s) \/ ModelFault(s)
  \/ Complete(s)
  \/ CancelClaimed(s) \/ PauseForPlugin(s) \/ FailOrRetry(s) \/ LeaseLost(s)

Next ==
  \/ ControlPlane /\ UNCHANGED <<slotVars, procVars, pluginVars>>
  \/ \E s \in Slots : Claim(s) \/ Work(s) \/ Heartbeat(s) \/ StoreFails(s)
  \/ \E r \in Runs : LeaseExpires(r)
  \/ \E d \in Daemons : Halt(d) \/ Start(d)

(* A slot polls while its daemon accepts work; every wait inside execute   *)
(* is bounded by a timeout; a halted daemon is restarted; time passes.     *)
Fairness ==
  /\ \A s \in Slots : WF_vars(Claim(s)) /\ WF_vars(Work(s))
  /\ \A r \in Runs : WF_vars(LeaseExpires(r))
  /\ \A d \in Daemons : WF_vars(Start(d))

Spec     == Init /\ [][Next]_vars
FairSpec == Spec /\ Fairness
-----------------------------------------------------------------------------
(* Safety.                                                                 *)

(* If no attempt costs more than its estimate, the money spent and the     *)
(* money reserved never exceed the grant's total budget, whatever the      *)
(* claims, retries, cancellations and recoveries do.                       *)
BudgetRespected == \A g \in Grants : spent[g] + reserved[g] <= BudgetOf[g]

(* The external effect of a planned Plugin call happens at most once,      *)
(* across retries, lost ledger writes, crashes, recoveries and slots that  *)
(* lost their lease in the middle of the call.                             *)
EffectAtMostOnce == \A r \in Runs : effects[r] <= 1

(* A run whose Plugin invocation was begun never goes back to the queue    *)
(* or to a human for another attempt.                                      *)
BegunNeverRequeued ==
  \A r \in Runs : ledger[r] # "none" => runState[r] \notin {"queued", "awaiting_approval"}

(* "charges maxRuns once per logical run": however often a run is retried, *)
(* recovered and handed out again, a grant was never charged for more runs *)
(* than were executed under it.                                            *)
ChargedOnce == \A g \in Grants : usedRuns[g] <= Cardinality(chargedRuns[g])

(* An outcome of production work is only ever published in an epoch of its *)
(* release in which a human approved a non-draft run of that release, even *)
(* if the pointer moved away and back while the run was in flight.         *)
PublishedInApprovedEpoch ==
  \A r \in Production :
    outcome'[r] > outcome[r] => channel = ReleaseOf[r] /\ <<channel, epoch>> \in approvedEpochs

(* A slot that lost its lease discards its result: only the slot that the  *)
(* lease names, and that is executing this very run, publishes it.         *)
OnlyOwnerPublishes ==
  \A r \in Runs : outcome'[r] > outcome[r] =>
    \E s \in Slots : leaseOwner[r] = s /\ slotRun[s] = r /\ slotPc[s] = "publishing"

(* What the ledger says of a run agrees: a running run has its lease and   *)
(* its grant, a succeeded run one outcome record, and a grant is charged   *)
(* once for a run, however often claim, failOrRetry, recovery and          *)
(* re-approval handle it.                                                  *)
LedgerConsistent == LeaseMatchesState /\ OutcomeMatchesState /\ ChargedOnce

(* The external effect of a planned Plugin call happens at most once, and  *)
(* a run whose invocation was begun never goes back to the queue or to a   *)
(* human, across lost ledger writes, crashes, recoveries, the kill switch  *)
(* and slots that lost their lease in the middle of the call; what a grant *)
(* reserves still covers the runs that work under it.                      *)
EffectsAreFinal == EffectAtMostOnce /\ BegunNeverRequeued /\ ReservationCovers

(* A run is settled once: only the slot that the lease names publishes it, *)
(* and neither a late cancelRun nor a late store call rewrites the end     *)
(* that complete, failOrRetry or cancelClaimed gave it.                    *)
SettledByOwner == [][OnlyOwnerPublishes /\ TerminalIsFinal]_vars

-----------------------------------------------------------------------------
(* Liveness.                                                               *)

Resting == Terminal \cup {"awaiting_approval", "paused_budget", "paused_plugin"}

(* A queued run is eventually taken and brought to rest: it ends, waits    *)
(* for a human, or is paused.                                              *)
QueuedComesToRest == \A r \in Runs : runState[r] = "queued" ~> runState[r] \in Resting

(* A claimed run does not stay running for ever. *)
RunningIsSettled == \A r \in Runs : runState[r] = "running" ~> runState[r] # "running"

-----------------------------------------------------------------------------
(* What the repository says of the program and the code does not do.       *)

(* A terminal run is never cancelled: a cancelled run has no outcome.      *)
PublishedNeverCancelled == \A r \in Runs : outcome[r] > 0 => runState[r] # "cancelled"
=============================================================================
