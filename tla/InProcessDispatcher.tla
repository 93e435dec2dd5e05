------------------------ MODULE InProcessDispatcher ------------------------
(***************************************************************************)
(* The backend's own executor (dispatchMode 'in_process'): the             *)
(* ExecutionDispatcher with its schedule and semaphore, and the executor   *)
(* half of ExecutionService (recoverExpiredLeases, queuedRunIds, claim,    *)
(* executeClaimed, heartbeat, failClaimed) over the ledger of              *)
(* ExecutionAuthority.  A lease owner is one backend process; a restarted  *)
(* process has a new worker id, so a Slots member boots once.              *)
(***************************************************************************)
EXTENDS ExecutionAuthority, Sequences

CONSTANTS
  Capacity,     \* semaphore capacity: EXECUTION_CONCURRENCY
  ResumeLimit,  \* queuedRunIds(limit)
  CostCap,      \* bound on the actual cost of one attempt
  MaxCrashes,   \* bound on process crashes
  MaxFaults     \* bound on transactions that throw

DispatchAssumption ==
  /\ Capacity \in Nat \ {0} /\ ResumeLimit \in Nat
  /\ CostCap \in Nat /\ MaxCrashes \in Nat /\ MaxFaults \in Nat

VARIABLES
  proc,      \* life of a process: new, recovering, up, dead
  expired,   \* the ids recoverExpiredLeases of a booting process still has to visit
  notices,   \* runs that a request handler of the process committed as queued and will enqueue
  pc,        \* pc[p][r]: where process p is with run r; "none": not in `scheduled`
  waiting,   \* Semaphore.waiting
  cost,      \* cost[p][r]: cost of the finished model response
  crashes,
  faults,
  charges    \* history: charges minus refunds of a grant, without the clamp at zero

dispatchVars == <<proc, expired, notices, pc, waiting, cost>>
faultVars    == <<crashes, faults>>
vars         == <<ledgerVars, dispatchVars, faultVars, charges>>

Working == {"claiming", "claimed", "streaming", "publishing", "failing"}
Pcs     == Working \cup {"none", "waiting", "ending"}

TypeOK ==
  /\ TypeOKLedger
  /\ proc \in [Slots -> {"new", "recovering", "up", "dead"}]
  /\ expired \in [Slots -> SUBSET Runs]
  /\ notices \in [Slots -> SUBSET Runs]
  /\ pc \in [Slots -> [Runs -> Pcs]]
  /\ waiting \in [Slots -> Seq(Runs)]
  /\ cost \in [Slots -> [Runs -> 0 .. CostCap]]
  /\ crashes \in Nat /\ faults \in Nat
  /\ charges \in [Grants -> Int]

Init ==
  /\ InitLedger
  /\ proc = [p \in Slots |-> "new"]
  /\ expired = [p \in Slots |-> {}]
  /\ notices = [p \in Slots |-> {}]
  /\ pc = [p \in Slots |-> [r \in Runs |-> "none"]]
  /\ waiting = [p \in Slots |-> << >>]
  /\ cost = [p \in Slots |-> [r \in Runs |-> 0]]
  /\ crashes = 0 /\ faults = 0
  /\ charges = [g \in Grants |-> 0]

-----------------------------------------------------------------------------
(* The schedule and the semaphore.                                         *)

Active(p) == {r \in Runs : pc[p][r] \in Working}

Goto(p, r, label) ==
  /\ pc' = [pc EXCEPT ![p][r] = label]
  /\ UNCHANGED <<proc, expired, notices, waiting>>

(* enqueue: an id already in `scheduled` is dropped. *)
Admit(p, r) ==
  CASE pc[p][r] # "none" -> UNCHANGED <<pc, waiting>>
    [] pc[p][r] = "none" /\ Cardinality(Active(p)) < Capacity
         -> pc' = [pc EXCEPT ![p][r] = "claiming"] /\ UNCHANGED waiting
    [] OTHER -> /\ pc' = [pc EXCEPT ![p][r] = "waiting"]
                /\ waiting' = [waiting EXCEPT ![p] = Append(@, r)]

Enqueue(p, r) ==
  /\ proc[p] = "up"
  /\ r \in notices[p]
  /\ Admit(p, r)
  /\ notices' = [notices EXCEPT ![p] = @ \ {r}]
  /\ UNCHANGED <<ledgerVars, proc, expired, cost, faultVars, charges>>

(* Mutant: the permit of a finished run is not handed on. *)
MutantFinish(p, r) ==
  /\ pc' = [pc EXCEPT ![p][r] = "ending"]
  /\ UNCHANGED <<proc, expired, notices, waiting>>

(* The operation of a permit ends: release wakes the first waiter.  The id *)
(* leaves `scheduled` in a later continuation (Unschedule).                *)
Finish(p, r) ==
  /\ UNCHANGED <<proc, expired, notices>>
  /\ IF waiting[p] = << >>
     THEN pc' = [pc EXCEPT ![p][r] = "ending"] /\ UNCHANGED waiting
     ELSE /\ pc' = [pc EXCEPT ![p][r] = "ending", ![p][Head(waiting[p])] = "claiming"]
          /\ waiting' = [waiting EXCEPT ![p] = Tail(@)]

Unschedule(p, r) ==
  /\ pc[p][r] = "ending"
  /\ Goto(p, r, "none")
  /\ UNCHANGED <<ledgerVars, cost, faultVars, charges>>

-----------------------------------------------------------------------------
(* Settling: reconcileReservation, with the refund of the run charge.      *)

Owns(p, r) == runState[r] = "running" /\ leaseOwner[r] = p

(* A first attempt that never reached the provider gives its charge back.  *)
Refunds(r) == attempts[r] = 1

Reconcile(r, paidCost, refund) ==
  LET g    == runGrant[r]
      held == AtLeastZero(reserved[g] - Upper[r])
      used == AtLeastZero(usedRuns[g] - (IF refund THEN 1 ELSE 0))
      paid == spent[g] + paidCost
  IN /\ reserved' = [reserved EXCEPT ![g] = held]
     /\ usedRuns' = [usedRuns EXCEPT ![g] = used]
     /\ spent' = [spent EXCEPT ![g] = paid]
     /\ grantState' = [grantState EXCEPT ![g] = GrantStatus(g, used, paid + held)]
     /\ charges' = [charges EXCEPT ![g] = @ - (IF refund THEN 1 ELSE 0)]
     /\ UNCHANGED chargedRuns

Unlease(r, state) ==
  /\ runState' = [runState EXCEPT ![r] = state]
  /\ leaseOwner' = [leaseOwner EXCEPT ![r] = Nil]
  /\ leaseExpired' = [leaseExpired EXCEPT ![r] = FALSE]

Close(r, state, paidCost, refund) ==
  /\ Reconcile(r, paidCost, refund)
  /\ Unlease(r, state)
  /\ UNCHANGED <<runGrant, attempts, cancelRequested, decideVars, worldVars, admitVars, holdVars>>

-----------------------------------------------------------------------------
(* Boot: recover expired leases one transaction at a time, then resume.    *)

BootRecover(p) ==
  /\ proc[p] = "new"
  /\ proc' = [proc EXCEPT ![p] = "recovering"]
  /\ expired' = [expired EXCEPT ![p] = {r \in Runs : runState[r] = "running" /\ leaseExpired[r]}]
  /\ UNCHANGED <<ledgerVars, notices, pc, waiting, cost, faultVars, charges>>

RecoveredState(r) ==
  IF cancelRequested[r] THEN "cancelled"
  ELSE IF attempts[r] >= MaxAttempts THEN "failed" ELSE "queued"

StillExpired(r) == runState[r] = "running" /\ leaseExpired[r]

RecoverOne(p, r) ==
  /\ proc[p] = "recovering"
  /\ r \in expired[p]
  /\ expired' = [expired EXCEPT ![p] = @ \ {r}]
  /\ IF StillExpired(r) THEN Close(r, RecoveredState(r), 0, FALSE)
     ELSE UNCHANGED <<runVars, decideVars, grantVars, worldVars, admitVars, holdVars, charges>>
  /\ UNCHANGED <<outcome, proc, notices, pc, waiting, cost, faultVars>>

(* The oldest queued runs, at most ResumeLimit of them, are enqueued.      *)
Resume(p) ==
  LET queued == {r \in Runs : runState[r] = "queued"} IN
  /\ proc[p] = "recovering"
  /\ expired[p] = {}
  /\ \E S \in SUBSET queued :
       /\ Cardinality(S) = ResumeLimit \/ (Cardinality(S) < ResumeLimit /\ S = queued)
       /\ notices' = [notices EXCEPT ![p] = S]
  /\ proc' = [proc EXCEPT ![p] = "up"]
  /\ UNCHANGED <<ledgerVars, expired, pc, waiting, cost, faultVars, charges>>

-----------------------------------------------------------------------------
(* claim.  A retry may use a grant that its own first attempt exhausted.   *)

ClaimBlocked(g, r) ==
  LET ownExhaustion == attempts[r] > 0 /\ grantState[g] = "exhausted" IN
  \/ grantState[g] # "active" /\ ~ownExhaustion
  \/ usedRuns[g] >= MaxRunsOf[g] /\ ~ownExhaustion
  \/ lapsed[g]
  \/ r \notin Covers[g]
  \/ spent[g] + reserved[g] + Upper[r] > BudgetOf[g]
  \/ r \in NeedsApproval /\ approval[r] # "approved"
  \/ r \notin Drafts /\ (channel # ReleaseOf[r] \/ ~EpochApproved(ReleaseOf[r]))

ClaimMisses(p, r) ==
  /\ pc[p][r] = "claiming"
  /\ runState[r] # "queued" \/ runGrant[r] = Nil
  /\ Finish(p, r)
  /\ UNCHANGED <<ledgerVars, cost, faultVars, charges>>

ClaimRefused(p, r) ==
  /\ pc[p][r] = "claiming"
  /\ runState[r] = "queued" /\ runGrant[r] \in Grants
  /\ ClaimBlocked(runGrant[r], r)
  /\ Withdraw({r})
  /\ Finish(p, r)
  /\ UNCHANGED <<attempts, leaseOwner, leaseExpired, cancelRequested, outcome, grantVars,
                 worldVars, admitVars, holdVars, cost, faultVars, charges>>

ClaimGranted(p, r) ==
  LET g    == runGrant[r]
      used == usedRuns[g] + (IF attempts[r] = 0 THEN 1 ELSE 0)
      held == reserved[g] + Upper[r]
  IN /\ pc[p][r] = "claiming"
     /\ runState[r] = "queued" /\ g \in Grants
     /\ ~ClaimBlocked(g, r)
     /\ usedRuns' = [usedRuns EXCEPT ![g] = used]
     /\ reserved' = [reserved EXCEPT ![g] = held]
     /\ grantState' = [grantState EXCEPT ![g] =
                         IF used >= MaxRunsOf[g] \/ spent[g] + held >= BudgetOf[g]
                         THEN "exhausted" ELSE @]
     /\ charges' = [charges EXCEPT ![g] = @ + used - usedRuns[g]]
     /\ runState' = [runState EXCEPT ![r] = "running"]
     /\ attempts' = [attempts EXCEPT ![r] = @ + 1]
     /\ leaseOwner' = [leaseOwner EXCEPT ![r] = p]
     /\ leaseExpired' = [leaseExpired EXCEPT ![r] = FALSE]
     /\ Goto(p, r, "claimed")
     /\ UNCHANGED <<runGrant, cancelRequested, outcome, decideVars, spent, chargedRuns, worldVars,
                    admitVars, holdVars, cost, faultVars>>

-----------------------------------------------------------------------------
(* executeClaimed: the revalidation before the provider is called.         *)

(* claimedGrantBlockers *)
ClaimedBlocked(g, r) ==
  \/ grantState[g] = "revoked"
  \/ lapsed[g]
  \/ r \notin Covers[g]
  \/ spent[g] + reserved[g] > BudgetOf[g]
  \/ r \in NeedsApproval /\ approval[r] # "approved"

(* Mutant: the grant is detached before the reservation is reconciled. *)
MutantPauseForAuthority(r) ==
  /\ Withdraw({r})
  /\ leaseOwner' = [leaseOwner EXCEPT ![r] = Nil]
  /\ leaseExpired' = [leaseExpired EXCEPT ![r] = FALSE]
  /\ UNCHANGED <<attempts, cancelRequested, grantVars, charges, worldVars, admitVars, holdVars>>

(* pauseClaimedForAuthority *)
PauseForAuthority(r) ==
  /\ Reconcile(r, 0, Refunds(r))
  /\ Withdraw({r})
  /\ leaseOwner' = [leaseOwner EXCEPT ![r] = Nil]
  /\ leaseExpired' = [leaseExpired EXCEPT ![r] = FALSE]
  /\ UNCHANGED <<attempts, cancelRequested, worldVars, admitVars, holdVars>>

Revalidate(p, r) ==
  /\ pc[p][r] = "claimed"
  /\ UNCHANGED <<outcome, cost, faultVars>>
  /\ \/ /\ ~Owns(p, r)
        /\ Finish(p, r)
        /\ UNCHANGED <<runVars, decideVars, grantVars, worldVars, admitVars, holdVars, charges>>
     \/ /\ Owns(p, r) /\ cancelRequested[r]
        /\ Close(r, "cancelled", 0, Refunds(r))
        /\ Finish(p, r)
     \/ /\ Owns(p, r) /\ ~cancelRequested[r]
        /\ ClaimedBlocked(runGrant[r], r)
        /\ PauseForAuthority(r)
        /\ Finish(p, r)
     \/ /\ Owns(p, r) /\ ~cancelRequested[r]
        /\ ~ClaimedBlocked(runGrant[r], r)
        \* the execution context is unavailable or has another digest: failClaimed
        /\ \E next \in {"streaming", "failing"} : Goto(p, r, next)
        /\ UNCHANGED <<runVars, decideVars, grantVars, worldVars, admitVars, holdVars, charges>>

-----------------------------------------------------------------------------
(* The model stream and its monitor.                                       *)

AuthorityOrLeaseLost(p, r) ==
  \/ ~Owns(p, r)
  \/ cancelRequested[r]
  \/ runGrant[r] \in Grants /\ (grantState[runGrant[r]] = "revoked" \/ lapsed[runGrant[r]])

Monitor(p, r) ==
  /\ pc[p][r] \in {"streaming", "publishing"}
  /\ ~AuthorityOrLeaseLost(p, r)
  /\ leaseExpired' = [leaseExpired EXCEPT ![r] = FALSE]
  /\ UNCHANGED <<runState, runGrant, attempts, leaseOwner, cancelRequested, outcome, decideVars,
                 grantVars, worldVars, admitVars, holdVars, dispatchVars, faultVars, charges>>

(* The stream ends: an abort by the monitor or by cancelRun, a provider    *)
(* error, a token or citation check that fails; or a response.             *)
StreamEnds(p, r) ==
  /\ pc[p][r] = "streaming"
  /\ \/ /\ Goto(p, r, "failing")
        /\ UNCHANGED cost
     \/ \E c \in 0 .. CostCap : /\ cost' = [cost EXCEPT ![p][r] = c]
                                /\ Goto(p, r, "publishing")
  /\ UNCHANGED <<ledgerVars, faultVars, charges>>

MayPublish(p, r) == Owns(p, r)

Publish(p, r) ==
  /\ pc[p][r] = "publishing"
  /\ cost' = [cost EXCEPT ![p][r] = 0]
  /\ UNCHANGED faultVars
  /\ \/ /\ ~MayPublish(p, r)
        /\ Finish(p, r)
        /\ UNCHANGED <<ledgerVars, charges>>
     \/ /\ MayPublish(p, r) /\ cancelRequested[r]
        /\ Close(r, "cancelled", cost[p][r], FALSE)
        /\ Finish(p, r)
        /\ UNCHANGED outcome
     \/ /\ MayPublish(p, r) /\ ~cancelRequested[r] /\ cost[p][r] > Upper[r]
        /\ Goto(p, r, "failing")
        /\ UNCHANGED <<ledgerVars, charges>>
     \/ /\ MayPublish(p, r) /\ ~cancelRequested[r] /\ cost[p][r] <= Upper[r]
        /\ outcome' = [outcome EXCEPT ![r] = @ + 1]
        /\ Close(r, "succeeded", cost[p][r], FALSE)
        /\ Finish(p, r)

FailClaimed(p, r) ==
  /\ pc[p][r] = "failing"
  /\ IF Owns(p, r)
     THEN Close(r, IF cancelRequested[r] THEN "cancelled" ELSE "failed", 0, FALSE)
     ELSE UNCHANGED <<runVars, decideVars, grantVars, worldVars, admitVars, holdVars, charges>>
  /\ Finish(p, r)
  /\ UNCHANGED <<outcome, cost, faultVars>>

-----------------------------------------------------------------------------
(* Faults.  A transaction of claim or failClaimed that throws ends the     *)
(* operation; one of executeClaimed leads to failClaimed.                  *)

TransactionThrows(p, r) ==
  /\ faults < MaxFaults
  /\ faults' = faults + 1
  /\ \/ pc[p][r] \in {"claiming", "failing"} /\ Finish(p, r)
     \/ pc[p][r] \in {"claimed", "publishing"} /\ Goto(p, r, "failing")
  /\ cost' = [cost EXCEPT ![p][r] = 0]
  /\ UNCHANGED <<ledgerVars, crashes, charges>>

Crash(p) ==
  /\ proc[p] \in {"recovering", "up"}
  /\ crashes < MaxCrashes
  /\ crashes' = crashes + 1
  /\ proc' = [proc EXCEPT ![p] = "dead"]
  /\ expired' = [expired EXCEPT ![p] = {}]
  /\ notices' = [notices EXCEPT ![p] = {}]
  /\ pc' = [pc EXCEPT ![p] = [r \in Runs |-> "none"]]
  /\ waiting' = [waiting EXCEPT ![p] = << >>]
  /\ cost' = [cost EXCEPT ![p] = [r \in Runs |-> 0]]
  /\ UNCHANGED <<ledgerVars, faults, charges>>

LeaseExpires(r) ==
  /\ runState[r] = "running"
  /\ ~leaseExpired[r]
  /\ leaseExpired' = [leaseExpired EXCEPT ![r] = TRUE]
  /\ UNCHANGED <<runState, runGrant, attempts, leaseOwner, cancelRequested, outcome, decideVars,
                 grantVars, worldVars, admitVars, holdVars, dispatchVars, faultVars, charges>>

-----------------------------------------------------------------------------
(* A request handler of an up process: the service call commits, and the   *)
(* handler will enqueue what it queued.                                    *)
Request(p) ==
  /\ proc[p] = "up"
  /\ ControlPlane
  /\ notices' = [notices EXCEPT ![p] =
                   @ \cup {r \in Runs : runState[r] # "queued" /\ runState'[r] = "queued"}]
  /\ UNCHANGED <<proc, expired, pc, waiting, cost, faultVars, charges>>

Step(p, r) ==
  \/ Enqueue(p, r) \/ Unschedule(p, r)
  \/ ClaimMisses(p, r) \/ ClaimRefused(p, r) \/ ClaimGranted(p, r)
  \/ Revalidate(p, r) \/ StreamEnds(p, r) \/ Publish(p, r) \/ FailClaimed(p, r)

Boot(p) == BootRecover(p) \/ Resume(p) \/ \E r \in Runs : RecoverOne(p, r)

Next ==
  \/ \E p \in Slots : Request(p) \/ Boot(p) \/ Crash(p)
  \/ \E p \in Slots, r \in Runs : Step(p, r) \/ Monitor(p, r) \/ TransactionThrows(p, r)
  \/ \E r \in Runs : LeaseExpires(r)

(* Continuations run, and every wait on the provider has a timeout.        *)
Fairness ==
  /\ \A p \in Slots : WF_vars(Boot(p))
  /\ \A p \in Slots, r \in Runs : WF_vars(Step(p, r))

Spec     == Init /\ [][Next]_vars
FairSpec == Spec /\ Fairness

-----------------------------------------------------------------------------
(* usedRuns counts the charged runs: a refund is only ever given for the   *)
(* charge that the same claim made on the same grant, so the clamp at zero *)
(* never hides one, also over recovery and re-approval.                    *)
RefundMatchesCharge == \A g \in Grants : usedRuns[g] = charges[g]

(* Backend processes that recover each other's runs keep the ledger exact: *)
(* reservations are those of the running runs, refunds match charges,      *)
(* there is one outcome per succeeded run, and a revocation reaches a      *)
(* claim that committed just before it.                                    *)
DispatcherKeepsLedger ==
  ReservationExact /\ RefundMatchesCharge /\ OutcomeMatchesState /\ RevokedWorkIsStopping

(* No process executes more runs at once than it has permits, and nobody   *)
(* waits while a permit is free.                                           *)
PermitsExact ==
  \A p \in Slots : /\ Cardinality(Active(p)) <= Capacity
                   /\ waiting[p] # << >> => Cardinality(Active(p)) = Capacity

(* Every enqueued run leaves the schedule again: permits are never lost.   *)
ScheduleDrains ==
  \A p \in Slots, r \in Runs : pc[p][r] # "none" ~> pc[p][r] = "none"

(* Without crashes and faults a claimed run is always settled.             *)
RunningIsSettled == \A r \in Runs : runState[r] = "running" ~> runState[r] # "running"
=============================================================================
