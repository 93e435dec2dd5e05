---------------------- MODULE InProcessDispatcherProofs ----------------------
(***************************************************************************)
(* Machine-checked proofs about InProcessDispatcher, for every value of    *)
(* its constants: any number of backend processes, runs, grants, permits,  *)
(* crashes and transactions that throw.                                    *)
(***************************************************************************)
EXTENDS InProcessDispatcher, ExecutionAuthorityProofs

-----------------------------------------------------------------------------
(* What a step of a process does to the ledger: it refuses or grants a     *)
(* claim, renews or loses a lease, settles a running run, or gives one     *)
(* back to a human.                                                        *)

(* The lease of a running run is renewed or runs out. *)
Leases(r) ==
  /\ runState[r] = "running"
  /\ \E x \in BOOLEAN : leaseExpired' = [leaseExpired EXCEPT ![r] = x]
  /\ UNCHANGED <<runState, runGrant, attempts, leaseOwner, cancelRequested, outcome, decideVars,
                 grantVars, worldVars, admitVars, holdVars, charges>>

Settles(r, state, paid, refund) ==
  /\ runState[r] = "running"
  /\ Close(r, state, paid, refund)
  /\ refund => attempts[r] = 1
  /\ state = "succeeded" => ~cancelRequested[r]
  /\ outcome' = IF state = "succeeded" THEN [outcome EXCEPT ![r] = @ + 1] ELSE outcome

GivesBack(r) == runState[r] = "running" /\ PauseForAuthority(r) /\ UNCHANGED outcome

SettledStates == {"succeeded", "failed", "cancelled", "queued"}

(* The cases every proof about the ledger distinguishes. *)
LEMMA DispatchSteps ==
  ASSUME DispatchAssumption, TypeOK, [Next]_vars
  PROVE  \/ ControlPlane /\ UNCHANGED charges
         \/ UNCHANGED <<ledgerVars, charges>>
         \/ \E p \in Slots, r \in Runs : ClaimRefused(p, r) \/ ClaimGranted(p, r)
         \/ \E r \in Runs : Leases(r) \/ GivesBack(r)
         \/ \E r \in Runs, state \in SettledStates, paid \in Nat, refund \in BOOLEAN :
              Settles(r, state, paid, refund)
<1> DEFINE Goal ==
         \/ ControlPlane /\ UNCHANGED charges
         \/ UNCHANGED <<ledgerVars, charges>>
         \/ \E p \in Slots, r \in Runs : ClaimRefused(p, r) \/ ClaimGranted(p, r)
         \/ \E r \in Runs : Leases(r) \/ GivesBack(r)
         \/ \E r \in Runs, state \in SettledStates, paid \in Nat, refund \in BOOLEAN :
              Settles(r, state, paid, refund)
<1>u. ASSUME UNCHANGED <<ledgerVars, charges>> PROVE Goal
  BY <1>u
<1>v. ASSUME UNCHANGED <<outcome, runVars, decideVars, grantVars, worldVars, admitVars, holdVars, charges>>
      PROVE  Goal
  BY <1>v DEF ledgerVars
<1>s. ASSUME NEW r \in Runs, NEW state \in SettledStates, NEW paid \in Nat, NEW refund \in BOOLEAN,
             runState[r] = "running", Close(r, state, paid, refund), refund => attempts[r] = 1,
             state # "succeeded", UNCHANGED outcome
      PROVE  Goal
  <2>1. Settles(r, state, paid, refund)
    BY <1>s DEF Settles
  <2> QED BY <2>1
<1>1. ASSUME NEW p \in Slots, Request(p) PROVE Goal
  BY <1>1 DEF Request
<1>2. ASSUME NEW p \in Slots, BootRecover(p) \/ Resume(p) \/ Crash(p) PROVE Goal
  BY <1>2, <1>u DEF BootRecover, Resume, Crash
<1>3. ASSUME NEW p \in Slots, NEW r \in Runs, RecoverOne(p, r) PROVE Goal
  <2>1. CASE StillExpired(r)
    <3>1. Close(r, RecoveredState(r), 0, FALSE) /\ runState[r] = "running" /\ UNCHANGED outcome
      BY <1>3, <2>1 DEF RecoverOne, StillExpired
    <3>2. RecoveredState(r) \in SettledStates /\ RecoveredState(r) # "succeeded"
      BY DEF RecoveredState, SettledStates
    <3> QED BY <3>1, <3>2, <1>s
  <2>2. CASE ~StillExpired(r)
    BY <1>3, <2>2, <1>v DEF RecoverOne
  <2> QED BY <2>1, <2>2
<1>4. ASSUME NEW p \in Slots, NEW r \in Runs,
             Enqueue(p, r) \/ Unschedule(p, r) \/ ClaimMisses(p, r) \/ StreamEnds(p, r) \/ TransactionThrows(p, r)
      PROVE  Goal
  BY <1>4, <1>u DEF Enqueue, Unschedule, ClaimMisses, StreamEnds, TransactionThrows
<1>5. ASSUME NEW p \in Slots, NEW r \in Runs, Revalidate(p, r) PROVE Goal
  <2>1. CASE Owns(p, r) /\ Close(r, "cancelled", 0, Refunds(r))
    BY <1>5, <2>1, <1>s DEF Revalidate, Owns, Refunds, SettledStates
  <2>2. CASE Owns(p, r) /\ PauseForAuthority(r)
    BY <1>5, <2>2 DEF Revalidate, Owns, GivesBack
  <2>3. CASE UNCHANGED <<runVars, decideVars, grantVars, worldVars, admitVars, holdVars, charges>>
    BY <1>5, <2>3, <1>v DEF Revalidate
  <2> QED BY <1>5, <2>1, <2>2, <2>3 DEF Revalidate
<1>6. ASSUME NEW p \in Slots, NEW r \in Runs, Publish(p, r) PROVE Goal
  <2>1. cost[p][r] \in Nat
    BY DEF TypeOK, DispatchAssumption
  <2>2. CASE MayPublish(p, r) /\ Close(r, "cancelled", cost[p][r], FALSE) /\ UNCHANGED outcome
    BY <2>1, <2>2, <1>s DEF MayPublish, Owns, SettledStates
  <2>3. CASE /\ MayPublish(p, r) /\ ~cancelRequested[r] /\ Close(r, "succeeded", cost[p][r], FALSE)
             /\ outcome' = [outcome EXCEPT ![r] = @ + 1]
    <3>1. Settles(r, "succeeded", cost[p][r], FALSE)
      BY <2>3 DEF Settles, MayPublish, Owns
    <3> QED BY <2>1, <3>1 DEF SettledStates
  <2>4. CASE UNCHANGED <<ledgerVars, charges>>
    BY <2>4, <1>u
  <2> QED BY <1>6, <2>2, <2>3, <2>4 DEF Publish
<1>7. ASSUME NEW p \in Slots, NEW r \in Runs, FailClaimed(p, r) PROVE Goal
  <2> DEFINE x == IF cancelRequested[r] THEN "cancelled" ELSE "failed"
  <2>1. CASE Owns(p, r)
    <3>1. x \in SettledStates /\ x # "succeeded"
      BY DEF SettledStates
    <3>2. Close(r, x, 0, FALSE) /\ runState[r] = "running" /\ UNCHANGED outcome
      BY <1>7, <2>1 DEF FailClaimed, Owns
    <3> HIDE DEF x
    <3> QED BY <3>1, <3>2, <1>s
  <2>2. CASE ~Owns(p, r)
    BY <1>7, <2>2, <1>v DEF FailClaimed
  <2> QED BY <2>1, <2>2
<1>8. ASSUME NEW r \in Runs, LeaseExpires(r) PROVE Goal
  BY <1>8 DEF LeaseExpires, Leases
<1>9. ASSUME NEW p \in Slots, NEW r \in Runs, Monitor(p, r) PROVE Goal
  BY <1>9 DEF Monitor, Leases, AuthorityOrLeaseLost, Owns
<1>10. ASSUME UNCHANGED vars PROVE Goal
  BY <1>10, <1>u DEF vars
<1>11. ASSUME NEW p \in Slots, NEW r \in Runs, ClaimRefused(p, r) \/ ClaimGranted(p, r) PROVE Goal
  BY <1>11
<1> HIDE DEF Goal
<1>12. Goal
  BY <1>1, <1>2, <1>3, <1>4, <1>5, <1>6, <1>7, <1>8, <1>9, <1>10, <1>11 DEF Next, Step, Boot
<1> QED BY <1>12 DEF Goal

-----------------------------------------------------------------------------
(* Type correctness.                                                       *)

(* A reconciliation writes columns of their types, and its charge column   *)
(* is clamped at zero.                                                     *)
LEMMA ReconcileType ==
  ASSUME TypeOKLedger, charges \in [Grants -> Int], NEW r \in Runs, runGrant[r] \in Grants,
         NEW paid \in Nat, NEW refund \in BOOLEAN, Reconcile(r, paid, refund)
  PROVE  /\ reserved' \in [Grants -> Nat] /\ usedRuns' \in [Grants -> Nat]
         /\ spent' \in [Grants -> Nat] /\ charges' \in [Grants -> Int]
         /\ grantState' \in [Grants -> {"none", "active", "revoked", "exhausted"}]
         /\ chargedRuns' = chargedRuns
<1> DEFINE g    == runGrant[r]
           one  == IF refund THEN 1 ELSE 0
           held == AtLeastZero(reserved[g] - Upper[r])
           used == AtLeastZero(usedRuns[g] - one)
           sum  == spent[g] + paid
<1>1. held \in Nat /\ used \in Nat /\ sum \in Nat /\ one \in Nat
  BY CostAssumption DEF TypeOKLedger, AtLeastZero
<1>2. GrantStatus(g, used, sum + held) \in {"none", "active", "revoked", "exhausted"}
  BY DEF TypeOKLedger, GrantStatus
<1>3. /\ reserved' = [reserved EXCEPT ![g] = held]
      /\ usedRuns' = [usedRuns EXCEPT ![g] = used]
      /\ spent' = [spent EXCEPT ![g] = sum]
      /\ grantState' = [grantState EXCEPT ![g] = GrantStatus(g, used, sum + held)]
      /\ charges' = [charges EXCEPT ![g] = @ - one]
      /\ chargedRuns' = chargedRuns
  BY DEF Reconcile
<1>4. g \in Grants
  OBVIOUS
<1> HIDE DEF g, one, held, used, sum
<1>5. reserved' \in [Grants -> Nat] /\ usedRuns' \in [Grants -> Nat] /\ spent' \in [Grants -> Nat]
  BY <1>1, <1>3 DEF TypeOKLedger
<1>6. charges' \in [Grants -> Int]
  <2>1. charges[g] - one \in Int
    BY <1>1, <1>4
  <2> QED BY <1>3, <2>1
<1>7. grantState' \in [Grants -> {"none", "active", "revoked", "exhausted"}]
  BY <1>2, <1>3 DEF TypeOKLedger
<1> QED BY <1>3, <1>5, <1>6, <1>7

(* A running run has the grant its claim reserved from. *)
Base == TypeOK /\ Shape

(* Every step writes the ledger's columns within their types. *)
LEMMA LedgerTyped ==
  ASSUME DispatchAssumption, Base, [Next]_vars
  PROVE  TypeOKLedger' /\ charges' \in [Grants -> Int]
<1> TypeOKLedger /\ charges \in [Grants -> Int]
  BY DEF Base, TypeOK
<1>g. \A r \in Runs : runState[r] = "running" => runGrant[r] \in Grants
  BY DEF Base, Shape, LeaseMatchesState
<1> USE DEF runVars, decideVars, grantVars, worldVars, admitVars, holdVars
<1> DEFINE Goal == TypeOKLedger' /\ charges' \in [Grants -> Int]
<1>1. ASSUME ControlPlane, UNCHANGED charges PROVE Goal
  BY <1>1, ControlPlaneType
<1>2. ASSUME UNCHANGED <<ledgerVars, charges>> PROVE Goal
  BY <1>2 DEF ledgerVars, TypeOKLedger
<1>3. ASSUME NEW p \in Slots, NEW r \in Runs, ClaimRefused(p, r) PROVE Goal
  BY <1>3 DEF ClaimRefused, Withdraw, TypeOKLedger, RunStates
<1>4. ASSUME NEW p \in Slots, NEW r \in Runs, ClaimGranted(p, r) PROVE Goal
  <2> DEFINE g    == runGrant[r]
             used == usedRuns[g] + (IF attempts[r] = 0 THEN 1 ELSE 0)
             held == reserved[g] + Upper[r]
  <2>1. g \in Grants /\ used \in Nat /\ held \in Nat /\ usedRuns[g] \in Nat
    <3>1. runGrant[r] \in Grants
      BY <1>4 DEF ClaimGranted
    <3> QED BY <3>1, CostAssumption DEF TypeOKLedger
  <2>2. /\ usedRuns' = [usedRuns EXCEPT ![g] = used]
        /\ reserved' = [reserved EXCEPT ![g] = held]
        /\ grantState' = [grantState EXCEPT ![g] =
             IF used >= MaxRunsOf[g] \/ spent[g] + held >= BudgetOf[g] THEN "exhausted" ELSE @]
        /\ charges' = [charges EXCEPT ![g] = @ + used - usedRuns[g]]
    BY <1>4 DEF ClaimGranted
  <2> HIDE DEF g, used, held
  <2>3. usedRuns' \in [Grants -> Nat] /\ reserved' \in [Grants -> Nat] /\ charges' \in [Grants -> Int]
    <3>1. charges[g] + used - usedRuns[g] \in Int
      BY <2>1
    <3>2. charges' \in [Grants -> Int]
      BY <2>2, <3>1
    <3> QED BY <2>1, <2>2, <3>2 DEF TypeOKLedger
  <2>4. grantState' \in [Grants -> {"none", "active", "revoked", "exhausted"}]
    BY <2>1, <2>2 DEF TypeOKLedger
  <2> QED BY <1>4, <2>3, <2>4 DEF ClaimGranted, TypeOKLedger, RunStates
<1>5. ASSUME NEW r \in Runs, Leases(r) PROVE Goal
  BY <1>5 DEF Leases, TypeOKLedger
<1>6. ASSUME NEW r \in Runs, GivesBack(r) PROVE Goal
  <2>1. Reconcile(r, 0, Refunds(r)) /\ Refunds(r) \in BOOLEAN
    BY <1>6 DEF GivesBack, PauseForAuthority, Refunds
  <2>2. /\ reserved' \in [Grants -> Nat] /\ usedRuns' \in [Grants -> Nat]
        /\ spent' \in [Grants -> Nat] /\ charges' \in [Grants -> Int]
        /\ grantState' \in [Grants -> {"none", "active", "revoked", "exhausted"}]
        /\ chargedRuns' = chargedRuns
    BY <1>6, <1>g, <2>1, ReconcileType DEF GivesBack
  <2> QED BY <1>6, <2>2 DEF GivesBack, PauseForAuthority, Withdraw, TypeOKLedger, RunStates
<1>7. ASSUME NEW r \in Runs, NEW state \in SettledStates, NEW paid \in Nat, NEW refund \in BOOLEAN,
             Settles(r, state, paid, refund)
      PROVE  Goal
  <2>1. Reconcile(r, paid, refund) /\ runState[r] = "running"
    BY <1>7 DEF Settles, Close
  <2>2. /\ reserved' \in [Grants -> Nat] /\ usedRuns' \in [Grants -> Nat]
        /\ spent' \in [Grants -> Nat] /\ charges' \in [Grants -> Int]
        /\ grantState' \in [Grants -> {"none", "active", "revoked", "exhausted"}]
        /\ chargedRuns' = chargedRuns
    BY <1>g, <2>1, ReconcileType
  <2>3. outcome' \in [Runs -> Nat]
    BY <1>7 DEF Settles, TypeOKLedger
  <2>4. state \in RunStates
    BY DEF SettledStates, RunStates
  <2> QED BY <1>7, <2>2, <2>3, <2>4 DEF Settles, Close, Unlease, TypeOKLedger
<1> HIDE DEF Goal
<1>8. Goal
  <2>1. Base => TypeOK
    BY DEF Base
  <2> HIDE DEF runVars, decideVars, grantVars, worldVars, admitVars, holdVars
  <2> QED BY <1>1, <1>2, <1>3, <1>4, <1>5, <1>6, <1>7, <2>1, DispatchSteps
<1> QED BY <1>8 DEF Goal

(* A lease is written exactly while its run is running. *)
LEMMA ShapeStep ==
  ASSUME DispatchAssumption, Base, [Next]_vars
  PROVE  Shape'
<1> TypeOKLedger /\ Shape /\ TypeOK
  BY DEF Base, TypeOK
<1> USE RunsAssumption DEF runVars, decideVars, grantVars, worldVars, admitVars, holdVars
<1>1. ASSUME ControlPlane PROVE Shape'
  BY <1>1, ControlPlaneShape
<1>2. ASSUME UNCHANGED ledgerVars PROVE Shape'
  BY <1>2 DEF ledgerVars, Shape, LeaseMatchesState, Fresh
<1>3. ASSUME NEW p \in Slots, NEW r \in Runs, ClaimRefused(p, r) PROVE Shape'
  BY <1>3 DEF ClaimRefused, Withdraw, TypeOKLedger, Shape, LeaseMatchesState, Fresh
<1>4. ASSUME NEW p \in Slots, NEW r \in Runs, ClaimGranted(p, r) PROVE Shape'
  BY <1>4 DEF ClaimGranted, TypeOKLedger, Shape, LeaseMatchesState, Fresh
<1>5. ASSUME NEW r \in Runs, Leases(r) PROVE Shape'
  BY <1>5 DEF Leases, TypeOKLedger, Shape, LeaseMatchesState, Fresh
<1>6. ASSUME NEW r \in Runs, GivesBack(r) PROVE Shape'
  BY <1>6 DEF GivesBack, PauseForAuthority, Withdraw, TypeOKLedger, Shape, LeaseMatchesState, Fresh
<1>7. ASSUME NEW r \in Runs, NEW state \in SettledStates, NEW paid \in Nat, NEW refund \in BOOLEAN,
             Settles(r, state, paid, refund)
      PROVE  Shape'
  BY <1>7 DEF Settles, SettledStates, Close, Unlease, TypeOKLedger, Shape, LeaseMatchesState, Fresh
<1> HIDE DEF runVars, decideVars, grantVars, worldVars, admitVars, holdVars
<1> QED BY <1>1, <1>2, <1>3, <1>4, <1>5, <1>6, <1>7, DispatchSteps

(* The schedule of a process. *)
TypeOKSchedule ==
  /\ proc \in [Slots -> {"new", "recovering", "up", "dead"}]
  /\ expired \in [Slots -> SUBSET Runs]
  /\ notices \in [Slots -> SUBSET Runs]
  /\ pc \in [Slots -> [Runs -> Pcs]]
  /\ waiting \in [Slots -> Seq(Runs)]
  /\ cost \in [Slots -> [Runs -> 0 .. CostCap]]
  /\ crashes \in Nat /\ faults \in Nat

(* The labels a run passes through. *)
LEMMA Labels ==
  {"none", "waiting", "claiming", "claimed", "streaming", "publishing", "failing", "ending"} \subseteq Pcs
BY DEF Pcs, Working

(* Moving a run through the schedule keeps its types. *)
LEMMA GotoType ==
  ASSUME TypeOKSchedule, NEW p \in Slots, NEW r \in Runs, NEW label \in Pcs, Goto(p, r, label),
         cost' \in [Slots -> [Runs -> 0 .. CostCap]], crashes' \in Nat, faults' \in Nat
  PROVE  TypeOKSchedule'
BY DEF TypeOKSchedule, Goto

(* Handing a permit on keeps the types of the schedule. *)
LEMMA FinishType ==
  ASSUME TypeOKSchedule, NEW p \in Slots, NEW r \in Runs, Finish(p, r),
         cost' \in [Slots -> [Runs -> 0 .. CostCap]], crashes' \in Nat, faults' \in Nat
  PROVE  TypeOKSchedule'
<1>1. CASE waiting[p] = << >>
  <2>1. pc' = [pc EXCEPT ![p][r] = "ending"] /\ UNCHANGED <<proc, expired, notices, waiting>>
    BY <1>1 DEF Finish
  <2> QED BY <2>1, Labels, GotoType DEF Goto
<1>2. CASE waiting[p] # << >>
  <2>1. waiting[p] \in Seq(Runs)
    BY DEF TypeOKSchedule
  <2>2. Head(waiting[p]) \in Runs /\ Tail(waiting[p]) \in Seq(Runs)
    BY <1>2, <2>1
  <2>3. waiting' \in [Slots -> Seq(Runs)]
    BY <1>2, <2>2 DEF TypeOKSchedule, Finish
  <2>4. pc' = [pc EXCEPT ![p] = [pc[p] EXCEPT ![r] = "ending", ![Head(waiting[p])] = "claiming"]]
    BY <1>2, <2>2 DEF Finish, TypeOKSchedule
  <2>5. [pc[p] EXCEPT ![r] = "ending", ![Head(waiting[p])] = "claiming"] \in [Runs -> Pcs]
    BY <2>2, Labels DEF TypeOKSchedule
  <2>6. pc' \in [Slots -> [Runs -> Pcs]]
    BY <2>4, <2>5 DEF TypeOKSchedule
  <2> QED BY <1>2, <2>3, <2>6 DEF TypeOKSchedule, Finish
<1> QED BY <1>1, <1>2

(* Every step keeps the types of the schedule. *)
LEMMA ScheduleTyped ==
  ASSUME DispatchAssumption, TypeOKSchedule, [Next]_vars
  PROVE  TypeOKSchedule'
<1> USE DEF dispatchVars, faultVars
<1>k. UNCHANGED <<cost, faultVars>> =>
        cost' \in [Slots -> [Runs -> 0 .. CostCap]] /\ crashes' \in Nat /\ faults' \in Nat
  BY DEF TypeOKSchedule
<1>c. ASSUME NEW p \in Slots, NEW r \in Runs, NEW c \in 0 .. CostCap,
             cost' = [cost EXCEPT ![p][r] = c], UNCHANGED crashes, faults' \in Nat
      PROVE  cost' \in [Slots -> [Runs -> 0 .. CostCap]] /\ crashes' \in Nat /\ faults' \in Nat
  BY <1>c DEF TypeOKSchedule
<1>0. 0 \in 0 .. CostCap
  BY DEF DispatchAssumption
<1>1. ASSUME NEW p \in Slots, Request(p) \/ BootRecover(p) \/ Resume(p) PROVE TypeOKSchedule'
  <2>1. CASE Request(p)
    BY <2>1 DEF Request, TypeOKSchedule
  <2>2. CASE BootRecover(p)
    BY <2>2 DEF BootRecover, TypeOKSchedule
  <2>3. CASE Resume(p)
    <3>1. PICK S \in SUBSET Runs : notices' = [notices EXCEPT ![p] = S]
      BY <2>3 DEF Resume
    <3>2. notices' \in [Slots -> SUBSET Runs]
      BY <3>1 DEF TypeOKSchedule
    <3> QED BY <2>3, <3>2 DEF Resume, TypeOKSchedule
  <2> QED BY <1>1, <2>1, <2>2, <2>3
<1>2. ASSUME NEW p \in Slots, Crash(p) PROVE TypeOKSchedule'
  <2>1. /\ pc' \in [Slots -> [Runs -> Pcs]]
        /\ waiting' \in [Slots -> Seq(Runs)]
        /\ cost' \in [Slots -> [Runs -> 0 .. CostCap]]
    BY <1>2, <1>0 DEF Crash, TypeOKSchedule, Pcs
  <2> QED BY <1>2, <2>1 DEF Crash, TypeOKSchedule
<1>3. ASSUME NEW p \in Slots, NEW r \in Runs, RecoverOne(p, r) PROVE TypeOKSchedule'
  BY <1>3 DEF RecoverOne, TypeOKSchedule
<1>4. ASSUME NEW p \in Slots, NEW r \in Runs, Enqueue(p, r) PROVE TypeOKSchedule'
  <2>1. Admit(p, r) /\ notices' = [notices EXCEPT ![p] = @ \ {r}] /\ UNCHANGED <<proc, expired, cost, faultVars>>
    BY <1>4 DEF Enqueue
  <2>2. pc' \in [Slots -> [Runs -> Pcs]]
    <3>1. pc' = pc \/ \E label \in {"claiming", "waiting"} : pc' = [pc EXCEPT ![p][r] = label]
      BY <2>1 DEF Admit
    <3>2. \A label \in {"claiming", "waiting"} : [pc EXCEPT ![p][r] = label] \in [Slots -> [Runs -> Pcs]]
      <4> SUFFICES ASSUME NEW label \in {"claiming", "waiting"}
                   PROVE  [pc EXCEPT ![p][r] = label] \in [Slots -> [Runs -> Pcs]]
        OBVIOUS
      <4>1. label \in Pcs
        BY Labels
      <4> QED BY <4>1 DEF TypeOKSchedule
    <3>3. pc \in [Slots -> [Runs -> Pcs]]
      BY DEF TypeOKSchedule
    <3> QED BY <3>1, <3>2, <3>3, Zenon
  <2>3. waiting' \in [Slots -> Seq(Runs)]
    <3>1. Append(waiting[p], r) \in Seq(Runs)
      BY DEF TypeOKSchedule
    <3> QED BY <2>1, <3>1 DEF Admit, TypeOKSchedule
  <2> QED BY <2>1, <2>2, <2>3 DEF TypeOKSchedule
<1>5. ASSUME NEW p \in Slots, NEW r \in Runs, Unschedule(p, r) \/ ClaimGranted(p, r) PROVE TypeOKSchedule'
  <2>1. \E label \in Pcs : Goto(p, r, label) /\ UNCHANGED <<cost, faultVars>>
    BY <1>5 DEF Unschedule, ClaimGranted, Pcs, Working
  <2> QED BY <2>1, <1>k, GotoType
<1>6. ASSUME NEW p \in Slots, NEW r \in Runs, ClaimMisses(p, r) \/ ClaimRefused(p, r) \/ FailClaimed(p, r)
      PROVE  TypeOKSchedule'
  <2>1. Finish(p, r) /\ UNCHANGED <<cost, faultVars>>
    BY <1>6 DEF ClaimMisses, ClaimRefused, FailClaimed
  <2> QED BY <2>1, <1>k, FinishType
<1>7. ASSUME NEW p \in Slots, NEW r \in Runs, Revalidate(p, r) PROVE TypeOKSchedule'
  <2>1. /\ UNCHANGED <<cost, faultVars>>
        /\ Finish(p, r) \/ \E label \in Pcs : Goto(p, r, label)
    BY <1>7 DEF Revalidate, Pcs, Working
  <2> QED BY <2>1, <1>k, FinishType, GotoType
<1>8. ASSUME NEW p \in Slots, NEW r \in Runs, StreamEnds(p, r) PROVE TypeOKSchedule'
  <2>1. CASE Goto(p, r, "failing") /\ UNCHANGED cost
    BY <1>8, <2>1, <1>k, GotoType DEF StreamEnds, Pcs, Working
  <2>2. ASSUME NEW c \in 0 .. CostCap, cost' = [cost EXCEPT ![p][r] = c], Goto(p, r, "publishing")
        PROVE  TypeOKSchedule'
    <3>1. UNCHANGED crashes /\ faults' \in Nat /\ "publishing" \in Pcs
      BY <1>8 DEF StreamEnds, TypeOKSchedule, Pcs, Working
    <3> QED BY <2>2, <3>1, <1>c, GotoType
  <2> QED BY <1>8, <2>1, <2>2 DEF StreamEnds
<1>9. ASSUME NEW p \in Slots, NEW r \in Runs, Publish(p, r) \/ TransactionThrows(p, r) PROVE TypeOKSchedule'
  <2>1. /\ cost' = [cost EXCEPT ![p][r] = 0] /\ UNCHANGED crashes /\ faults' \in Nat
        /\ Finish(p, r) \/ Goto(p, r, "failing")
    <3>1. CASE Publish(p, r)
      BY <3>1 DEF Publish, TypeOKSchedule
    <3>2. CASE TransactionThrows(p, r)
      BY <3>2 DEF TransactionThrows, TypeOKSchedule
    <3> QED BY <1>9, <3>1, <3>2
  <2>2. "failing" \in Pcs
    BY Labels
  <2> QED BY <2>1, <2>2, <1>0, <1>c, FinishType, GotoType
<1>10. ASSUME \/ UNCHANGED vars
              \/ \E r \in Runs : LeaseExpires(r)
              \/ \E p \in Slots, r \in Runs : Monitor(p, r)
       PROVE  TypeOKSchedule'
  BY <1>10 DEF vars, LeaseExpires, Monitor, TypeOKSchedule
<1> HIDE DEF dispatchVars, faultVars
<1> QED BY <1>1, <1>2, <1>3, <1>4, <1>5, <1>6, <1>7, <1>8, <1>9, <1>10 DEF Next, Step, Boot

(* Whatever processes boot, crash, recover and schedule at once, every     *)
(* column and every process keeps its type, and a run is running exactly   *)
(* while a lease is written on it.                                         *)
THEOREM DispatcherTypeCorrect ==
  ASSUME DispatchAssumption
  PROVE  Spec => [](TypeOK /\ LeaseMatchesState /\ Fresh)
<1>1. Init => Base
  <2> SUFFICES ASSUME Init PROVE Base
    OBVIOUS
  <2>1. TypeOKLedger /\ charges \in [Grants -> Int]
    <3>1. TypeOKLedger
      BY DEF Init, InitLedger, TypeOKLedger, RunStates
    <3>2. charges \in [Grants -> Int]
      BY DEF Init
    <3> QED BY <3>1, <3>2
  <2>2. Shape
    BY DEF Init, InitLedger, Shape, LeaseMatchesState, Fresh
  <2>3. TypeOKSchedule
    <3>1. waiting \in [Slots -> Seq(Runs)] /\ cost \in [Slots -> [Runs -> 0 .. CostCap]]
      BY DEF Init, DispatchAssumption
    <3> QED BY <3>1 DEF Init, TypeOKSchedule, Pcs
  <2> QED BY <2>1, <2>2, <2>3 DEF Base, TypeOK, TypeOKSchedule
<1>2. Base /\ [Next]_vars => Base'
  <2> SUFFICES ASSUME Base, [Next]_vars PROVE Base'
    OBVIOUS
  <2>1. TypeOKLedger' /\ charges' \in [Grants -> Int] /\ Shape'
    BY LedgerTyped, ShapeStep
  <2>2. TypeOKSchedule
    BY DEF Base, TypeOK, TypeOKSchedule
  <2>3. TypeOKSchedule'
    BY <2>2, ScheduleTyped
  <2> QED BY <2>1, <2>3 DEF Base, TypeOK, TypeOKSchedule
<1> QED BY <1>1, <1>2, PTL DEF Spec, Base, Shape

-----------------------------------------------------------------------------
(* Reservations.                                                           *)

(* What leaves a running run's grant: exactly its reservation. *)
LEMMA LeavesGrant ==
  ASSUME Base, NEW r \in Runs, runState[r] = "running", NEW paid \in Nat, NEW refund \in BOOLEAN,
         Reconcile(r, paid, refund), runState'[r] # "running",
         \A q \in Runs \ {r} : runState'[q] = runState[q] /\ runGrant'[q] = runGrant[q],
         NEW g \in Grants, Covered(g)
  PROVE  Covered(g)'
<1> TypeOKLedger
  BY DEF Base, TypeOK
<1>1. reserved' = [reserved EXCEPT ![runGrant[r]] = AtLeastZero(reserved[runGrant[r]] - Upper[r])]
  BY DEF Reconcile
<1>2. CASE g = runGrant[r]
  <2>1. RunningOn(g)' = RunningOn(g) \ {r} /\ {r} \in SUBSET RunningOn(g)
    BY <1>2 DEF RunningOn
  <2>2. reserved'[g] = AtLeastZero(reserved[g] - Cost({r}))
    BY <1>1, <1>2, CostOne DEF TypeOKLedger
  <2> QED BY <2>1, <2>2, CoveredReleased
<1>3. CASE g # runGrant[r]
  <2>1. RunningOn(g)' = RunningOn(g)
    BY <1>3 DEF RunningOn
  <2>2. reserved'[g] = reserved[g]
    BY <1>1, <1>3 DEF TypeOKLedger
  <2> QED BY <2>1, <2>2, CoveredKept
<1> QED BY <1>2, <1>3

ReservationInv == \A g \in Grants : Covered(g)

(* Every step of a process keeps every grant covered. *)
LEMMA ReservationStep ==
  ASSUME DispatchAssumption, Base, ReservationInv, [Next]_vars
  PROVE  ReservationInv'
<1> TypeOKLedger /\ TypeOK /\ Shape
  BY DEF Base, TypeOK
<1> SUFFICES ASSUME NEW g \in Grants PROVE Covered(g)'
  BY DEF ReservationInv
<1> Covered(g)
  BY DEF ReservationInv
<1> USE DEF runVars, decideVars, grantVars, worldVars, admitVars, holdVars
<1>k. ASSUME reserved'[g] = reserved[g], RunningOn(g)' = RunningOn(g) PROVE Covered(g)'
  BY <1>k, CoveredKept
<1>1. ASSUME ControlPlane PROVE Covered(g)'
  <2>1. /\ reserved' = reserved
        /\ RunningOn(g)' \subseteq RunningOn(g)
        /\ PluginRuns = {} => RunningOn(g)' = RunningOn(g)
    BY <1>1, ControlPlaneRunning DEF Shape
  <2> QED BY <2>1, CoveredKept
<1>2. ASSUME UNCHANGED ledgerVars \/ \E r \in Runs : Leases(r) PROVE Covered(g)'
  <2>1. reserved' = reserved /\ runState' = runState /\ runGrant' = runGrant
    BY <1>2 DEF ledgerVars, Leases
  <2> QED BY <2>1, <1>k DEF RunningOn
<1>3. ASSUME NEW p \in Slots, NEW r \in Runs, ClaimRefused(p, r) PROVE Covered(g)'
  <2>1. reserved' = reserved /\ RunningOn(g)' = RunningOn(g)
    BY <1>3 DEF ClaimRefused, Withdraw, RunningOn, TypeOKLedger
  <2> QED BY <2>1, <1>k
<1>4. ASSUME NEW p \in Slots, NEW r \in Runs, ClaimGranted(p, r) PROVE Covered(g)'
  <2>1. /\ runState[r] = "queued" /\ runState' = [runState EXCEPT ![r] = "running"]
        /\ runGrant' = runGrant
        /\ reserved' = [reserved EXCEPT ![runGrant[r]] = reserved[runGrant[r]] + Upper[r]]
    BY <1>4 DEF ClaimGranted
  <2>2. CASE g = runGrant[r]
    <3>1. RunningOn(g)' = RunningOn(g) \cup {r} /\ r \notin RunningOn(g)
      BY <2>1, <2>2 DEF RunningOn, TypeOKLedger
    <3>2. reserved'[g] = reserved[g] + Upper[r]
      BY <2>1, <2>2 DEF TypeOKLedger
    <3> QED BY <3>1, <3>2, CoveredClaimed
  <2>3. CASE g # runGrant[r]
    <3>1. RunningOn(g)' = RunningOn(g) /\ reserved'[g] = reserved[g]
      BY <2>1, <2>3 DEF RunningOn, TypeOKLedger
    <3> QED BY <3>1, <1>k
  <2> QED BY <2>2, <2>3
<1>5. ASSUME NEW r \in Runs, GivesBack(r) PROVE Covered(g)'
  <2>1. /\ runState[r] = "running" /\ Reconcile(r, 0, Refunds(r)) /\ Refunds(r) \in BOOLEAN
        /\ runState'[r] # "running"
        /\ \A q \in Runs \ {r} : runState'[q] = runState[q] /\ runGrant'[q] = runGrant[q]
    BY <1>5 DEF GivesBack, PauseForAuthority, Withdraw, Refunds
  <2> QED BY <2>1, LeavesGrant
<1>6. ASSUME NEW r \in Runs, NEW state \in SettledStates, NEW paid \in Nat, NEW refund \in BOOLEAN,
             Settles(r, state, paid, refund)
      PROVE  Covered(g)'
  <2>1. /\ runState[r] = "running" /\ Reconcile(r, paid, refund) /\ runState'[r] # "running"
        /\ \A q \in Runs \ {r} : runState'[q] = runState[q] /\ runGrant'[q] = runGrant[q]
    BY <1>6 DEF Settles, Close, Unlease, SettledStates, TypeOKLedger
  <2> QED BY <2>1, LeavesGrant
<1> HIDE DEF runVars, decideVars, grantVars, worldVars, admitVars, holdVars
<1> QED BY <1>1, <1>2, <1>3, <1>4, <1>5, <1>6, DispatchSteps

(* No grant is covered by less than the runs on it may cost, whichever     *)
(* process recovers, cancels or gives back a run.                          *)
THEOREM DispatcherReserves ==
  ASSUME DispatchAssumption
  PROVE  Spec => [](ReservationInv /\ ReservationCovers)
<1>1. Init => ReservationInv
  <2> SUFFICES ASSUME Init, NEW g \in Grants PROVE Covered(g)
    BY DEF ReservationInv
  <2>1. reserved[g] = 0 /\ RunningOn(g) = {}
    BY DEF Init, InitLedger, RunningOn
  <2> QED BY <2>1, CostEmpty DEF Covered
<1>2. Base /\ ReservationInv /\ [Next]_vars => ReservationInv'
  BY ReservationStep
<1>3. Spec => []Base
  BY DispatcherTypeCorrect, PTL DEF Base, Shape
<1>4. ReservationInv => ReservationCovers
  BY DEF ReservationInv, Covered, ReservationCovers
<1> QED BY <1>1, <1>2, <1>3, <1>4, PTL DEF Spec

-----------------------------------------------------------------------------
(* Charges and refunds.                                                    *)

(* The runs on a grant that are in their first attempt: the only ones that *)
(* a refund may still be given for.                                        *)
FirstOn(g) == {r \in RunningOn(g) : attempts[r] = 1}

(* The charge column counts the charges, and every first attempt under way *)
(* is among them.                                                          *)
RefundInv ==
  \A g \in Grants : usedRuns[g] = charges[g] /\ Cardinality(FirstOn(g)) <= usedRuns[g]

(* Fewer first attempts stay within the same number of charges. *)
LEMMA RefundKept ==
  ASSUME TypeOK, RefundInv, NEW g \in Grants, usedRuns'[g] = usedRuns[g], charges'[g] = charges[g],
         FirstOn(g)' \subseteq FirstOn(g)
  PROVE  usedRuns'[g] = charges'[g] /\ Cardinality(FirstOn(g)') <= usedRuns'[g]
<1> DEFINE A == FirstOn(g)
           B == FirstOn(g)'
<1>1. IsFiniteSet(A)
  BY RunsAssumption, FS_Subset DEF FirstOn, RunningOn
<1>2. B \in SUBSET A /\ Cardinality(A) <= usedRuns[g] /\ usedRuns[g] \in Nat /\ usedRuns[g] = charges[g]
  BY DEF RefundInv, TypeOK, TypeOKLedger
<1> HIDE DEF A, B
<1>3. Cardinality(B) <= Cardinality(A) /\ Cardinality(A) \in Nat /\ Cardinality(B) \in Nat
  BY <1>1, <1>2, FS_Subset, FS_CardinalityType
<1>4. Cardinality(B) <= usedRuns[g]
  BY <1>2, <1>3
<1> QED BY <1>2, <1>4 DEF B

(* A settlement refunds a charge only for a run in its first attempt, so   *)
(* the clamp at zero does not hide a refund without a charge.              *)
LEMMA RefundGiven ==
  ASSUME Base, RefundInv, NEW r \in Runs, runState[r] = "running", NEW paid \in Nat,
         NEW refund \in BOOLEAN, Reconcile(r, paid, refund), refund => attempts[r] = 1,
         runState'[r] # "running", attempts' = attempts,
         \A q \in Runs \ {r} : runState'[q] = runState[q] /\ runGrant'[q] = runGrant[q],
         NEW g \in Grants
  PROVE  usedRuns'[g] = charges'[g] /\ Cardinality(FirstOn(g)') <= usedRuns'[g]
<1> TypeOKLedger /\ TypeOK /\ runGrant[r] \in Grants
  BY DEF Base, TypeOK, Shape, LeaseMatchesState
<1> DEFINE h   == runGrant[r]
           one == IF refund THEN 1 ELSE 0
<1>1. /\ usedRuns' = [usedRuns EXCEPT ![h] = AtLeastZero(usedRuns[h] - one)]
      /\ charges' = [charges EXCEPT ![h] = charges[h] - one]
  BY DEF Reconcile
<1>2. FirstOn(g)' \subseteq FirstOn(g)
  BY DEF FirstOn, RunningOn
<1>3. /\ usedRuns \in [Grants -> Nat] /\ charges \in [Grants -> Int]
      /\ usedRuns[g] = charges[g] /\ Cardinality(FirstOn(g)) <= usedRuns[g]
  BY DEF RefundInv, TypeOK, TypeOKLedger
<1>4. CASE g # h
  <2>1. usedRuns'[g] = usedRuns[g] /\ charges'[g] = charges[g]
    BY <1>1, <1>3, <1>4
  <2> QED BY <1>2, <2>1, RefundKept
<1>5. CASE g = h /\ ~refund
  <2>1. usedRuns'[g] = usedRuns[g] /\ charges'[g] = charges[g]
    BY <1>1, <1>3, <1>5 DEF AtLeastZero
  <2> QED BY <1>2, <2>1, RefundKept
<1>6. CASE g = h /\ refund
  <2>1. r \in FirstOn(g) /\ FirstOn(g)' = FirstOn(g) \ {r}
    BY <1>6 DEF FirstOn, RunningOn
  <2>2. IsFiniteSet(FirstOn(g))
    BY RunsAssumption, FS_Subset DEF FirstOn, RunningOn
  <2>3. Cardinality(FirstOn(g) \ {r}) = Cardinality(FirstOn(g)) - 1
    BY <2>1, <2>2, FS_RemoveElement
  <2>4. Cardinality(FirstOn(g)) \in Nat /\ Cardinality(FirstOn(g) \ {r}) \in Nat
    BY <2>2, FS_CardinalityType, FS_RemoveElement
  <2>5. usedRuns'[g] = usedRuns[g] - 1 /\ charges'[g] = charges[g] - 1
    <3>1. usedRuns[g] - 1 >= 0
      BY <1>3, <2>3, <2>4
    <3> QED BY <1>1, <1>3, <1>6, <3>1 DEF AtLeastZero
  <2> QED BY <1>3, <2>1, <2>3, <2>4, <2>5
<1> QED BY <1>4, <1>5, <1>6

(* Every step keeps charges and refunds matched. *)
LEMMA RefundStep ==
  ASSUME DispatchAssumption, Base, RefundInv, [Next]_vars
  PROVE  RefundInv'
<1> TypeOKLedger /\ TypeOK /\ Shape
  BY DEF Base, TypeOK
<1> SUFFICES ASSUME NEW g \in Grants
             PROVE  usedRuns'[g] = charges'[g] /\ Cardinality(FirstOn(g)') <= usedRuns'[g]
  BY DEF RefundInv
<1> DEFINE Goal == usedRuns'[g] = charges'[g] /\ Cardinality(FirstOn(g)') <= usedRuns'[g]
<1> USE DEF runVars, decideVars, grantVars, worldVars, admitVars, holdVars
<1>1. ASSUME ControlPlane, UNCHANGED charges PROVE Goal
  <2>1. RunningOn(g)' \subseteq RunningOn(g)
    BY <1>1, ControlPlaneRunning DEF Shape
  <2>2. \A r \in Runs : UNCHANGED <<attempts, usedRuns>>
    BY <1>1, ControlPlaneOnRun DEF Shape
  <2>3. UNCHANGED usedRuns
    BY <1>1 DEF ControlPlane, CreateGrant, Lapse, RevokeGrant, BeginCreateRun, CommitCreateRun,
       RejectRun, RejectRunGroup, Refuse, CancelRun, ApproveRun, ApproveRunGroup, Authorise,
       SwapChannel, BeginHold, EndHold, EnablePlugin
  <2>4. FirstOn(g)' \subseteq FirstOn(g)
    BY <2>1, <2>2 DEF FirstOn, RunningOn
  <2> QED BY <1>1, <2>3, <2>4, RefundKept
<1>2. ASSUME UNCHANGED <<ledgerVars, charges>> \/ \E r \in Runs : Leases(r) PROVE Goal
  <2>1. UNCHANGED <<usedRuns, charges, runState, runGrant, attempts>>
    BY <1>2 DEF ledgerVars, Leases
  <2>2. FirstOn(g)' = FirstOn(g)
    BY <2>1 DEF FirstOn, RunningOn
  <2> QED BY <2>1, <2>2, RefundKept
<1>3. ASSUME NEW p \in Slots, NEW r \in Runs, ClaimRefused(p, r) PROVE Goal
  <2>1. UNCHANGED <<usedRuns, charges>>
    BY <1>3 DEF ClaimRefused
  <2>2. FirstOn(g)' \subseteq FirstOn(g)
    BY <1>3 DEF ClaimRefused, Withdraw, FirstOn, RunningOn, TypeOKLedger
  <2> QED BY <2>1, <2>2, RefundKept
<1>4. ASSUME NEW p \in Slots, NEW r \in Runs, ClaimGranted(p, r) PROVE Goal
  <2> DEFINE h   == runGrant[r]
             one == IF attempts[r] = 0 THEN 1 ELSE 0
  <2>1. /\ h \in Grants /\ one \in {0, 1} /\ usedRuns[h] \in Nat /\ charges[h] \in Int
        /\ usedRuns' = [usedRuns EXCEPT ![h] = usedRuns[h] + one]
        /\ charges' = [charges EXCEPT ![h] = charges[h] + (usedRuns[h] + one) - usedRuns[h]]
        /\ attempts' = [attempts EXCEPT ![r] = attempts[r] + 1]
        /\ runState' = [runState EXCEPT ![r] = "running"] /\ runGrant' = runGrant
        /\ runState[r] = "queued"
    BY <1>4 DEF ClaimGranted, TypeOK, TypeOKLedger
  <2>a. /\ attempts \in [Runs -> Nat] /\ runState \in [Runs -> RunStates]
        /\ usedRuns \in [Grants -> Nat] /\ charges \in [Grants -> Int]
        /\ usedRuns[g] = charges[g] /\ Cardinality(FirstOn(g)) <= usedRuns[g]
    BY DEF TypeOK, TypeOKLedger, RefundInv
  <2>2. CASE g # h
    <3>1. usedRuns'[g] = usedRuns[g] /\ charges'[g] = charges[g]
      BY <2>1, <2>2, <2>a
    <3>2. FirstOn(g)' \subseteq FirstOn(g)
      BY <2>1, <2>2, <2>a DEF FirstOn, RunningOn
    <3> QED BY <3>1, <3>2, RefundKept
  <2>3. CASE g = h /\ attempts[r] # 0
    <3>1. usedRuns'[g] = usedRuns[g] /\ charges'[g] = charges[g]
      BY <2>1, <2>3, <2>a
    <3>2. attempts'[r] # 1
      BY <2>1, <2>3, <2>a
    <3>3. FirstOn(g)' \subseteq FirstOn(g)
      BY <2>1, <2>a, <3>2 DEF FirstOn, RunningOn
    <3> QED BY <3>1, <3>3, RefundKept
  <2>4. CASE g = h /\ attempts[r] = 0
    <3>1. r \notin FirstOn(g) /\ FirstOn(g)' = FirstOn(g) \cup {r}
      BY <2>1, <2>4, <2>a DEF FirstOn, RunningOn
    <3>2. IsFiniteSet(FirstOn(g))
      BY RunsAssumption, FS_Subset DEF FirstOn, RunningOn
    <3>3. Cardinality(FirstOn(g) \cup {r}) = Cardinality(FirstOn(g)) + 1 /\ Cardinality(FirstOn(g)) \in Nat
      BY <3>1, <3>2, FS_AddElement, FS_CardinalityType
    <3>4. usedRuns'[g] = usedRuns[g] + 1 /\ charges'[g] = charges[g] + 1
      BY <2>1, <2>4, <2>a
    <3> QED BY <2>a, <3>1, <3>3, <3>4
  <2> QED BY <2>2, <2>3, <2>4
<1>5. ASSUME NEW r \in Runs, GivesBack(r) PROVE Goal
  <2>1. /\ runState[r] = "running" /\ Reconcile(r, 0, Refunds(r)) /\ Refunds(r) \in BOOLEAN
        /\ runState'[r] # "running" /\ attempts' = attempts /\ (Refunds(r) => attempts[r] = 1)
        /\ \A q \in Runs \ {r} : runState'[q] = runState[q] /\ runGrant'[q] = runGrant[q]
    BY <1>5 DEF GivesBack, PauseForAuthority, Withdraw, Refunds
  <2> QED BY <2>1, RefundGiven
<1>6. ASSUME NEW r \in Runs, NEW state \in SettledStates, NEW paid \in Nat, NEW refund \in BOOLEAN,
             Settles(r, state, paid, refund)
      PROVE  Goal
  <2>1. /\ runState[r] = "running" /\ Reconcile(r, paid, refund) /\ runState'[r] # "running"
        /\ attempts' = attempts /\ (refund => attempts[r] = 1)
        /\ \A q \in Runs \ {r} : runState'[q] = runState[q] /\ runGrant'[q] = runGrant[q]
    BY <1>6 DEF Settles, Close, Unlease, SettledStates, TypeOKLedger
  <2> QED BY <2>1, RefundGiven
<1> HIDE DEF Goal, runVars, decideVars, grantVars, worldVars, admitVars, holdVars
<1>7. Goal
  BY <1>1, <1>2, <1>3, <1>4, <1>5, <1>6, DispatchSteps
<1> QED BY <1>7 DEF Goal

(* usedRuns counts the charged runs, on every interleaving of claims,      *)
(* refunds, recoveries and re-approvals, Plugin holds included.            *)
THEOREM RefundsMatchCharges ==
  ASSUME DispatchAssumption
  PROVE  Spec => []RefundMatchesCharge
<1>1. Init => RefundInv
  <2> SUFFICES ASSUME Init, NEW g \in Grants
               PROVE  usedRuns[g] = charges[g] /\ Cardinality(FirstOn(g)) <= usedRuns[g]
    BY DEF RefundInv
  <2>1. usedRuns[g] = 0 /\ charges[g] = 0 /\ FirstOn(g) = {}
    BY DEF Init, InitLedger, FirstOn, RunningOn
  <2> QED BY <2>1, FS_EmptySet
<1>2. Base /\ RefundInv /\ [Next]_vars => RefundInv'
  BY RefundStep
<1>3. Spec => []Base
  BY DispatcherTypeCorrect, PTL DEF Base, Shape
<1>4. RefundInv => RefundMatchesCharge
  BY DEF RefundInv, RefundMatchesCharge
<1> QED BY <1>1, <1>2, <1>3, <1>4, PTL DEF Spec

-----------------------------------------------------------------------------
(* Ends, decisions and revocation.                                         *)

DecidedInv == \A r \in Runs \ PluginRuns : Decided(r)

(* A process publishes a run once, under its own lease and only if nobody  *)
(* asked it to stop.                                                       *)
LEMMA DecidedStep ==
  ASSUME DispatchAssumption, Base, DecidedInv, [Next]_vars
  PROVE  DecidedInv'
<1> TypeOKLedger /\ TypeOK /\ Shape
  BY DEF Base, TypeOK
<1> SUFFICES ASSUME NEW q \in Runs \ PluginRuns PROVE Decided(q)'
  BY DEF DecidedInv
<1> Decided(q)
  BY DEF DecidedInv
<1> USE DEF runVars, decideVars, grantVars, worldVars, admitVars, holdVars
<1>1. ASSUME ControlPlane PROVE Decided(q)'
  BY <1>1, ControlPlaneOnRun DEF Shape
<1>2. ASSUME UNCHANGED ledgerVars \/ \E r \in Runs : Leases(r) PROVE Decided(q)'
  <2>1. UNCHANGED <<runState, outcome, cancelRequested, approval>>
    BY <1>2 DEF ledgerVars, Leases
  <2> QED BY <2>1 DEF Decided
<1>3. ASSUME NEW p \in Slots, NEW r \in Runs, ClaimRefused(p, r) PROVE Decided(q)'
  BY <1>3 DEF ClaimRefused, Withdraw, Decided, TypeOKLedger
<1>4. ASSUME NEW p \in Slots, NEW r \in Runs, ClaimGranted(p, r) PROVE Decided(q)'
  BY <1>4 DEF ClaimGranted, Decided, TypeOKLedger
<1>5. ASSUME NEW r \in Runs, GivesBack(r) PROVE Decided(q)'
  BY <1>5 DEF GivesBack, PauseForAuthority, Withdraw, Decided, TypeOKLedger
<1>6. ASSUME NEW r \in Runs, NEW state \in SettledStates, NEW paid \in Nat, NEW refund \in BOOLEAN,
             Settles(r, state, paid, refund)
      PROVE  Decided(q)'
  BY <1>6 DEF Settles, SettledStates, Close, Unlease, Decided, TypeOKLedger
<1> HIDE DEF runVars, decideVars, grantVars, worldVars, admitVars, holdVars
<1> QED BY <1>1, <1>2, <1>3, <1>4, <1>5, <1>6, DispatchSteps

(* Two backend processes that run and recover the same rows never publish  *)
(* a run twice or against a cancellation, and never lose or invent an      *)
(* approval request.                                                       *)
THEOREM DispatcherDecisions ==
  ASSUME DispatchAssumption, PluginRuns = {}
  PROVE  Spec => [](OutcomeMatchesState /\ DecisionsStand)
<1>1. Init => DecidedInv
  BY DEF Init, InitLedger, DecidedInv, Decided
<1>2. Base /\ DecidedInv /\ [Next]_vars => DecidedInv'
  BY DecidedStep
<1>3. Spec => []Base
  BY DispatcherTypeCorrect, PTL DEF Base, Shape
<1>4. DecidedInv => OutcomeMatchesState /\ DecisionsStand
  BY DEF DecidedInv, Decided, OutcomeMatchesState, DecisionsStand, CancelledNeverSucceeds,
         AwaitingIsPending
<1> QED BY <1>1, <1>2, <1>3, <1>4, PTL DEF Spec

(* A reconciliation never turns a live grant into a revoked one. *)
LEMMA ReconcileRevokes ==
  ASSUME Base, NEW r \in Runs, NEW paid \in Nat, NEW refund \in BOOLEAN, Reconcile(r, paid, refund)
  PROVE  \A g \in Grants : grantState'[g] = "revoked" => grantState[g] = "revoked"
BY DEF Base, TypeOK, TypeOKLedger, Reconcile, GrantStatus

(* No claim commits under a revoked grant, and nothing takes a stop        *)
(* request back.                                                           *)
LEMMA RevokedStep ==
  ASSUME DispatchAssumption, Base, RevokedWorkIsStopping, [Next]_vars
  PROVE  RevokedWorkIsStopping'
<1> TypeOKLedger /\ TypeOK /\ Shape
  BY DEF Base, TypeOK
<1> USE DEF runVars, decideVars, grantVars, worldVars, admitVars, holdVars
<1>1. ASSUME ControlPlane PROVE RevokedWorkIsStopping'
  BY <1>1, ControlPlaneRevoked DEF Shape
<1>2. ASSUME UNCHANGED ledgerVars \/ \E r \in Runs : Leases(r) PROVE RevokedWorkIsStopping'
  <2>1. UNCHANGED <<runState, runGrant, cancelRequested, grantState>>
    BY <1>2 DEF ledgerVars, Leases
  <2> QED BY <2>1 DEF RevokedWorkIsStopping, RunningOn
<1>3. ASSUME NEW p \in Slots, NEW r \in Runs, ClaimRefused(p, r) PROVE RevokedWorkIsStopping'
  BY <1>3 DEF ClaimRefused, Withdraw, RevokedWorkIsStopping, RunningOn, TypeOKLedger
<1>4. ASSUME NEW p \in Slots, NEW r \in Runs, ClaimGranted(p, r) PROVE RevokedWorkIsStopping'
  <2>1. grantState[runGrant[r]] # "revoked"
    BY <1>4 DEF ClaimGranted, ClaimBlocked
  <2>2. \A g \in Grants : grantState'[g] = "revoked" => grantState[g] = "revoked" /\ g # runGrant[r]
    BY <1>4, <2>1 DEF ClaimGranted, TypeOKLedger
  <2> QED BY <1>4, <2>2 DEF ClaimGranted, RevokedWorkIsStopping, RunningOn, TypeOKLedger
<1>5. ASSUME NEW r \in Runs, GivesBack(r) PROVE RevokedWorkIsStopping'
  <2>1. \A g \in Grants : grantState'[g] = "revoked" => grantState[g] = "revoked"
    BY <1>5, ReconcileRevokes DEF GivesBack, PauseForAuthority, Refunds
  <2> QED BY <1>5, <2>1 DEF GivesBack, PauseForAuthority, Withdraw, RevokedWorkIsStopping,
                            RunningOn, TypeOKLedger
<1>6. ASSUME NEW r \in Runs, NEW state \in SettledStates, NEW paid \in Nat, NEW refund \in BOOLEAN,
             Settles(r, state, paid, refund)
      PROVE  RevokedWorkIsStopping'
  <2>1. \A g \in Grants : grantState'[g] = "revoked" => grantState[g] = "revoked"
    BY <1>6, ReconcileRevokes DEF Settles, Close
  <2> QED BY <1>6, <2>1 DEF Settles, SettledStates, Close, Unlease, RevokedWorkIsStopping,
                            RunningOn, TypeOKLedger
<1> HIDE DEF runVars, decideVars, grantVars, worldVars, admitVars, holdVars
<1> QED BY <1>1, <1>2, <1>3, <1>4, <1>5, <1>6, DispatchSteps

(* A revocation reaches the runs of every backend process, with Plugin     *)
(* holds too.                                                              *)
THEOREM DispatcherRevocation ==
  ASSUME DispatchAssumption
  PROVE  Spec => []RevokedWorkIsStopping
<1>1. Init => RevokedWorkIsStopping
  BY DEF Init, InitLedger, RevokedWorkIsStopping
<1>2. Base /\ RevokedWorkIsStopping /\ [Next]_vars => RevokedWorkIsStopping'
  BY RevokedStep
<1>3. Spec => []Base
  BY DispatcherTypeCorrect, PTL DEF Base, Shape
<1> QED BY <1>1, <1>2, <1>3, PTL DEF Spec

(* Backend processes that recover each other's runs keep the ledger exact, *)
(* for every number of processes, crashes and transactions that throw.     *)
THEOREM DispatcherLedger ==
  ASSUME DispatchAssumption, PluginRuns = {}
  PROVE  Spec => []DispatcherKeepsLedger
<1>1. ReservationInv => ReservationExact
  BY DEF ReservationInv, Covered, ReservationExact
<1> QED BY <1>1, DispatcherReserves, RefundsMatchCharges, DispatcherDecisions, DispatcherRevocation,
           PTL DEF DispatcherKeepsLedger
=============================================================================
