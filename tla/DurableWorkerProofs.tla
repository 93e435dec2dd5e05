------------------------- MODULE DurableWorkerProofs -------------------------
(***************************************************************************)
(* Machine-checked proofs about DurableWorker, for every value of its      *)
(* constants: any number of runs, grants, releases, slots and daemons, any *)
(* budgets and estimates, any number of crashes, faults and pointer moves. *)
(***************************************************************************)
EXTENDS DurableWorker, ExecutionAuthorityProofs

-----------------------------------------------------------------------------
(* Type correctness.                                                       *)

(* Settling an attempt keeps the ledger's types, whatever the cost. *)
LEMMA SettleType ==
  ASSUME TypeOKLedger, NEW r \in Runs, NEW state \in RunStates, NEW cost \in Nat,
         Settle(r, state, cost), outcome' \in [Runs -> Nat]
  PROVE  TypeOKLedger'
<1> DEFINE g == runGrant[r]
           held == AtLeastZero(reserved[g] - Upper[r])
<1>1. g \in Grants => held \in Nat /\ spent[g] + cost \in Nat
  BY CostAssumption DEF TypeOKLedger, AtLeastZero
<1>2. g \in Grants => GrantStatus(g, usedRuns[g], spent[g] + cost + held)
                       \in {"none", "active", "revoked", "exhausted"}
  BY DEF TypeOKLedger, GrantStatus
<1> HIDE DEF held
<1>3. /\ reserved' = [reserved EXCEPT ![g] = held]
      /\ spent' = [spent EXCEPT ![g] = spent[g] + cost]
      /\ grantState' = [grantState EXCEPT ![g] = GrantStatus(g, usedRuns[g], spent[g] + cost + held)]
  BY DEF Settle, held
<1>4. reserved' \in [Grants -> Nat] /\ spent' \in [Grants -> Nat]
  BY <1>1, <1>3 DEF TypeOKLedger
<1>5. grantState' \in [Grants -> {"none", "active", "revoked", "exhausted"}]
  BY <1>2, <1>3 DEF TypeOKLedger
<1> QED
  BY <1>4, <1>5 DEF Settle, TypeOKLedger, decideVars, worldVars, admitVars, holdVars

(* A slot's bookkeeping keeps the slot variables typed. *)
LEMMA DiscardType ==
  ASSUME TypeOKWorker, NEW s \in Slots, Discard(s)
  PROVE  /\ slotPc' \in [Slots -> Pcs]
         /\ slotRun' \in [Slots -> Runs \cup {Nil}]
         /\ slotEpoch' \in [Slots -> Nat]
         /\ slotSignal' \in [Slots -> Signals]
         /\ slotCost' \in [Slots -> Nat]
BY DEF TypeOKWorker, Discard, Pcs, Signals

(* The catch block of a slot keeps the types of the slot (execute).        *)
LEMMA ThrowType ==
  ASSUME TypeOKWorker, NEW s \in Slots, NEW signal \in Signals, NEW cost \in Nat,
         Throw(s, signal, cost)
  PROVE  /\ slotPc' \in [Slots -> Pcs]
         /\ slotRun' \in [Slots -> Runs \cup {Nil}]
         /\ slotEpoch' \in [Slots -> Nat]
         /\ slotSignal' \in [Slots -> Signals]
         /\ slotCost' \in [Slots -> Nat]
BY DEF TypeOKWorker, Throw, Pcs

(* A slot that is not idle executes a run. *)
SlotBusy == \A s \in Slots : slotPc[s] # "idle" => slotRun[s] \in Runs

Typed == TypeOK /\ SlotBusy

(* The step that ends a slot's work by settling its run. *)
LEMMA SettleTyped ==
  ASSUME Typed, NEW s \in Slots, slotPc[s] # "idle", NEW state \in RunStates,
         Settle(slotRun[s], state, slotCost[s]), Discard(s), outcome' \in [Runs -> Nat]
  PROVE  Typed'
<1>1. slotRun[s] \in Runs /\ slotCost[s] \in Nat
  BY DEF Typed, TypeOK, TypeOKWorker, SlotBusy
<1>2. TypeOKLedger'
  BY <1>1, SettleType DEF Typed, TypeOK
<1>3. TypeOKWorker'
  BY DiscardType DEF Typed, TypeOK, TypeOKWorker, Settle, procVars, pluginVars
<1>4. SlotBusy'
  BY DEF SlotBusy, Discard, Typed, TypeOK, TypeOKWorker
<1> QED BY <1>2, <1>3, <1>4 DEF Typed, TypeOK

(* A step that only moves a slot and leaves the ledger's types alone. *)
LEMMA DiscardTyped ==
  ASSUME Typed, NEW s \in Slots, Discard(s), TypeOKLedger', UNCHANGED <<procVars, pluginVars>>
  PROVE  Typed'
<1>1. TypeOKWorker'
  BY DiscardType DEF Typed, TypeOK, TypeOKWorker, procVars, pluginVars
<1>2. SlotBusy'
  BY DEF SlotBusy, Discard, Typed, TypeOK, TypeOKWorker
<1> QED BY <1>1, <1>2 DEF Typed, TypeOK

(* It also keeps the whole type invariant, when its store call did.        *)
LEMMA ThrowTyped ==
  ASSUME Typed, NEW s \in Slots, slotPc[s] # "idle", NEW signal \in Signals, NEW cost \in Nat,
         Throw(s, signal, cost), TypeOKLedger', UNCHANGED <<up, halts, effects>>, faults' \in Nat,
         ledger' \in [Runs -> {"none", "begun", "succeeded", "cancelled", "failed"}]
  PROVE  Typed'
<1>1. TypeOKWorker'
  BY ThrowType DEF Typed, TypeOK, TypeOKWorker
<1>2. SlotBusy'
  BY DEF SlotBusy, Throw, Typed, TypeOK, TypeOKWorker
<1> QED BY <1>1, <1>2 DEF Typed, TypeOK

(* Claims keep the types. *)
LEMMA ClaimTyped ==
  ASSUME Typed, NEW s \in Slots, Claim(s)
  PROVE  Typed'
<1> USE DEF runVars, decideVars, grantVars, worldVars, admitVars, holdVars, slotVars, procVars,
            pluginVars, Typed, TypeOK
<1> PICK r \in Runs : ClaimRefused(s, r) \/ ClaimOverBudget(s, r) \/ ClaimGranted(s, r)
  BY DEF Claim
<1>1. CASE ClaimRefused(s, r)
  <2>1. TypeOKLedger'
    BY <1>1 DEF ClaimRefused, Withdraw, TypeOKLedger, RunStates
  <2> QED BY <1>1, <2>1 DEF ClaimRefused, TypeOKWorker, SlotBusy
<1>2. CASE ClaimOverBudget(s, r)
  <2>1. TypeOKLedger'
    BY <1>2 DEF ClaimOverBudget, TypeOKLedger, RunStates
  <2> QED BY <1>2, <2>1 DEF ClaimOverBudget, TypeOKWorker, SlotBusy
<1>3. CASE ClaimGranted(s, r)
  <2>1. runGrant[r] \in Grants
    BY <1>3 DEF ClaimGranted, Claimable
  <2>2. /\ usedRuns' \in [Grants -> Nat]
        /\ reserved' \in [Grants -> Nat]
        /\ grantState' \in [Grants -> {"none", "active", "revoked", "exhausted"}]
        /\ chargedRuns' \in [Grants -> SUBSET Runs]
        /\ spent' = spent
    <3>1. usedRuns[runGrant[r]] \in Nat /\ reserved[runGrant[r]] \in Nat /\ Upper[r] \in Nat
      BY <2>1, CostAssumption DEF TypeOKLedger
    <3>2. Reserve(r, runGrant[r])
      BY <1>3 DEF ClaimGranted
    <3>3. usedRuns' \in [Grants -> Nat]
      BY <2>1, <3>1, <3>2 DEF Reserve, RunCharge, TypeOKLedger
    <3>4. reserved' \in [Grants -> Nat]
      BY <2>1, <3>1, <3>2 DEF Reserve, Reservation, TypeOKLedger
    <3>5. grantState' \in [Grants -> {"none", "active", "revoked", "exhausted"}]
      BY <2>1, <3>2 DEF Reserve, TypeOKLedger
    <3>6. chargedRuns' \in [Grants -> SUBSET Runs]
      BY <2>1, <3>2 DEF Reserve, TypeOKLedger
    <3> QED BY <3>2, <3>3, <3>4, <3>5, <3>6 DEF Reserve
  <2>3. TypeOKLedger'
    BY <1>3, <2>2 DEF ClaimGranted, TypeOKLedger, RunStates
  <2>4. TypeOKWorker'
    BY <1>3 DEF ClaimGranted, TypeOKWorker, TypeOKLedger, Pcs
  <2>5. SlotBusy'
    BY <1>3 DEF ClaimGranted, SlotBusy, TypeOKWorker
  <2> QED BY <2>3, <2>4, <2>5
<1> QED BY <1>1, <1>2, <1>3

(* The steps of execute(), of its catch block and of the heartbeat keep    *)
(* the types.                                                              *)
LEMMA WorkTyped ==
  ASSUME Typed, NEW s \in Slots, Work(s) \/ Heartbeat(s)
  PROVE  Typed'
<1> USE DEF runVars, decideVars, grantVars, worldVars, admitVars, holdVars, ledgerVars, slotVars,
            procVars, pluginVars
<1> DEFINE r == slotRun[s]
<1>r. slotPc[s] # "idle" => slotRun[s] \in Runs
  BY DEF Typed, SlotBusy
<1>c. slotCost[s] \in Nat /\ \A c \in slotCost[s] .. CostCap : c \in Nat
  BY FaultAssumption DEF Typed, TypeOK, TypeOKWorker
<1>l. ASSUME UNCHANGED ledgerVars PROVE TypeOKLedger'
  BY <1>l DEF Typed, TypeOK, TypeOKLedger
<1>n. ASSUME Renew(r) PROVE TypeOKLedger' /\ UNCHANGED <<procVars, pluginVars>>
  BY <1>n DEF Renew, Typed, TypeOK, TypeOKLedger
<1>w. UNCHANGED <<procVars, pluginVars>> =>
        /\ UNCHANGED <<up, halts, effects>> /\ faults' \in Nat
        /\ ledger' \in [Runs -> {"none", "begun", "succeeded", "cancelled", "failed"}]
  BY DEF Typed, TypeOK, TypeOKWorker
<1>1. CASE InitialHeartbeat(s)
  <2>1. CASE ~Owns(s, r)
    BY <1>1, <2>1, <1>l, DiscardTyped DEF InitialHeartbeat
  <2>2. CASE Owns(s, r) /\ (cancelRequested[r] \/ AuthorityLost(s, r))
    <3>1. Renew(r) /\ Throw(s, "cancelled", 0) /\ slotPc[s] # "idle"
      BY <1>1, <2>2 DEF InitialHeartbeat
    <3> QED BY <3>1, <1>n, <1>w, ThrowTyped DEF Signals
  <2>3. CASE Owns(s, r) /\ ~(cancelRequested[r] \/ AuthorityLost(s, r))
    <3>1. Renew(r) /\ Goto(s, FirstStage(r)) /\ slotPc[s] # "idle"
      BY <1>1, <2>3 DEF InitialHeartbeat
    <3> QED BY <3>1, <1>n, <1>r DEF Goto, FirstStage, Typed, TypeOK, TypeOKWorker, SlotBusy, Pcs
  <2> QED BY <2>1, <2>2, <2>3
<1>2. CASE BeginInvocation(s)
  <2>1. TypeOKLedger'
    BY <1>2, <1>l DEF BeginInvocation
  <2> QED BY <1>2, <1>r, <2>1 DEF BeginInvocation, Goto, Typed, TypeOK, TypeOKWorker, SlotBusy, Pcs
<1>3. CASE RefuseInvocation(s)
  <2>1. TypeOKLedger' /\ slotPc[s] # "idle" /\ UNCHANGED <<procVars, pluginVars>>
    BY <1>3, <1>l DEF RefuseInvocation
  <2>2. CASE Owns(s, r)
    <3>1. PICK sig \in PlanSignals(s, r) : Throw(s, sig, 0)
      BY <1>3, <2>2 DEF RefuseInvocation
    <3>2. sig \in Signals
      BY DEF PlanSignals, Signals
    <3> QED BY <2>1, <3>1, <3>2, <1>w, ThrowTyped
  <2>3. CASE ~Owns(s, r)
    BY <1>3, <2>1, <2>3, DiscardTyped DEF RefuseInvocation
  <2> QED BY <2>2, <2>3
<1>4. CASE CallPlugin(s)
  <2>1. TypeOKLedger'
    BY <1>4, <1>l DEF CallPlugin
  <2> QED BY <1>4, <1>r, <2>1 DEF CallPlugin, Goto, Typed, TypeOK, TypeOKWorker, SlotBusy, Pcs
<1>5. CASE ReturnInvocation(s)
  <2>1. TypeOKLedger'
    BY <1>5, <1>l DEF ReturnInvocation
  <2>2. TypeOKWorker'
    <3>1. PICK c \in 0 .. CostCap : slotCost' = [slotCost EXCEPT ![s] = c]
      BY <1>5 DEF ReturnInvocation
    <3>2. slotCost' \in [Slots -> Nat]
      BY <3>1, FaultAssumption DEF Typed, TypeOK, TypeOKWorker
    <3>3. ledger' \in [Runs -> {"none", "begun", "succeeded", "cancelled", "failed"}]
      BY <1>5 DEF ReturnInvocation, Typed, TypeOK, TypeOKWorker
    <3> QED BY <1>5, <3>2, <3>3 DEF ReturnInvocation, Typed, TypeOK, TypeOKWorker, Pcs
  <2>3. SlotBusy'
    BY <1>5, <1>r DEF ReturnInvocation, Typed, TypeOK, TypeOKWorker, SlotBusy
  <2> QED BY <2>1, <2>2, <2>3 DEF Typed, TypeOK
<1>6. CASE AbortInvocation(s)
  <2>1. /\ TypeOKLedger' /\ slotPc[s] # "idle" /\ UNCHANGED <<up, halts, effects>>
        /\ faults' \in Nat
        /\ ledger' \in [Runs -> {"none", "begun", "succeeded", "cancelled", "failed"}]
    BY <1>6, <1>l DEF AbortInvocation, Typed, TypeOK, TypeOKWorker
  <2>2. CASE Owns(s, r)
    <3>1. PICK sig \in PlanSignals(s, r) : Throw(s, sig, 0)
      BY <1>6, <2>2 DEF AbortInvocation
    <3>2. sig \in Signals
      BY DEF PlanSignals, Signals
    <3> QED BY <2>1, <3>1, <3>2, ThrowTyped
  <2>3. CASE ~Owns(s, r)
    <3>1. Discard(s)
      BY <1>6, <2>3 DEF AbortInvocation
    <3>2. TypeOKWorker'
      BY <2>1, <3>1, DiscardType DEF Typed, TypeOK, TypeOKWorker
    <3>3. SlotBusy'
      BY <3>1 DEF SlotBusy, Discard, Typed, TypeOK, TypeOKWorker
    <3> QED BY <2>1, <3>2, <3>3 DEF Typed, TypeOK
  <2> QED BY <2>2, <2>3
<1>7. CASE ModelFinished(s)
  <2>1. TypeOKLedger'
    BY <1>7, <1>l DEF ModelFinished
  <2>2. TypeOKWorker'
    BY <1>7, <1>c DEF ModelFinished, Typed, TypeOK, TypeOKWorker, Pcs
  <2>3. SlotBusy'
    BY <1>7, <1>r DEF ModelFinished, Typed, TypeOK, TypeOKWorker, SlotBusy
  <2> QED BY <2>1, <2>2, <2>3 DEF Typed, TypeOK
<1>8. CASE ModelFault(s)
  <2>1. PICK sig \in {"retryable", "final"}, c \in slotCost[s] .. CostCap : Throw(s, sig, c)
    BY <1>8 DEF ModelFault
  <2>2. TypeOKLedger' /\ slotPc[s] # "idle" /\ UNCHANGED <<procVars, pluginVars>>
    BY <1>8, <1>l DEF ModelFault
  <2>3. sig \in Signals /\ c \in Nat
    BY <1>c DEF Signals
  <2> QED BY <2>1, <2>2, <2>3, <1>w, ThrowTyped
<1>9. CASE Complete(s)
  <2>1. slotPc[s] # "idle"
    BY <1>9 DEF Complete
  <2>2. CASE CompletionCancels(s, r)
    <3>1. Settle(r, "cancelled", slotCost[s]) /\ Discard(s) /\ UNCHANGED outcome
      BY <1>9, <2>2 DEF Complete
    <3>2. outcome' \in [Runs -> Nat]
      BY <3>1 DEF Typed, TypeOK, TypeOKLedger
    <3> QED BY <2>1, <3>1, <3>2, SettleTyped DEF RunStates
  <2>3. CASE ~CompletionCancels(s, r) /\ CompletionThrows(s, r)
    <3>1. Throw(s, "retryable", slotCost[s]) /\ UNCHANGED <<ledgerVars, procVars, pluginVars>>
      BY <1>9, <2>3 DEF Complete
    <3> QED BY <2>1, <3>1, <1>l, <1>w, <1>c, ThrowTyped DEF Signals
  <2>4. CASE ~CompletionCancels(s, r) /\ ~CompletionThrows(s, r)
    <3>1. Publish(s, r)
      BY <1>9, <2>4 DEF Complete
    <3>2. outcome' \in [Runs -> Nat]
      BY <2>1, <3>1, <1>r DEF Publish, Typed, TypeOK, TypeOKLedger
    <3> QED BY <2>1, <3>1, <3>2, SettleTyped DEF Publish, RunStates
  <2> QED BY <2>2, <2>3, <2>4
<1>10. ASSUME slotPc[s] # "idle", NEW state \in RunStates, Disposes(s, r, state) PROVE Typed'
  <2>1. Settle(r, IF cancelRequested[r] THEN "cancelled" ELSE state, slotCost[s]) /\ Discard(s)
    BY <1>10 DEF Disposes
  <2>2. outcome' \in [Runs -> Nat]
    BY <1>10 DEF Disposes, Typed, TypeOK, TypeOKLedger
  <2>3. (IF cancelRequested[r] THEN "cancelled" ELSE state) \in RunStates
    BY DEF RunStates
  <2> QED BY <1>10, <2>1, <2>2, <2>3, SettleTyped
<1>11. CASE CancelClaimed(s)
  BY <1>10, <1>11 DEF CancelClaimed, RunStates
<1>12. CASE PauseForPlugin(s)
  BY <1>10, <1>12 DEF PauseForPlugin, RunStates
<1>13. CASE FailOrRetry(s)
  <2>1. (IF slotSignal[s] = "retryable" /\ Retriable(r) THEN "queued" ELSE "failed") \in RunStates
    BY DEF RunStates
  <2> QED BY <1>10, <1>13, <2>1 DEF FailOrRetry
<1>14. CASE LeaseLost(s)
  BY <1>14, <1>l, DiscardTyped DEF LeaseLost
<1>15. CASE Heartbeat(s)
  <2>1. slotPc[s] # "idle"
    BY <1>15 DEF Heartbeat
  <2>2. CASE ~Owns(s, r)
    BY <1>15, <2>2, <1>l, DiscardTyped DEF Heartbeat
  <2>3. CASE Owns(s, r) /\ slotPc[s] = "streaming" /\ (cancelRequested[r] \/ AuthorityLost(s, r))
    <3>1. Renew(r)
      BY <1>15, <2>3 DEF Heartbeat
    <3>2. PICK c \in slotCost[s] .. CostCap : Throw(s, "cancelled", c)
      BY <1>15, <2>3 DEF Heartbeat
    <3> QED BY <2>1, <3>1, <3>2, <1>n, <1>w, <1>c, ThrowTyped DEF Signals
  <2>4. CASE Owns(s, r) /\ ~(slotPc[s] = "streaming" /\ (cancelRequested[r] \/ AuthorityLost(s, r)))
    <3>1. Renew(r) /\ UNCHANGED slotVars
      BY <1>15, <2>4 DEF Heartbeat
    <3> QED BY <3>1, <1>n DEF Typed, TypeOK, TypeOKWorker, SlotBusy
  <2> QED BY <2>2, <2>3, <2>4
<1> QED
  BY <1>1, <1>2, <1>3, <1>4, <1>5, <1>6, <1>7, <1>8, <1>9, <1>11, <1>12, <1>13, <1>14, <1>15
     DEF Work

(* Faults, crashes, the passage of time and the recovery at boot keep the  *)
(* types.                                                                  *)
LEMMA FaultTyped ==
  ASSUME Typed,
         \/ \E s \in Slots : StoreFails(s)
         \/ \E r \in Runs : LeaseExpires(r)
         \/ \E d \in Daemons : Halt(d) \/ Start(d)
  PROVE  Typed'
<1> USE DEF runVars, decideVars, grantVars, worldVars, admitVars, holdVars, ledgerVars, slotVars,
            procVars, pluginVars
<1>l. ASSUME UNCHANGED ledgerVars PROVE TypeOKLedger'
  BY <1>l DEF Typed, TypeOK, TypeOKLedger
<1>1. ASSUME NEW s \in Slots, StoreFails(s) PROVE Typed'
  <2>1. TypeOKLedger' /\ faults' \in Nat /\ UNCHANGED <<up, halts, effects>>
    BY <1>1, <1>l DEF StoreFails, Typed, TypeOK, TypeOKWorker
  <2>2. slotCost[s] \in Nat
    BY DEF Typed, TypeOK, TypeOKWorker
  <2>3. ledger' \in [Runs -> {"none", "begun", "succeeded", "cancelled", "failed"}]
    BY <1>1 DEF StoreFails, Typed, TypeOK, TypeOKWorker
  <2>4. CASE slotPc[s] \in {"claimed", "planning", "streaming", "publishing"}
    <3>1. Throw(s, "retryable", slotCost[s])
      BY <1>1, <2>4 DEF StoreFails
    <3> QED BY <2>1, <2>2, <2>3, <2>4, <3>1, ThrowTyped DEF Signals
  <2>5. CASE slotPc[s] \in {"begun", "calling"}
    <3>1. PICK sig \in {"retryable", "final"} : Throw(s, sig, 0)
      BY <1>1, <2>5 DEF StoreFails
    <3> QED BY <2>1, <2>3, <2>5, <3>1, ThrowTyped DEF Signals
  <2>6. CASE slotPc[s] = "catching"
    <3>1. Discard(s)
      BY <1>1, <2>6 DEF StoreFails
    <3>2. TypeOKWorker'
      BY <2>1, <2>3, <3>1, DiscardType DEF Typed, TypeOK, TypeOKWorker
    <3>3. SlotBusy'
      BY <3>1 DEF SlotBusy, Discard, Typed, TypeOK, TypeOKWorker
    <3> QED BY <2>1, <3>2, <3>3 DEF Typed, TypeOK
  <2> QED BY <1>1, <2>4, <2>5, <2>6 DEF StoreFails
<1>2. ASSUME NEW r \in Runs, LeaseExpires(r) PROVE Typed'
  <2>1. TypeOKLedger'
    BY <1>2 DEF LeaseExpires, Typed, TypeOK, TypeOKLedger
  <2> QED BY <1>2, <2>1 DEF LeaseExpires, Typed, TypeOK, TypeOKWorker, SlotBusy
<1>3. ASSUME NEW d \in Daemons, Halt(d) PROVE Typed'
  <2>1. TypeOKLedger'
    BY <1>3, <1>l DEF Halt
  <2>2. TypeOKWorker'
    BY <1>3 DEF Halt, Typed, TypeOK, TypeOKWorker, Pcs, Signals
  <2>3. SlotBusy'
    BY <1>3 DEF Halt, Typed, SlotBusy
  <2> QED BY <2>1, <2>2, <2>3 DEF Typed, TypeOK
<1>4. ASSUME NEW d \in Daemons, Start(d) PROVE Typed'
  <2>1. reserved' \in [Grants -> Nat]
    <3>1. ASSUME NEW g \in Grants PROVE AtLeastZero(reserved[g] - Cost(ExpiredOn(g))) \in Nat
      <4>1. Cost(ExpiredOn(g)) \in Nat
        BY CostType DEF ExpiredOn, Expired
      <4> QED BY <4>1 DEF AtLeastZero, Typed, TypeOK, TypeOKLedger
    <3>2. reserved' = [g \in Grants |-> AtLeastZero(reserved[g] - Cost(ExpiredOn(g)))]
      BY <1>4 DEF Start
    <3> QED BY <3>1, <3>2
  <2>2. grantState' \in [Grants -> {"none", "active", "revoked", "exhausted"}]
    BY <1>4 DEF Start, GrantStatus, Typed, TypeOK, TypeOKLedger
  <2>3. /\ runState' \in [Runs -> RunStates]
        /\ leaseOwner' \in [Runs -> Slots \cup {Nil}]
        /\ leaseExpired' \in [Runs -> BOOLEAN]
    BY <1>4 DEF Start, RunStates, Typed, TypeOK, TypeOKLedger
  <2>4. TypeOKLedger'
    BY <1>4, <2>1, <2>2, <2>3 DEF Start, Typed, TypeOK, TypeOKLedger
  <2>5. TypeOKWorker' /\ SlotBusy'
    BY <1>4 DEF Start, Typed, TypeOK, TypeOKWorker, SlotBusy
  <2> QED BY <2>4, <2>5 DEF Typed, TypeOK
<1> QED BY <1>1, <1>2, <1>3, <1>4

(* Every column keeps its type under every interleaving of the control     *)
(* plane and the worker; in particular no settlement drives a grant's      *)
(* reservation below zero or writes a state the schema does not have.      *)
THEOREM TypeCorrect == Spec => [](TypeOK /\ SlotBusy)
<1>1. Init => Typed
  <2> SUFFICES ASSUME Init PROVE Typed
    OBVIOUS
  <2>1. TypeOKLedger
    BY DEF Init, InitLedger, TypeOKLedger, RunStates
  <2>2. TypeOKWorker
    BY DEF Init, TypeOKWorker, Pcs, Signals
  <2>3. SlotBusy
    BY DEF Init, SlotBusy
  <2> QED BY <2>1, <2>2, <2>3 DEF Typed, TypeOK
<1>2. Typed /\ [Next]_vars => Typed'
  <2> SUFFICES ASSUME Typed, [Next]_vars PROVE Typed'
    OBVIOUS
  <2>1. CASE ControlPlane /\ UNCHANGED <<slotVars, procVars, pluginVars>>
    <3>1. TypeOKLedger'
      BY <2>1, ControlPlaneType DEF Typed, TypeOK
    <3> QED BY <2>1, <3>1 DEF Typed, TypeOK, TypeOKWorker, SlotBusy, slotVars, procVars, pluginVars
  <2>2. ASSUME NEW s \in Slots, Claim(s) \/ Work(s) \/ Heartbeat(s) PROVE Typed'
    BY <2>2, ClaimTyped, WorkTyped
  <2>3. CASE UNCHANGED vars
    BY <2>3 DEF vars, ledgerVars, runVars, decideVars, grantVars, worldVars, admitVars, holdVars,
           slotVars, procVars, pluginVars, Typed, TypeOK, TypeOKLedger, TypeOKWorker, SlotBusy
  <2> QED BY <2>1, <2>2, <2>3, FaultTyped DEF Next
<1> QED BY <1>1, <1>2, PTL DEF Spec, Typed

-----------------------------------------------------------------------------
(* What a step of the worker does to the ledger.  However many store calls *)
(* and failures a slot goes through, it writes the ledger in three ways:   *)
(* it claims, it renews its lease, or it settles the run it owns.          *)

Refreshes(s) ==
  /\ slotRun[s] \in Runs
  /\ Owns(s, slotRun[s])
  /\ leaseExpired' = [leaseExpired EXCEPT ![slotRun[s]] = FALSE]
  /\ UNCHANGED <<runState, runGrant, attempts, leaseOwner, cancelRequested, outcome, decideVars,
                 grantVars, worldVars, admitVars, holdVars>>

Ends(s, state) ==
  LET r == slotRun[s] IN
  /\ r \in Runs
  /\ Owns(s, r)
  /\ Settle(r, state, slotCost[s])
  /\ state \in {"succeeded", "failed", "cancelled", "queued", "paused_plugin"}
  /\ state = "queued" => Retriable(r)
  /\ state = "succeeded" => /\ slotPc[s] = "publishing" /\ EpochCurrent(s, r)
                            /\ ~cancelRequested[r]
  /\ outcome' = IF state = "succeeded" THEN [outcome EXCEPT ![r] = @ + 1] ELSE outcome

(* A slot leaves the ledger alone, renews a lease it owns, or settles its  *)
(* own run; it publishes only after the model finished, without a          *)
(* cancellation request and in the epoch of its claim, and requeues only a *)
(* retriable run.                                                          *)
LEMMA WorkOnLedger ==
  ASSUME Typed, NEW s \in Slots, Work(s) \/ Heartbeat(s) \/ StoreFails(s)
  PROVE  \/ UNCHANGED ledgerVars
         \/ Refreshes(s)
         \/ \E state \in RunStates : Ends(s, state)
<1> DEFINE r == slotRun[s]
<1>r. slotPc[s] # "idle" => slotRun[s] \in Runs
  BY DEF Typed, SlotBusy
<1>n. ASSUME slotPc[s] # "idle", Owns(s, r), Renew(r) PROVE Refreshes(s)
  BY <1>n, <1>r DEF Renew, Refreshes
<1>d. ASSUME slotPc[s] # "idle", Owns(s, r), NEW state \in {"failed", "cancelled", "queued", "paused_plugin"},
             Disposes(s, r, state), state = "queued" => Retriable(r)
      PROVE  \E x \in RunStates : Ends(s, x)
  <2> DEFINE x == IF cancelRequested[r] THEN "cancelled" ELSE state
  <2>1. x \in RunStates /\ x \in {"failed", "cancelled", "queued", "paused_plugin"}
    BY <1>d DEF RunStates
  <2>2. x = "queued" => Retriable(r)
    BY <1>d
  <2>3. Settle(r, x, slotCost[s]) /\ UNCHANGED outcome
    BY <1>d DEF Disposes
  <2> HIDE DEF x
  <2>4. Ends(s, x)
    BY <1>d, <1>r, <2>1, <2>2, <2>3 DEF Ends
  <2> QED BY <2>1, <2>4
<1>1. CASE InitialHeartbeat(s)
  BY <1>1, <1>n DEF InitialHeartbeat
<1>2. CASE \/ BeginInvocation(s) \/ RefuseInvocation(s) \/ CallPlugin(s) \/ ReturnInvocation(s)
           \/ AbortInvocation(s) \/ ModelFinished(s) \/ ModelFault(s) \/ LeaseLost(s) \/ StoreFails(s)
  BY <1>2 DEF BeginInvocation, RefuseInvocation, CallPlugin, ReturnInvocation, AbortInvocation,
              ModelFinished, ModelFault, LeaseLost, StoreFails
<1>3. CASE Complete(s)
  <2>1. slotPc[s] # "idle" /\ Owns(s, r)
    BY <1>3 DEF Complete
  <2>2. CASE CompletionCancels(s, r)
    <3>1. Settle(r, "cancelled", slotCost[s]) /\ UNCHANGED outcome
      BY <1>3, <2>2 DEF Complete
    <3>2. Ends(s, "cancelled")
      BY <1>r, <2>1, <3>1 DEF Ends
    <3> QED BY <3>2 DEF RunStates
  <2>3. CASE ~CompletionCancels(s, r) /\ CompletionThrows(s, r)
    BY <1>3, <2>3 DEF Complete
  <2>4. CASE ~CompletionCancels(s, r) /\ ~CompletionThrows(s, r)
    <3>1. Publish(s, r)
      BY <1>3, <2>4 DEF Complete
    <3>2. slotPc[s] = "publishing" /\ EpochCurrent(s, r) /\ ~cancelRequested[r]
      BY <1>3, <2>4 DEF Complete, CompletionCancels, CompletionThrows, AuthorityLost
    <3>3. Settle(r, "succeeded", slotCost[s]) /\ outcome' = [outcome EXCEPT ![r] = @ + 1]
      BY <3>1 DEF Publish
    <3>4. Ends(s, "succeeded")
      BY <1>r, <2>1, <3>2, <3>3 DEF Ends
    <3> QED BY <3>4 DEF RunStates
  <2> QED BY <2>2, <2>3, <2>4
<1>4. CASE CancelClaimed(s)
  BY <1>4, <1>d DEF CancelClaimed
<1>5. CASE PauseForPlugin(s)
  BY <1>5, <1>d DEF PauseForPlugin
<1>6. CASE FailOrRetry(s)
  <2> DEFINE x == IF slotSignal[s] = "retryable" /\ Retriable(r) THEN "queued" ELSE "failed"
  <2>1. x \in {"failed", "cancelled", "queued", "paused_plugin"} /\ (x = "queued" => Retriable(r))
    OBVIOUS
  <2>2. slotPc[s] # "idle" /\ Owns(s, r) /\ Disposes(s, r, x)
    BY <1>6 DEF FailOrRetry
  <2> HIDE DEF x
  <2> QED BY <2>1, <2>2, <1>d
<1>7. CASE Heartbeat(s)
  BY <1>7, <1>n DEF Heartbeat
<1> QED BY <1>1, <1>2, <1>3, <1>4, <1>5, <1>6, <1>7 DEF Work

(* The cases every proof about the ledger distinguishes. *)
LEMMA LedgerSteps ==
  ASSUME Typed, [Next]_vars
  PROVE  \/ ControlPlane
         \/ UNCHANGED ledgerVars
         \/ \E s \in Slots, r \in Runs :
              ClaimRefused(s, r) \/ ClaimOverBudget(s, r) \/ ClaimGranted(s, r)
         \/ \E s \in Slots : Refreshes(s)
         \/ \E s \in Slots, state \in RunStates : Ends(s, state)
         \/ \E r \in Runs : LeaseExpires(r)
         \/ \E d \in Daemons : Start(d)
<1>1. CASE UNCHANGED vars
  BY <1>1 DEF vars
<1>2. CASE \E d \in Daemons : Halt(d)
  BY <1>2 DEF Halt
<1>3. CASE \E s \in Slots : Work(s) \/ Heartbeat(s) \/ StoreFails(s)
  BY <1>3, WorkOnLedger
<1>4. CASE \E s \in Slots : Claim(s)
  BY <1>4 DEF Claim
<1> QED BY <1>1, <1>2, <1>3, <1>4 DEF Next

-----------------------------------------------------------------------------
(* Leases and attempts.                                                    *)

LeaseInv == LeaseMatchesState /\ AttemptsBounded /\ Fresh

(* A run is running exactly while a lease is written on it, under the      *)
(* grant its claim reserved from; and no sequence of failures, recoveries, *)
(* withdrawals and re-approvals hands it out more than maxAttempts times.  *)
THEOREM LeaseAndAttempts == Spec => [](LeaseMatchesState /\ AttemptsBounded /\ Fresh)
<1>1. Init => LeaseInv
  BY BoundAssumption DEF Init, InitLedger, LeaseInv, LeaseMatchesState, AttemptsBounded, Fresh
<1>2. Typed /\ LeaseInv /\ [Next]_vars => LeaseInv'
  <2> SUFFICES ASSUME Typed, LeaseInv, [Next]_vars PROVE LeaseInv'
    OBVIOUS
  <2> TypeOKLedger
    BY DEF Typed, TypeOK
  <2> USE DEF runVars, decideVars, grantVars, worldVars, admitVars, holdVars
  <2> USE RunsAssumption
  <2>1. CASE ControlPlane
    BY <2>1, ControlPlaneShape, ControlPlaneAttempts DEF LeaseInv, Shape
  <2>2. CASE UNCHANGED ledgerVars
    BY <2>2 DEF ledgerVars, LeaseInv, LeaseMatchesState, AttemptsBounded, Fresh
  <2>3. ASSUME NEW s \in Slots, NEW r \in Runs, ClaimRefused(s, r) PROVE LeaseInv'
    BY <2>3 DEF ClaimRefused, Claimable, Withdraw, TypeOKLedger, LeaseInv, LeaseMatchesState, AttemptsBounded, Fresh
  <2>4. ASSUME NEW s \in Slots, NEW r \in Runs, ClaimOverBudget(s, r) PROVE LeaseInv'
    BY <2>4 DEF ClaimOverBudget, Claimable, TypeOKLedger, LeaseInv, LeaseMatchesState, AttemptsBounded, Fresh
  <2>5. ASSUME NEW s \in Slots, NEW r \in Runs, ClaimGranted(s, r) PROVE LeaseInv'
    BY <2>5, BoundAssumption
       DEF ClaimGranted, Claimable, TypeOKLedger, LeaseInv, LeaseMatchesState, AttemptsBounded, Fresh
  <2>6. ASSUME NEW s \in Slots, Refreshes(s) PROVE LeaseInv'
    BY <2>6 DEF Refreshes, TypeOKLedger, LeaseInv, LeaseMatchesState, AttemptsBounded, Fresh
  <2>7. ASSUME NEW s \in Slots, NEW state \in RunStates, Ends(s, state) PROVE LeaseInv'
    BY <2>7 DEF Ends, Owns, Settle, Retriable, TypeOKLedger, LeaseInv, LeaseMatchesState,
                AttemptsBounded, Fresh
  <2>8. ASSUME NEW r \in Runs, LeaseExpires(r) PROVE LeaseInv'
    BY <2>8 DEF LeaseExpires, TypeOKLedger, LeaseInv, LeaseMatchesState, AttemptsBounded, Fresh
  <2>9. ASSUME NEW d \in Daemons, Start(d) PROVE LeaseInv'
    BY <2>9 DEF Start, Expired, Retriable, TypeOKLedger, LeaseInv, LeaseMatchesState,
                AttemptsBounded, Fresh
  <2> QED BY <2>1, <2>2, <2>3, <2>4, <2>5, <2>6, <2>7, <2>8, <2>9, LedgerSteps
<1> QED BY <1>1, <1>2, TypeCorrect, PTL DEF Spec, Typed, LeaseInv

(* failOrRetry, recovery and re-approval never hand a run out more than    *)
(* maxAttempts times.                                                      *)
THEOREM RetriesAreBounded == Spec => []AttemptsBounded
BY LeaseAndAttempts, PTL

-----------------------------------------------------------------------------
(* Reservations.                                                           *)

ReservationInv == \A g \in Grants : Covered(g)

(* Every step keeps every grant covered. *)
LEMMA ReservationStep ==
  ASSUME Typed, LeaseInv, ReservationInv, [Next]_vars
  PROVE  ReservationInv'
<1> TypeOKLedger
  BY DEF Typed, TypeOK
<1> SUFFICES ASSUME NEW g \in Grants PROVE Covered(g)'
  BY DEF ReservationInv
<1> Covered(g)
  BY DEF ReservationInv
<1> USE DEF runVars, decideVars, grantVars, worldVars, admitVars, holdVars
<1>k. ASSUME reserved'[g] = reserved[g], RunningOn(g)' = RunningOn(g) PROVE Covered(g)'
  BY <1>k, CoveredKept
<1>1. CASE ControlPlane
  <2>1. /\ reserved' = reserved
        /\ RunningOn(g)' \subseteq RunningOn(g)
        /\ PluginRuns = {} => RunningOn(g)' = RunningOn(g)
    BY <1>1, ControlPlaneRunning DEF LeaseInv
  <2> QED BY <2>1, CoveredKept
<1>2. CASE \/ UNCHANGED ledgerVars
           \/ \E s \in Slots : Refreshes(s)
           \/ \E r \in Runs : LeaseExpires(r)
  <2>1. reserved' = reserved /\ runState' = runState /\ runGrant' = runGrant
    BY <1>2 DEF ledgerVars, Refreshes, LeaseExpires
  <2> QED BY <2>1, <1>k DEF RunningOn
<1>3. ASSUME NEW s \in Slots, NEW r \in Runs, ClaimRefused(s, r) \/ ClaimOverBudget(s, r)
      PROVE  Covered(g)'
  <2>1. reserved' = reserved /\ RunningOn(g)' = RunningOn(g)
    BY <1>3 DEF ClaimRefused, ClaimOverBudget, Claimable, Withdraw, RunningOn, TypeOKLedger
  <2> QED BY <2>1, <1>k
<1>4. ASSUME NEW s \in Slots, NEW r \in Runs, ClaimGranted(s, r) PROVE Covered(g)'
  <2>1. /\ runState[r] = "queued" /\ runState' = [runState EXCEPT ![r] = "running"]
        /\ runGrant' = runGrant
        /\ reserved' = [reserved EXCEPT ![runGrant[r]] = reserved[runGrant[r]] + Upper[r]]
    BY <1>4 DEF ClaimGranted, Claimable, Reserve, Reservation
  <2>2. CASE g = runGrant[r]
    <3>1. RunningOn(g)' = RunningOn(g) \cup {r} /\ r \notin RunningOn(g)
      BY <2>1, <2>2 DEF RunningOn, TypeOKLedger
    <3>2. reserved'[g] = reserved[g] + Upper[r]
      BY <2>1, <2>2 DEF TypeOKLedger
    <3> QED BY <3>1, <3>2, CoveredClaimed
  <2>3. CASE g # runGrant[r]
    <3>1. RunningOn(g)' = RunningOn(g) /\ reserved'[g] = reserved[g]
      BY <2>1, <2>3 DEF RunningOn, TypeOKLedger
    <3> QED BY <3>1, <1>k
  <2> QED BY <2>2, <2>3
<1>5. ASSUME NEW s \in Slots, NEW state \in RunStates, Ends(s, state) PROVE Covered(g)'
  <2> DEFINE r == slotRun[s]
  <2>1. /\ r \in Runs /\ runState[r] = "running"
        /\ runState' = [runState EXCEPT ![r] = state] /\ state # "running"
        /\ runGrant' = runGrant
        /\ reserved' = [reserved EXCEPT ![runGrant[r]] = AtLeastZero(reserved[runGrant[r]] - Upper[r])]
    BY <1>5 DEF Ends, Owns, Settle
  <2> HIDE DEF r
  <2>2. CASE g = runGrant[r]
    <3>1. RunningOn(g)' = RunningOn(g) \ {r} /\ {r} \in SUBSET RunningOn(g)
      BY <2>1, <2>2 DEF RunningOn, TypeOKLedger
    <3>2. reserved'[g] = AtLeastZero(reserved[g] - Cost({r}))
      BY <2>1, <2>2, CostOne DEF TypeOKLedger
    <3> QED BY <3>1, <3>2, CoveredReleased
  <2>3. CASE g # runGrant[r]
    <3>1. RunningOn(g)' = RunningOn(g) /\ reserved'[g] = reserved[g]
      BY <2>1, <2>3 DEF RunningOn, TypeOKLedger
    <3> QED BY <3>1, <1>k
  <2> QED BY <2>2, <2>3
<1>6. ASSUME NEW d \in Daemons, Start(d) PROVE Covered(g)'
  <2>1. ExpiredOn(g) \in SUBSET RunningOn(g)
    BY DEF ExpiredOn, Expired, RunningOn
  <2>2. RunningOn(g)' = RunningOn(g) \ ExpiredOn(g)
    BY <1>6 DEF Start, ExpiredOn, Expired, RunningOn, TypeOKLedger
  <2>3. reserved'[g] = AtLeastZero(reserved[g] - Cost(ExpiredOn(g)))
    BY <1>6 DEF Start
  <2> QED BY <2>1, <2>2, <2>3, CoveredReleased
<1> QED BY <1>1, <1>2, <1>3, <1>4, <1>5, <1>6, LedgerSteps

(* No grant is covered by less than the runs on it may cost: at every      *)
(* moment the reservation is at least the sum of the running estimates,    *)
(* also with Plugin holds, crashes and lost store calls.                   *)
THEOREM ReservationIsCovered == Spec => []ReservationInv
<1>1. Init => ReservationInv
  <2> SUFFICES ASSUME Init, NEW g \in Grants PROVE Covered(g)
    BY DEF ReservationInv
  <2>1. reserved[g] = 0 /\ RunningOn(g) = {}
    BY DEF Init, InitLedger, RunningOn
  <2> QED BY <2>1, CostEmpty DEF Covered
<1>2. Typed /\ LeaseInv /\ ReservationInv /\ [Next]_vars => ReservationInv'
  BY ReservationStep
<1>3. Spec => [](Typed /\ LeaseInv)
  BY TypeCorrect, LeaseAndAttempts, PTL DEF Typed, LeaseInv
<1> QED BY <1>1, <1>2, <1>3, PTL DEF Spec

(* ReservationCovers, the property the runs check, for every instance. *)
THEOREM ReservationNeverShort == Spec => []ReservationCovers
<1>1. ReservationInv => ReservationCovers
  BY DEF ReservationInv, Covered, ReservationCovers
<1> QED BY <1>1, ReservationIsCovered, PTL

(* Without Plugin runs, and so without Plugin holds, the accounting is     *)
(* exact: no crash, retry, cancellation or recovery leaks a reservation.   *)
THEOREM ReservationNeverLeaks ==
  ASSUME PluginRuns = {}
  PROVE  Spec => []ReservationExact
<1>1. ReservationInv => ReservationExact
  BY DEF ReservationInv, Covered, ReservationExact
<1> QED BY <1>1, ReservationIsCovered, PTL

-----------------------------------------------------------------------------
(* The budget.                                                             *)

CostBounded == \A s \in Slots : slotCost[s] <= CostCap

(* The cost a slot carries into a settlement is one the provider may have  *)
(* charged in a single attempt.                                            *)
LEMMA CostBoundedStep ==
  ASSUME Typed, CostBounded, [Next]_vars
  PROVE  CostBounded'
<1> SUFFICES ASSUME NEW q \in Slots PROVE slotCost'[q] <= CostCap
  BY DEF CostBounded
<1>a. slotCost \in [Slots -> Nat] /\ slotCost[q] <= CostCap /\ CostCap \in Nat
  BY FaultAssumption DEF Typed, TypeOK, TypeOKWorker, CostBounded
<1>u. ASSUME UNCHANGED slotCost PROVE slotCost'[q] <= CostCap
  BY <1>a, <1>u
<1>e. ASSUME NEW s \in Slots, NEW c \in Int, c <= CostCap, slotCost' = [slotCost EXCEPT ![s] = c]
      PROVE  slotCost'[q] <= CostCap
  BY <1>a, <1>e
<1>d. ASSUME NEW s \in Slots, Discard(s) PROVE slotCost'[q] <= CostCap
  BY <1>a, <1>d, <1>e DEF Discard
<1>t. ASSUME NEW s \in Slots, NEW sig, NEW c \in Int, c <= CostCap, Throw(s, sig, c)
      PROVE  slotCost'[q] <= CostCap
  BY <1>t, <1>e DEF Throw
<1>c. ASSUME NEW s \in Slots PROVE slotCost[s] \in Nat /\ slotCost[s] <= CostCap
  BY <1>a DEF CostBounded
<1>0. 0 <= CostCap
  BY <1>a
<1>1. ASSUME NEW s \in Slots, Claim(s) PROVE slotCost'[q] <= CostCap
  BY <1>1, <1>u DEF Claim, ClaimRefused, ClaimOverBudget, ClaimGranted, slotVars
<1>2. ASSUME NEW s \in Slots, InitialHeartbeat(s) PROVE slotCost'[q] <= CostCap
  BY <1>2, <1>u, <1>d, <1>t, <1>0 DEF InitialHeartbeat, Goto
<1>3. ASSUME NEW s \in Slots, BeginInvocation(s) \/ CallPlugin(s) PROVE slotCost'[q] <= CostCap
  BY <1>3, <1>u DEF BeginInvocation, CallPlugin, Goto
<1>4. ASSUME NEW s \in Slots, RefuseInvocation(s) \/ AbortInvocation(s) PROVE slotCost'[q] <= CostCap
  <2>1. Discard(s) \/ \E sig \in PlanSignals(s, slotRun[s]) : Throw(s, sig, 0)
    BY <1>4 DEF RefuseInvocation, AbortInvocation
  <2> QED BY <2>1, <1>d, <1>t, <1>0
<1>5. ASSUME NEW s \in Slots, ReturnInvocation(s) \/ ModelFinished(s) PROVE slotCost'[q] <= CostCap
  <2>1. \E c \in 0 .. CostCap : slotCost' = [slotCost EXCEPT ![s] = c]
    BY <1>5, <1>c, <1>a DEF ReturnInvocation, ModelFinished
  <2> QED BY <2>1, <1>e, <1>a
<1>6. ASSUME NEW s \in Slots, ModelFault(s) PROVE slotCost'[q] <= CostCap
  <2>1. PICK sig \in {"retryable", "final"}, c \in slotCost[s] .. CostCap : Throw(s, sig, c)
    BY <1>6 DEF ModelFault
  <2>2. c \in Int /\ c <= CostCap
    BY <1>a, <1>c
  <2> QED BY <2>1, <2>2, <1>t
<1>7. ASSUME NEW s \in Slots, Complete(s) PROVE slotCost'[q] <= CostCap
  <2>1. Discard(s) \/ Throw(s, "retryable", slotCost[s])
    BY <1>7 DEF Complete, Publish
  <2> QED BY <2>1, <1>d, <1>t, <1>c
<1>8. ASSUME NEW s \in Slots, CancelClaimed(s) \/ PauseForPlugin(s) \/ FailOrRetry(s) \/ LeaseLost(s)
      PROVE  slotCost'[q] <= CostCap
  BY <1>8, <1>d DEF CancelClaimed, PauseForPlugin, FailOrRetry, LeaseLost, Disposes
<1>9. ASSUME NEW s \in Slots, Heartbeat(s) PROVE slotCost'[q] <= CostCap
  <2>1. \/ Discard(s) \/ UNCHANGED slotCost
        \/ \E c \in slotCost[s] .. CostCap : Throw(s, "cancelled", c)
    BY <1>9 DEF Heartbeat, slotVars
  <2>2. \A c \in slotCost[s] .. CostCap : c \in Int /\ c <= CostCap
    BY <1>a, <1>c
  <2> QED BY <2>1, <2>2, <1>d, <1>u, <1>t
<1>10. ASSUME NEW s \in Slots, StoreFails(s) PROVE slotCost'[q] <= CostCap
  <2>1. \/ Discard(s) \/ Throw(s, "retryable", slotCost[s])
        \/ \E sig \in {"retryable", "final"} : Throw(s, sig, 0)
    BY <1>10 DEF StoreFails
  <2> QED BY <2>1, <1>d, <1>t, <1>c, <1>0
<1>11. ASSUME NEW d \in Daemons, Halt(d) PROVE slotCost'[q] <= CostCap
  BY <1>11, <1>a DEF Halt
<1>12. CASE \/ UNCHANGED vars
            \/ ControlPlane /\ UNCHANGED <<slotVars, procVars, pluginVars>>
            \/ \E r \in Runs : LeaseExpires(r)
            \/ \E d \in Daemons : Start(d)
  BY <1>12, <1>u DEF vars, slotVars, LeaseExpires, Start
<1> QED
  BY <1>1, <1>2, <1>3, <1>4, <1>5, <1>6, <1>7, <1>8, <1>9, <1>10, <1>11, <1>12 DEF Next, Work

(* The budget is only ever committed by a claim that fits into what is     *)
(* left of it; a settlement exchanges the reservation for no more than it. *)
LEMMA BudgetStep ==
  ASSUME \A r \in Runs : CostCap <= Upper[r],
         Typed, CostBounded, LeaseInv, ReservationInv, BudgetRespected, [Next]_vars
  PROVE  BudgetRespected'
<1> TypeOKLedger
  BY DEF Typed, TypeOK
<1> USE DEF runVars, decideVars, grantVars, worldVars, admitVars, holdVars
<1> SUFFICES ASSUME NEW g \in Grants PROVE (spent[g] + reserved[g] <= BudgetOf[g])'
  BY DEF BudgetRespected
<1>b. /\ spent[g] + reserved[g] <= BudgetOf[g] /\ Covered(g)
      /\ spent[g] \in Nat /\ reserved[g] \in Nat /\ BudgetOf[g] \in Nat
  BY CostAssumption DEF BudgetRespected, ReservationInv, TypeOKLedger
<1>1. CASE ControlPlane
  <2>1. spent' = spent /\ reserved' = reserved
    BY <1>1 DEF ControlPlane, CreateGrant, Lapse, RevokeGrant, BeginCreateRun, CommitCreateRun,
       RejectRun, RejectRunGroup, Refuse, CancelRun, ApproveRun, ApproveRunGroup, Authorise,
       SwapChannel, BeginHold, EndHold, EnablePlugin
  <2> QED BY <1>b, <2>1
<1>2. CASE \/ UNCHANGED ledgerVars
           \/ \E s \in Slots : Refreshes(s)
           \/ \E r \in Runs : LeaseExpires(r)
           \/ \E s \in Slots, r \in Runs : ClaimRefused(s, r) \/ ClaimOverBudget(s, r)
  <2>1. spent' = spent /\ reserved' = reserved
    BY <1>2 DEF ledgerVars, Refreshes, LeaseExpires, ClaimRefused, ClaimOverBudget
  <2> QED BY <1>b, <2>1
<1>3. ASSUME NEW s \in Slots, NEW r \in Runs, ClaimGranted(s, r)
      PROVE  (spent[g] + reserved[g] <= BudgetOf[g])'
  <2>1. /\ Upper[r] <= BudgetOf[runGrant[r]] - spent[runGrant[r]] - reserved[runGrant[r]]
        /\ reserved' = [reserved EXCEPT ![runGrant[r]] = reserved[runGrant[r]] + Upper[r]]
        /\ spent' = spent /\ Upper[r] \in Nat
    BY <1>3, CostAssumption DEF ClaimGranted, Reserve, Reservation, Remaining
  <2>2. CASE g = runGrant[r]
    BY <1>b, <2>1, <2>2 DEF TypeOKLedger
  <2>3. CASE g # runGrant[r]
    BY <1>b, <2>1, <2>3 DEF TypeOKLedger
  <2> QED BY <2>2, <2>3
<1>4. ASSUME NEW s \in Slots, NEW state \in RunStates, Ends(s, state)
      PROVE  (spent[g] + reserved[g] <= BudgetOf[g])'
  <2> DEFINE r == slotRun[s]
  <2>1. /\ r \in Runs /\ runState[r] = "running"
        /\ runState' = [runState EXCEPT ![r] = state] /\ state # "running"
        /\ runGrant' = runGrant
        /\ reserved' = [reserved EXCEPT ![runGrant[r]] = AtLeastZero(reserved[runGrant[r]] - Upper[r])]
        /\ spent' = [spent EXCEPT ![runGrant[r]] = spent[runGrant[r]] + slotCost[s]]
    BY <1>4 DEF Ends, Owns, Settle
  <2> HIDE DEF r
  <2>2. slotCost[s] \in Nat /\ Upper[r] \in Nat /\ slotCost[s] <= Upper[r]
    BY <2>1, CostAssumption, FaultAssumption DEF CostBounded, Typed, TypeOK, TypeOKWorker
  <2>3. CASE g = runGrant[r]
    <3>1. RunningOn(g)' = RunningOn(g) \ {r} /\ {r} \in SUBSET RunningOn(g)
      BY <2>1, <2>3 DEF RunningOn, TypeOKLedger
    <3>2. reserved'[g] = AtLeastZero(reserved[g] - Cost({r})) /\ Cost({r}) = Upper[r]
      BY <2>1, <2>3, CostOne DEF TypeOKLedger
    <3>3. reserved'[g] = reserved[g] - Upper[r]
      BY <1>b, <3>1, <3>2, CoveredReleased
    <3>4. spent'[g] = spent[g] + slotCost[s]
      BY <2>1, <2>3 DEF TypeOKLedger
    <3> QED BY <1>b, <2>2, <3>3, <3>4
  <2>4. CASE g # runGrant[r]
    <3>1. spent'[g] = spent[g] /\ reserved'[g] = reserved[g]
      BY <2>1, <2>4 DEF TypeOKLedger
    <3> QED BY <1>b, <3>1
  <2> QED BY <2>3, <2>4
<1>5. ASSUME NEW d \in Daemons, Start(d) PROVE (spent[g] + reserved[g] <= BudgetOf[g])'
  <2>1. reserved'[g] = AtLeastZero(reserved[g] - Cost(ExpiredOn(g))) /\ spent' = spent
    BY <1>5 DEF Start
  <2>2. Cost(ExpiredOn(g)) \in Nat
    BY CostType DEF ExpiredOn, Expired
  <2> QED BY <1>b, <2>1, <2>2 DEF AtLeastZero
<1> QED BY <1>1, <1>2, <1>3, <1>4, <1>5, LedgerSteps

(* If the provider never charges more than the estimate of a run, money    *)
(* spent plus money reserved stays within every grant's budget, for any    *)
(* number of grants, concurrent slots, retries and crashes.                *)
THEOREM BudgetNeverExceeded ==
  ASSUME \A r \in Runs : CostCap <= Upper[r]
  PROVE  Spec => []BudgetRespected
<1>1. Init => CostBounded /\ BudgetRespected
  BY CostAssumption, FaultAssumption DEF Init, InitLedger, CostBounded, BudgetRespected
<1>2. Typed /\ CostBounded /\ [Next]_vars => CostBounded'
  BY CostBoundedStep
<1>3. Typed /\ CostBounded /\ LeaseInv /\ ReservationInv /\ BudgetRespected /\ [Next]_vars
        => BudgetRespected'
  BY BudgetStep
<1>4. Spec => [](Typed /\ LeaseInv /\ ReservationInv)
  BY TypeCorrect, LeaseAndAttempts, ReservationIsCovered, PTL DEF Typed, LeaseInv
<1> QED BY <1>1, <1>2, <1>3, <1>4, PTL DEF Spec

-----------------------------------------------------------------------------
(* Revocation.                                                             *)

(* A revocation reaches all work in flight: whatever a claim, a createRun  *)
(* or a recovery raced with, a run that is running under a revoked grant   *)
(* has been told to stop.                                                  *)
THEOREM RevocationReaches == Spec => []RevokedWorkIsStopping
<1>1. Init => RevokedWorkIsStopping
  BY DEF Init, InitLedger, RevokedWorkIsStopping
<1>2. Typed /\ LeaseInv /\ RevokedWorkIsStopping /\ [Next]_vars => RevokedWorkIsStopping'
  <2> SUFFICES ASSUME Typed, LeaseInv, RevokedWorkIsStopping, [Next]_vars
               PROVE  RevokedWorkIsStopping'
    OBVIOUS
  <2> TypeOKLedger
    BY DEF Typed, TypeOK
  <2> USE DEF runVars, decideVars, grantVars, worldVars, admitVars, holdVars
  <2>1. CASE ControlPlane
    BY <2>1, ControlPlaneRevoked DEF LeaseInv
  <2>2. CASE \/ UNCHANGED ledgerVars
             \/ \E s \in Slots : Refreshes(s)
             \/ \E r \in Runs : LeaseExpires(r)
    <3>1. UNCHANGED <<runState, runGrant, cancelRequested, grantState>>
      BY <2>2 DEF ledgerVars, Refreshes, LeaseExpires
    <3> QED BY <3>1 DEF RevokedWorkIsStopping, RunningOn
  <2>3. ASSUME NEW s \in Slots, NEW r \in Runs, ClaimRefused(s, r) \/ ClaimOverBudget(s, r)
        PROVE  RevokedWorkIsStopping'
    BY <2>3 DEF ClaimRefused, ClaimOverBudget, Withdraw, RevokedWorkIsStopping, RunningOn, TypeOKLedger
  <2>4. ASSUME NEW s \in Slots, NEW r \in Runs, ClaimGranted(s, r) PROVE RevokedWorkIsStopping'
    <3>1. grantState[runGrant[r]] # "revoked"
      BY <2>4 DEF ClaimGranted, ClaimRejected, UnusableGrant
    <3>2. \A g \in Grants : grantState'[g] = "revoked" => grantState[g] = "revoked" /\ g # runGrant[r]
      BY <2>4, <3>1 DEF ClaimGranted, Reserve, TypeOKLedger
    <3> QED BY <2>4, <3>2 DEF ClaimGranted, RevokedWorkIsStopping, RunningOn, TypeOKLedger
  <2>5. ASSUME NEW s \in Slots, NEW state \in RunStates, Ends(s, state) PROVE RevokedWorkIsStopping'
    <3>1. \A g \in Grants : grantState'[g] = "revoked" => grantState[g] = "revoked"
      BY <2>5 DEF Ends, Settle, GrantStatus, TypeOKLedger
    <3>2. \A g \in Grants : RunningOn(g)' \subseteq RunningOn(g)
      BY <2>5 DEF Ends, Settle, RunningOn, TypeOKLedger
    <3> QED BY <2>5, <3>1, <3>2 DEF Ends, Settle, RevokedWorkIsStopping
  <2>6. ASSUME NEW d \in Daemons, Start(d) PROVE RevokedWorkIsStopping'
    <3>1. \A g \in Grants : grantState'[g] = "revoked" => grantState[g] = "revoked"
      BY <2>6 DEF Start, GrantStatus, TypeOKLedger
    <3> QED BY <2>6, <3>1 DEF Start, RevokedWorkIsStopping, RunningOn, TypeOKLedger
  <2> QED BY <2>1, <2>2, <2>3, <2>4, <2>5, <2>6, LedgerSteps
<1>3. Spec => [](Typed /\ LeaseInv)
  BY TypeCorrect, LeaseAndAttempts, PTL DEF Typed, LeaseInv
<1> QED BY <1>1, <1>2, <1>3, PTL DEF Spec

-----------------------------------------------------------------------------
(* Ends and decisions.                                                     *)

(* No run without a Plugin reads as both settled and open. *)
DecidedInv == \A r \in Runs \ PluginRuns : Decided(r)

(* A slot publishes the run its lease names, once and only if nobody asked *)
(* it to stop; a claim that is refused reopens the request it rests on.    *)
LEMMA DecidedStep ==
  ASSUME Typed, LeaseInv, DecidedInv, [Next]_vars
  PROVE  DecidedInv'
<1> TypeOKLedger
  BY DEF Typed, TypeOK
<1> SUFFICES ASSUME NEW q \in Runs \ PluginRuns PROVE Decided(q)'
  BY DEF DecidedInv
<1> Decided(q)
  BY DEF DecidedInv
<1> USE DEF runVars, decideVars, grantVars, worldVars, admitVars, holdVars
<1>1. CASE ControlPlane
  BY <1>1, ControlPlaneOnRun DEF LeaseInv
<1>2. CASE \/ UNCHANGED ledgerVars
           \/ \E s \in Slots : Refreshes(s)
           \/ \E r \in Runs : LeaseExpires(r)
  <2>1. UNCHANGED <<runState, outcome, cancelRequested, approval>>
    BY <1>2 DEF ledgerVars, Refreshes, LeaseExpires
  <2> QED BY <2>1 DEF Decided
<1>3. ASSUME NEW s \in Slots, NEW r \in Runs, ClaimRefused(s, r) \/ ClaimOverBudget(s, r)
      PROVE  Decided(q)'
  BY <1>3 DEF ClaimRefused, ClaimOverBudget, Claimable, Withdraw, Decided, TypeOKLedger
<1>4. ASSUME NEW s \in Slots, NEW r \in Runs, ClaimGranted(s, r) PROVE Decided(q)'
  BY <1>4 DEF ClaimGranted, Claimable, Decided, TypeOKLedger
<1>5. ASSUME NEW s \in Slots, NEW state \in RunStates, Ends(s, state) PROVE Decided(q)'
  BY <1>5 DEF Ends, Owns, Settle, Decided, TypeOKLedger
<1>6. ASSUME NEW d \in Daemons, Start(d) PROVE Decided(q)'
  BY <1>6 DEF Start, Expired, Decided, TypeOKLedger
<1> QED BY <1>1, <1>2, <1>3, <1>4, <1>5, <1>6, LedgerSteps

(* For every instance, Plugin holds included: the runs without a Plugin    *)
(* keep their end, their outcome record and their approval request         *)
(* consistent.                                                             *)
THEOREM PlainRunsAreDecided == Spec => []DecidedInv
<1>1. Init => DecidedInv
  BY DEF Init, InitLedger, DecidedInv, Decided
<1>2. Typed /\ LeaseInv /\ DecidedInv /\ [Next]_vars => DecidedInv'
  BY DecidedStep
<1>3. Spec => [](Typed /\ LeaseInv)
  BY TypeCorrect, LeaseAndAttempts, PTL DEF Typed, LeaseInv
<1> QED BY <1>1, <1>2, <1>3, PTL DEF Spec

(* What a human decided stands: a run whose cancellation was requested     *)
(* while it was running never succeeds, and a run awaits approval exactly  *)
(* while its request is pending.                                           *)
THEOREM DecisionsAreKept ==
  ASSUME PluginRuns = {}
  PROVE  Spec => []DecisionsStand
<1>1. DecidedInv => DecisionsStand
  BY DEF DecidedInv, Decided, DecisionsStand, CancelledNeverSucceeds, AwaitingIsPending
<1> QED BY <1>1, PlainRunsAreDecided, PTL

-----------------------------------------------------------------------------
(* Charges.                                                                *)

(* A run that a grant was charged for has been attempted, so that its next *)
(* claim charges nothing.                                                  *)
ChargeInv ==
  \A g \in Grants : /\ \A r \in chargedRuns[g] : attempts[r] > 0
                    /\ usedRuns[g] <= Cardinality(chargedRuns[g])

(* Only a first claim charges a grant, and it charges it for a new run. *)
LEMMA ChargeStep ==
  ASSUME Typed, LeaseInv, ChargeInv, [Next]_vars
  PROVE  ChargeInv'
<1> TypeOKLedger
  BY DEF Typed, TypeOK
<1> USE DEF runVars, decideVars, grantVars, worldVars, admitVars, holdVars
<1>k. ASSUME UNCHANGED <<attempts, chargedRuns, usedRuns>> PROVE ChargeInv'
  BY <1>k DEF ChargeInv
<1>1. CASE ControlPlane
  <2>1. UNCHANGED <<attempts, chargedRuns, usedRuns>>
    BY <1>1 DEF ControlPlane, CreateGrant, Lapse, RevokeGrant, BeginCreateRun, CommitCreateRun,
       RejectRun, RejectRunGroup, Refuse, CancelRun, ApproveRun, ApproveRunGroup, Authorise,
       SwapChannel, BeginHold, EndHold, EnablePlugin
  <2> QED BY <2>1, <1>k
<1>2. CASE \/ UNCHANGED ledgerVars
           \/ \E s \in Slots : Refreshes(s)
           \/ \E r \in Runs : LeaseExpires(r)
           \/ \E s \in Slots, r \in Runs : ClaimRefused(s, r) \/ ClaimOverBudget(s, r)
           \/ \E s \in Slots, state \in RunStates : Ends(s, state)
           \/ \E d \in Daemons : Start(d)
  <2>1. UNCHANGED <<attempts, chargedRuns, usedRuns>>
    BY <1>2 DEF ledgerVars, Refreshes, LeaseExpires, ClaimRefused, ClaimOverBudget, Ends, Settle, Start
  <2> QED BY <2>1, <1>k
<1>3. ASSUME NEW s \in Slots, NEW r \in Runs, ClaimGranted(s, r) PROVE ChargeInv'
  <2> DEFINE h == runGrant[r]
  <2>1. /\ h \in Grants
        /\ attempts' = [attempts EXCEPT ![r] = @ + 1]
        /\ usedRuns' = [usedRuns EXCEPT ![h] = usedRuns[h] + RunCharge(r)]
        /\ chargedRuns' = [chargedRuns EXCEPT ![h] = chargedRuns[h] \cup {r}]
    BY <1>3 DEF ClaimGranted, Claimable, Reserve
  <2> HIDE DEF h
  <2> SUFFICES ASSUME NEW g \in Grants
               PROVE  /\ \A q \in chargedRuns'[g] : attempts'[q] > 0
                      /\ usedRuns'[g] <= Cardinality(chargedRuns'[g])
    BY DEF ChargeInv
  <2>2. \A q \in chargedRuns'[g] : attempts'[q] > 0
    BY <2>1 DEF ChargeInv, TypeOKLedger
  <2>3. /\ IsFiniteSet(chargedRuns[g]) /\ Cardinality(chargedRuns[g]) \in Nat
        /\ usedRuns[g] \in Nat /\ usedRuns[g] <= Cardinality(chargedRuns[g])
    BY RunsAssumption, FS_Subset, FS_CardinalityType DEF ChargeInv, TypeOKLedger
  <2>4. CASE g = h /\ r \notin chargedRuns[g]
    <3>1. Cardinality(chargedRuns[g] \cup {r}) = Cardinality(chargedRuns[g]) + 1
      BY <2>3, <2>4, FS_AddElement
    <3>2. usedRuns'[g] = usedRuns[g] + RunCharge(r) /\ RunCharge(r) \in {0, 1}
      BY <2>1, <2>4 DEF RunCharge, TypeOKLedger
    <3>3. chargedRuns'[g] = chargedRuns[g] \cup {r}
      BY <2>1, <2>4 DEF TypeOKLedger
    <3> QED BY <2>2, <2>3, <3>1, <3>2, <3>3
  <2>5. CASE g = h /\ r \in chargedRuns[g]
    <3>1. attempts[r] \in Nat /\ attempts[r] > 0
      BY <2>5 DEF ChargeInv, TypeOKLedger
    <3>2. usedRuns'[g] = usedRuns[g] /\ chargedRuns'[g] = chargedRuns[g]
      BY <2>1, <2>3, <2>5, <3>1 DEF RunCharge, TypeOKLedger
    <3> QED BY <2>2, <2>3, <3>2
  <2>6. CASE g # h
    <3>1. usedRuns'[g] = usedRuns[g] /\ chargedRuns'[g] = chargedRuns[g]
      BY <2>1, <2>6 DEF TypeOKLedger
    <3> QED BY <2>2, <2>3, <3>1
  <2> QED BY <2>4, <2>5, <2>6
<1> QED BY <1>1, <1>2, <1>3, LedgerSteps

(* A grant is charged once per logical run, also with Plugin holds: no     *)
(* retry, recovery or re-approval consumes maxRuns again.                  *)
THEOREM RunsAreChargedOnce == Spec => []ChargedOnce
<1>1. Init => ChargeInv
  <2>1. Cardinality({}) = 0
    BY FS_EmptySet
  <2> QED BY <2>1 DEF Init, InitLedger, ChargeInv
<1>2. Typed /\ LeaseInv /\ ChargeInv /\ [Next]_vars => ChargeInv'
  BY ChargeStep
<1>3. Spec => [](Typed /\ LeaseInv)
  BY TypeCorrect, LeaseAndAttempts, PTL DEF Typed, LeaseInv
<1>4. ChargeInv => ChargedOnce
  BY DEF ChargeInv, ChargedOnce
<1> QED BY <1>1, <1>2, <1>3, <1>4, PTL DEF Spec

(* Lease, state, outcome record and charge of a run always agree. *)
THEOREM LedgerAgrees ==
  ASSUME PluginRuns = {}
  PROVE  Spec => []LedgerConsistent
<1>1. DecidedInv => OutcomeMatchesState
  BY DEF DecidedInv, Decided, OutcomeMatchesState
<1> QED BY <1>1, PlainRunsAreDecided, LeaseAndAttempts, RunsAreChargedOnce, PTL DEF LedgerConsistent

-----------------------------------------------------------------------------
(* Who settles a run.                                                      *)

(* A step that adds an outcome record is the completion of the run by the  *)
(* slot that holds its lease.                                              *)
LEMMA PublishedByOwner ==
  ASSUME Typed, [Next]_vars, NEW r \in Runs, outcome'[r] > outcome[r]
  PROVE  \E s \in Slots : /\ slotRun[s] = r /\ leaseOwner[r] = s /\ slotPc[s] = "publishing"
                          /\ EpochCurrent(s, r)
<1> TypeOKLedger
  BY DEF Typed, TypeOK
<1> USE DEF runVars, decideVars, grantVars, worldVars, admitVars, holdVars
<1>1. outcome[r] \in Nat /\ outcome' # outcome
  BY DEF TypeOKLedger
<1>2. ~ControlPlane
  BY <1>1 DEF ControlPlane, CreateGrant, Lapse, RevokeGrant, BeginCreateRun, CommitCreateRun,
     RejectRun, RejectRunGroup, Refuse, CancelRun, ApproveRun, ApproveRunGroup, Authorise,
     SwapChannel, BeginHold, EndHold, EnablePlugin
<1>3. PICK s \in Slots, state \in RunStates : Ends(s, state)
  BY <1>1, <1>2, LedgerSteps
     DEF ledgerVars, Refreshes, LeaseExpires, ClaimRefused, ClaimOverBudget, ClaimGranted, Start
<1>4. state = "succeeded" /\ slotRun[s] = r
  BY <1>1, <1>3 DEF Ends, TypeOKLedger
<1> QED BY <1>3, <1>4 DEF Ends, Owns

(* Only the slot that the lease names publishes, and only the run it is    *)
(* executing; a slot that lost its lease in the middle discards its result.*)
THEOREM PublishedByLeaseOwner == Spec => [][OnlyOwnerPublishes]_vars
<1>1. Typed /\ [Next]_vars => [OnlyOwnerPublishes]_vars
  BY PublishedByOwner DEF OnlyOwnerPublishes
<1>2. Spec => []Typed
  BY TypeCorrect, PTL DEF Typed
<1> QED BY <1>1, <1>2, PTL DEF Spec

(* No step rewrites the end of a run without a Plugin. *)
LEMMA PlainEndsAreFinal ==
  ASSUME Typed, LeaseInv, [Next]_vars, NEW r \in Runs \ PluginRuns, runState[r] \in Terminal
  PROVE  runState'[r] = runState[r]
<1> TypeOKLedger
  BY DEF Typed, TypeOK
<1> USE DEF runVars, decideVars, grantVars, worldVars, admitVars, holdVars
<1>1. CASE ControlPlane
  BY <1>1, ControlPlaneOnRun DEF LeaseInv
<1>2. CASE \/ UNCHANGED ledgerVars
           \/ \E s \in Slots : Refreshes(s)
           \/ \E q \in Runs : LeaseExpires(q)
  BY <1>2 DEF ledgerVars, Refreshes, LeaseExpires
<1>3. ASSUME NEW s \in Slots, NEW q \in Runs,
             ClaimRefused(s, q) \/ ClaimOverBudget(s, q) \/ ClaimGranted(s, q)
      PROVE  runState'[r] = runState[r]
  BY <1>3 DEF ClaimRefused, ClaimOverBudget, ClaimGranted, Claimable, Withdraw, Terminal, TypeOKLedger
<1>4. ASSUME NEW s \in Slots, NEW state \in RunStates, Ends(s, state)
      PROVE  runState'[r] = runState[r]
  BY <1>4 DEF Ends, Owns, Settle, Terminal, TypeOKLedger
<1>5. ASSUME NEW d \in Daemons, Start(d) PROVE runState'[r] = runState[r]
  BY <1>5 DEF Start, Expired, Terminal, TypeOKLedger
<1> QED BY <1>1, <1>2, <1>3, <1>4, <1>5, LedgerSteps

(* A run is settled once, by the owner of its lease: no late cancelRun,    *)
(* completion or recovery rewrites the end it was given.                   *)
THEOREM RunsAreSettledOnce ==
  ASSUME PluginRuns = {}
  PROVE  Spec => SettledByOwner
<1>1. Typed /\ LeaseInv /\ [Next]_vars => [OnlyOwnerPublishes /\ TerminalIsFinal]_vars
  <2> SUFFICES ASSUME Typed, LeaseInv, [Next]_vars PROVE OnlyOwnerPublishes /\ TerminalIsFinal
    OBVIOUS
  <2>1. OnlyOwnerPublishes
    BY PublishedByOwner DEF OnlyOwnerPublishes
  <2>2. TerminalIsFinal
    BY PlainEndsAreFinal DEF TerminalIsFinal
  <2> QED BY <2>1, <2>2
<1>2. Spec => [](Typed /\ LeaseInv)
  BY TypeCorrect, LeaseAndAttempts, PTL DEF Typed, LeaseInv
<1> QED BY <1>1, <1>2, PTL DEF Spec, SettledByOwner

-----------------------------------------------------------------------------
(* Production epochs.                                                      *)

(* A slot keeps the run and the epoch of its claim until it is idle again. *)
LEMMA SlotSteps ==
  ASSUME Typed, [Next]_vars, NEW t \in Slots
  PROVE  \/ slotPc'[t] = "idle"
         \/ slotPc[t] # "idle" /\ slotRun'[t] = slotRun[t] /\ slotEpoch'[t] = slotEpoch[t]
         \/ \E r \in Runs : ClaimGranted(t, r)
<1> DEFINE Goal == \/ slotPc'[t] = "idle"
                   \/ slotPc[t] # "idle" /\ slotRun'[t] = slotRun[t] /\ slotEpoch'[t] = slotEpoch[t]
                   \/ \E r \in Runs : ClaimGranted(t, r)
<1> TypeOKWorker
  BY DEF Typed, TypeOK
<1>u. ASSUME UNCHANGED <<slotPc, slotRun, slotEpoch>> PROVE Goal
  BY <1>u
<1>d. ASSUME NEW s \in Slots, Discard(s) PROVE Goal
  BY <1>d DEF Discard, TypeOKWorker
<1>t. ASSUME NEW s \in Slots, slotPc[s] # "idle", NEW sig, NEW c, Throw(s, sig, c) PROVE Goal
  BY <1>t DEF Throw, TypeOKWorker
<1>g. ASSUME NEW s \in Slots, slotPc[s] # "idle", NEW pc, slotPc' = [slotPc EXCEPT ![s] = pc],
             UNCHANGED <<slotRun, slotEpoch>>
      PROVE  Goal
  BY <1>g DEF TypeOKWorker
<1> HIDE DEF Goal
<1>1. ASSUME NEW s \in Slots, Claim(s) PROVE Goal
  <2>1. ASSUME NEW r \in Runs, ClaimGranted(s, r) PROVE Goal
    BY <2>1 DEF ClaimGranted, TypeOKWorker, Goal
  <2>2. ASSUME NEW r \in Runs, ClaimRefused(s, r) \/ ClaimOverBudget(s, r) PROVE Goal
    BY <2>2, <1>u DEF ClaimRefused, ClaimOverBudget, slotVars
  <2> QED BY <1>1, <2>1, <2>2 DEF Claim
<1>2. ASSUME NEW s \in Slots, InitialHeartbeat(s) \/ Heartbeat(s) PROVE Goal
  BY <1>2, <1>u, <1>d, <1>t, <1>g DEF InitialHeartbeat, Heartbeat, Goto, slotVars
<1>3. ASSUME NEW s \in Slots, BeginInvocation(s) \/ CallPlugin(s) \/ ReturnInvocation(s) \/ ModelFinished(s)
      PROVE  Goal
  BY <1>3, <1>g DEF BeginInvocation, CallPlugin, ReturnInvocation, ModelFinished, Goto
<1>4. ASSUME NEW s \in Slots, RefuseInvocation(s) \/ AbortInvocation(s) \/ ModelFault(s) \/ StoreFails(s)
      PROVE  Goal
  BY <1>4, <1>d, <1>t DEF RefuseInvocation, AbortInvocation, ModelFault, StoreFails
<1>5. ASSUME NEW s \in Slots, Complete(s) PROVE Goal
  <2>1. slotPc[s] # "idle" /\ (Discard(s) \/ Throw(s, "retryable", slotCost[s]))
    BY <1>5 DEF Complete, Publish
  <2> QED BY <2>1, <1>d, <1>t
<1>6. ASSUME NEW s \in Slots, CancelClaimed(s) \/ PauseForPlugin(s) \/ FailOrRetry(s) \/ LeaseLost(s)
      PROVE  Goal
  BY <1>6, <1>d DEF CancelClaimed, PauseForPlugin, FailOrRetry, LeaseLost, Disposes
<1>7. ASSUME NEW d \in Daemons, Halt(d) PROVE Goal
  BY <1>7 DEF Halt, Goal, TypeOKWorker
<1>8. CASE \/ UNCHANGED vars
           \/ ControlPlane /\ UNCHANGED <<slotVars, procVars, pluginVars>>
           \/ \E r \in Runs : LeaseExpires(r)
           \/ \E d \in Daemons : Start(d)
  BY <1>8, <1>u DEF vars, slotVars, LeaseExpires, Start
<1>9. ASSUME NEW s \in Slots, Work(s) PROVE Goal
  BY <1>9, <1>2, <1>3, <1>4, <1>5, <1>6 DEF Work
<1> QED BY <1>1, <1>2, <1>4, <1>7, <1>8, <1>9 DEF Next, Goal

(* What a slot carries was approved: a claim of production work only       *)
(* passes in an epoch of its release that a human approved.                *)
EpochInv ==
  /\ ApprovalsRecorded
  /\ \A s \in Slots : slotPc[s] # "idle" /\ slotRun[s] \in Production
                        => <<ReleaseOf[slotRun[s]], slotEpoch[s]>> \in approvedEpochs

(* No step forgets an approval, and a claim takes up the current epoch     *)
(* only under one.                                                         *)
LEMMA EpochStep ==
  ASSUME Typed, EpochInv, [Next]_vars
  PROVE  EpochInv'
<1> TypeOKLedger
  BY DEF Typed, TypeOK
<1> USE DEF runVars, decideVars, grantVars, worldVars, admitVars, holdVars
<1>1. ApprovalsRecorded' /\ approvedEpochs \subseteq approvedEpochs'
  <2>1. CASE ControlPlane
    BY <2>1, ControlPlaneApprovals DEF EpochInv
  <2>2. CASE UNCHANGED decideVars
    BY <2>2 DEF EpochInv, ApprovalsRecorded
  <2>3. CASE \E s \in Slots, r \in Runs : ClaimRefused(s, r)
    BY <2>3 DEF ClaimRefused, Withdraw, EpochInv, ApprovalsRecorded, TypeOKLedger
  <2> QED BY <2>1, <2>2, <2>3, LedgerSteps
          DEF ledgerVars, Refreshes, LeaseExpires, ClaimOverBudget, ClaimGranted, Ends, Settle, Start
<1>2. ASSUME NEW t \in Slots, slotPc'[t] # "idle", slotRun'[t] \in Production
      PROVE  <<ReleaseOf[slotRun'[t]], slotEpoch'[t]>> \in approvedEpochs
  <2>1. CASE slotPc[t] # "idle" /\ slotRun'[t] = slotRun[t] /\ slotEpoch'[t] = slotEpoch[t]
    BY <1>2, <2>1 DEF EpochInv
  <2>2. ASSUME NEW r \in Runs, ClaimGranted(t, r)
        PROVE  <<ReleaseOf[slotRun'[t]], slotEpoch'[t]>> \in approvedEpochs
    <3>1. slotRun'[t] = r /\ slotEpoch'[t] = IF r \in Production THEN epoch ELSE 0
      BY <2>2 DEF ClaimGranted, Typed, TypeOK, TypeOKWorker
    <3>2. EpochApproved(ReleaseOf[r])
      BY <1>2, <2>2, <3>1 DEF ClaimGranted, ClaimRejected
    <3> QED BY <1>2, <3>1, <3>2 DEF EpochApproved, EpochInv, ApprovalsRecorded
  <2> QED BY <1>2, <2>1, <2>2, SlotSteps
<1> QED BY <1>1, <1>2 DEF EpochInv

(* For every pointer history: an outcome of production work is published   *)
(* while the channel names its release, in an epoch a human approved.      *)
THEOREM PublishedUnderApproval == Spec => [][PublishedInApprovedEpoch]_vars
<1>1. Init => EpochInv
  BY DEF Init, InitLedger, EpochInv, ApprovalsRecorded
<1>2. Typed /\ EpochInv /\ [Next]_vars => EpochInv'
  BY EpochStep
<1>3. Typed /\ EpochInv /\ [Next]_vars => [PublishedInApprovedEpoch]_vars
  <2> SUFFICES ASSUME Typed, EpochInv, [Next]_vars, NEW r \in Production, outcome'[r] > outcome[r]
               PROVE  channel = ReleaseOf[r] /\ <<channel, epoch>> \in approvedEpochs
    BY DEF PublishedInApprovedEpoch
  <2>1. r \in Runs
    BY ScopeAssumption
  <2>2. PICK s \in Slots : slotRun[s] = r /\ slotPc[s] = "publishing" /\ EpochCurrent(s, r)
    BY <2>1, PublishedByOwner
  <2> QED BY <2>2 DEF EpochCurrent, EpochInv
<1>4. Spec => []Typed
  BY TypeCorrect, PTL DEF Typed
<1> QED BY <1>1, <1>2, <1>3, <1>4, PTL DEF Spec

-----------------------------------------------------------------------------
(* The external effect of a Plugin call.                                   *)

(* A slot between the two rows of an invocation. *)
Invoking(s) == slotPc[s] \in {"begun", "calling"}

(* The ledger row precedes the call: at most one slot is between the two   *)
(* rows of a run, it has not made the call while it is at the first, and a *)
(* run that may still be handed out has no row.                            *)
EffectInv ==
  /\ \A s \in Slots : Invoking(s) => ledger[slotRun[s]] # "none"
  /\ \A s, t \in Slots : Invoking(s) /\ Invoking(t) /\ slotRun[s] = slotRun[t] => s = t
  /\ \A s \in Slots : slotPc[s] = "begun" => effects[slotRun[s]] = 0
  /\ \A r \in Runs : /\ effects[r] <= 1
                     /\ ledger[r] = "none" => effects[r] = 0
                     /\ runState[r] \in Unstarted => ledger[r] = "none"

(* A step that leaves the invocations alone only hands out runs that have  *)
(* no row.                                                                 *)
LEMMA UnstartedStep ==
  ASSUME Typed, LeaseInv, EffectInv, [Next]_vars, NEW q \in Runs, runState'[q] \in Unstarted
  PROVE  ledger[q] = "none"
<1> TypeOKLedger
  BY DEF Typed, TypeOK
<1> USE DEF runVars, decideVars, grantVars, worldVars, admitVars, holdVars
<1>u. ASSUME runState[q] \in Unstarted PROVE ledger[q] = "none"
  BY <1>u DEF EffectInv
<1>1. CASE ControlPlane
  BY <1>1, <1>u, ControlPlaneOnRun DEF LeaseInv
<1>2. CASE \/ UNCHANGED ledgerVars
           \/ \E s \in Slots : Refreshes(s)
           \/ \E r \in Runs : LeaseExpires(r)
  BY <1>2, <1>u DEF ledgerVars, Refreshes, LeaseExpires
<1>3. ASSUME NEW s \in Slots, NEW r \in Runs,
             ClaimRefused(s, r) \/ ClaimOverBudget(s, r) \/ ClaimGranted(s, r)
      PROVE  ledger[q] = "none"
  <2>1. runState[q] \in Unstarted
    BY <1>3 DEF ClaimRefused, ClaimOverBudget, ClaimGranted, Claimable, Withdraw, Unstarted, TypeOKLedger
  <2> QED BY <2>1, <1>u
<1>4. ASSUME NEW s \in Slots, NEW state \in RunStates, Ends(s, state) PROVE ledger[q] = "none"
  BY <1>4, <1>u DEF Ends, Settle, Retriable, Unstarted, TypeOKLedger
<1>5. ASSUME NEW d \in Daemons, Start(d) PROVE ledger[q] = "none"
  BY <1>5, <1>u DEF Start, Retriable, Unstarted, TypeOKLedger
<1> QED BY <1>1, <1>2, <1>3, <1>4, <1>5, LedgerSteps

(* A step after which no slot is newly between the two rows of an          *)
(* invocation, and which writes no first row.                              *)
Quiet ==
  /\ effects' = effects
  /\ \A r \in Runs : ledger'[r] = "none" <=> ledger[r] = "none"
  /\ \A t \in Slots : slotPc'[t] \in {"begun", "calling"}
                        => slotPc'[t] = slotPc[t] /\ slotRun'[t] = slotRun[t]

(* Only beginInvocation writes a first row, and only the call that follows *)
(* it has an effect.                                                       *)
LEMMA InvocationSteps ==
  ASSUME Typed, EffectInv, [Next]_vars
  PROVE  Quiet \/ \E s \in Slots : BeginInvocation(s) \/ CallPlugin(s)
<1> TypeOKWorker
  BY DEF Typed, TypeOK
<1>u. ASSUME UNCHANGED <<slotPc, slotRun, pluginVars>> PROVE Quiet
  BY <1>u DEF Quiet, pluginVars
<1>d. ASSUME NEW s \in Slots, Discard(s), UNCHANGED pluginVars PROVE Quiet
  BY <1>d DEF Discard, Quiet, TypeOKWorker, pluginVars
<1>t. ASSUME NEW s \in Slots, NEW sig, NEW c, Throw(s, sig, c), UNCHANGED pluginVars PROVE Quiet
  BY <1>t DEF Throw, Quiet, TypeOKWorker, pluginVars
<1>1. ASSUME NEW s \in Slots, Claim(s) PROVE Quiet
  <2>1. ASSUME NEW r \in Runs, ClaimGranted(s, r) PROVE Quiet
    BY <2>1 DEF ClaimGranted, TypeOKWorker, Quiet, pluginVars
  <2>2. ASSUME NEW r \in Runs, ClaimRefused(s, r) \/ ClaimOverBudget(s, r) PROVE Quiet
    BY <2>2, <1>u DEF ClaimRefused, ClaimOverBudget, slotVars
  <2> QED BY <1>1, <2>1, <2>2 DEF Claim
<1>2. ASSUME NEW s \in Slots, InitialHeartbeat(s) \/ Heartbeat(s) PROVE Quiet
  <2>1. \/ UNCHANGED <<slotPc, slotRun, pluginVars>>
        \/ Discard(s) /\ UNCHANGED pluginVars
        \/ \E c \in Int : Throw(s, "cancelled", c) /\ UNCHANGED pluginVars
        \/ Goto(s, FirstStage(slotRun[s])) /\ UNCHANGED pluginVars
    BY <1>2 DEF InitialHeartbeat, Heartbeat, Renew, slotVars
  <2>2. ASSUME Goto(s, FirstStage(slotRun[s])), UNCHANGED pluginVars PROVE Quiet
    BY <2>2 DEF Goto, FirstStage, Quiet, TypeOKWorker, pluginVars
  <2> QED BY <2>1, <2>2, <1>u, <1>d, <1>t
<1>3. ASSUME NEW s \in Slots, ModelFinished(s) PROVE Quiet
  BY <1>3 DEF ModelFinished, Quiet, TypeOKWorker, pluginVars
<1>4. ASSUME NEW s \in Slots, RefuseInvocation(s) \/ ModelFault(s) PROVE Quiet
  BY <1>4, <1>d, <1>t DEF RefuseInvocation, ModelFault
<1>5. ASSUME NEW s \in Slots, Complete(s) PROVE Quiet
  <2>1. (Discard(s) \/ Throw(s, "retryable", slotCost[s])) /\ UNCHANGED pluginVars
    BY <1>5 DEF Complete, Publish, Settle
  <2> QED BY <2>1, <1>d, <1>t
<1>6. ASSUME NEW s \in Slots, CancelClaimed(s) \/ PauseForPlugin(s) \/ FailOrRetry(s) \/ LeaseLost(s)
      PROVE  Quiet
  BY <1>6, <1>d DEF CancelClaimed, PauseForPlugin, FailOrRetry, LeaseLost, Disposes, Settle
<1>7. ASSUME NEW s \in Slots, Invoking(s), NEW l \in {"begun", "succeeded", "cancelled", "failed"},
             ledger' = [ledger EXCEPT ![slotRun[s]] = l]
      PROVE  \A r \in Runs : ledger'[r] = "none" <=> ledger[r] = "none"
  <2>1. ledger[slotRun[s]] # "none"
    BY <1>7 DEF EffectInv
  <2> QED BY <1>7, <2>1 DEF TypeOKWorker
<1>8. ASSUME NEW s \in Slots, ReturnInvocation(s) PROVE Quiet
  <2>1. \A r \in Runs : ledger'[r] = "none" <=> ledger[r] = "none"
    BY <1>8, <1>7 DEF ReturnInvocation, Invoking
  <2> QED BY <1>8, <2>1 DEF ReturnInvocation, Quiet, TypeOKWorker
<1>9. ASSUME NEW s \in Slots, AbortInvocation(s) PROVE Quiet
  <2>1. \A r \in Runs : ledger'[r] = "none" <=> ledger[r] = "none"
    BY <1>9, <1>7 DEF AbortInvocation, Invoking
  <2> QED BY <1>9, <2>1 DEF AbortInvocation, Discard, Throw, Quiet, TypeOKWorker
<1>10. ASSUME NEW s \in Slots, StoreFails(s) PROVE Quiet
  <2>1. \A r \in Runs : ledger'[r] = "none" <=> ledger[r] = "none"
    BY <1>10, <1>7 DEF StoreFails, Invoking
  <2> QED BY <1>10, <2>1 DEF StoreFails, Discard, Throw, Quiet, TypeOKWorker
<1>11. ASSUME NEW d \in Daemons, Halt(d) PROVE Quiet
  BY <1>11 DEF Halt, Quiet, TypeOKWorker, pluginVars
<1>12. ASSUME \/ UNCHANGED vars
              \/ ControlPlane /\ UNCHANGED <<slotVars, procVars, pluginVars>>
              \/ \E r \in Runs : LeaseExpires(r)
              \/ \E d \in Daemons : Start(d)
       PROVE  Quiet
  BY <1>12, <1>u DEF vars, slotVars, LeaseExpires, Start
<1> HIDE DEF Quiet
<1> QED
  BY <1>1, <1>2, <1>3, <1>4, <1>5, <1>6, <1>8, <1>9, <1>10, <1>11, <1>12 DEF Next, Work

(* Every step keeps the row before the call, and the call behind one row. *)
LEMMA EffectStep ==
  ASSUME Typed, LeaseInv, EffectInv, [Next]_vars
  PROVE  EffectInv'
<1> TypeOKWorker
  BY DEF Typed, TypeOK
<1>u. ASSUME NEW q \in Runs, runState'[q] \in Unstarted PROVE ledger[q] = "none"
  BY <1>u, UnstartedStep
<1>1. CASE Quiet
  <2>1. \A t \in Slots : Invoking(t)' => Invoking(t) /\ slotPc'[t] = slotPc[t] /\ slotRun'[t] = slotRun[t]
    BY <1>1 DEF Quiet, Invoking
  <2>2. \A t \in Slots : Invoking(t) => slotRun[t] \in Runs
    BY DEF Invoking, Typed, SlotBusy
  <2>3. \A t \in Slots : slotPc'[t] = "begun" => Invoking(t)'
    BY DEF Invoking
  <2>4. \A t \in Slots : Invoking(t)' => ledger'[slotRun'[t]] # "none"
    BY <1>1, <2>1, <2>2 DEF EffectInv, Quiet
  <2>5. \A t \in Slots : slotPc'[t] = "begun" => effects'[slotRun'[t]] = 0
    BY <1>1, <2>1, <2>3 DEF EffectInv, Quiet
  <2>6. \A s, t \in Slots : Invoking(s)' /\ Invoking(t)' /\ slotRun'[s] = slotRun'[t] => s = t
    BY <2>1 DEF EffectInv
  <2>7. \A r \in Runs : /\ effects'[r] <= 1
                        /\ ledger'[r] = "none" => effects'[r] = 0
                        /\ runState'[r] \in Unstarted => ledger'[r] = "none"
    BY <1>1, <1>u DEF EffectInv, Quiet
  <2> QED BY <2>4, <2>5, <2>6, <2>7 DEF EffectInv
<1>2. ASSUME NEW s \in Slots, BeginInvocation(s) PROVE EffectInv'
  <2> DEFINE r == slotRun[s]
  <2>1. /\ r \in Runs /\ ledger[r] = "none" /\ effects[r] = 0 /\ runState'[r] \notin Unstarted
        /\ slotPc' = [slotPc EXCEPT ![s] = "begun"] /\ slotRun' = slotRun /\ effects' = effects
        /\ ledger' = [ledger EXCEPT ![r] = "begun"]
    BY <1>2 DEF BeginInvocation, Goto, Owns, ledgerVars, runVars, Unstarted, EffectInv, Typed, SlotBusy
  <2>2. \A t \in Slots : Invoking(t)' => t = s \/ (Invoking(t) /\ slotRun[t] # r /\ slotPc'[t] = slotPc[t])
    BY <2>1 DEF Invoking, EffectInv, TypeOKWorker
  <2>3. \A t \in Slots : Invoking(t) => slotRun[t] \in Runs
    BY DEF Invoking, Typed, SlotBusy
  <2> HIDE DEF r
  <2>4. \A t \in Slots : Invoking(t)' => ledger'[slotRun'[t]] # "none"
    BY <2>1, <2>2, <2>3 DEF EffectInv, TypeOKWorker, r
  <2>5. \A t \in Slots : slotPc'[t] = "begun" => effects'[slotRun'[t]] = 0
    BY <2>1, <2>2 DEF EffectInv, Invoking, r
  <2>6. \A t, w \in Slots : Invoking(t)' /\ Invoking(w)' /\ slotRun'[t] = slotRun'[w] => t = w
    BY <2>1, <2>2 DEF EffectInv, r
  <2>7. \A q \in Runs : /\ effects'[q] <= 1
                        /\ ledger'[q] = "none" => effects'[q] = 0
                        /\ runState'[q] \in Unstarted => ledger'[q] = "none"
    BY <2>1, <1>u DEF EffectInv, TypeOKWorker
  <2> QED BY <2>4, <2>5, <2>6, <2>7 DEF EffectInv
<1>3. ASSUME NEW s \in Slots, CallPlugin(s) PROVE EffectInv'
  <2> DEFINE r == slotRun[s]
  <2>1. /\ r \in Runs /\ ledger[r] # "none" /\ effects[r] = 0 /\ slotPc[s] = "begun" /\ Invoking(s)
        /\ slotPc' = [slotPc EXCEPT ![s] = "calling"] /\ slotRun' = slotRun /\ ledger' = ledger
        /\ effects' = [effects EXCEPT ![r] = effects[r] + 1] /\ runState' = runState
    BY <1>3 DEF CallPlugin, Goto, ledgerVars, runVars, EffectInv, Invoking, Typed, SlotBusy
  <2>2. \A t \in Slots : Invoking(t)' => /\ Invoking(t)
                                         /\ t # s => slotRun[t] # r /\ slotPc'[t] = slotPc[t]
    BY <2>1 DEF Invoking, EffectInv, TypeOKWorker
  <2>3. slotPc'[s] # "begun"
    BY <2>1 DEF TypeOKWorker
  <2>4. \A t \in Slots : Invoking(t)' => ledger'[slotRun'[t]] # "none"
    BY <2>1, <2>2 DEF EffectInv
  <2>5. \A t \in Slots : slotPc'[t] = "begun" => effects'[slotRun'[t]] = 0
    <3> SUFFICES ASSUME NEW t \in Slots, slotPc'[t] = "begun" PROVE effects'[slotRun'[t]] = 0
      OBVIOUS
    <3>1. t # s /\ Invoking(t)'
      BY <2>3 DEF Invoking
    <3>2. slotPc[t] = "begun" /\ slotRun[t] # r
      BY <2>2, <3>1
    <3>3. effects[slotRun[t]] = 0 /\ slotRun[t] \in Runs
      BY <3>2 DEF EffectInv, Typed, SlotBusy
    <3> QED BY <2>1, <3>2, <3>3 DEF TypeOKWorker
  <2>6. \A t, w \in Slots : Invoking(t)' /\ Invoking(w)' /\ slotRun'[t] = slotRun'[w] => t = w
    BY <2>1, <2>2 DEF EffectInv
  <2>7. \A q \in Runs : /\ effects'[q] <= 1
                        /\ ledger'[q] = "none" => effects'[q] = 0
                        /\ runState'[q] \in Unstarted => ledger'[q] = "none"
    BY <2>1 DEF EffectInv, TypeOKWorker
  <2> QED BY <2>4, <2>5, <2>6, <2>7 DEF EffectInv
<1> QED BY <1>1, <1>2, <1>3, InvocationSteps

(* For every number of slots, crashes, lost store calls and Plugin holds:  *)
(* the external call of a run happens at most once, a run whose invocation *)
(* was begun is never handed out again, and the reservation of the grant   *)
(* covers the runs that work under it.                                     *)
THEOREM PluginEffectsAreFinal == Spec => []EffectsAreFinal
<1>1. Init => EffectInv
  BY DEF Init, InitLedger, EffectInv, Invoking
<1>2. Typed /\ LeaseInv /\ EffectInv /\ [Next]_vars => EffectInv'
  BY EffectStep
<1>3. Spec => [](Typed /\ LeaseInv)
  BY TypeCorrect, LeaseAndAttempts, PTL DEF Typed, LeaseInv
<1>4. EffectInv => EffectAtMostOnce /\ BegunNeverRequeued
  BY DEF EffectInv, EffectAtMostOnce, BegunNeverRequeued, Unstarted
<1> QED BY <1>1, <1>2, <1>3, <1>4, ReservationNeverShort, PTL DEF Spec, EffectsAreFinal
=============================================================================
