----------------------- MODULE ExecutionAuthorityProofs -----------------------
(***************************************************************************)
(* What the control plane preserves, for every value of the constants: the *)
(* lemmas about ExecutionAuthority that the proofs about both executors,   *)
(* DurableWorker and InProcessDispatcher, rest on.                         *)
(***************************************************************************)
EXTENDS ExecutionAuthority, FiniteSetTheorems, TLAPS

-----------------------------------------------------------------------------
(* Money.                                                                  *)

(* The cost of a set of runs is a natural number: there are finitely many  *)
(* runs and each has a finite estimate.                                    *)
LEMMA CostType ==
  ASSUME NEW S \in SUBSET Runs
  PROVE  /\ IsFiniteSet(UNION {UnitsOf(r) : r \in S})
         /\ Cost(S) \in Nat
<1> DEFINE T == {UnitsOf(r) : r \in S}
<1> DEFINE f == [r \in S |-> UnitsOf(r)]
<1>1. IsFiniteSet(S)
  BY FS_Subset, RunsAssumption
<1>2. f \in Surjection(S, T)
  BY DEF Surjection
<1>3. IsFiniteSet(T)
  <2> HIDE DEF f, T
  <2> QED BY <1>1, <1>2, FS_Surjection
<1>4. \A U \in T : IsFiniteSet(U)
  <2> SUFFICES ASSUME NEW r \in S PROVE IsFiniteSet({r} \X (1 .. Upper[r]))
    BY DEF UnitsOf
  <2>1. Upper[r] \in Int
    BY CostAssumption
  <2>2. IsFiniteSet(1 .. Upper[r])
    BY <2>1, FS_Interval
  <2>3. IsFiniteSet({r})
    BY FS_Singleton
  <2> QED BY <2>2, <2>3, FS_Product
<1>5. IsFiniteSet(UNION T)
  <2> HIDE DEF T
  <2> QED BY <1>3, <1>4, FS_UNION
<1>6. Cardinality(UNION T) \in Nat
  BY <1>5, FS_CardinalityType
<1> QED BY <1>5, <1>6 DEF Cost

(* No runs cost nothing. *)
LEMMA CostEmpty == Cost({}) = 0
<1>1. UNION {UnitsOf(r) : r \in {}} = {}
  OBVIOUS
<1> QED BY <1>1, FS_EmptySet DEF Cost

(* One run costs its upper estimate. *)
LEMMA CostOne ==
  ASSUME NEW r \in Runs
  PROVE  Cost({r}) = Upper[r]
<1>1. UNION {UnitsOf(q) : q \in {r}} = {r} \X (1 .. Upper[r])
  BY DEF UnitsOf
<1>2. Upper[r] \in Nat
  BY CostAssumption
<1>3. IsFiniteSet({r}) /\ Cardinality({r}) = 1
  BY FS_Singleton
<1>4. IsFiniteSet(1 .. Upper[r]) /\ Cardinality(1 .. Upper[r]) = Upper[r]
  <2>1. \A n \in Int : /\ IsFiniteSet(1 .. n)
                      /\ Cardinality(1 .. n) = IF 1 > n THEN 0 ELSE n - 1 + 1
    BY FS_Interval
  <2> QED BY <1>2, <2>1
<1>5. Cardinality({r} \X (1 .. Upper[r])) = Cardinality({r}) * Cardinality(1 .. Upper[r])
  <2> DEFINE A == {r}
             B == 1 .. Upper[r]
  <2>1. IsFiniteSet(A) /\ IsFiniteSet(B)
    BY <1>3, <1>4
  <2> HIDE DEF A, B
  <2>2. Cardinality(A \X B) = Cardinality(A) * Cardinality(B)
    BY <2>1, FS_Product
  <2> QED BY <2>2 DEF A, B
<1>6. Cardinality({r} \X (1 .. Upper[r])) = Upper[r]
  BY <1>2, <1>3, <1>4, <1>5
<1> QED BY <1>1, <1>6 DEF Cost

(* The costs of disjoint sets of runs add up. *)
LEMMA CostUnion ==
  ASSUME NEW S \in SUBSET Runs, NEW T \in SUBSET Runs, S \cap T = {}
  PROVE  Cost(S \cup T) = Cost(S) + Cost(T)
<1> DEFINE A == UNION {UnitsOf(r) : r \in S}
           B == UNION {UnitsOf(r) : r \in T}
<1>1. UNION {UnitsOf(r) : r \in S \cup T} = A \cup B
  OBVIOUS
<1>2. A \cap B = {}
  BY DEF UnitsOf
<1>3. IsFiniteSet(A) /\ IsFiniteSet(B) /\ Cost(S) \in Nat /\ Cost(T) \in Nat
  BY CostType
<1>4. Cost(S) = Cardinality(A) /\ Cost(T) = Cardinality(B)
  BY DEF Cost
<1>5. Cost(S \cup T) = Cardinality(A \cup B)
  BY <1>1 DEF Cost
<1> HIDE DEF A, B
<1>6. Cardinality(A \cup B) = Cardinality(A) + Cardinality(B) - Cardinality(A \cap B)
  BY <1>3, FS_Union
<1>7. Cardinality(A \cap B) = 0
  BY <1>2, FS_EmptySet
<1> QED BY <1>3, <1>4, <1>5, <1>6, <1>7

(* Taking runs out of a set takes their cost out. *)
LEMMA CostRemove ==
  ASSUME NEW S \in SUBSET Runs, NEW T \in SUBSET S
  PROVE  /\ Cost(S) \in Nat
         /\ Cost(T) \in Nat
         /\ Cost(S \ T) \in Nat
         /\ Cost(S \ T) = Cost(S) - Cost(T)
<1>1. Cost(S \ T) \in Nat /\ Cost(T) \in Nat /\ Cost(S) \in Nat
  BY CostType
<1>2. (S \ T) \cup T = S /\ (S \ T) \cap T = {} /\ S \ T \in SUBSET Runs /\ T \in SUBSET Runs
  OBVIOUS
<1>3. Cost((S \ T) \cup T) = Cost(S \ T) + Cost(T)
  BY <1>2, CostUnion
<1>4. Cost(S) = Cost(S \ T) + Cost(T)
  BY <1>2, <1>3, Zenon
<1> QED BY <1>1, <1>4

-----------------------------------------------------------------------------
(* Type correctness.                                                       *)

(* Every control-plane operation writes only values of the columns' types. *)
LEMMA ControlPlaneType ==
  ASSUME TypeOKLedger, ControlPlane
  PROVE  TypeOKLedger'
<1> USE DEF TypeOKLedger, runVars, decideVars, grantVars, worldVars, admitVars, holdVars
<1>1. ASSUME NEW g \in Grants, CreateGrant(g) PROVE TypeOKLedger'
  BY <1>1 DEF CreateGrant
<1>2. ASSUME NEW g \in Grants, Lapse(g) PROVE TypeOKLedger'
  BY <1>2 DEF Lapse
<1>3. ASSUME NEW g \in Grants, RevokeGrant(g) PROVE TypeOKLedger'
  BY <1>3 DEF RevokeGrant, Withdraw, RunStates
<1>4. ASSUME NEW r \in Runs, NEW g \in Grants \cup {Nil}, BeginCreateRun(r, g)
      PROVE  TypeOKLedger'
  <2>1. CreateRunDecision(r, g) \in {"awaiting_approval", "queued", "paused_budget", "paused_plugin"}
    BY DEF CreateRunDecision
  <2> QED BY <1>4, <2>1 DEF BeginCreateRun
<1>5. ASSUME NEW r \in Runs, CommitCreateRun(r) PROVE TypeOKLedger'
  BY <1>5 DEF CommitCreateRun, RunStates
<1>6. ASSUME NEW S \in SUBSET Runs, Refuse(S) PROVE TypeOKLedger'
  BY <1>6 DEF Refuse, RunStates
<1>7. ASSUME NEW r \in Runs, CancelRun(r) PROVE TypeOKLedger'
  <2>1. CASE runState[r] = "running"
    BY <1>7, <2>1 DEF CancelRun
  <2>2. CASE runState[r] # "running"
    BY <1>7, <2>2 DEF CancelRun, CloseRequest, RunStates
  <2> QED BY <2>1, <2>2
<1>8. ASSUME NEW S \in SUBSET Runs, NEW g \in Grants, Authorise(S, g) PROVE TypeOKLedger'
  <2>1. {<<ReleaseOf[r], epoch>> : r \in S \ Drafts} \subseteq Releases \X Nat
    BY ScopeAssumption
  <2> QED BY <1>8, <2>1 DEF Authorise, RunStates
<1>9. ASSUME NEW rel \in Releases, SwapChannel(rel) PROVE TypeOKLedger'
  BY <1>9 DEF SwapChannel
<1>10. ASSUME BeginHold PROVE TypeOKLedger'
  BY <1>10 DEF BeginHold
<1>11. ASSUME EndHold PROVE TypeOKLedger'
  BY <1>11 DEF EndHold, RunStates
<1>12. ASSUME EnablePlugin PROVE TypeOKLedger'
  BY <1>12 DEF EnablePlugin
<1> HIDE DEF TypeOKLedger
<1> QED
  BY <1>1, <1>2, <1>3, <1>4, <1>5, <1>6, <1>7, <1>8, <1>9, <1>10, <1>11, <1>12
     DEF ControlPlane, ApproveRun, ApproveRunGroup, RejectRun, RejectRunGroup

-----------------------------------------------------------------------------
(* Leases.                                                                 *)

(* A createRun request in flight has no row yet, a row that does not exist *)
(* was never attempted, and a Plugin hold in flight only saw rows that     *)
(* exist and that need the Plugin.                                         *)
Fresh ==
  \A r \in Runs : /\ admitState[r] # "none" => runState[r] = "absent"
                  /\ runState[r] = "absent" => attempts[r] = 0
                  /\ holdSeen[r] # "none" => runState[r] # "absent" /\ r \in PluginRuns

Shape == LeaseMatchesState /\ Fresh

(* Every control-plane operation keeps the shape of the ledger. *)
LEMMA ControlPlaneShape ==
  ASSUME TypeOKLedger, Shape, ControlPlane
  PROVE  Shape'
<1> USE DEF TypeOKLedger, Shape, LeaseMatchesState, Fresh,
            runVars, decideVars, grantVars, worldVars, admitVars, holdVars
<1> USE RunsAssumption
<1>1. ASSUME NEW g \in Grants, CreateGrant(g) PROVE Shape'
  BY <1>1 DEF CreateGrant
<1>2. ASSUME NEW g \in Grants, Lapse(g) PROVE Shape'
  BY <1>2 DEF Lapse
<1>3. ASSUME NEW g \in Grants, RevokeGrant(g) PROVE Shape'
  BY <1>3 DEF RevokeGrant, Withdraw
<1>4. ASSUME NEW r \in Runs, NEW g \in Grants \cup {Nil}, BeginCreateRun(r, g)
      PROVE  Shape'
  BY <1>4 DEF BeginCreateRun
<1>5. ASSUME NEW r \in Runs, CommitCreateRun(r) PROVE Shape'
  BY <1>5 DEF CommitCreateRun
<1>6. ASSUME NEW S \in SUBSET Runs, Refuse(S) PROVE Shape'
  BY <1>6 DEF Refuse, Awaiting
<1>7. ASSUME NEW r \in Runs, CancelRun(r) PROVE Shape'
  BY <1>7 DEF CancelRun, Cancellable
<1>8. ASSUME NEW S \in SUBSET Runs, NEW g \in Grants, Authorise(S, g) PROVE Shape'
  BY <1>8 DEF Authorise, Awaiting
<1>9. ASSUME NEW rel \in Releases, SwapChannel(rel) PROVE Shape'
  BY <1>9 DEF SwapChannel
<1>10. ASSUME BeginHold PROVE Shape'
  BY <1>10 DEF BeginHold
<1>11. ASSUME EndHold PROVE Shape'
  BY <1>11 DEF EndHold, HoldPauses
<1>12. ASSUME EnablePlugin PROVE Shape'
  BY <1>12 DEF EnablePlugin
<1> HIDE DEF Shape
<1> QED
  BY <1>1, <1>2, <1>3, <1>4, <1>5, <1>6, <1>7, <1>8, <1>9, <1>10, <1>11, <1>12
     DEF ControlPlane, ApproveRun, ApproveRunGroup, RejectRun, RejectRunGroup

(* A control-plane operation hands no run out again that has used up its   *)
(* attempts.                                                               *)
LEMMA ControlPlaneAttempts ==
  ASSUME TypeOKLedger, Fresh, AttemptsBounded, ControlPlane
  PROVE  AttemptsBounded'
<1> USE DEF TypeOKLedger, Fresh, AttemptsBounded,
            runVars, decideVars, grantVars, worldVars, admitVars, holdVars
<1> USE BoundAssumption
<1>1. ASSUME NEW g \in Grants, CreateGrant(g) PROVE AttemptsBounded'
  BY <1>1 DEF CreateGrant
<1>2. ASSUME NEW g \in Grants, Lapse(g) PROVE AttemptsBounded'
  BY <1>2 DEF Lapse
<1>3. ASSUME NEW g \in Grants, RevokeGrant(g) PROVE AttemptsBounded'
  BY <1>3 DEF RevokeGrant, Withdraw
<1>4. ASSUME NEW r \in Runs, NEW g \in Grants \cup {Nil}, BeginCreateRun(r, g)
      PROVE  AttemptsBounded'
  BY <1>4 DEF BeginCreateRun
<1>5. ASSUME NEW r \in Runs, CommitCreateRun(r) PROVE AttemptsBounded'
  BY <1>5 DEF CommitCreateRun
<1>6. ASSUME NEW S \in SUBSET Runs, Refuse(S) PROVE AttemptsBounded'
  BY <1>6 DEF Refuse, Awaiting
<1>7. ASSUME NEW r \in Runs, CancelRun(r) PROVE AttemptsBounded'
  BY <1>7 DEF CancelRun, Cancellable
<1>8. ASSUME NEW S \in SUBSET Runs, NEW g \in Grants, Authorise(S, g) PROVE AttemptsBounded'
  BY <1>8 DEF Authorise, Awaiting
<1>9. ASSUME NEW rel \in Releases, SwapChannel(rel) PROVE AttemptsBounded'
  BY <1>9 DEF SwapChannel
<1>10. ASSUME BeginHold PROVE AttemptsBounded'
  BY <1>10 DEF BeginHold
<1>11. ASSUME EndHold PROVE AttemptsBounded'
  BY <1>11 DEF EndHold, HoldPauses
<1>12. ASSUME EnablePlugin PROVE AttemptsBounded'
  BY <1>12 DEF EnablePlugin
<1> HIDE DEF AttemptsBounded, TypeOKLedger, Fresh
<1> QED
  BY <1>1, <1>2, <1>3, <1>4, <1>5, <1>6, <1>7, <1>8, <1>9, <1>10, <1>11, <1>12
     DEF ControlPlane, ApproveRun, ApproveRunGroup, RejectRun, RejectRunGroup

-----------------------------------------------------------------------------
(* Reservations.                                                           *)

Covered(g) == /\ reserved[g] >= Cost(RunningOn(g))
              /\ PluginRuns = {} => reserved[g] = Cost(RunningOn(g))

(* The control plane never touches a reservation, and takes a run off a    *)
(* slot only when a Plugin hold does.                                      *)
LEMMA ControlPlaneRunning ==
  ASSUME TypeOKLedger, Fresh, ControlPlane, NEW g \in Grants
  PROVE  /\ reserved' = reserved
         /\ RunningOn(g)' \subseteq RunningOn(g)
         /\ PluginRuns = {} => RunningOn(g)' = RunningOn(g)
<1> DEFINE Goal == /\ reserved' = reserved
                   /\ RunningOn(g)' \subseteq RunningOn(g)
                   /\ PluginRuns = {} => RunningOn(g)' = RunningOn(g)
<1> USE DEF TypeOKLedger, RunningOn, runVars, decideVars, grantVars, worldVars, admitVars, holdVars
<1>1. ASSUME NEW h \in Grants, CreateGrant(h) \/ Lapse(h) PROVE Goal
  BY <1>1 DEF CreateGrant, Lapse
<1>3. ASSUME NEW h \in Grants, RevokeGrant(h) PROVE Goal
  BY <1>3 DEF RevokeGrant, Withdraw
<1>4. ASSUME NEW r \in Runs, NEW h \in Grants \cup {Nil}, BeginCreateRun(r, h) PROVE Goal
  BY <1>4 DEF BeginCreateRun
<1>5. ASSUME NEW r \in Runs, CommitCreateRun(r) PROVE Goal
  BY <1>5 DEF CommitCreateRun, Fresh
<1>6. ASSUME NEW S \in SUBSET Runs, Refuse(S) PROVE Goal
  BY <1>6 DEF Refuse, Awaiting
<1>7. ASSUME NEW r \in Runs, CancelRun(r) PROVE Goal
  BY <1>7 DEF CancelRun
<1>8. ASSUME NEW S \in SUBSET Runs, NEW h \in Grants, Authorise(S, h) PROVE Goal
  BY <1>8 DEF Authorise, Awaiting
<1>9. ASSUME NEW rel \in Releases, SwapChannel(rel) PROVE Goal
  BY <1>9 DEF SwapChannel
<1>10. ASSUME BeginHold \/ EnablePlugin PROVE Goal
  BY <1>10 DEF BeginHold, EnablePlugin
<1>11. ASSUME EndHold PROVE Goal
  BY <1>11 DEF EndHold, HoldPauses, Fresh
<1> HIDE DEF Goal
<1>12. Goal
  BY <1>1, <1>3, <1>4, <1>5, <1>6, <1>7, <1>8, <1>9, <1>10, <1>11
     DEF ControlPlane, ApproveRun, ApproveRunGroup, RejectRun, RejectRunGroup
<1> QED BY <1>12 DEF Goal

(* A grant whose reservation is kept and whose running runs only become    *)
(* fewer stays covered.                                                    *)
LEMMA CoveredKept ==
  ASSUME TypeOKLedger, NEW g \in Grants, Covered(g), reserved'[g] = reserved[g],
         RunningOn(g)' \subseteq RunningOn(g),
         PluginRuns = {} => RunningOn(g)' = RunningOn(g)
  PROVE  Covered(g)'
<1> DEFINE A == RunningOn(g)
           B == RunningOn(g)'
<1>1. A \in SUBSET Runs /\ B \in SUBSET A /\ A \ (A \ B) = B /\ A \ B \in SUBSET A
  BY DEF RunningOn
<1>2. reserved[g] \in Nat /\ reserved[g] >= Cost(A) /\ (PluginRuns = {} => reserved[g] = Cost(A))
  BY DEF TypeOKLedger, Covered
<1> HIDE DEF A, B
<1>3. Cost(A) \in Nat /\ Cost(A \ B) \in Nat /\ Cost(A \ (A \ B)) = Cost(A) - Cost(A \ B)
  BY <1>1, CostRemove
<1>4. Cost(B) = Cost(A) - Cost(A \ B)
  BY <1>1, <1>3, Zenon
<1>5. reserved[g] >= Cost(B)
  BY <1>2, <1>3, <1>4
<1>6. PluginRuns = {} => A = B
  BY DEF A, B
<1>7. PluginRuns = {} => reserved[g] = Cost(B)
  BY <1>2, <1>6, Zenon
<1>8. Covered(g)' <=> /\ reserved'[g] >= Cost(B)
                      /\ PluginRuns = {} => reserved'[g] = Cost(B)
  BY DEF Covered, B, Cost, UnitsOf
<1> QED BY <1>5, <1>7, <1>8

(* Releasing the reservations of runs that leave the grant keeps it        *)
(* covered: the subtraction never has to be clamped at zero.               *)
LEMMA CoveredReleased ==
  ASSUME TypeOKLedger, NEW g \in Grants, Covered(g), NEW T \in SUBSET RunningOn(g),
         RunningOn(g)' = RunningOn(g) \ T, reserved'[g] = AtLeastZero(reserved[g] - Cost(T))
  PROVE  Covered(g)' /\ reserved'[g] = reserved[g] - Cost(T)
<1> DEFINE A == RunningOn(g)
<1>1. A \in SUBSET Runs /\ T \in SUBSET A
  BY DEF RunningOn
<1>2. reserved[g] \in Nat /\ reserved[g] >= Cost(A) /\ (PluginRuns = {} => reserved[g] = Cost(A))
  BY DEF TypeOKLedger, Covered
<1>3. Covered(g)' <=> /\ reserved'[g] >= Cost(A \ T)
                      /\ PluginRuns = {} => reserved'[g] = Cost(A \ T)
  BY DEF Covered, Cost, UnitsOf
<1> HIDE DEF A
<1>4. /\ Cost(A) \in Nat /\ Cost(T) \in Nat /\ Cost(A \ T) \in Nat
      /\ Cost(A \ T) = Cost(A) - Cost(T)
  BY <1>1, CostRemove
<1>5. reserved'[g] = reserved[g] - Cost(T)
  BY <1>2, <1>4 DEF AtLeastZero
<1> QED BY <1>2, <1>3, <1>4, <1>5

(* A claim reserves the estimate of the run it starts. *)
LEMMA CoveredClaimed ==
  ASSUME TypeOKLedger, NEW g \in Grants, Covered(g), NEW r \in Runs, r \notin RunningOn(g),
         RunningOn(g)' = RunningOn(g) \cup {r}, reserved'[g] = reserved[g] + Upper[r]
  PROVE  Covered(g)'
<1> DEFINE A == RunningOn(g)
<1>1. A \in SUBSET Runs /\ {r} \in SUBSET Runs /\ A \cap {r} = {}
  BY DEF RunningOn
<1>2. reserved[g] \in Nat /\ reserved[g] >= Cost(A) /\ (PluginRuns = {} => reserved[g] = Cost(A))
  BY DEF TypeOKLedger, Covered
<1>3. Covered(g)' <=> /\ reserved'[g] >= Cost(A \cup {r})
                      /\ PluginRuns = {} => reserved'[g] = Cost(A \cup {r})
  BY DEF Covered, Cost, UnitsOf
<1> HIDE DEF A
<1>4. Cost(A) \in Nat /\ Upper[r] \in Nat
  BY <1>1, CostType, CostAssumption
<1>5. Cost(A \cup {r}) = Cost(A) + Upper[r]
  BY <1>1, CostUnion, CostOne
<1> QED BY <1>2, <1>3, <1>4, <1>5

-----------------------------------------------------------------------------
(* Revocation.                                                             *)

(* The control plane only revokes a grant together with the cancellation   *)
(* requests of the runs on it, and never withdraws such a request.         *)
LEMMA ControlPlaneRevoked ==
  ASSUME TypeOKLedger, Fresh, RevokedWorkIsStopping, ControlPlane
  PROVE  RevokedWorkIsStopping'
<1> USE DEF TypeOKLedger, RevokedWorkIsStopping, RunningOn,
            runVars, decideVars, grantVars, worldVars, admitVars, holdVars
<1>1. ASSUME NEW g \in Grants, CreateGrant(g) \/ Lapse(g) PROVE RevokedWorkIsStopping'
  BY <1>1 DEF CreateGrant, Lapse
<1>2. ASSUME NEW g \in Grants, RevokeGrant(g) PROVE RevokedWorkIsStopping'
  BY <1>2 DEF RevokeGrant, Withdraw
<1>3. ASSUME NEW r \in Runs, NEW g \in Grants \cup {Nil}, BeginCreateRun(r, g)
      PROVE  RevokedWorkIsStopping'
  BY <1>3 DEF BeginCreateRun
<1>4. ASSUME NEW r \in Runs, CommitCreateRun(r) PROVE RevokedWorkIsStopping'
  BY <1>4 DEF CommitCreateRun
<1>5. ASSUME NEW S \in SUBSET Runs, Refuse(S) PROVE RevokedWorkIsStopping'
  BY <1>5 DEF Refuse
<1>6. ASSUME NEW r \in Runs, CancelRun(r) PROVE RevokedWorkIsStopping'
  BY <1>6 DEF CancelRun
<1>7. ASSUME NEW S \in SUBSET Runs, NEW g \in Grants, Authorise(S, g) PROVE RevokedWorkIsStopping'
  BY <1>7 DEF Authorise, Awaiting
<1>8. ASSUME NEW rel \in Releases, SwapChannel(rel) PROVE RevokedWorkIsStopping'
  BY <1>8 DEF SwapChannel
<1>9. ASSUME BeginHold \/ EnablePlugin PROVE RevokedWorkIsStopping'
  BY <1>9 DEF BeginHold, EnablePlugin
<1>10. ASSUME EndHold PROVE RevokedWorkIsStopping'
  BY <1>10 DEF EndHold
<1> HIDE DEF RevokedWorkIsStopping
<1> QED
  BY <1>1, <1>2, <1>3, <1>4, <1>5, <1>6, <1>7, <1>8, <1>9, <1>10
     DEF ControlPlane, ApproveRun, ApproveRunGroup, RejectRun, RejectRunGroup

-----------------------------------------------------------------------------
(* Ends and decisions.                                                     *)

(* Of a run without a Plugin, which no hold can reach: it has one outcome  *)
(* if it succeeded and none otherwise, a requested cancellation keeps it   *)
(* from succeeding, and it awaits approval while its request is pending.   *)
Decided(r) ==
  /\ outcome[r] = IF runState[r] = "succeeded" THEN 1 ELSE 0
  /\ cancelRequested[r] => runState[r] # "succeeded"
  /\ runState[r] = "awaiting_approval" <=> approval[r] = "pending"

(* The states in which a run may still be handed to an executor. *)
Unstarted == {"absent", "queued", "awaiting_approval"}

(* The control plane records no outcome, charges no grant, starts and      *)
(* finishes no run, gives no started run back, and leaves the end of a run *)
(* without a Plugin alone.                                                 *)
LEMMA ControlPlaneOnRun ==
  ASSUME TypeOKLedger, Fresh, ControlPlane, NEW r \in Runs
  PROVE  /\ UNCHANGED <<outcome, attempts, usedRuns, spent, chargedRuns>>
         /\ runState'[r] \in {"running", "succeeded", "failed"} => runState'[r] = runState[r]
         /\ runState'[r] \in Unstarted => runState[r] \in Unstarted
         /\ r \notin PluginRuns /\ runState[r] \in Terminal => runState'[r] = runState[r]
         /\ r \notin PluginRuns /\ Decided(r) => Decided(r)'
<1> DEFINE Goal ==
      /\ UNCHANGED <<outcome, attempts, usedRuns, spent, chargedRuns>>
      /\ runState'[r] \in {"running", "succeeded", "failed"} => runState'[r] = runState[r]
      /\ runState'[r] \in Unstarted => runState[r] \in Unstarted
      /\ r \notin PluginRuns /\ runState[r] \in Terminal => runState'[r] = runState[r]
      /\ r \notin PluginRuns /\ Decided(r) => Decided(r)'
<1> USE DEF TypeOKLedger, Terminal, Unstarted, Decided,
            runVars, decideVars, grantVars, worldVars, admitVars, holdVars
<1>1. ASSUME NEW h \in Grants, CreateGrant(h) \/ Lapse(h) PROVE Goal
  BY <1>1 DEF CreateGrant, Lapse
<1>3. ASSUME NEW h \in Grants, RevokeGrant(h) PROVE Goal
  BY <1>3 DEF RevokeGrant, Withdraw, RunningOn
<1>4. ASSUME NEW q \in Runs, NEW h \in Grants \cup {Nil}, BeginCreateRun(q, h) PROVE Goal
  BY <1>4 DEF BeginCreateRun
<1>5. ASSUME NEW q \in Runs, CommitCreateRun(q) PROVE Goal
  BY <1>5 DEF CommitCreateRun, Fresh
<1>6. ASSUME NEW S \in SUBSET Runs, Refuse(S) PROVE Goal
  BY <1>6 DEF Refuse, Awaiting
<1>7. ASSUME NEW q \in Runs, CancelRun(q) PROVE Goal
  BY <1>7 DEF CancelRun, Cancellable, CloseRequest
<1>8. ASSUME NEW S \in SUBSET Runs, NEW h \in Grants, Authorise(S, h) PROVE Goal
  BY <1>8 DEF Authorise, Awaiting
<1>9. ASSUME NEW rel \in Releases, SwapChannel(rel) PROVE Goal
  BY <1>9 DEF SwapChannel
<1>10. ASSUME BeginHold \/ EnablePlugin PROVE Goal
  BY <1>10 DEF BeginHold, EnablePlugin
<1>11. ASSUME EndHold PROVE Goal
  BY <1>11 DEF EndHold, HoldPauses, HoldCancels, Fresh
<1> HIDE DEF Goal
<1>12. Goal
  BY <1>1, <1>3, <1>4, <1>5, <1>6, <1>7, <1>8, <1>9, <1>10, <1>11
     DEF ControlPlane, ApproveRun, ApproveRunGroup, RejectRun, RejectRunGroup
<1> QED BY <1>12 DEF Goal

(* Every approval of a non-draft run is on record with its epoch. *)
ApprovalsRecorded ==
  \A r \in Runs \ Drafts :
    approval[r] = "approved" => <<ReleaseOf[r], decidedEpoch[r]>> \in approvedEpochs

(* Only authorising runs approves them, and it records the epoch in which  *)
(* the decision falls.                                                     *)
LEMMA ControlPlaneApprovals ==
  ASSUME TypeOKLedger, ApprovalsRecorded, ControlPlane
  PROVE  ApprovalsRecorded' /\ approvedEpochs \subseteq approvedEpochs'
<1> DEFINE Goal == ApprovalsRecorded' /\ approvedEpochs \subseteq approvedEpochs'
<1> USE DEF TypeOKLedger, ApprovalsRecorded,
            runVars, decideVars, grantVars, worldVars, admitVars, holdVars
<1>1. ASSUME NEW h \in Grants, CreateGrant(h) \/ Lapse(h) PROVE Goal
  BY <1>1 DEF CreateGrant, Lapse
<1>3. ASSUME NEW h \in Grants, RevokeGrant(h) PROVE Goal
  BY <1>3 DEF RevokeGrant, Withdraw
<1>4. ASSUME NEW q \in Runs, NEW h \in Grants \cup {Nil}, BeginCreateRun(q, h) PROVE Goal
  BY <1>4 DEF BeginCreateRun
<1>5. ASSUME NEW q \in Runs, CommitCreateRun(q) PROVE Goal
  BY <1>5 DEF CommitCreateRun
<1>6. ASSUME NEW S \in SUBSET Runs, Refuse(S) PROVE Goal
  BY <1>6 DEF Refuse
<1>7. ASSUME NEW q \in Runs, CancelRun(q) PROVE Goal
  BY <1>7 DEF CancelRun, CloseRequest
<1>8. ASSUME NEW S \in SUBSET Runs, NEW h \in Grants, Authorise(S, h) PROVE Goal
  BY <1>8 DEF Authorise
<1>9. ASSUME NEW rel \in Releases, SwapChannel(rel) PROVE Goal
  BY <1>9 DEF SwapChannel
<1>10. ASSUME BeginHold \/ EndHold \/ EnablePlugin PROVE Goal
  BY <1>10 DEF BeginHold, EndHold, EnablePlugin
<1> HIDE DEF Goal
<1>12. Goal
  BY <1>1, <1>3, <1>4, <1>5, <1>6, <1>7, <1>8, <1>9, <1>10
     DEF ControlPlane, ApproveRun, ApproveRunGroup, RejectRun, RejectRunGroup
<1> QED BY <1>12 DEF Goal
=============================================================================
