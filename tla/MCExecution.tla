---------------------------- MODULE MCExecution -----------------------------
(***************************************************************************)
(* More instances of the execution of runs: by the durable worker, where   *)
(* runs are approved again and the production pointer moves, and by the    *)
(* in-process dispatcher of the backend, which shares the variables of     *)
(* ExecutionAuthority with the worker.                                     *)
(***************************************************************************)
EXTENDS Integers, Sequences, FiniteSets, TLC

CONSTANTS s1, s2, s3, Nil

VARIABLES
  case,     \* the instance that moves; what belongs to the other executor is 0
  runState, runGrant, attempts, leaseOwner, leaseExpired, cancelRequested, approval,
  decidedEpoch, outcome, grantState, lapsed, usedRuns, reserved, spent, channel, epoch,
  pluginUp, admitState, admitGrant, holdSeen, holding, chargedRuns, approvedEpochs, slotPc,
  slotRun, slotEpoch, slotSignal, slotCost, up, halts, faults, ledger, effects, proc, expired,
  notices, pc, waiting, cost, crashes, charges

workerVars == <<slotPc, slotRun, slotEpoch, slotSignal, slotCost, up, halts, ledger, effects>>
dispatcherVars == <<proc, expired, notices, pc, waiting, cost, crashes, charges>>
vars == <<case, runState, runGrant, attempts, leaseOwner, leaseExpired, cancelRequested,
         approval, decidedEpoch, outcome, grantState, lapsed, usedRuns, reserved, spent,
         channel, epoch, pluginUp, admitState, admitGrant, holdSeen, holding, chargedRuns,
         approvedEpochs, faults, workerVars, dispatcherVars>>

-----------------------------------------------------------------------------
(* Each slot is a daemon, or a backend process, of its own.                *)
Reapproval == INSTANCE DurableWorker WITH
  Runs <- {"r1"}, Grants <- {"g1", "g2"}, Releases <- {"rel1"}, Slots <- {s1, s2},
  ReleaseOf <- [r \in {"r1"} |-> "rel1"], Upper <- [r \in {"r1"} |-> 1], OverCeiling <- {},
  Drafts <- {"r1"}, Production <- {}, PluginRuns <- {}, NeedsApproval <- {},
  Covers <- [g \in {"g1", "g2"} |-> {"r1"}], MaxRunsOf <- [g \in {"g1", "g2"} |-> 1],
  BudgetOf <- [g \in {"g1", "g2"} |-> 2], Expiring <- {"g1"}, MaxAttempts <- 2, MaxEpoch <- 1,
  Daemons <- {s1, s2}, DaemonOf <- [s \in {s1, s2} |-> s], CostCap <- 1, MaxHalts <- 1,
  MaxFaults <- 1
Epochs == INSTANCE DurableWorker WITH
  Runs <- {"r1", "r2"}, Grants <- {"g1", "g2"}, Releases <- {"rel1", "rel2"}, Slots <- {s3},
  ReleaseOf <- [r \in {"r1", "r2"} |-> "rel1"], Upper <- [r \in {"r1", "r2"} |-> 1],
  OverCeiling <- {}, Drafts <- {"r2"}, Production <- {"r1", "r2"}, PluginRuns <- {},
  NeedsApproval <- {}, Covers <- [g \in {"g1", "g2"} |-> {"r1", "r2"}],
  MaxRunsOf <- [g \in {"g1", "g2"} |-> 2], BudgetOf <- [g \in {"g1", "g2"} |-> 2],
  Expiring <- {}, MaxAttempts <- 1, MaxEpoch <- 3, Daemons <- {s3},
  DaemonOf <- [s \in {s3} |-> s], CostCap <- 0, MaxHalts <- 0, MaxFaults <- 0
Recovery == INSTANCE InProcessDispatcher WITH
  Runs <- {"r1"}, Grants <- {"g1", "g2"}, Releases <- {"rel1"}, Slots <- {s1, s2},
  ReleaseOf <- [r \in {"r1"} |-> "rel1"], Upper <- [r \in {"r1"} |-> 1], OverCeiling <- {},
  Drafts <- {"r1"}, Production <- {}, PluginRuns <- {}, NeedsApproval <- {},
  Covers <- [g \in {"g1", "g2"} |-> {"r1"}],
  MaxRunsOf <- [g \in {"g1", "g2"} |-> IF g = "g1" THEN 1 ELSE 2],
  BudgetOf <- [g \in {"g1", "g2"} |-> 2], Expiring <- {"g2"}, MaxAttempts <- 2, MaxEpoch <- 1,
  Capacity <- 1, ResumeLimit <- 2, CostCap <- 1, MaxCrashes <- 1, MaxFaults <- 1
Queue == INSTANCE DurableWorker WITH
  Runs <- {"r1", "r2"}, Grants <- {"g1"}, Releases <- {"rel1"}, Slots <- {s1, s2},
  ReleaseOf <- [r \in {"r1", "r2"} |-> "rel1"], Upper <- [r \in {"r1", "r2"} |-> 1],
  OverCeiling <- {"r2"}, Drafts <- {"r1", "r2"}, Production <- {}, PluginRuns <- {},
  NeedsApproval <- {}, Covers <- [g \in {"g1"} |-> {"r1", "r2"}],
  MaxRunsOf <- [g \in {"g1"} |-> 2], BudgetOf <- [g \in {"g1"} |-> 1], Expiring <- {},
  MaxAttempts <- 2, MaxEpoch <- 1, Daemons <- {s1, s2}, DaemonOf <- [s \in {s1, s2} |-> s],
  CostCap <- 0, MaxHalts <- 0, MaxFaults <- 0
Permits == INSTANCE InProcessDispatcher WITH
  Runs <- {"r1", "r2"}, Grants <- {"g1"}, Releases <- {"rel1"}, Slots <- {s1},
  ReleaseOf <- [r \in {"r1", "r2"} |-> "rel1"], Upper <- [r \in {"r1", "r2"} |-> 1],
  OverCeiling <- {}, Drafts <- {"r1", "r2"}, Production <- {}, PluginRuns <- {},
  NeedsApproval <- {}, Covers <- [g \in {"g1"} |-> {"r1", "r2"}],
  MaxRunsOf <- [g \in {"g1"} |-> 2], BudgetOf <- [g \in {"g1"} |-> 1], Expiring <- {"g1"},
  MaxAttempts <- 2, MaxEpoch <- 1, Capacity <- 1, ResumeLimit <- 2, CostCap <- 0,
  MaxCrashes <- 0, MaxFaults <- 0

(* What the dispatcher assumes of its constants. *)
ASSUME RecoveryAssumption == Recovery!DispatchAssumption /\ Permits!DispatchAssumption

DispatcherOff ==
  /\ proc = 0 /\ expired = 0 /\ notices = 0 /\ pc = 0 /\ waiting = 0 /\ cost = 0
  /\ crashes = 0 /\ charges = 0
WorkerOff ==
  /\ slotPc = 0 /\ slotRun = 0 /\ slotEpoch = 0 /\ slotSignal = 0 /\ slotCost = 0
  /\ up = 0 /\ halts = 0 /\ ledger = 0 /\ effects = 0

Init ==
  \/ case = "reapproval" /\ Reapproval!Init /\ DispatcherOff
  \/ case = "epochs" /\ Epochs!Init /\ DispatcherOff
  \/ case = "recovery" /\ Recovery!Init /\ WorkerOff

Next ==
  \/ case = "reapproval" /\ Reapproval!Next /\ UNCHANGED <<case, dispatcherVars>>
  \/ case = "epochs" /\ Epochs!Next /\ UNCHANGED <<case, dispatcherVars>>
  \/ case = "recovery" /\ Recovery!Next /\ UNCHANGED <<case, workerVars>>

Spec == Init /\ [][Next]_vars

(* Slots and processes are interchangeable. *)
EqualSlots == Permutations({s1, s2})

-----------------------------------------------------------------------------
(* Without crashes and store faults, under the fairness of each executor.  *)
ProgressInit ==
  /\ case \in {"queue", "permits"}
  /\ Queue!Init /\ Permits!Init

ProgressNext ==
  \/ case = "queue" /\ Queue!Next /\ UNCHANGED <<case, dispatcherVars>>
  \/ case = "permits" /\ Permits!Next /\ UNCHANGED <<case, workerVars>>

Fairness ==
  /\ \A s \in {s1, s2} : /\ WF_vars(case = "queue" /\ Queue!Claim(s) /\ UNCHANGED <<case, dispatcherVars>>)
                        /\ WF_vars(case = "queue" /\ Queue!Work(s) /\ UNCHANGED <<case, dispatcherVars>>)
  /\ \A r \in {"r1", "r2"} : WF_vars(case = "queue" /\ Queue!LeaseExpires(r) /\ UNCHANGED <<case, dispatcherVars>>)
  /\ WF_vars(case = "permits" /\ Permits!Boot(s1) /\ UNCHANGED <<case, workerVars>>)
  /\ \A r \in {"r1", "r2"} : WF_vars(case = "permits" /\ Permits!Step(s1, r) /\ UNCHANGED <<case, workerVars>>)

ProgressSpec == ProgressInit /\ [][ProgressNext]_vars /\ Fairness

-----------------------------------------------------------------------------
(* Both executors keep the ledger under faults.  One worker run that is    *)
(* withdrawn, approved again, retried and recovered: once cancellation was *)
(* requested of it while it ran no late completion lets it succeed, and it *)
(* awaits approval exactly while its request is pending.  Two backend      *)
(* processes that recover each other's runs: reservations are those of the *)
(* running runs, refunds are given only for a charge of the same claim,    *)
(* there is one outcome per succeeded run, and a revocation reaches a      *)
(* claim that committed just before it.                                    *)
ExecutorsKeepLedger ==
  /\ case = "reapproval" => /\ Reapproval!TypeOK
                            /\ Reapproval!DecisionsStand
  /\ case = "recovery" => /\ Recovery!TypeOK
                          /\ Recovery!DispatcherKeepsLedger

(* An outcome of production work is only ever published in an epoch of its *)
(* release in which a human approved a non-draft run of that release, even *)
(* if the pointer moved away and back while the run was in flight.         *)
PublishedInApprovedEpoch == [][case = "epochs" => Epochs!PublishedInApprovedEpoch]_vars

-----------------------------------------------------------------------------
(* In the worker a queued run is eventually taken and brought to rest (it  *)
(* ends, waits for a human, or is paused), and a claimed run does not stay *)
(* running for ever.                                                       *)
WorkerSettles ==
  case = "queue" => /\ Queue!QueuedComesToRest
                    /\ Queue!RunningIsSettled

(* In the backend every enqueued run leaves the schedule again and a       *)
(* claimed run is settled: permits are never lost, and nobody waits for    *)
(* one that is free.                                                       *)
DispatcherDrains ==
  case = "permits" => /\ []Permits!PermitsExact
                      /\ Permits!ScheduleDrains
                      /\ Permits!RunningIsSettled

=============================================================================
