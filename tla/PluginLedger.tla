---------------------------- MODULE PluginLedger ----------------------------
(***************************************************************************)
(* The call plan of one run: WorkerPluginPlanCoordinator executes planned  *)
(* Plugin calls in order, WorkerPluginExecutor revalidates each one around *)
(* its external effect, and appendInvocation keeps two append-only rows    *)
(* per call: sequence 1 (begun) and sequence 2 (how it ended).  Leases     *)
(* expire, workers crash and acknowledgements of the database get lost.    *)
(***************************************************************************)
EXTENDS Naturals, FiniteSets

CONSTANTS
  Workers, NoWorker,
  Plan,         \* number of planned calls; call c has ordinal c
  Tool,         \* Tool[c]: the capability the call uses
  Limit,        \* maxInvocationsPerRun of the grant's scope
  MaxTerminal,  \* terminalLedgerAttempts
  MaxFaults,    \* bound on lost writes, lost acknowledgements and crashes
  MaxChanges    \* bound on changes of the governed state

Calls == 1 .. Plan

PlanAssumption ==
  /\ Plan \in Nat \ {0} /\ DOMAIN Tool = Calls /\ Limit \in Nat /\ MaxTerminal \in Nat \ {0}
  /\ MaxFaults \in Nat /\ MaxChanges \in Nat /\ NoWorker \notin Workers

VARIABLES
  run,      \* ExecutionRun.state: queued, running, ended
  owner,    \* leaseOwner
  cancel,   \* cancelRequestedAt is set
  grant,    \* AuthorityGrant.state
  plugin,   \* PluginInstallation.state
  ledger,   \* per call: no row, sequence 1 only (running), or the state of sequence 2
  effects,  \* history: external effects of the call
  pc, at, tries, ending, context,   \* per worker: the coordinator and executor
  faults, changes

world   == <<run, owner, cancel, grant, plugin>>
workers == <<pc, at, tries, ending, context>>
vars    == <<world, ledger, effects, workers, faults, changes>>

Ended    == {"succeeded", "failed", "cancelled"}
Stages   == {"idle", "ready", "authorized", "begun", "calling", "waiting", "returned", "ending", "stopped", "planned"}

TypeOK ==
  /\ run \in {"queued", "running", "ended"} /\ owner \in Workers \cup {NoWorker}
  /\ cancel \in BOOLEAN /\ grant \in {"active", "revoked", "exhausted"} /\ plugin \in {"enabled", "disabled"}
  /\ ledger \in [Calls -> Ended \cup {"none", "running"}] /\ effects \in [Calls -> Nat]
  /\ pc \in [Workers -> Stages] /\ at \in [Workers -> 1 .. Plan + 1] /\ tries \in [Workers -> 0 .. MaxTerminal]
  /\ ending \in [Workers -> Ended] /\ context \in [Workers -> SUBSET Calls]
  /\ faults \in 0 .. MaxFaults /\ changes \in 0 .. MaxChanges
  /\ run = "running" <=> owner # NoWorker

Init ==
  /\ run = "queued" /\ owner = NoWorker /\ cancel = FALSE /\ grant = "active" /\ plugin = "enabled"
  /\ ledger = [c \in Calls |-> "none"] /\ effects = [c \in Calls |-> 0]
  /\ pc = [w \in Workers |-> "idle"] /\ at = [w \in Workers |-> 1] /\ tries = [w \in Workers |-> 0]
  /\ ending = [w \in Workers |-> "failed"] /\ context = [w \in Workers |-> {}]
  /\ faults = 0 /\ changes = 0

Goto(w, stage) == pc' = [pc EXCEPT ![w] = stage]

Begun == {c \in Calls : ledger[c] # "none"}

-----------------------------------------------------------------------------
(* The run around the plan.                                                *)

(* claimNextRun: the claim that uses up the grant leaves it exhausted.     *)
Claim(w) ==
  /\ run = "queued" /\ pc[w] = "idle" /\ grant = "active" /\ plugin = "enabled" /\ ~cancel
  /\ run' = "running" /\ owner' = w /\ grant' \in {"active", "exhausted"}
  /\ Goto(w, "ready") /\ at' = [at EXCEPT ![w] = 1] /\ context' = [context EXCEPT ![w] = {}]
  /\ UNCHANGED <<cancel, plugin, ledger, effects, tries, ending, faults, changes>>

(* A run with a ledger row is never queued again. *)
Requeued == IF Begun = {} THEN "queued" ELSE "ended"

(* recoverExpiredLeases: the lease of a slow or dead worker runs out. *)
LeaseExpires ==
  /\ run = "running" /\ changes < MaxChanges /\ changes' = changes + 1
  /\ run' = Requeued /\ owner' = NoWorker
  /\ UNCHANGED <<cancel, grant, plugin, ledger, effects, workers, faults>>

(* The engine disposes of a run whose plan threw, if it still holds it. *)
Dispose(w) ==
  /\ pc[w] = "stopped" /\ Goto(w, "idle")
  /\ IF owner = w THEN run' \in {Requeued, "ended"} /\ owner' = NoWorker ELSE UNCHANGED <<run, owner>>
  /\ UNCHANGED <<cancel, grant, plugin, ledger, effects, at, tries, ending, context, faults, changes>>

Govern ==
  /\ changes < MaxChanges /\ changes' = changes + 1
  /\ \/ ~cancel /\ cancel' = TRUE /\ UNCHANGED <<grant, plugin>>
     \/ grant # "revoked" /\ grant' = "revoked" /\ UNCHANGED <<cancel, plugin>>
     \/ plugin' = (IF plugin = "enabled" THEN "disabled" ELSE "enabled") /\ UNCHANGED <<cancel, grant>>
  /\ UNCHANGED <<run, owner, ledger, effects, workers, faults>>

Crash(w) ==
  /\ pc[w] # "idle" /\ faults < MaxFaults /\ faults' = faults + 1 /\ Goto(w, "idle")
  /\ UNCHANGED <<world, ledger, effects, at, tries, ending, context, changes>>

-----------------------------------------------------------------------------
(* revalidate and assertWorkerPluginAuthorization.                         *)

(* What the snapshot must show before assertWorkerPluginAuthorization.     *)
Revalidated == run = "running"

Authorized(w) ==
  Revalidated /\ owner = w /\ ~cancel /\ grant = "active" /\ plugin = "enabled"

(* cancelledCode: how a call ends that lost its authorization, or failed.  *)
EndingOf(w) ==
  IF run = "running" /\ owner = w /\ (cancel \/ grant # "active" \/ plugin # "enabled")
    THEN "cancelled" ELSE "failed"

Stay(w) == UNCHANGED <<world, ledger, effects, at, tries, context, faults, changes>>

End(w, how) == Goto(w, "ending") /\ ending' = [ending EXCEPT ![w] = how]

(* execute of the next planned call: the first revalidation. *)
StartCall(w) ==
  /\ pc[w] = "ready" /\ at[w] <= Plan
  /\ Goto(w, IF Authorized(w) THEN "authorized" ELSE "stopped")
  /\ UNCHANGED ending /\ Stay(w)

FinishPlan(w) ==
  /\ pc[w] = "ready" /\ at[w] > Plan /\ Goto(w, "planned")
  /\ UNCHANGED ending /\ Stay(w)

-----------------------------------------------------------------------------
(* appendInvocation.                                                       *)

SameTool(c) == {d \in Begun : Tool[d] = Tool[c]}

BeginAccepted(w) ==
  /\ ledger[at[w]] = "none"
  /\ run = "running" /\ owner = w /\ plugin = "enabled" /\ grant = "active"
  /\ Cardinality(SameTool(at[w])) < Limit

(* Sequence 1.  An existing row, a refusal and a failed write all throw.   *)
BeginInvocation(w) ==
  /\ pc[w] = "authorized"
  /\ \/ /\ BeginAccepted(w)
        /\ ledger' = [ledger EXCEPT ![at[w]] = "running"]
        /\ \/ Goto(w, "begun") /\ UNCHANGED faults
           \/ Goto(w, "stopped") /\ faults < MaxFaults /\ faults' = faults + 1
     \/ /\ ~BeginAccepted(w) /\ Goto(w, "stopped") /\ UNCHANGED <<ledger, faults>>
  /\ UNCHANGED <<world, effects, at, tries, ending, context, changes>>

(* The second revalidation, immediately before the effect. *)
Recheck(w) ==
  /\ pc[w] = "begun"
  /\ IF Authorized(w) THEN Goto(w, "calling") /\ UNCHANGED ending ELSE End(w, EndingOf(w))
  /\ Stay(w)

(* The transport sends the request; the answer is a step of its own. *)
SendEffect(w) ==
  /\ pc[w] = "calling" /\ Goto(w, "waiting")
  /\ effects' = [effects EXCEPT ![at[w]] = @ + 1]
  /\ UNCHANGED <<world, ledger, at, tries, ending, context, faults, changes>>

Return(w) == pc[w] = "waiting" /\ Goto(w, "returned") /\ UNCHANGED ending /\ Stay(w)

(* A timeout, a transport error, or the monitor's abort before or after    *)
(* the effect (monitorAuthorization).                                      *)
CallFails(w) == pc[w] \in {"calling", "waiting"} /\ End(w, EndingOf(w)) /\ Stay(w)

(* The third revalidation: a call is no success if anything changed. *)
Conclude(w) ==
  /\ pc[w] = "returned"
  /\ End(w, IF Authorized(w) THEN "succeeded" ELSE EndingOf(w)) /\ Stay(w)

MutantSuccessAllowed(w) == run = "running"

SuccessAllowed(w) == Authorized(w)

Advance(w) ==
  IF ending[w] = "succeeded"
    THEN /\ Goto(w, "ready") /\ at' = [at EXCEPT ![w] = @ + 1]
         /\ context' = [context EXCEPT ![w] = @ \cup {at[w]}]
    ELSE Goto(w, "stopped") /\ UNCHANGED <<at, context>>

(* A row of this sequence exists already: an identical event is a no-op.   *)
Recorded(w) == ledger[at[w]] \in Ended

(* Sequence 2, acknowledged; a success that is no longer allowed is thrown *)
(* back and ends as cancelled.                                             *)
AppendTerminal(w) ==
  /\ pc[w] = "ending" /\ tries' = [tries EXCEPT ![w] = 0]
  /\ \/ /\ Recorded(w) /\ ledger[at[w]] = ending[w] /\ Advance(w) /\ UNCHANGED <<ledger, ending>>
     \/ /\ Recorded(w) /\ ledger[at[w]] # ending[w] /\ Goto(w, "stopped")
        /\ UNCHANGED <<ledger, ending, at, context>>
     \/ /\ ~Recorded(w) /\ ending[w] = "succeeded" /\ ~SuccessAllowed(w)
        /\ ending' = [ending EXCEPT ![w] = "cancelled"] /\ UNCHANGED <<ledger, pc, at, context>>
     \/ /\ ~Recorded(w) /\ (ending[w] = "succeeded" => SuccessAllowed(w))
        /\ ledger' = [ledger EXCEPT ![at[w]] = ending[w]] /\ Advance(w) /\ UNCHANGED ending
  /\ UNCHANGED <<world, effects, faults, changes>>

(* The write or only its acknowledgement is lost: appendTerminal tries     *)
(* again, and gives up with PluginInvocationPersistenceError.              *)
AppendLost(w) ==
  /\ pc[w] = "ending" /\ faults < MaxFaults /\ faults' = faults + 1
  /\ tries' = [tries EXCEPT ![w] = (@ + 1) % MaxTerminal]
  /\ IF tries[w] + 1 = MaxTerminal THEN Goto(w, "stopped") ELSE UNCHANGED pc
  /\ \/ UNCHANGED ledger
     \/ /\ ~Recorded(w) /\ (ending[w] = "succeeded" => SuccessAllowed(w))
        /\ ledger' = [ledger EXCEPT ![at[w]] = ending[w]]
  /\ UNCHANGED <<world, effects, at, ending, context, changes>>

-----------------------------------------------------------------------------
WorkerStep(w) ==
  \/ StartCall(w) \/ FinishPlan(w) \/ BeginInvocation(w) \/ Recheck(w) \/ SendEffect(w)
  \/ CallFails(w) \/ Conclude(w) \/ AppendTerminal(w) \/ Dispose(w)

Next ==
  \/ \E w \in Workers : Claim(w) \/ WorkerStep(w) \/ Return(w) \/ AppendLost(w) \/ Crash(w)
  \/ LeaseExpires \/ Govern

Spec == Init /\ [][Next]_vars

(* The worker makes its steps and its timeouts fire; an answer of the      *)
(* external service is not assumed.                                        *)
FairSpec == Spec /\ \A w \in Workers : WF_vars(WorkerStep(w))

-----------------------------------------------------------------------------
(* Properties.                                                             *)

(* The external effect of a planned call happens at most once, and only    *)
(* after its predecessor is recorded as succeeded, whatever worker takes   *)
(* the run over and wherever one dies: a plan that stopped makes no        *)
(* further effect (execute of the coordinator and of the executor).        *)
PlanInOrder ==
  \A d \in Calls : effects[d] <= 1 /\ (effects[d] = 1 => \A c \in 1 .. d - 1 : ledger[c] = "succeeded")

(* The model sees an output only if the ledger says the call succeeded,    *)
(* also when the acknowledgement of that row was lost and the append was   *)
(* repeated (appendTerminal).                                              *)
OutputIsRecorded == \A w \in Workers : \A c \in context[w] : ledger[c] = "succeeded"

(* No capability is invoked more often in the run than its grant allows    *)
(* (maxInvocationsPerRun, counted over sequence 1).                        *)
InvocationLimit == \A c \in Calls : Cardinality({d \in Calls : effects[d] > 0 /\ Tool[d] = Tool[c]}) <= Limit

(* What a ledger row says is final: sequence 2 is never rewritten and a    *)
(* begun call never loses its row (append-only by key and sequence).       *)
TerminalIsFinal ==
  \A c \in Calls : /\ ledger[c] \in Ended => ledger'[c] = ledger[c]
                   /\ ledger[c] = "running" => ledger'[c] # "none"

(* A success is recorded only while the run is held, uncancelled, granted  *)
(* and enabled: "a mid-call disable, revocation, cancellation, or context  *)
(* change can never be called success".                                    *)
SuccessIsGoverned ==
  \A c \in Calls : ledger[c] # "succeeded" /\ ledger'[c] = "succeeded" =>
     run = "running" /\ ~cancel /\ grant = "active" /\ plugin = "enabled"

(* A worker never hangs in a plan: it completes it, or stops and disposes  *)
(* of the run.                                                             *)
PlanEnds == \A w \in Workers : (pc[w] # "idle") ~> (pc[w] \in {"idle", "planned"})
=============================================================================
