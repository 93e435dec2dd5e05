------------------------- MODULE PluginInstallation -------------------------
(***************************************************************************)
(* One Plugin installation: install, configure, enable, disable, uninstall *)
(* and the health checks of the scheduler and of operators, which probe    *)
(* the service outside the transaction that records the result, with the   *)
(* runs that require the Plugin and the releases that depend on it.  A run *)
(* is admitted on a state of the installation that was read before, and a  *)
(* transaction that holds runs acts on the states it read before it locked *)
(* them.                                                                   *)
(***************************************************************************)
EXTENDS Naturals, FiniteSets

CONSTANTS
  Probers,      \* concurrent health checks: the scheduler, operators
  Removers,     \* concurrent uninstall requests
  Runs,         \* runs with a requirement on the installation
  MaxConfig,    \* bound on configurations
  MaxOutages    \* bound on changes of the service behind the Plugin

InstallationAssumption ==
  /\ MaxConfig \in Nat \ {0} /\ MaxOutages \in Nat
  /\ Probers \cap {"none", "configure", "disable"} = {}

VARIABLES
  state,      \* PluginInstallation.state
  config,     \* number of the current configuration; 0 before the first
  bound,      \* every required secret slot has a binding
  requested,  \* enableRequestedAt is set
  latest,     \* the latest PluginHealthCheck; probed is history: the configuration probed
  probe,      \* probe[p]: the health check under way
  removal,    \* removal[m]: dependencies were read and did not block
  holding,    \* the transaction that locked the installation, and the runs it read
  run,        \* run[r]: a run that requires the Plugin
  inUse,      \* a certified resource or an active release depends on it
  up, outages \* the external service

life   == <<state, config, bound, requested, latest>>
others == <<inUse, up, outages>>
vars   == <<life, probe, removal, holding, run, others>>

States   == {"absent", "installed", "enabled", "degraded", "disabled", "uninstalled"}
Waiting  == {"queued", "running"}
RunStates == Waiting \cup {"none", "awaiting_approval", "paused_plugin", "succeeded", "ended"}
Idle     == [stage |-> "idle", config |-> 0, result |-> "none"]
NoHealth == [status |-> "none", config |-> 0, probed |-> 0, fresh |-> FALSE]
(* found: the state it is to enter; asked: cancelRequestedAt; late is      *)
(* history: it was queued on an answer of the past.                        *)
RunRecord == [state : RunStates, found : {"none", "queued", "awaiting_approval", "paused_plugin"},
              asked : BOOLEAN, late : BOOLEAN]
NoRun    == [state |-> "none", found |-> "none", asked |-> FALSE, late |-> FALSE]
Free     == [by |-> "none", seen |-> [r \in Runs |-> "none"]]

TypeOK ==
  /\ state \in States /\ config \in 0 .. MaxConfig /\ bound \in BOOLEAN /\ requested \in BOOLEAN
  /\ latest \in [status : {"none", "healthy", "unavailable"}, config : 0 .. MaxConfig, probed : 0 .. MaxConfig, fresh : BOOLEAN]
  /\ probe \in [Probers -> [stage : {"idle", "probing", "probed"}, config : 0 .. MaxConfig, result : {"none", "healthy", "unavailable"}]]
  /\ removal \in [Removers -> BOOLEAN] /\ inUse \in BOOLEAN /\ up \in BOOLEAN
  /\ holding \in [by : {"none", "configure", "disable"} \cup Probers, seen : [Runs -> RunStates]]
  /\ run \in [Runs -> RunRecord]
  /\ state \in {"enabled", "degraded"} => requested

Init ==
  /\ state = "absent" /\ config = 0 /\ bound = FALSE /\ requested = FALSE /\ latest = NoHealth
  /\ probe = [p \in Probers |-> Idle] /\ removal = [m \in Removers |-> FALSE]
  /\ holding = Free /\ run = [r \in Runs |-> NoRun] /\ inUse = FALSE /\ up = TRUE /\ outages = 0

Active == state \notin {"absent", "uninstalled"}

-----------------------------------------------------------------------------

(* SELECT ... FOR UPDATE of the installation; holdAffectedRuns reads the   *)
(* queued and running runs right after it.                                 *)
Unlocked == holding.by = "none"

Lock(by) ==
  /\ Unlocked /\ holding' = [by |-> by, seen |-> [r \in Runs |-> run[r].state]]
  /\ UNCHANGED <<life, run, others>>

(* holdAffectedRuns waits for a decision under way on a run it read, locks *)
(* the runs and acts on the states it read: those it read as queued pause, *)
(* those it read as running are asked to stop.                             *)
Lockable == \A r \in Runs : holding.seen[r] \in Waiting => run[r].found = "none"

Hold == [r \in Runs |-> CASE holding.seen[r] = "queued"  -> [run[r] EXCEPT !.state = "paused_plugin"]
                          [] holding.seen[r] = "running" -> [run[r] EXCEPT !.asked = TRUE]
                          [] OTHER -> run[r]]

Install(slots) ==
  /\ state = "absent" /\ state' = "installed"
  /\ bound' = slots /\ config' = (IF slots THEN 1 ELSE 0)
  /\ UNCHANGED <<requested, latest, probe, removal, holding, run, others>>

(* configure replaces the bindings and withdraws the enablement. *)
BeginConfigure == Active /\ config < MaxConfig /\ Lock("configure") /\ UNCHANGED <<probe, removal>>

EndConfigure ==
  /\ holding.by = "configure" /\ holding' = Free
  /\ config' = config + 1 /\ bound' = TRUE /\ requested' = FALSE
  /\ state' = (IF state = "disabled" THEN "disabled" ELSE "installed")
  /\ IF state \in {"enabled", "degraded"} THEN Lockable /\ run' = Hold ELSE UNCHANGED run
  /\ UNCHANGED <<latest, probe, removal, others>>

HealthyAndFresh == latest.status = "healthy" /\ latest.config = config /\ latest.fresh

Enable ==
  /\ Active /\ bound /\ Unlocked
  /\ state' = (IF HealthyAndFresh THEN "enabled" ELSE "installed") /\ requested' = TRUE
  /\ UNCHANGED <<config, bound, latest, probe, removal, holding, run, others>>

BeginDisable == Active /\ Lock("disable") /\ UNCHANGED <<probe, removal>>

EndDisable ==
  /\ holding.by = "disable" /\ holding' = Free
  /\ state' = "disabled" /\ requested' = FALSE /\ Lockable /\ run' = Hold
  /\ UNCHANGED <<config, bound, latest, probe, removal, others>>

(* uninstall reads the dependencies before its transaction. *)
BeginUninstall(m) ==
  /\ Active /\ ~removal[m] /\ ~inUse /\ removal' = [removal EXCEPT ![m] = TRUE]
  /\ UNCHANGED <<life, probe, holding, run, others>>

Uninstallable == \A r \in Runs : run[r].state \notin Waiting

Uninstall(m) ==
  /\ removal[m] /\ Unlocked /\ removal' = [removal EXCEPT ![m] = FALSE]
  /\ IF Active /\ Uninstallable
       THEN state' = "uninstalled" /\ bound' = FALSE /\ requested' = FALSE /\ UNCHANGED <<config, latest>>
       ELSE UNCHANGED life
  /\ UNCHANGED <<probe, holding, run, others>>

-----------------------------------------------------------------------------
(* checkHealth: read, probe the service, record under the row lock.        *)

BeginCheck(p) ==
  /\ Active /\ probe[p].stage = "idle"
  /\ probe' = [probe EXCEPT ![p] =
       IF state = "disabled" THEN [stage |-> "probed", config |-> config, result |-> "unavailable"]
                             ELSE [stage |-> "probing", config |-> config, result |-> "none"]]
  /\ UNCHANGED <<life, removal, holding, run, others>>

Probe(p) ==
  /\ probe[p].stage = "probing"
  /\ probe' = [probe EXCEPT ![p].stage = "probed", ![p].result = IF up THEN "healthy" ELSE "unavailable"]
  /\ UNCHANGED <<life, removal, holding, run, others>>

MutantEffectiveResult(p) == probe[p].result

(* A probe of a superseded configuration says nothing of the current one. *)
EffectiveResult(p) == IF probe[p].config # config THEN "unavailable" ELSE probe[p].result

CheckedState(status) ==
  CASE state = "disabled"  -> "disabled"
    [] state # "disabled" /\ ~requested -> "installed"
    [] state # "disabled" /\ requested -> IF status = "healthy" THEN "enabled" ELSE "degraded"

BeginRecord(p) == probe[p].stage = "probed" /\ Active /\ Lock(p) /\ UNCHANGED <<probe, removal>>

EndRecord(p) ==
  /\ holding.by = p /\ holding' = Free /\ probe' = [probe EXCEPT ![p] = Idle]
  /\ LET status == EffectiveResult(p) IN
       /\ latest' = [status |-> status, config |-> config, probed |-> probe[p].config, fresh |-> TRUE]
       /\ state' = CheckedState(status)
       /\ IF requested /\ status # "healthy" /\ state \in {"enabled", "degraded"}
            THEN Lockable /\ run' = Hold ELSE UNCHANGED run
  /\ UNCHANGED <<config, bound, requested, removal, others>>

(* The installation is gone: there is nothing to record.                   *)
DropCheck(p) ==
  /\ probe[p].stage = "probed" /\ ~Active /\ probe' = [probe EXCEPT ![p] = Idle]
  /\ UNCHANGED <<life, removal, holding, run, others>>

Age == latest.fresh /\ latest' = [latest EXCEPT !.fresh = FALSE]
       /\ UNCHANGED <<state, config, bound, requested, probe, removal, holding, run, others>>

-----------------------------------------------------------------------------
(* The runs, the registry and the service.                                 *)

(* createRun derives the state of the run from the installation it reads.  *)
BeginCreate(r) ==
  /\ run[r] = NoRun /\ Active
  /\ \E found \in IF state = "enabled" THEN {"queued", "awaiting_approval"} ELSE {"paused_plugin"} :
       run' = [run EXCEPT ![r].found = found]

(* The insert of its requirements waits for a lock of the installation.    *)
EndCreate(r) ==
  /\ run[r].state = "none" /\ run[r].found # "none" /\ Unlocked
  /\ run' = [run EXCEPT ![r] = [state |-> run[r].found, found |-> "none", asked |-> FALSE,
                                late |-> run[r].found = "queued" /\ state # "enabled"]]

(* approveRun grants the exact installation, found enabled, and queues the *)
(* run; nothing in it waits for a lock of the installation.                *)
BeginApprove(r) ==
  /\ run[r].state = "awaiting_approval" /\ run[r].found = "none" /\ state = "enabled"
  /\ run' = [run EXCEPT ![r].found = "queued"]

EndApprove(r) ==
  /\ run[r].state = "awaiting_approval" /\ run[r].found = "queued"
  /\ run' = [run EXCEPT ![r].state = "queued", ![r].found = "none",
                        ![r].late = ~(state = "enabled" /\ Unlocked)]

(* cancelRun; the row of a run that is being approved is locked.           *)
Cancel(r) ==
  /\ run[r].state \in {"queued", "running", "awaiting_approval", "paused_plugin"} /\ run[r].found = "none"
  /\ run' = (IF run[r].state = "running" THEN [run EXCEPT ![r].asked = TRUE]
                                         ELSE [run EXCEPT ![r].state = "ended"])

(* What becomes of a run: "ended" is failed, cancelled or out of budget.   *)
(* complete, failClaimed and pauseForPlugin cancel a run that was asked to *)
(* stop; recoverExpiredLeases queues even that one once more.              *)
Outcomes(r) == IF run[r].asked THEN {"ended", "queued"} ELSE {"succeeded", "queued", "paused_plugin", "ended"}

Work(r) ==
  \/ run[r].state = "queued" /\ \E s \in {"running", "awaiting_approval"} :
       /\ s = "awaiting_approval" => run[r].found = "none"
       /\ run' = [run EXCEPT ![r].state = s]
  \/ run[r].state = "running" /\ \E s \in Outcomes(r) : run' = [run EXCEPT ![r].state = s]

MoveRun(r) ==
  /\ BeginCreate(r) \/ EndCreate(r) \/ BeginApprove(r) \/ EndApprove(r) \/ Cancel(r) \/ Work(r)
  /\ UNCHANGED <<life, probe, removal, holding, others>>

Depend(used) == inUse # used /\ inUse' = used /\ UNCHANGED <<life, probe, removal, holding, run, up, outages>>

Outage == outages < MaxOutages /\ outages' = outages + 1 /\ up' = ~up /\ UNCHANGED <<life, probe, removal, holding, run, inUse>>

Checks(p) == BeginCheck(p) \/ Probe(p) \/ BeginRecord(p) \/ EndRecord(p) \/ DropCheck(p)

Next ==
  \/ \E slots \in BOOLEAN : Install(slots)
  \/ BeginConfigure \/ EndConfigure \/ Enable \/ BeginDisable \/ EndDisable \/ Age \/ Outage
  \/ \E p \in Probers : Checks(p)
  \/ \E m \in Removers : BeginUninstall(m) \/ Uninstall(m)
  \/ \E r \in Runs : MoveRun(r)
  \/ \E used \in BOOLEAN : Depend(used)

Spec == Init /\ [][Next]_vars

(* PluginHealthScheduler: its ticks come, a probe times out, and a         *)
(* transaction that holds a lock ends.                                     *)
FairSpec ==
  /\ Spec /\ \A p \in Probers : WF_vars(Checks(p))
  /\ WF_vars(EndConfigure \/ EndDisable) /\ \A r \in Runs : WF_vars(EndApprove(r) /\ MoveRun(r))

-----------------------------------------------------------------------------
(* Properties.                                                             *)

(* "A result obtained against a superseded configuration is never allowed  *)
(* to enable the replacement configuration": an enabled Plugin was found   *)
(* healthy under the configuration it has (checkHealth, enable).           *)
EnabledAsProbed == state = "enabled" => bound /\ latest.status = "healthy" /\ latest.probed = config

(* An operator's disable is final until an operator enables again: neither *)
(* a probe that was under way nor a new configuration brings the Plugin    *)
(* back (checkHealth, configure).                                          *)
DisabledStays == state = "disabled" /\ state' \notin {"disabled", "uninstalled"} => requested'

(* Disabling or uninstalling a Plugin reaches the runs: one that waits or  *)
(* runs for it nevertheless was asked to stop, or was put in the queue     *)
(* afterwards, on an answer of the time when the Plugin was enabled - not  *)
(* by a recovery or a second claim (holdAffectedRuns, uninstall).          *)
NoRunIsMissed ==
  state \in {"disabled", "uninstalled"} =>
    \A r \in Runs : run[r].state \in Waiting => run[r].asked \/ run[r].late

(* A run that a hold paused or asked to stop never succeeds afterwards,    *)
(* though recovery may queue it again and another worker claim it.         *)
HeldNeverSucceeds ==
  \A r \in Runs :
    run[r].state # "succeeded" /\ (run[r].asked \/ run[r].state = "paused_plugin")
      => run'[r].state # "succeeded" /\ (run'[r].asked \/ run'[r].state \in {"paused_plugin", "ended"})

(* The four together, over a whole behaviour: what the installation        *)
(* promises its operators and its runs (checkHealth, configure, uninstall, *)
(* holdAffectedRuns).                                                      *)
InstallationIsProbed ==
  /\ [](TypeOK /\ EnabledAsProbed /\ NoRunIsMissed)
  /\ [][DisabledStays /\ HeldNeverSucceeds]_vars

(* A Plugin that is to be enabled, and whose service stays up, is enabled  *)
(* again and again in spite of late results of other probes (tick).        *)
ComesBack == <>[](requested /\ up /\ Active) => []<>(state = "enabled" \/ ~requested)

=============================================================================
