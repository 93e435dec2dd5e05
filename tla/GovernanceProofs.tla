-------------------------- MODULE GovernanceProofs --------------------------
(***************************************************************************)
(* What is installed, offered, certified and called stays governed, for    *)
(* any number of health checks, operators, indexers, builders, versions,   *)
(* workers, calls and Skills. This module extends Certification; the       *)
(* Plugin installation, the published catalog and its listing, the plan of *)
(* Plugin calls, a single Plugin call, the workstation broker, the         *)
(* authority of a run and the compositions of Skills are instances of      *)
(* their modules, each with variables of its own.                          *)
(***************************************************************************)
EXTENDS Certification, FiniteSetTheorems, WellFoundedInduction, TLAPS

CONSTANTS Probers, Removers, PluginRuns, MaxConfig, MaxOutages
VARIABLES state, config, bound, requested, latest, probe, removal, holding, pluginRun, inUse, up, outages

Installation == INSTANCE PluginInstallation WITH Runs <- PluginRuns, run <- pluginRun

CONSTANTS Intakes, Keys, Requests, Indexers, MaxRevision, MaxAttempts, MaxConfigs
VARIABLES pub, outbox, attempts, index, held, intake, decision, observed, deployment, req

Reuse == INSTANCE CatalogReuse

-----------------------------------------------------------------------------
(* The installation.                                                       *)

(* A healthy result was obtained under the configuration it is filed for;  *)
(* an installation that is to be enabled has its secrets.                  *)
HealthAgrees == latest.status = "healthy" => latest.probed = latest.config
RequestedIsBound == requested => bound /\ state # "absent"

(* Nothing that a transaction checked changes while it has the lock.       *)
LockKeeps ==
  /\ holding.by # "none" => Installation!Active
  /\ holding.by = "configure" => config < MaxConfig

(* A run in the queue that the holding transaction did not read entered it *)
(* afterwards, or was asked to stop before.                                *)
HoldReads ==
  holding.by # "none" =>
    \A r \in PluginRuns : pluginRun[r].state \in Installation!Waiting =>
      holding.seen[r] \in Installation!Waiting \/ pluginRun[r].asked \/ pluginRun[r].late

NewRunIsFree ==
  \A r \in PluginRuns :
    /\ pluginRun[r].state = "none" => ~pluginRun[r].asked
    /\ holding.seen[r] \in Installation!Waiting => pluginRun[r].state # "none"

LifeInv == HealthAgrees /\ RequestedIsBound /\ Installation!EnabledAsProbed
RunInv  == LockKeeps /\ HoldReads /\ NewRunIsFree /\ Installation!NoRunIsMissed
InstallationInv == Installation!TypeOK /\ LifeInv /\ RunInv

StepKeeps == Installation!DisabledStays /\ Installation!HeldNeverSucceeds

LEMMA InstallationInit ==
  Installation!InstallationAssumption /\ Installation!Init => InstallationInv
<1> SUFFICES ASSUME Installation!InstallationAssumption, Installation!Init PROVE InstallationInv
  OBVIOUS
<1>1. 0 \in 0 .. MaxConfig
  BY DEF Installation!InstallationAssumption
<1>2. Installation!NoRun \in Installation!RunRecord
  BY DEF Installation!NoRun, Installation!RunRecord, Installation!RunStates
<1>3. Installation!Free \in [by : {"none", "configure", "disable"} \cup Probers,
                             seen : [PluginRuns -> Installation!RunStates]]
  BY DEF Installation!Free, Installation!RunStates
<1>4. Installation!TypeOK
  BY <1>1, <1>2, <1>3 DEF Installation!Init, Installation!TypeOK, Installation!States,
                          Installation!NoHealth, Installation!Idle
<1>5. LifeInv
  BY DEF Installation!Init, LifeInv, HealthAgrees, RequestedIsBound, Installation!EnabledAsProbed,
         Installation!NoHealth
<1>6. RunInv
  BY DEF Installation!Init, RunInv, LockKeeps, HoldReads, NewRunIsFree,
         Installation!NoRunIsMissed, Installation!Free, Installation!NoRun, Installation!Waiting
<1> QED BY <1>4, <1>5, <1>6 DEF InstallationInv

(* What holding the runs that were read leaves of each of them. *)
LEMMA HoldFacts ==
  ASSUME InstallationInv, Installation!Lockable, holding.by # "none",
         pluginRun' = Installation!Hold, holding' = Installation!Free
  PROVE  /\ pluginRun' \in [PluginRuns -> Installation!RunRecord]
         /\ \A r \in PluginRuns :
              pluginRun'[r].state \in Installation!Waiting => pluginRun'[r].asked \/ pluginRun'[r].late
         /\ HoldReads' /\ NewRunIsFree' /\ Installation!HeldNeverSucceeds
<1>1. ASSUME NEW r \in PluginRuns
      PROVE  /\ pluginRun'[r] \in Installation!RunRecord
             /\ pluginRun'[r].state = "none" => ~pluginRun'[r].asked
             /\ pluginRun'[r].state \in Installation!Waiting => pluginRun'[r].asked \/ pluginRun'[r].late
             /\ pluginRun[r].state # "succeeded" /\ (pluginRun[r].asked \/ pluginRun[r].state = "paused_plugin")
                  => /\ pluginRun'[r].state # "succeeded"
                     /\ pluginRun'[r].asked \/ pluginRun'[r].state \in {"paused_plugin", "ended"}
  <2>1. pluginRun[r] \in Installation!RunRecord
    BY DEF InstallationInv, Installation!TypeOK
  <2>2. CASE holding.seen[r] = "queued"
    <3>1. pluginRun'[r] = [pluginRun[r] EXCEPT !.state = "paused_plugin"]
      BY <2>2 DEF Installation!Hold
    <3>2. /\ pluginRun'[r] \in Installation!RunRecord
          /\ pluginRun'[r].state = "paused_plugin"
      BY <2>1, <3>1 DEF Installation!RunRecord, Installation!RunStates
    <3> QED BY <3>2 DEF Installation!Waiting
  <2>3. CASE holding.seen[r] = "running"
    <3>1. pluginRun'[r] = [pluginRun[r] EXCEPT !.asked = TRUE]
      BY <2>3 DEF Installation!Hold
    <3>2. /\ pluginRun'[r] \in Installation!RunRecord
          /\ pluginRun'[r].state = pluginRun[r].state /\ pluginRun'[r].asked
      BY <2>1, <3>1 DEF Installation!RunRecord
    <3>3. pluginRun[r].state # "none"
      BY <2>3 DEF InstallationInv, RunInv, NewRunIsFree, Installation!Waiting
    <3> QED BY <3>2, <3>3
  <2>4. CASE holding.seen[r] \notin {"queued", "running"}
    <3>1. pluginRun'[r] = pluginRun[r]
      BY <2>4 DEF Installation!Hold
    <3> QED BY <2>1, <2>4, <3>1 DEF InstallationInv, RunInv, HoldReads, NewRunIsFree,
                                    Installation!Waiting
  <2> QED BY <2>2, <2>3, <2>4
<1>2. pluginRun' \in [PluginRuns -> Installation!RunRecord]
  <2>1. pluginRun' = [r \in PluginRuns |-> pluginRun'[r]]
    BY DEF Installation!Hold
  <2> QED BY <1>1, <2>1
<1>3. HoldReads' /\ NewRunIsFree'
  BY <1>1 DEF HoldReads, NewRunIsFree, Installation!Free, Installation!Waiting
<1> QED BY <1>1, <1>2, <1>3 DEF Installation!HeldNeverSucceeds

(* A step that moves no run and leaves the lock alone.                     *)
LEMMA RunsUntouched ==
  ASSUME InstallationInv, UNCHANGED <<holding, pluginRun>>
  PROVE  /\ HoldReads' /\ NewRunIsFree' /\ Installation!HeldNeverSucceeds
         /\ state' = state => Installation!NoRunIsMissed'
<1>1. HoldReads' /\ NewRunIsFree'
  BY DEF InstallationInv, RunInv, HoldReads, NewRunIsFree
<1>2. Installation!HeldNeverSucceeds
  BY DEF Installation!HeldNeverSucceeds
<1> QED BY <1>1, <1>2 DEF InstallationInv, RunInv, Installation!NoRunIsMissed

(* Taking the lock, and reading the runs.                                  *)
LEMMA LockStep ==
  ASSUME Installation!InstallationAssumption, InstallationInv,
         NEW by \in {"configure", "disable"} \cup Probers, Installation!Lock(by),
         Installation!Active, by = "configure" => config < MaxConfig, UNCHANGED <<probe, removal>>
  PROVE  InstallationInv' /\ StepKeeps
<1> USE DEF InstallationInv, Installation!others, Installation!life
<1>1. /\ holding' = [by |-> by, seen |-> [r \in PluginRuns |-> pluginRun[r].state]]
      /\ UNCHANGED <<state, config, bound, requested, latest, pluginRun, inUse, up, outages>>
  BY DEF Installation!Lock
<1>2. [r \in PluginRuns |-> pluginRun[r].state] \in [PluginRuns -> Installation!RunStates]
  BY DEF Installation!TypeOK, Installation!RunRecord
<1>3. /\ holding' \in [by : {"none", "configure", "disable"} \cup Probers,
                       seen : [PluginRuns -> Installation!RunStates]]
      /\ holding'.by = by /\ \A r \in PluginRuns : holding'.seen[r] = pluginRun[r].state
  BY <1>1, <1>2
<1>4. Installation!TypeOK'
  BY <1>1, <1>3 DEF Installation!TypeOK
<1>5. LifeInv' /\ Installation!DisabledStays /\ Installation!NoRunIsMissed'
  BY <1>1 DEF LifeInv, HealthAgrees, RequestedIsBound, Installation!EnabledAsProbed,
              Installation!DisabledStays, RunInv, Installation!NoRunIsMissed
<1>6. LockKeeps' /\ HoldReads' /\ NewRunIsFree'
  BY <1>1, <1>3 DEF LockKeeps, HoldReads, NewRunIsFree, Installation!Active, Installation!Waiting, RunInv
<1>7. Installation!HeldNeverSucceeds
  BY <1>1 DEF Installation!HeldNeverSucceeds
<1> QED BY <1>4, <1>5, <1>6, <1>7 DEF RunInv, StepKeeps

(* The steps of the operators. *)
LEMMA OperatorStep ==
  ASSUME Installation!InstallationAssumption, InstallationInv,
         \/ \E slots \in BOOLEAN : Installation!Install(slots)
         \/ Installation!BeginConfigure \/ Installation!EndConfigure \/ Installation!Enable
         \/ Installation!BeginDisable \/ Installation!EndDisable
         \/ \E m \in Removers : Installation!BeginUninstall(m) \/ Installation!Uninstall(m)
  PROVE  InstallationInv' /\ StepKeeps
<1> USE DEF InstallationInv, Installation!others, Installation!life, Installation!Active
<1>1. ASSUME NEW slots \in BOOLEAN, Installation!Install(slots)
      PROVE  InstallationInv' /\ StepKeeps
  <2>1. config' \in 0 .. MaxConfig
    BY <1>1 DEF Installation!Install, Installation!InstallationAssumption
  <2>2. bound' \in BOOLEAN /\ state' \in Installation!States
    BY <1>1 DEF Installation!Install, Installation!States
  <2>3. Installation!TypeOK'
    BY <1>1, <2>1, <2>2 DEF Installation!Install, Installation!TypeOK
  <2>4. LifeInv' /\ Installation!DisabledStays /\ LockKeeps' /\ Installation!NoRunIsMissed'
    BY <1>1 DEF Installation!Install, LifeInv, HealthAgrees, RequestedIsBound, RunInv, LockKeeps,
         Installation!EnabledAsProbed, Installation!NoRunIsMissed, Installation!DisabledStays
  <2> QED BY <1>1, <2>3, <2>4, RunsUntouched DEF Installation!Install, RunInv, StepKeeps
<1>2. CASE Installation!BeginConfigure
  BY <1>2, LockStep DEF Installation!BeginConfigure
<1>3. CASE Installation!EndConfigure
  <2>1. holding.by = "configure" /\ holding.by # "none" /\ Installation!Active /\ config < MaxConfig
    BY <1>3 DEF Installation!EndConfigure, RunInv, LockKeeps
  <2>2. /\ holding' = Installation!Free /\ holding'.by = "none" /\ bound' = TRUE /\ requested' = FALSE
        /\ config' = config + 1
        /\ state' = (IF state = "disabled" THEN "disabled" ELSE "installed")
        /\ UNCHANGED <<latest, probe, removal, inUse, up, outages>>
    BY <1>3 DEF Installation!EndConfigure, Installation!Free
  <2>3. Installation!Free \in [by : {"none", "configure", "disable"} \cup Probers,
                               seen : [PluginRuns -> Installation!RunStates]]
    BY DEF Installation!Free, Installation!RunStates
  <2>4. config' \in 0 .. MaxConfig
    BY <2>1, <2>2 DEF Installation!InstallationAssumption, Installation!TypeOK
  <2>5. LifeInv' /\ Installation!DisabledStays /\ LockKeeps'
    BY <2>2 DEF LifeInv, HealthAgrees, RequestedIsBound, LockKeeps,
         Installation!EnabledAsProbed, Installation!DisabledStays
  <2>6. CASE state \in {"enabled", "degraded"}
    <3>1. Installation!Lockable /\ pluginRun' = Installation!Hold
      BY <1>3, <2>6 DEF Installation!EndConfigure
    <3>2. /\ pluginRun' \in [PluginRuns -> Installation!RunRecord]
          /\ HoldReads' /\ NewRunIsFree' /\ Installation!HeldNeverSucceeds
      BY <2>1, <2>2, <3>1, HoldFacts
    <3>3. Installation!TypeOK'
      BY <2>2, <2>3, <2>4, <3>2 DEF Installation!TypeOK, Installation!States
    <3>4. Installation!NoRunIsMissed'
      BY <2>2, <2>6 DEF Installation!NoRunIsMissed
    <3> QED BY <2>5, <3>2, <3>3, <3>4 DEF RunInv, StepKeeps
  <2>7. CASE state \notin {"enabled", "degraded"}
    <3>1. UNCHANGED pluginRun
      BY <1>3, <2>7 DEF Installation!EndConfigure
    <3>2. HoldReads' /\ NewRunIsFree' /\ Installation!HeldNeverSucceeds
      BY <2>2, <3>1 DEF HoldReads, NewRunIsFree, RunInv, Installation!HeldNeverSucceeds,
                        Installation!Free, Installation!Waiting
    <3>3. Installation!TypeOK'
      BY <2>2, <2>3, <2>4, <3>1 DEF Installation!TypeOK, Installation!States
    <3>4. Installation!NoRunIsMissed'
      BY <2>2, <2>7, <3>1 DEF Installation!NoRunIsMissed, RunInv
    <3> QED BY <2>5, <3>2, <3>3, <3>4 DEF RunInv, StepKeeps
  <2> QED BY <2>6, <2>7
<1>4. CASE Installation!Enable
  <2>1. Installation!TypeOK'
    BY <1>4 DEF Installation!Enable, Installation!TypeOK, Installation!States
  <2>2. LifeInv' /\ Installation!DisabledStays /\ LockKeeps' /\ Installation!NoRunIsMissed'
    BY <1>4 DEF Installation!Enable, Installation!HealthyAndFresh, LifeInv, HealthAgrees,
         RequestedIsBound, RunInv, LockKeeps, Installation!EnabledAsProbed,
         Installation!NoRunIsMissed, Installation!DisabledStays
  <2> QED BY <1>4, <2>1, <2>2, RunsUntouched DEF Installation!Enable, RunInv, StepKeeps
<1>5. CASE Installation!BeginDisable
  BY <1>5, LockStep DEF Installation!BeginDisable
<1>6. CASE Installation!EndDisable
  <2>1. holding.by # "none"
    BY <1>6 DEF Installation!EndDisable
  <2>2. /\ holding' = Installation!Free /\ holding'.by = "none"
        /\ state' = "disabled" /\ requested' = FALSE
        /\ Installation!Lockable /\ pluginRun' = Installation!Hold
        /\ UNCHANGED <<config, bound, latest, probe, removal, inUse, up, outages>>
    BY <1>6 DEF Installation!EndDisable, Installation!Free
  <2>3. Installation!Free \in [by : {"none", "configure", "disable"} \cup Probers,
                               seen : [PluginRuns -> Installation!RunStates]]
    BY DEF Installation!Free, Installation!RunStates
  <2>4. /\ pluginRun' \in [PluginRuns -> Installation!RunRecord]
        /\ \A r \in PluginRuns :
             pluginRun'[r].state \in Installation!Waiting => pluginRun'[r].asked \/ pluginRun'[r].late
        /\ HoldReads' /\ NewRunIsFree' /\ Installation!HeldNeverSucceeds
    BY <2>1, <2>2, HoldFacts
  <2>5. Installation!TypeOK'
    BY <2>2, <2>3, <2>4 DEF Installation!TypeOK, Installation!States
  <2>6. LifeInv' /\ Installation!DisabledStays /\ LockKeeps' /\ Installation!NoRunIsMissed'
    BY <2>2, <2>4 DEF LifeInv, HealthAgrees, RequestedIsBound, LockKeeps,
         Installation!EnabledAsProbed, Installation!NoRunIsMissed, Installation!DisabledStays
  <2> QED BY <2>4, <2>5, <2>6 DEF RunInv, StepKeeps
<1>7. ASSUME NEW m \in Removers, Installation!BeginUninstall(m)
      PROVE  InstallationInv' /\ StepKeeps
  <2>1. Installation!TypeOK'
    BY <1>7 DEF Installation!BeginUninstall, Installation!TypeOK
  <2>2. LifeInv' /\ Installation!DisabledStays /\ LockKeeps' /\ Installation!NoRunIsMissed'
    BY <1>7 DEF Installation!BeginUninstall, LifeInv, HealthAgrees, RequestedIsBound, RunInv,
         LockKeeps, Installation!EnabledAsProbed, Installation!NoRunIsMissed,
         Installation!DisabledStays
  <2> QED BY <1>7, <2>1, <2>2, RunsUntouched DEF Installation!BeginUninstall, RunInv, StepKeeps
<1>8. ASSUME NEW m \in Removers, Installation!Uninstall(m)
      PROVE  InstallationInv' /\ StepKeeps
  <2>1. Installation!TypeOK'
    BY <1>8 DEF Installation!Uninstall, Installation!TypeOK, Installation!States
  <2>2. LifeInv' /\ Installation!DisabledStays /\ LockKeeps' /\ Installation!NoRunIsMissed'
    BY <1>8 DEF Installation!Uninstall, Installation!Uninstallable, Installation!Unlocked, LifeInv,
         HealthAgrees, RequestedIsBound, RunInv, LockKeeps, Installation!EnabledAsProbed,
         Installation!NoRunIsMissed, Installation!DisabledStays
  <2> QED BY <1>8, <2>1, <2>2, RunsUntouched DEF Installation!Uninstall, RunInv, StepKeeps
<1> QED BY <1>1, <1>2, <1>3, <1>4, <1>5, <1>6, <1>7, <1>8

(* The steps of a health check. *)
LEMMA CheckStep ==
  ASSUME Installation!InstallationAssumption, InstallationInv, NEW p \in Probers,
         Installation!Checks(p)
  PROVE  InstallationInv' /\ StepKeeps
<1> USE DEF InstallationInv, Installation!others, Installation!life
<1> DEFINE Rows == [Probers -> [stage : {"idle", "probing", "probed"}, config : 0 .. MaxConfig,
                                result : {"none", "healthy", "unavailable"}]]
<1>1. ASSUME probe' \in Rows, UNCHANGED <<state, config, bound, requested, latest, removal, holding,
                                           pluginRun, inUse, up, outages>>
      PROVE  InstallationInv' /\ StepKeeps
  <2>1. Installation!TypeOK'
    BY <1>1 DEF Installation!TypeOK
  <2>2. LifeInv' /\ Installation!DisabledStays /\ LockKeeps' /\ Installation!NoRunIsMissed'
    BY <1>1 DEF LifeInv, HealthAgrees, RequestedIsBound, RunInv, LockKeeps, Installation!Active,
         Installation!EnabledAsProbed, Installation!NoRunIsMissed, Installation!DisabledStays
  <2> QED BY <1>1, <2>1, <2>2, RunsUntouched DEF RunInv, StepKeeps
<1>2. CASE Installation!BeginCheck(p)
  <2>1. probe' \in Rows
    BY <1>2 DEF Installation!BeginCheck, Installation!TypeOK
  <2> QED BY <1>1, <1>2, <2>1 DEF Installation!BeginCheck
<1>3. CASE Installation!Probe(p)
  <2> DEFINE result == IF up THEN "healthy" ELSE "unavailable"
  <2>1. probe' = [probe EXCEPT ![p].stage = "probed", ![p].result = result]
    BY <1>3 DEF Installation!Probe
  <2>2. result \in {"none", "healthy", "unavailable"}
    OBVIOUS
  <2> HIDE DEF result
  <2> DEFINE row == [probe[p] EXCEPT !.stage = "probed", !.result = result]
  <2>3. row \in [stage : {"idle", "probing", "probed"}, config : 0 .. MaxConfig,
                 result : {"none", "healthy", "unavailable"}]
    <3>1. probe[p] \in [stage : {"idle", "probing", "probed"}, config : 0 .. MaxConfig,
                        result : {"none", "healthy", "unavailable"}]
      BY DEF Installation!TypeOK
    <3> QED BY <2>2, <3>1
  <2>4. probe' = [probe EXCEPT ![p] = row]
    BY <2>1 DEF Installation!TypeOK
  <2> HIDE DEF row
  <2>5. probe' \in Rows
    BY <2>3, <2>4 DEF Installation!TypeOK
  <2> QED BY <1>1, <1>3, <2>5 DEF Installation!Probe
<1>4. CASE Installation!BeginRecord(p)
  BY <1>4, LockStep DEF Installation!BeginRecord, Installation!InstallationAssumption
<1>5. CASE Installation!DropCheck(p)
  <2>1. probe' \in Rows
    BY <1>5 DEF Installation!DropCheck, Installation!TypeOK, Installation!Idle,
                Installation!InstallationAssumption
  <2> QED BY <1>1, <1>5, <2>1 DEF Installation!DropCheck
<1>6. CASE Installation!EndRecord(p)
  <2> DEFINE result == Installation!EffectiveResult(p)
             holds  == requested /\ result # "healthy" /\ state \in {"enabled", "degraded"}
  <2>1. probe' \in Rows
    BY <1>6 DEF Installation!EndRecord, Installation!TypeOK, Installation!Idle,
                Installation!InstallationAssumption
  <2>2. holding.by = p /\ holding.by # "none" /\ Installation!Active
    BY <1>6 DEF Installation!EndRecord, Installation!InstallationAssumption, RunInv, LockKeeps
  <2>3. /\ result \in {"none", "healthy", "unavailable"}
        /\ result = "healthy" => probe[p].config = config
        /\ probe[p].config \in 0 .. MaxConfig
    BY DEF Installation!EffectiveResult, Installation!TypeOK
  <2>4. /\ latest' = [status |-> result, config |-> config, probed |-> probe[p].config, fresh |-> TRUE]
        /\ state' = Installation!CheckedState(result)
        /\ holding' = Installation!Free
        /\ holds => Installation!Lockable /\ pluginRun' = Installation!Hold
        /\ ~holds => UNCHANGED pluginRun
        /\ UNCHANGED <<config, bound, requested, removal, inUse, up, outages>>
    BY <1>6 DEF Installation!EndRecord
  <2> HIDE DEF result
  <2>5. /\ state = "disabled" => state' = "disabled"
        /\ state # "disabled" /\ ~requested => state' = "installed"
        /\ state # "disabled" /\ requested =>
             state' = IF result = "healthy" THEN "enabled" ELSE "degraded"
    BY <2>4 DEF Installation!CheckedState, Installation!TypeOK
  <2>6. /\ holding'.by = "none"
        /\ holding' \in [by : {"none", "configure", "disable"} \cup Probers,
                         seen : [PluginRuns -> Installation!RunStates]]
    BY <2>4 DEF Installation!Free, Installation!RunStates
  <2>7. /\ pluginRun' \in [PluginRuns -> Installation!RunRecord]
        /\ HoldReads' /\ NewRunIsFree' /\ Installation!HeldNeverSucceeds
    <3>1. CASE holds
      BY <2>2, <2>4, <3>1, HoldFacts
    <3>2. CASE ~holds
      BY <2>4, <2>6, <3>2 DEF HoldReads, NewRunIsFree, RunInv, Installation!HeldNeverSucceeds,
                              Installation!TypeOK, Installation!Free, Installation!Waiting
    <3> QED BY <3>1, <3>2
  <2>8. Installation!TypeOK'
    <3>1. latest' \in [status : {"none", "healthy", "unavailable"}, config : 0 .. MaxConfig,
                       probed : 0 .. MaxConfig, fresh : BOOLEAN]
      BY <2>3, <2>4 DEF Installation!TypeOK
    <3>2. state' \in Installation!States /\ (state' \in {"enabled", "degraded"} => requested')
      BY <2>4, <2>5 DEF Installation!States, Installation!TypeOK
    <3> QED BY <2>1, <2>4, <2>6, <2>7, <3>1, <3>2 DEF Installation!TypeOK
  <2>9. HealthAgrees' /\ Installation!EnabledAsProbed'
    BY <2>3, <2>4, <2>5 DEF LifeInv, HealthAgrees, RequestedIsBound, Installation!EnabledAsProbed,
                            Installation!TypeOK
  <2>10. RequestedIsBound' /\ Installation!DisabledStays /\ LockKeeps'
    BY <2>2, <2>4, <2>5, <2>6 DEF LifeInv, RequestedIsBound, LockKeeps, Installation!DisabledStays,
                                  Installation!TypeOK
  <2>11. Installation!NoRunIsMissed'
    <3>1. CASE state = "disabled"
      <4>1. ~holds
        BY <3>1
      <4> QED BY <2>4, <3>1, <4>1 DEF Installation!NoRunIsMissed, RunInv
    <3>2. CASE state # "disabled"
      BY <2>5, <3>2 DEF Installation!NoRunIsMissed, Installation!TypeOK
    <3> QED BY <3>1, <3>2
  <2> QED BY <2>7, <2>8, <2>9, <2>10, <2>11 DEF LifeInv, RunInv, StepKeeps
<1> QED BY <1>2, <1>3, <1>4, <1>5, <1>6 DEF Installation!Checks

(* One run moves. *)
LEMMA OneRunMoves ==
  ASSUME InstallationInv, NEW r \in PluginRuns, NEW row \in Installation!RunRecord,
         pluginRun' = [pluginRun EXCEPT ![r] = row],
         UNCHANGED <<state, config, bound, requested, latest, probe, removal, holding, inUse, up,
                     outages>>,
         row.state = "none" => pluginRun[r].state = "none" /\ ~row.asked,
         row.state \in Installation!Waiting =>
           \/ row.asked \/ row.late
           \/ (state = "enabled" /\ holding.by = "none")
           \/ /\ pluginRun[r].state \in Installation!Waiting
              /\ row.asked = pluginRun[r].asked /\ row.late = pluginRun[r].late,
         pluginRun[r].state # "succeeded"
           /\ (pluginRun[r].asked \/ pluginRun[r].state = "paused_plugin")
           => row.state # "succeeded" /\ (row.asked \/ row.state \in {"paused_plugin", "ended"})
  PROVE  InstallationInv' /\ StepKeeps
<1> USE DEF InstallationInv
<1>1. /\ pluginRun' \in [PluginRuns -> Installation!RunRecord]
      /\ \A q \in PluginRuns : pluginRun'[q] = IF q = r THEN row ELSE pluginRun[q]
  BY DEF Installation!TypeOK
<1>2. Installation!TypeOK'
  BY <1>1 DEF Installation!TypeOK
<1>3. LifeInv' /\ Installation!DisabledStays /\ LockKeeps'
  BY DEF LifeInv, HealthAgrees, RequestedIsBound, Installation!EnabledAsProbed, LockKeeps, RunInv,
         Installation!Active, Installation!DisabledStays
<1>4. HoldReads'
  BY <1>1 DEF HoldReads, RunInv
<1>5. NewRunIsFree'
  BY <1>1 DEF NewRunIsFree, RunInv
<1>6. Installation!NoRunIsMissed'
  BY <1>1 DEF Installation!NoRunIsMissed, RunInv
<1>7. Installation!HeldNeverSucceeds
  BY <1>1 DEF Installation!HeldNeverSucceeds
<1> QED BY <1>2, <1>3, <1>4, <1>5, <1>6, <1>7 DEF RunInv, StepKeeps

LEMMA RunStep ==
  ASSUME InstallationInv, NEW r \in PluginRuns, Installation!MoveRun(r)
  PROVE  InstallationInv' /\ StepKeeps
<1> DEFINE old == pluginRun[r]
<1>1. /\ old \in Installation!RunRecord
      /\ pluginRun \in [PluginRuns -> Installation!RunRecord]
  BY DEF InstallationInv, Installation!TypeOK
<1>2. UNCHANGED <<state, config, bound, requested, latest, probe, removal, holding, inUse, up, outages>>
  BY DEF Installation!MoveRun, Installation!life, Installation!others
<1>3. old.state = "none" => ~old.asked
  BY DEF InstallationInv, RunInv, NewRunIsFree
<1> USE DEF Installation!RunRecord, Installation!RunStates, Installation!Waiting
<1>4. ASSUME NEW found \in {"queued", "awaiting_approval", "paused_plugin"},
             pluginRun' = [pluginRun EXCEPT ![r].found = found]
      PROVE  InstallationInv' /\ StepKeeps
  <2> DEFINE row == [old EXCEPT !.found = found]
  <2>1. /\ row \in Installation!RunRecord
        /\ row.state = old.state /\ row.asked = old.asked /\ row.late = old.late
    BY <1>1
  <2>2. pluginRun' = [pluginRun EXCEPT ![r] = row]
    BY <1>1, <1>4
  <2> HIDE DEF row
  <2> QED BY <1>2, <1>3, <2>1, <2>2, OneRunMoves
<1>5. ASSUME NEW s \in Installation!RunStates \ {"none"}, pluginRun' = [pluginRun EXCEPT ![r].state = s],
             s \in Installation!Waiting => old.state \in Installation!Waiting,
             old.asked => s # "succeeded",
             old.state = "paused_plugin" => s = "ended"
      PROVE  InstallationInv' /\ StepKeeps
  <2> DEFINE row == [old EXCEPT !.state = s]
  <2>1. /\ row \in Installation!RunRecord
        /\ row.state = s /\ row.asked = old.asked /\ row.late = old.late
    BY <1>1
  <2>2. pluginRun' = [pluginRun EXCEPT ![r] = row]
    BY <1>1, <1>5
  <2> HIDE DEF row
  <2>3. /\ row.state = "none" => old.state = "none" /\ ~row.asked
        /\ row.state \in {"queued", "running"} =>
             old.state \in {"queued", "running"} /\ row.asked = old.asked /\ row.late = old.late
        /\ old.state # "succeeded" /\ (old.asked \/ old.state = "paused_plugin") =>
             row.state # "succeeded" /\ (row.asked \/ row.state \in {"paused_plugin", "ended"})
    BY <1>5, <2>1
  <2> QED BY <1>2, <2>1, <2>2, <2>3, OneRunMoves
<1>6. CASE Installation!BeginCreate(r)
  BY <1>4, <1>6 DEF Installation!BeginCreate
<1>7. CASE Installation!EndCreate(r)
  <2> DEFINE row == [state |-> old.found, found |-> "none", asked |-> FALSE,
                     late |-> old.found = "queued" /\ state # "enabled"]
  <2>1. pluginRun' = [pluginRun EXCEPT ![r] = row] /\ old.state = "none" /\ old.found # "none"
        /\ holding.by = "none"
    BY <1>7 DEF Installation!EndCreate, Installation!Unlocked
  <2>2. /\ row \in Installation!RunRecord
        /\ row.state = old.found /\ row.late = (old.found = "queued" /\ state # "enabled") /\ ~row.asked
    BY <1>1
  <2>3. row.state \in {"queued", "awaiting_approval", "paused_plugin"}
    BY <1>1, <2>1, <2>2
  <2> HIDE DEF row
  <2> QED BY <1>2, <1>3, <2>1, <2>2, <2>3, OneRunMoves
<1>8. CASE Installation!BeginApprove(r)
  BY <1>4, <1>8 DEF Installation!BeginApprove
<1>9. CASE Installation!EndApprove(r)
  <2> DEFINE late == ~(state = "enabled" /\ holding.by = "none")
             row  == [old EXCEPT !.state = "queued", !.found = "none", !.late = late]
  <2>1. /\ pluginRun' = [pluginRun EXCEPT ![r].state = "queued", ![r].found = "none", ![r].late = late]
        /\ old.state = "awaiting_approval"
    BY <1>9 DEF Installation!EndApprove, Installation!Unlocked
  <2>2. late \in BOOLEAN
    OBVIOUS
  <2> HIDE DEF late
  <2>3. row \in Installation!RunRecord /\ row.state = "queued" /\ row.asked = old.asked /\ row.late = late
    BY <1>1, <2>2
  <2>4. pluginRun' = [pluginRun EXCEPT ![r] = row]
    BY <1>1, <2>1
  <2> HIDE DEF row
  <2>5. ~late => state = "enabled" /\ holding.by = "none"
    BY DEF late
  <2> QED BY <1>2, <2>1, <2>3, <2>4, <2>5, OneRunMoves
<1>10. CASE Installation!Cancel(r)
  <2>1. CASE old.state = "running"
    <3> DEFINE row == [old EXCEPT !.asked = TRUE]
    <3>1. /\ row \in Installation!RunRecord
          /\ row.state = "running" /\ row.asked /\ row.state # "none" /\ row.state # "succeeded"
      BY <1>1, <2>1
    <3>2. pluginRun' = [pluginRun EXCEPT ![r] = row]
      BY <1>1, <1>10, <2>1 DEF Installation!Cancel
    <3> HIDE DEF row
    <3> QED BY <1>2, <2>1, <3>1, <3>2, OneRunMoves
  <2>2. CASE old.state # "running"
    <3>1. pluginRun' = [pluginRun EXCEPT ![r].state = "ended"]
      BY <1>10, <2>2 DEF Installation!Cancel
    <3> DEFINE s == "ended"
    <3>2. s \in Installation!RunStates \ {"none"} /\ s \notin Installation!Waiting /\ s # "succeeded"
      OBVIOUS
    <3> QED BY <1>5, <3>1, <3>2
  <2> QED BY <2>1, <2>2
<1>11. CASE Installation!Work(r)
  <2>1. \E s \in {"running", "awaiting_approval", "queued", "paused_plugin", "ended", "succeeded"} :
          /\ pluginRun' = [pluginRun EXCEPT ![r].state = s]
          /\ old.state \in Installation!Waiting /\ (old.asked => s # "succeeded")
    BY <1>11 DEF Installation!Work, Installation!Outcomes
  <2> QED BY <1>5, <2>1
<1> QED BY <1>6, <1>7, <1>8, <1>9, <1>10, <1>11 DEF Installation!MoveRun

(* The registry, the service and the clock. *)
LEMMA SurroundingStep ==
  ASSUME InstallationInv,
         \/ Installation!Age \/ Installation!Outage \/ UNCHANGED Installation!vars
         \/ \E used \in BOOLEAN : Installation!Depend(used)
  PROVE  InstallationInv' /\ StepKeeps
<1> USE DEF InstallationInv, Installation!others, Installation!life
<1>1. UNCHANGED <<state, config, bound, requested, probe, removal, holding, pluginRun>>
  BY DEF Installation!Age, Installation!Outage, Installation!Depend, Installation!vars
<1>2. /\ latest' = latest \/ latest' = [latest EXCEPT !.fresh = FALSE]
      /\ inUse' \in BOOLEAN /\ up' \in BOOLEAN
  BY DEF Installation!Age, Installation!Outage, Installation!Depend, Installation!vars,
         Installation!TypeOK
<1>3. Installation!TypeOK'
  BY <1>1, <1>2 DEF Installation!TypeOK
<1>4. LifeInv' /\ Installation!DisabledStays /\ LockKeeps'
  BY <1>1, <1>2 DEF LifeInv, HealthAgrees, RequestedIsBound, Installation!EnabledAsProbed, RunInv,
       LockKeeps, Installation!Active, Installation!DisabledStays, Installation!TypeOK
<1> QED BY <1>1, <1>3, <1>4, RunsUntouched DEF RunInv, StepKeeps

(* However health checks, operators, uninstallations and runs interleave,  *)
(* a Plugin is enabled only under a configuration that was itself found    *)
(* healthy and has its secrets, an operator's disable stands until an      *)
(* operator enables again, a run that waits or runs for a Plugin that is   *)
(* disabled or gone was asked to stop or was queued on an earlier answer   *)
(* of the installation, and no run that was held or asked to stop succeeds *)
(* (checkHealth, configure, holdAffectedRuns, uninstall).                  *)
THEOREM InstallationsAreProbed ==
  Installation!InstallationAssumption =>
    (Installation!Spec => Installation!InstallationIsProbed)
<1> SUFFICES ASSUME Installation!InstallationAssumption
             PROVE  Installation!Spec => Installation!InstallationIsProbed
  OBVIOUS
<1>1. Installation!Init => InstallationInv
  BY InstallationInit
<1>2. InstallationInv /\ [Installation!Next]_(Installation!vars) =>
        InstallationInv' /\ [Installation!DisabledStays /\ Installation!HeldNeverSucceeds]_(Installation!vars)
  <2> SUFFICES ASSUME InstallationInv, [Installation!Next]_(Installation!vars)
               PROVE  InstallationInv' /\ StepKeeps
    BY DEF StepKeeps
  <2> QED BY OperatorStep, CheckStep, RunStep, SurroundingStep DEF Installation!Next
<1>3. InstallationInv => Installation!TypeOK /\ Installation!EnabledAsProbed /\ Installation!NoRunIsMissed
  BY DEF InstallationInv, LifeInv, RunInv
<1> QED BY <1>1, <1>2, <1>3, PTL DEF Installation!Spec, Installation!InstallationIsProbed

-----------------------------------------------------------------------------
(* The published catalog.                                                  *)

(* What the outbox and its indexers hold. *)
OutboxInv ==
  /\ pub \in [state : {"prepared", "active", "retired"}, revision : Reuse!Revisions]
  /\ outbox \in [Reuse!Revisions -> {"absent", "pending", "processing", "published", "failed"}]
  /\ index \in [revision : 0 .. MaxRevision, retired : BOOLEAN]
  /\ held \in [Indexers -> 0 .. MaxRevision]
  /\ \A n \in Reuse!Revisions : outbox[n] # "absent" => n <= pub.revision
  /\ \A x \in Indexers : held[x] # 0 => outbox[held[x]] # "absent"

DecisionRow == [intake : Intakes, action : Reuse!Actions]
Underway == [pc : {"locked", "write"}, intake : Intakes, key : Keys, action : Reuse!Actions]

BuilderTyped ==
  /\ intake \in [Intakes -> {"absent", "interpreted", "confirmed", "decided"}]
  /\ decision \in [Keys -> DecisionRow \cup {Reuse!NoDecision}]
  /\ deployment \in [Intakes -> [active : BOOLEAN, flagged : BOOLEAN, config : Nat]]
  /\ req \in [Requests -> Underway \cup {Reuse!Idle}]

(* The request that is about to write still finds its key unused and its   *)
(* intake undecided, because nobody else writes either.                    *)
WriteIsCurrent ==
  \A q \in Requests : req[q].pc = "write" =>
    decision[req[q].key] = Reuse!NoDecision /\ intake[req[q].intake] = "confirmed"
WritesAreDisjoint ==
  \A p, q \in Requests : p # q /\ req[p].pc = "write" /\ req[q].pc = "write" =>
    req[p].key # req[q].key /\ req[p].intake # req[q].intake
DecisionDecides ==
  \A k \in Keys : decision[k] # Reuse!NoDecision => intake[decision[k].intake] = "decided"
DeployedIsDecided == \A i \in Intakes : deployment[i].active => intake[i] = "decided"

BuilderInv ==
  /\ BuilderTyped /\ WriteIsCurrent /\ WritesAreDisjoint /\ DecisionDecides /\ DeployedIsDecided
  /\ Reuse!DecidedOnce

ReuseInv == OutboxInv /\ BuilderInv

(* No decision is the mark of none. *)
LEMMA RowIsDecision ==
  ASSUME NEW i, NEW a \in Reuse!Actions
  PROVE  [intake |-> i, action |-> a] # Reuse!NoDecision
<1> SUFFICES ASSUME [intake |-> i, action |-> a] = Reuse!NoDecision PROVE FALSE
  OBVIOUS
<1>1. [intake |-> i, action |-> a].action = Reuse!NoDecision.action
  OBVIOUS
<1> QED BY <1>1 DEF Reuse!NoDecision, Reuse!Actions

LEMMA ReuseInit == Reuse!ReuseAssumption /\ Reuse!Init => ReuseInv
<1> SUFFICES ASSUME Reuse!ReuseAssumption, Reuse!Init PROVE ReuseInv
  OBVIOUS
<1>1. OutboxInv
  BY DEF Reuse!ReuseAssumption, Reuse!Init, OutboxInv, Reuse!Revisions
<1>2. \A q \in Requests : req[q].pc = "idle"
  BY DEF Reuse!Init, Reuse!Idle
<1>3. BuilderTyped
  BY DEF Reuse!Init, BuilderTyped, Reuse!NoDeployment
<1>4. WriteIsCurrent /\ WritesAreDisjoint /\ DecisionDecides /\ DeployedIsDecided /\ Reuse!DecidedOnce
  BY <1>2 DEF Reuse!Init, WriteIsCurrent, WritesAreDisjoint, DecisionDecides,
     DeployedIsDecided, Reuse!DecidedOnce, Reuse!NoDeployment
<1> QED BY <1>1, <1>3, <1>4 DEF ReuseInv, BuilderInv

(* A new revision of the publication. *)
LEMMA RepublishStep ==
  ASSUME Reuse!ReuseAssumption, OutboxInv, NEW s \in {"active", "retired"}, Reuse!Republish(s)
  PROVE  OutboxInv'
<1>1. /\ pub' = [state |-> s, revision |-> pub.revision + 1] /\ pub.revision < MaxRevision
      /\ outbox' = [outbox EXCEPT ![pub.revision + 1] = "pending"]
      /\ UNCHANGED <<index, held>>
  BY DEF Reuse!Republish, Reuse!Enqueue, Reuse!indexVars
<1>2. pub.revision + 1 \in Reuse!Revisions /\ pub.revision \in Nat
  BY <1>1 DEF OutboxInv, Reuse!Revisions, Reuse!ReuseAssumption
<1>3. /\ pub' \in [state : {"prepared", "active", "retired"}, revision : Reuse!Revisions]
      /\ outbox' \in [Reuse!Revisions -> {"absent", "pending", "processing", "published", "failed"}]
  BY <1>1, <1>2 DEF OutboxInv
<1>4. \A n \in Reuse!Revisions : outbox'[n] # "absent" => n <= pub'.revision
  BY <1>1, <1>2 DEF OutboxInv, Reuse!Revisions
<1>5. \A x \in Indexers : held'[x] # 0 => outbox'[held'[x]] # "absent"
  BY <1>1, <1>2 DEF OutboxInv, Reuse!Revisions
<1> QED BY <1>1, <1>3, <1>4, <1>5 DEF OutboxInv

(* The steps of an indexer. *)
LEMMA IndexStep ==
  ASSUME Reuse!ReuseAssumption, OutboxInv, NEW x \in Indexers, Reuse!Index(x)
  PROVE  OutboxInv' /\ Reuse!IndexNeverRegresses
<1>1. index.revision \in Nat /\ held[x] \in 0 .. MaxRevision
  BY DEF OutboxInv
<1>2. ASSUME NEW n \in Reuse!Revisions, NEW e \in {"processing", "published", "failed"},
             outbox[n] # "absent", outbox' = [outbox EXCEPT ![n] = e],
             held' = [held EXCEPT ![x] = 0] \/ held' = [held EXCEPT ![x] = n], pub' = pub,
             index' \in [revision : 0 .. MaxRevision, retired : BOOLEAN]
      PROVE  OutboxInv'
  <2>1. /\ outbox' \in [Reuse!Revisions -> {"absent", "pending", "processing", "published", "failed"}]
        /\ \A i \in Reuse!Revisions : outbox[i] = "absent" <=> outbox'[i] = "absent"
    BY <1>2 DEF OutboxInv
  <2>2. 0 \in 0 .. MaxRevision /\ n \in 0 .. MaxRevision /\ n # 0
    BY DEF Reuse!Revisions, Reuse!ReuseAssumption
  <2>3. held' \in [Indexers -> 0 .. MaxRevision]
    BY <1>2, <2>2 DEF OutboxInv
  <2>4. ASSUME NEW y \in Indexers, held'[y] # 0 PROVE outbox'[held'[y]] # "absent"
    <3>1. held'[y] \in Reuse!Revisions
      BY <2>3, <2>4 DEF Reuse!Revisions
    <3>2. held'[y] = held[y] \/ held'[y] = n
      BY <1>2, <2>4 DEF OutboxInv
    <3> QED BY <1>2, <2>1, <2>4, <3>1, <3>2 DEF OutboxInv
  <2> QED BY <1>2, <2>1, <2>3, <2>4 DEF OutboxInv
<1>3. ASSUME held[x] # 0
      PROVE  held[x] \in Reuse!Revisions /\ outbox[held[x]] # "absent"
  BY <1>1, <1>3 DEF OutboxInv, Reuse!Revisions
<1>4. ASSUME NEW n \in Reuse!Revisions, Reuse!Claim(x, n)
      PROVE  OutboxInv' /\ Reuse!IndexNeverRegresses
  <2>1. outbox[n] # "absent"
    BY <1>4 DEF Reuse!Claim, Reuse!Claimable, Reuse!Stale
  <2>2. index' = index /\ index \in [revision : 0 .. MaxRevision, retired : BOOLEAN]
    BY <1>4 DEF Reuse!Claim, OutboxInv
  <2>3. OutboxInv'
    BY <1>2, <1>4, <2>1, <2>2 DEF Reuse!Claim
  <2> QED BY <1>1, <2>2, <2>3 DEF Reuse!IndexNeverRegresses
<1>5. CASE Reuse!Publish(x) /\ outbox[held[x]] = "processing"
  <2>1. held[x] \in Reuse!Revisions
    BY <1>3, <1>5 DEF Reuse!Publish
  <2>2. /\ index' = IF index.revision <= held[x]
                    THEN [revision |-> held[x], retired |-> Reuse!Retires(held[x])] ELSE index
        /\ outbox' = [outbox EXCEPT ![held[x]] = "published"]
        /\ held' = [held EXCEPT ![x] = 0] /\ pub' = pub
    BY <1>5 DEF Reuse!Publish, Reuse!Newer
  <2>3. Reuse!Retires(held[x]) \in BOOLEAN
    BY DEF Reuse!Retires
  <2>4. index' \in [revision : 0 .. MaxRevision, retired : BOOLEAN]
    <3>1. CASE index.revision <= held[x]
      BY <1>1, <2>2, <2>3, <3>1
    <3>2. CASE ~(index.revision <= held[x])
      BY <2>2, <3>2 DEF OutboxInv
    <3> QED BY <3>1, <3>2
  <2>5. OutboxInv'
    BY <1>2, <1>5, <2>1, <2>2, <2>4
  <2>6. index'.revision >= index.revision
    <3>1. CASE index.revision <= held[x]
      BY <1>1, <2>2, <3>1
    <3>2. CASE ~(index.revision <= held[x])
      BY <1>1, <2>2, <3>2
    <3> QED BY <3>1, <3>2
  <2> QED BY <2>5, <2>6 DEF Reuse!IndexNeverRegresses
<1>6. CASE \/ Reuse!Publish(x) /\ outbox[held[x]] # "processing"
           \/ Reuse!Crash(x)
  <2>1. held' = [held EXCEPT ![x] = 0] /\ UNCHANGED <<pub, outbox, index>>
    BY <1>6 DEF Reuse!Publish, Reuse!Crash, Reuse!pubVars
  <2>2. OutboxInv'
    BY <2>1 DEF OutboxInv, Reuse!ReuseAssumption
  <2> QED BY <1>1, <2>1, <2>2 DEF Reuse!IndexNeverRegresses
<1>7. CASE Reuse!Fail(x)
  <2>1. held[x] \in Reuse!Revisions /\ outbox[held[x]] # "absent"
    BY <1>3, <1>7 DEF Reuse!Fail
  <2>2. index' = index /\ index \in [revision : 0 .. MaxRevision, retired : BOOLEAN]
    BY <1>7 DEF Reuse!Fail, OutboxInv
  <2>3. OutboxInv'
    BY <1>2, <1>7, <2>1, <2>2 DEF Reuse!Fail
  <2> QED BY <1>1, <2>2, <2>3 DEF Reuse!IndexNeverRegresses
<1> QED BY <1>4, <1>5, <1>6, <1>7 DEF Reuse!Index

(* Requests, decisions and intakes are as before; deployments of decided   *)
(* intakes may change.                                                     *)
LEMMA DeploymentStep ==
  ASSUME BuilderInv, UNCHANGED <<intake, decision, observed, req>>,
         deployment' \in [Intakes -> [active : BOOLEAN, flagged : BOOLEAN, config : Nat]],
         \A i \in Intakes : deployment'[i].active => deployment[i].active
  PROVE  BuilderInv'
<1>1. BuilderTyped' /\ DeployedIsDecided'
  BY DEF BuilderInv, BuilderTyped, DeployedIsDecided
<1>2. WriteIsCurrent' /\ WritesAreDisjoint' /\ DecisionDecides' /\ Reuse!DecidedOnce'
  BY DEF BuilderInv, WriteIsCurrent, WritesAreDisjoint, DecisionDecides, Reuse!DecidedOnce,
         Reuse!Replays
<1> QED BY <1>1, <1>2 DEF BuilderInv

LEMMA FlagStep ==
  ASSUME BuilderInv, NEW flag \in BOOLEAN, Reuse!FlagDeployments(flag),
         UNCHANGED <<intake, decision, observed, req>>
  PROVE  BuilderInv'
<1>1. ASSUME NEW i \in Intakes
      PROVE  /\ deployment'[i] \in [active : BOOLEAN, flagged : BOOLEAN, config : Nat]
             /\ deployment'[i].active => deployment[i].active
  <2>1. deployment[i] \in [active : BOOLEAN, flagged : BOOLEAN, config : Nat]
    BY DEF BuilderInv, BuilderTyped
  <2>2. deployment'[i] = IF deployment[i].active
                         THEN [deployment[i] EXCEPT !.flagged = flag] ELSE deployment[i]
    BY DEF Reuse!FlagDeployments
  <2> QED BY <2>1, <2>2
<1>2. deployment' \in [Intakes -> [active : BOOLEAN, flagged : BOOLEAN, config : Nat]]
  BY <1>1 DEF Reuse!FlagDeployments
<1> QED BY <1>1, <1>2, DeploymentStep

(* A request that begins or is refused: nobody new is about to write. *)
LEMMA RequestStep ==
  ASSUME BuilderInv, NEW q \in Requests, NEW x \in Underway \cup {Reuse!Idle}, x.pc # "write",
         req' = [req EXCEPT ![q] = x], UNCHANGED <<intake, decision, observed, deployment>>
  PROVE  BuilderInv'
<1>1. BuilderTyped'
  BY DEF BuilderInv, BuilderTyped
<1>2. \A p \in Requests : req'[p].pc = "write" => p # q /\ req'[p] = req[p]
  BY DEF BuilderInv, BuilderTyped
<1>3. WriteIsCurrent' /\ WritesAreDisjoint'
  BY <1>2 DEF BuilderInv, WriteIsCurrent, WritesAreDisjoint
<1>4. DecisionDecides' /\ DeployedIsDecided' /\ Reuse!DecidedOnce'
  BY DEF BuilderInv, DecisionDecides, DeployedIsDecided, Reuse!DecidedOnce, Reuse!Replays
<1> QED BY <1>1, <1>3, <1>4 DEF BuilderInv

(* The fields of a request that is not idle. *)
LEMMA RequestFields ==
  ASSUME BuilderTyped, NEW q \in Requests, req[q].pc \in {"locked", "write"}
  PROVE  req[q] \in Underway
BY DEF BuilderTyped, Reuse!Idle

(* The checks under the locks: no other request about to write has the key *)
(* or the intake.                                                          *)
LEMMA CheckedStep ==
  ASSUME BuilderInv, NEW q \in Requests, Reuse!Check(q)
  PROVE  BuilderInv'
<1> DEFINE x == req[q]
           refused == \/ decision[x.key] # Reuse!NoDecision
                      \/ intake[x.intake] # "confirmed"
                      \/ x.action # "build_new" /\ pub.state # "active"
<1>1. x.pc = "locked" /\ x \in Underway /\ UNCHANGED <<intake, decision, observed, deployment>>
  BY RequestFields DEF Reuse!Check, BuilderInv
<1>2. req' = [req EXCEPT ![q] = IF refused THEN Reuse!Idle ELSE [x EXCEPT !.pc = "write"]]
  BY DEF Reuse!Check
<1>3. CASE refused
  <2>1. Reuse!Idle.pc # "write"
    BY DEF Reuse!Idle
  <2>2. req' = [req EXCEPT ![q] = Reuse!Idle]
    BY <1>2, <1>3
  <2> QED BY <1>1, <2>1, <2>2, RequestStep
<1>4. CASE ~refused
  <2> DEFINE y == [x EXCEPT !.pc = "write"]
  <2>1. y \in Underway /\ y.key = x.key /\ y.intake = x.intake
    BY <1>1 DEF Underway
  <2>2. req' = [req EXCEPT ![q] = y]
    BY <1>2, <1>4
  <2> HIDE DEF y
  <2>3. BuilderTyped'
    BY <1>1, <2>1, <2>2 DEF BuilderInv, BuilderTyped
  <2>4. req'[q] = y /\ \A p \in Requests : p # q => req'[p] = req[p]
    BY <2>2 DEF BuilderInv, BuilderTyped
  <2>5. \A p \in Requests : p # q /\ req[p].pc = "write" => req[p].key # x.key /\ req[p].intake # x.intake
    BY DEF Reuse!Check, Reuse!LockHeld
  <2>6. decision[x.key] = Reuse!NoDecision /\ intake[x.intake] = "confirmed"
    BY <1>4
  <2>7. WriteIsCurrent'
    BY <1>1, <2>1, <2>4, <2>6 DEF BuilderInv, WriteIsCurrent
  <2>8. WritesAreDisjoint'
    BY <2>1, <2>4, <2>5 DEF BuilderInv, WritesAreDisjoint
  <2>9. DecisionDecides' /\ DeployedIsDecided' /\ Reuse!DecidedOnce'
    BY <1>1 DEF BuilderInv, DecisionDecides, DeployedIsDecided, Reuse!DecidedOnce, Reuse!Replays
  <2> QED BY <2>3, <2>7, <2>8, <2>9 DEF BuilderInv
<1> QED BY <1>3, <1>4

(* An intake appears: no decision or request is about it yet. *)
LEMMA IntakeStep ==
  ASSUME BuilderInv, NEW i \in Intakes, Reuse!CreateIntake(i)
  PROVE  BuilderInv'
<1>1. PICK s \in {"interpreted", "confirmed"} : intake' = [intake EXCEPT ![i] = s]
  BY DEF Reuse!CreateIntake
<1>2. intake[i] = "absent" /\ UNCHANGED <<decision, observed, deployment, req>>
  BY DEF Reuse!CreateIntake
<1>3. BuilderTyped'
  BY <1>1, <1>2 DEF BuilderInv, BuilderTyped
<1>4. \A j \in Intakes : intake[j] \in {"confirmed", "decided"} => intake'[j] = intake[j]
  BY <1>1, <1>2 DEF BuilderInv, BuilderTyped
<1>5. WriteIsCurrent'
  <2> SUFFICES ASSUME NEW q \in Requests, req[q].pc = "write"
               PROVE  decision[req[q].key] = Reuse!NoDecision /\ intake'[req[q].intake] = "confirmed"
    BY <1>2 DEF WriteIsCurrent
  <2>1. req[q].intake \in Intakes
    BY RequestFields DEF BuilderInv, Underway
  <2> QED BY <1>4, <2>1 DEF BuilderInv, WriteIsCurrent
<1>6. DecisionDecides'
  <2> SUFFICES ASSUME NEW k \in Keys, decision[k] # Reuse!NoDecision
               PROVE  intake'[decision[k].intake] = "decided"
    BY <1>2 DEF DecisionDecides
  <2>1. decision[k].intake \in Intakes
    BY DEF BuilderInv, BuilderTyped, DecisionRow
  <2> QED BY <1>4, <2>1 DEF BuilderInv, DecisionDecides
<1>7. DeployedIsDecided' /\ WritesAreDisjoint' /\ Reuse!DecidedOnce'
  BY <1>2, <1>4 DEF BuilderInv, DeployedIsDecided, WritesAreDisjoint, Reuse!DecidedOnce,
     Reuse!Replays
<1> QED BY <1>3, <1>5, <1>6, <1>7 DEF BuilderInv

(* The decision is recorded: its intake had none before. *)
LEMMA RecordStep ==
  ASSUME Reuse!ReuseAssumption, BuilderInv, NEW q \in Requests, Reuse!Record(q)
  PROVE  BuilderInv'
<1> DEFINE x == req[q]
           row == [intake |-> x.intake, action |-> x.action]
<1>1. /\ x.pc = "write" /\ x.key \in Keys /\ x.intake \in Intakes /\ x.action \in Reuse!Actions
      /\ decision[x.key] = Reuse!NoDecision /\ intake[x.intake] = "confirmed"
  BY RequestFields DEF Reuse!Record, BuilderInv, WriteIsCurrent, Underway
<1>2. /\ decision' = [decision EXCEPT ![x.key] = row]
      /\ intake' = [intake EXCEPT ![x.intake] = "decided"]
      /\ observed' = IF x.action = "build_new" THEN observed \union {x.intake} ELSE observed
      /\ req' = [req EXCEPT ![q] = Reuse!Idle]
  BY DEF Reuse!Record
<1>3. row \in DecisionRow /\ row # Reuse!NoDecision /\ row.intake = x.intake
  BY <1>1, RowIsDecision DEF DecisionRow
<1>4. /\ deployment' \in [Intakes -> [active : BOOLEAN, flagged : BOOLEAN, config : Nat]]
      /\ \A i \in Intakes : deployment'[i].active => deployment[i].active \/ i = x.intake
  <2> DEFINE d == [active |-> TRUE, flagged |-> FALSE,
                   config |-> IF x.action = "configure" THEN 1 ELSE 0]
  <2>1. d \in [active : BOOLEAN, flagged : BOOLEAN, config : Nat]
    OBVIOUS
  <2>2. deployment' = [deployment EXCEPT ![x.intake] = d] \/ deployment' = deployment
    BY DEF Reuse!Record
  <2> HIDE DEF d
  <2> QED BY <1>1, <2>1, <2>2 DEF BuilderInv, BuilderTyped
<1>5. /\ \A k \in Keys : decision'[k] = IF k = x.key THEN row ELSE decision[k]
      /\ \A i \in Intakes : intake'[i] = IF i = x.intake THEN "decided" ELSE intake[i]
      /\ \A p \in Requests : req'[p].pc = "write" => p # q /\ req'[p] = req[p]
  BY <1>1, <1>2 DEF BuilderInv, BuilderTyped, Reuse!Idle
<1>6. BuilderTyped'
  BY <1>1, <1>2, <1>3, <1>4 DEF BuilderInv, BuilderTyped
<1> HIDE DEF row
<1>7. WriteIsCurrent'
  <2> SUFFICES ASSUME NEW p \in Requests, req'[p].pc = "write"
               PROVE  /\ decision'[req'[p].key] = Reuse!NoDecision
                      /\ intake'[req'[p].intake] = "confirmed"
    BY DEF WriteIsCurrent
  <2>1. p # q /\ req'[p] = req[p]
    BY <1>5
  <2>2. req[p].key \in Keys /\ req[p].intake \in Intakes
    BY <2>1, RequestFields DEF BuilderInv, Underway
  <2>3. req[p].key # x.key /\ req[p].intake # x.intake
    BY <1>1, <2>1 DEF BuilderInv, WritesAreDisjoint
  <2> QED BY <1>5, <2>1, <2>2, <2>3 DEF BuilderInv, WriteIsCurrent
<1>8. WritesAreDisjoint'
  BY <1>5 DEF BuilderInv, WritesAreDisjoint
<1>9. \A k \in Keys : decision[k] # Reuse!NoDecision => decision[k].intake \in Intakes
  BY DEF BuilderInv, BuilderTyped, DecisionRow
<1>10. DecisionDecides'
  BY <1>1, <1>3, <1>5, <1>9 DEF BuilderInv, DecisionDecides
<1>11. DeployedIsDecided'
  BY <1>1, <1>4, <1>5 DEF BuilderInv, DeployedIsDecided
<1>12. Reuse!DecidedOnce'
  <2>1. \A k \in Keys : decision[k].intake # x.intake
    <3> SUFFICES ASSUME NEW k \in Keys PROVE decision[k].intake # x.intake
      OBVIOUS
    <3>1. CASE decision[k] = Reuse!NoDecision
      BY <1>1, <3>1 DEF Reuse!NoDecision, Reuse!ReuseAssumption
    <3>2. CASE decision[k] # Reuse!NoDecision
      BY <1>1, <3>2 DEF BuilderInv, DecisionDecides
    <3> QED BY <3>1, <3>2
  <2>2. \A k, l \in Keys : decision'[k] = Reuse!NoDecision \/ k = l
                             \/ decision'[k].intake # decision'[l].intake
    BY <1>3, <1>5, <2>1 DEF BuilderInv, Reuse!DecidedOnce
  <2>3. ASSUME NEW i \in observed'
        PROVE  \E k \in Keys : decision'[k] = [intake |-> i, action |-> "build_new"]
    <3>1. CASE i \in observed
      <4>1. PICK k \in Keys : decision[k] = [intake |-> i, action |-> "build_new"]
        BY <3>1 DEF BuilderInv, Reuse!DecidedOnce, Reuse!Replays
      <4>2. decision[k] # Reuse!NoDecision
        BY <4>1, RowIsDecision DEF Reuse!Actions
      <4> QED BY <1>1, <1>5, <4>1, <4>2
    <3>2. CASE i = x.intake /\ x.action = "build_new"
      BY <1>1, <1>5, <3>2 DEF row
    <3> QED BY <1>2, <2>3, <3>1, <3>2
  <2> QED BY <2>2, <2>3 DEF Reuse!DecidedOnce, Reuse!Replays
<1> QED BY <1>6, <1>7, <1>8, <1>10, <1>11, <1>12 DEF BuilderInv

LEMMA ReuseStep ==
  ASSUME Reuse!ReuseAssumption, ReuseInv, [Reuse!Next]_(Reuse!vars)
  PROVE  ReuseInv' /\ [Reuse!IndexNeverRegresses]_(Reuse!vars)
<1>1. OutboxInv /\ BuilderInv /\ index.revision \in Nat
  BY DEF ReuseInv, OutboxInv
<1>2. ASSUME UNCHANGED <<pub, outbox, index, held>>
      PROVE  OutboxInv' /\ Reuse!IndexNeverRegresses
  BY <1>1, <1>2 DEF OutboxInv, Reuse!IndexNeverRegresses
<1>3. ASSUME UNCHANGED <<intake, decision, observed, deployment, req>>
      PROVE  BuilderInv'
  BY <1>1, <1>3, DeploymentStep DEF BuilderInv, BuilderTyped
<1>4. ASSUME NEW s \in {"active", "retired"}, Reuse!Republish(s)
      PROVE  ReuseInv' /\ Reuse!IndexNeverRegresses
  <2>1. OutboxInv'
    BY <1>1, <1>4, RepublishStep
  <2>2. /\ (s = "retired") \in BOOLEAN /\ Reuse!FlagDeployments(s = "retired")
        /\ UNCHANGED <<intake, decision, observed, req, index>>
    BY <1>4 DEF Reuse!Republish, Reuse!indexVars
  <2>3. BuilderInv'
    BY <1>1, <2>2, FlagStep
  <2> QED BY <1>1, <2>1, <2>2, <2>3 DEF ReuseInv, Reuse!IndexNeverRegresses
<1>5. ASSUME NEW x \in Indexers, Reuse!Index(x) PROVE ReuseInv' /\ Reuse!IndexNeverRegresses
  <2>1. UNCHANGED <<intake, decision, observed, deployment, req>>
    BY <1>5 DEF Reuse!Index, Reuse!Publish, Reuse!Fail, Reuse!Crash, Reuse!Claim,
                Reuse!builderVars
  <2> QED BY <1>1, <1>3, <1>5, <2>1, IndexStep DEF ReuseInv
<1>6. ASSUME NEW i \in Intakes, Reuse!CreateIntake(i) \/ Reuse!Configure(i)
      PROVE  ReuseInv' /\ Reuse!IndexNeverRegresses
  <2>1. UNCHANGED <<pub, outbox, index, held>>
    BY <1>6 DEF Reuse!CreateIntake, Reuse!Configure, Reuse!pubVars, Reuse!indexVars
  <2>2. CASE Reuse!Configure(i)
    <3>1. /\ deployment[i].config + 1 \in Nat
          /\ deployment' = [deployment EXCEPT ![i].config = deployment[i].config + 1]
          /\ UNCHANGED <<intake, decision, observed, req>>
      BY <1>1, <2>2 DEF Reuse!Configure, BuilderInv, BuilderTyped
    <3>2. /\ deployment' \in [Intakes -> [active : BOOLEAN, flagged : BOOLEAN, config : Nat]]
          /\ \A j \in Intakes : deployment'[j].active => deployment[j].active
      BY <1>1, <3>1 DEF BuilderInv, BuilderTyped
    <3> QED BY <1>1, <1>2, <2>1, <3>1, <3>2, DeploymentStep DEF ReuseInv
  <2> QED BY <1>1, <1>2, <1>6, <2>1, <2>2, IntakeStep DEF ReuseInv
<1>7. ASSUME NEW q \in Requests, Reuse!Submit(q) \/ Reuse!Check(q) \/ Reuse!Record(q)
      PROVE  ReuseInv' /\ Reuse!IndexNeverRegresses
  <2>1. UNCHANGED <<pub, outbox, index, held>>
    BY <1>7 DEF Reuse!Submit, Reuse!Check, Reuse!Record, Reuse!pubVars, Reuse!indexVars
  <2>2. CASE Reuse!Submit(q)
    <3>1. PICK i \in Intakes, k \in Keys, a \in Reuse!Actions :
            req' = [req EXCEPT ![q] = [pc |-> "locked", intake |-> i, key |-> k, action |-> a]]
      BY <2>2 DEF Reuse!Submit
    <3> DEFINE x == [pc |-> "locked", intake |-> i, key |-> k, action |-> a]
    <3>2. x \in Underway /\ x.pc # "write"
      BY DEF Underway
    <3>3. UNCHANGED <<intake, decision, observed, deployment>>
      BY <2>2 DEF Reuse!Submit
    <3> HIDE DEF x
    <3>4. req' = [req EXCEPT ![q] = x]
      BY <3>1 DEF x
    <3> QED BY <1>1, <1>2, <2>1, <3>2, <3>3, <3>4, RequestStep DEF ReuseInv
  <2> QED BY <1>1, <1>2, <1>7, <2>1, <2>2, CheckedStep, RecordStep DEF ReuseInv
<1>8. CASE UNCHANGED Reuse!vars
  BY <1>1, <1>2, <1>3, <1>8 DEF Reuse!vars, ReuseInv
<1> QED BY <1>4, <1>5, <1>6, <1>7, <1>8 DEF Reuse!Next, Reuse!Activate, Reuse!Retire

(* However late, repeated or crossed the processing of outbox events is,   *)
(* the index never goes back to an older revision; and however builders'   *)
(* requests race over keys and intakes, an intake is decided once and a    *)
(* demand observation belongs to a decision to build (processOne,          *)
(* createDecision).                                                        *)
THEOREM CatalogDecidesOnce ==
  Reuse!ReuseAssumption => (Reuse!Spec => Reuse!CatalogIsDecidedOnce)
<1> SUFFICES ASSUME Reuse!ReuseAssumption PROVE Reuse!Spec => Reuse!CatalogIsDecidedOnce
  OBVIOUS
<1>1. Reuse!Init => ReuseInv
  BY ReuseInit
<1>2. ReuseInv /\ [Reuse!Next]_(Reuse!vars) =>
        ReuseInv' /\ [Reuse!IndexNeverRegresses]_(Reuse!vars)
  BY ReuseStep
<1>3. ReuseInv => Reuse!TypeOK /\ Reuse!DecidedOnce
  BY DEF ReuseInv, OutboxInv, BuilderInv, DeployedIsDecided, Reuse!TypeOK
<1> QED BY <1>1, <1>2, <1>3, PTL DEF Reuse!Spec, Reuse!CatalogIsDecidedOnce

-----------------------------------------------------------------------------
(* Certification and promotion.                                            *)

Statuses == {"shadow", "certifying", "certified", "rejected", "active", "retired"}
States == {"queued", "running", "passed", "failed", "error"}
Row == [agent : Agents, state : States, kind : {"challenger", "recertification"},
        champion : Agents \cup {None}, corpus : Nat, gates : Nat,
        results : SUBSET ((1..Cases) \X BOOLEAN), total : Nat, fresh : BOOLEAN,
        detail : {"full", "summary", "evidence"}, decided : BOOLEAN]

CertTyped ==
  /\ status \in [Agents -> Statuses] /\ champion \in Agents \cup {None}
  /\ run \in [Runs -> Row \cup {NoRun}]
  /\ exec \in [Processes -> [run : Runs \cup {None}, scores : Seq(BOOLEAN)]]
  /\ \A p \in Processes : Len(exec[p].scores) <= Cases
  /\ corpus \in Nat /\ gates \in Nat

(* r is a queued or running run. *)
Live(r) == run[r] \in Row /\ run[r].state \in {"queued", "running"}

(* An agent has one such run at most, and is certifying exactly while it   *)
(* is a challenger's.                                                      *)
OneLive == \A r, q \in Runs : Live(r) /\ Live(q) /\ run[r].agent = run[q].agent => r = q
CertifyingIsLive ==
  \A a \in Agents : status[a] = "certifying" <=>
    \E r \in Runs : Live(r) /\ run[r].kind = "challenger" /\ run[r].agent = a
PassedBefore ==
  \A a \in Agents : status[a] \in {"certified", "active"} =>
    \E r \in Runs : /\ run[r] \in Row /\ run[r].agent = a
                    /\ run[r].kind = "challenger" /\ run[r].state = "passed"

(* A run that passed counted every case; one a promotion rested on is no   *)
(* more pruned.                                                            *)
CountedRow(x) ==
  /\ x.state = "passed" => x.total = Cases
  /\ x.decided => x.state = "passed" /\ x.detail = "evidence" /\ Cardinality(x.results) = Cases
Counted == \A r \in Runs : run[r] \in Row => CountedRow(run[r])

CertInv == CertTyped /\ ChampionIsActive /\ OneLive /\ CertifyingIsLive /\ PassedBefore /\ Counted

(* What may become of a row. *)
KeptRow(x, y) ==
  /\ y.agent = x.agent /\ y.kind = x.kind
  /\ x.state \in {"passed", "failed", "error"} =>
       y.state = x.state /\ y.total = x.total /\ y.results \in {x.results, {}}
RowsKept == \A r \in Runs : run[r] \in Row => run'[r] \in Row /\ KeptRow(run[r], run'[r])

(* A run that was never created is no row. *)
LEMMA RowIsNoNoRun == NoRun \notin Row
<1> SUFFICES ASSUME NoRun \in Row PROVE FALSE
  OBVIOUS
<1>1. DOMAIN NoRun = {"state"}
  BY DEF NoRun
<1>2. "agent" \in DOMAIN NoRun
  BY DEF Row
<1> QED BY <1>1, <1>2

(* The results of a run are finitely many, so they can be counted. *)
LEMMA ResultsCount ==
  ASSUME CertificationAssumption, NEW x \in Row
  PROVE  Cardinality(x.results) \in Nat
<1>1. IsFiniteSet(1..Cases)
  BY FS_Interval DEF CertificationAssumption
<1>2. IsFiniteSet(BOOLEAN)
  <2>1. BOOLEAN = {TRUE} \cup {FALSE}
    OBVIOUS
  <2>2. IsFiniteSet({TRUE}) /\ IsFiniteSet({FALSE})
    BY FS_Singleton
  <2> QED BY <2>1, <2>2, FS_Union
<1>3. IsFiniteSet((1..Cases) \X BOOLEAN)
  BY <1>1, <1>2, FS_Product
<1>4. x.results \subseteq (1..Cases) \X BOOLEAN
  BY DEF Row
<1> QED BY <1>3, <1>4, FS_Subset, FS_CardinalityType

(* What failRun and the reaper write. *)
LEMMA ErrorRow ==
  ASSUME CertificationAssumption, NEW x \in Row
  PROVE  LET y == [x EXCEPT !.state = "error", !.total = Cardinality(x.results)]
         IN  /\ y \in Row /\ y.state = "error" /\ y.agent = x.agent /\ y.kind = x.kind
             /\ y.decided = x.decided
<1>1. Cardinality(x.results) \in Nat
  BY ResultsCount
<1> QED BY <1>1 DEF Row, States

(* The rows of a step that writes one row. *)
LEMMA OneRow ==
  ASSUME CertTyped, NEW r \in Runs, NEW y \in Row, run' = [run EXCEPT ![r] = y]
  PROVE  /\ run' \in [Runs -> Row \cup {NoRun}] /\ run'[r] = y
         /\ \A q \in Runs : q # r => run'[q] = run[q]
BY DEF CertTyped

(* Rows that are kept as KeptRow says keep their outcome. *)
LEMMA FinalOutcome ==
  ASSUME CertTyped, RowsKept PROVE OutcomeIsFinal
<1> SUFFICES ASSUME NEW r \in Runs, run[r] # NoRun, run[r].state \in Terminal
             PROVE  /\ run'[r].state = run[r].state /\ run'[r].total = run[r].total
                    /\ run'[r].results \in {run[r].results, {}}
  BY DEF OutcomeIsFinal
<1>1. run[r] \in Row
  BY DEF CertTyped
<1> QED BY <1>1 DEF RowsKept, KeptRow, Terminal

(* At first no version has a run. *)
LEMMA CertInit == CertificationAssumption /\ Init => CertInv
<1> SUFFICES ASSUME CertificationAssumption, Init PROVE CertInv
  OBVIOUS
<1>1. \A r \in Runs : run[r] = NoRun /\ run[r] \notin Row
  BY RowIsNoNoRun DEF Init
<1>2. CertTyped
  BY DEF Init, CertTyped, Idle, Statuses, CertificationAssumption
<1>3. ChampionIsActive
  BY DEF Init, ChampionIsActive, CertificationAssumption
<1>4. OneLive /\ Counted
  BY <1>1 DEF OneLive, Counted, Live
<1>5. CertifyingIsLive /\ PassedBefore
  BY <1>1 DEF Init, CertifyingIsLive, Live, PassedBefore
<1> QED BY <1>2, <1>3, <1>4, <1>5 DEF CertInv

(* A step that leaves the rows alone, or their states and owners: the      *)
(* invariants about live runs stand if the statuses do.                    *)
ExecTyped ==
  /\ exec \in [Processes -> [run : Runs \cup {None}, scores : Seq(BOOLEAN)]]
  /\ \A p \in Processes : Len(exec[p].scores) <= Cases

(* One row is rewritten without ending, starting or deciding anything. *)
LEMMA QuietRow ==
  ASSUME CertInv, NEW r \in Runs, run[r] \in Row, NEW y \in Row, run' = [run EXCEPT ![r] = y],
         KeptRow(run[r], y), CountedRow(y),
         y.state \in {"queued", "running"} <=> run[r].state \in {"queued", "running"},
         ExecTyped', UNCHANGED <<status, champion, corpus, gates>>
  PROVE  CertInv' /\ RowsKept
<1>1. /\ run' \in [Runs -> Row \cup {NoRun}] /\ run'[r] = y
      /\ \A q \in Runs : q # r => run'[q] = run[q]
  BY OneRow DEF CertInv
<1>2. RowsKept
  BY <1>1 DEF RowsKept, KeptRow
<1>3. CertTyped' /\ ChampionIsActive'
  BY <1>1 DEF CertInv, CertTyped, ExecTyped, ChampionIsActive
<1>4. \A q \in Runs : /\ Live(q)' <=> Live(q)
                      /\ run[q] \in Row => run'[q].agent = run[q].agent /\ run'[q].kind = run[q].kind
  BY <1>1 DEF Live, KeptRow
<1>5. OneLive' /\ CertifyingIsLive'
  BY <1>4 DEF CertInv, OneLive, CertifyingIsLive, Live
<1>6. PassedBefore'
  BY <1>1 DEF CertInv, PassedBefore, KeptRow
<1>7. Counted'
  BY <1>1 DEF CertInv, Counted
<1> QED BY <1>2, <1>3, <1>5, <1>6, <1>7 DEF CertInv

(* A live run ends, and its challenger leaves certifying. *)
LEMMA EndedRow ==
  ASSUME CertInv, NEW r \in Runs, Live(r), NEW y \in Row, run' = [run EXCEPT ![r] = y],
         KeptRow(run[r], y), CountedRow(y), y.state \in {"passed", "failed", "error"},
         NEW end \in {"shadow", "certified", "rejected"},
         end = "certified" => y.state = "passed",
         status' = (IF run[r].kind = "challenger" /\ status[run[r].agent] = "certifying"
                    THEN [status EXCEPT ![run[r].agent] = end] ELSE status),
         ExecTyped', UNCHANGED <<champion, corpus, gates>>
  PROVE  CertInv' /\ RowsKept
<1> DEFINE a == run[r].agent
<1>0. a \in Agents /\ run[r] \in Row /\ status \in [Agents -> Statuses]
  BY DEF Live, Row, CertInv, CertTyped
<1>1. /\ run' \in [Runs -> Row \cup {NoRun}] /\ run'[r] = y
      /\ \A q \in Runs : q # r => run'[q] = run[q]
  BY OneRow DEF CertInv
<1>2. RowsKept
  BY <1>1 DEF RowsKept, KeptRow
<1>3. /\ \A b \in Agents : b # a => status'[b] = status[b]
      /\ status' \in [Agents -> Statuses]
      /\ run[r].kind = "challenger" => status[a] = "certifying" /\ status'[a] = end
      /\ run[r].kind # "challenger" => status[a] # "certifying" /\ status'[a] = status[a]
  <2>1. run[r].kind = "challenger" => status[a] = "certifying"
    BY <1>0 DEF CertInv, CertifyingIsLive
  <2>2. run[r].kind # "challenger" => status[a] # "certifying"
    BY <1>0 DEF CertInv, CertifyingIsLive, OneLive
  <2> HIDE DEF a
  <2> QED BY <1>0, <2>1, <2>2 DEF Statuses, a
<1>4. CertTyped'
  BY <1>1, <1>3 DEF CertInv, CertTyped, ExecTyped
<1>5. ChampionIsActive'
  <2>1. status[a] = "certifying" => a # champion
    BY <1>0 DEF CertInv, ChampionIsActive
  <2> QED BY <1>0, <1>3, <2>1 DEF CertInv, ChampionIsActive
<1>6. \A q \in Runs : /\ Live(q)' <=> Live(q) /\ q # r
                      /\ Live(q)' => run'[q] = run[q]
  BY <1>1 DEF Live
<1>7. OneLive'
  BY <1>6 DEF CertInv, OneLive
<1>8. ASSUME NEW b \in Agents
      PROVE  status'[b] = "certifying" <=>
               \E q \in Runs : Live(q)' /\ run'[q].kind = "challenger" /\ run'[q].agent = b
  <2>1. CASE b = a
    <3>1. \A q \in Runs : ~(Live(q)' /\ run'[q].agent = a)
      BY <1>6 DEF CertInv, OneLive
    <3>2. status'[a] # "certifying"
      BY <1>3
    <3> QED BY <2>1, <3>1, <3>2
  <2>2. CASE b # a
    BY <1>3, <1>6, <2>2 DEF CertInv, CertifyingIsLive
  <2> QED BY <2>1, <2>2
<1>9. CertifyingIsLive'
  BY <1>8 DEF CertifyingIsLive
<1>10. ASSUME NEW b \in Agents, status'[b] \in {"certified", "active"}
       PROVE  \E q \in Runs : /\ run'[q] \in Row /\ run'[q].agent = b
                              /\ run'[q].kind = "challenger" /\ run'[q].state = "passed"
  <2>1. CASE status[b] \in {"certified", "active"}
    <3>1. PICK q \in Runs : /\ run[q] \in Row /\ run[q].agent = b
                            /\ run[q].kind = "challenger" /\ run[q].state = "passed"
      BY <2>1 DEF CertInv, PassedBefore
    <3> QED BY <3>1, <1>2 DEF RowsKept, KeptRow
  <2>2. CASE status[b] \notin {"certified", "active"}
    <3>1. b = a /\ run[r].kind = "challenger" /\ y.state = "passed"
      BY <1>3, <1>10, <2>2
    <3> QED BY <1>1, <3>1 DEF KeptRow
  <2> QED BY <2>1, <2>2
<1>11. PassedBefore'
  BY <1>10 DEF PassedBefore
<1>12. Counted'
  BY <1>1 DEF CertInv, Counted
<1> QED BY <1>2, <1>4, <1>5, <1>7, <1>9, <1>11, <1>12 DEF CertInv

(* failRun, whoever calls it. *)
LEMMA FailKeeps ==
  ASSUME CertificationAssumption, CertInv, NEW r \in Runs, FailRun(r), ExecTyped',
         UNCHANGED <<champion, corpus, gates>>
  PROVE  CertInv' /\ RowsKept
<1>1. CASE run[r].state \in Active
  <2> DEFINE y == [run[r] EXCEPT !.state = "error", !.total = Cardinality(run[r].results)]
  <2>1. run[r] \in Row /\ Live(r)
    BY <1>1 DEF CertInv, CertTyped, NoRun, Live, Active
  <2>2. /\ y \in Row /\ y.state = "error" /\ y.agent = run[r].agent /\ y.kind = run[r].kind
        /\ y.decided = run[r].decided
    BY <2>1, ErrorRow
  <2>3. run' = [run EXCEPT ![r] = y]
    BY <1>1, <2>1 DEF FailRun, CertInv, CertTyped
  <2>4. status' = (IF run[r].kind = "challenger" /\ status[run[r].agent] = "certifying"
                   THEN [status EXCEPT ![run[r].agent] = "shadow"] ELSE status)
    BY <1>1 DEF FailRun
  <2>5. CountedRow(run[r]) /\ run[r].state \in {"queued", "running"}
    BY <1>1, <2>1 DEF CertInv, Counted, Active
  <2> HIDE DEF y
  <2>6. KeptRow(run[r], y) /\ CountedRow(y)
    BY <2>2, <2>5 DEF KeptRow, CountedRow
  <2> QED BY <2>1, <2>2, <2>3, <2>4, <2>6, EndedRow
<1>2. CASE run[r].state \notin Active
  <2>1. UNCHANGED <<run, status, champion, corpus, gates>>
    BY <1>2 DEF FailRun
  <2> QED BY <2>1 DEF CertInv, CertTyped, ExecTyped, ChampionIsActive, OneLive, CertifyingIsLive,
                      PassedBefore, Counted, Live, RowsKept, KeptRow
<1> QED BY <1>1, <1>2

(* createRunInternal. *)
LEMMA CreateKeeps ==
  ASSUME CertificationAssumption, CertInv, NEW r \in Runs, NEW a \in Agents, CreateRun(r, a)
  PROVE  CertInv' /\ RowsKept
<1> DEFINE y == [agent |-> a, state |-> "queued",
                 kind |-> IF champion = a THEN "recertification" ELSE "challenger",
                 champion |-> IF champion = a THEN None ELSE champion,
                 corpus |-> corpus, gates |-> gates, results |-> {},
                 total |-> 0, fresh |-> FALSE, detail |-> "full", decided |-> FALSE]
<1>1. /\ y \in Row /\ y.state = "queued" /\ y.agent = a /\ y.decided = FALSE
      /\ champion = a => y.kind = "recertification"
      /\ champion # a => y.kind = "challenger"
  BY DEF Row, States, CertInv, CertTyped
<1>2. run' = [run EXCEPT ![r] = y] /\ run[r] = NoRun /\ run[r] \notin Row
  BY RowIsNoNoRun DEF CreateRun
<1>3. /\ status' = [status EXCEPT ![a] = IF champion = a THEN @ ELSE "certifying"]
      /\ status[a] \in {"shadow", "certified"} \/ champion = a
      /\ UNCHANGED <<champion, exec, corpus, gates>>
  BY DEF CreateRun, published
<1>4. \A q \in Runs : Live(q) => run[q].agent # a
  <2> SUFFICES ASSUME NEW q \in Runs, Live(q), run[q].agent = a PROVE FALSE
    OBVIOUS
  <2>1. q \in RunsOf(a) /\ run[q].state \in Active
    BY RowIsNoNoRun DEF Live, RunsOf, Active
  <2> QED BY <2>1 DEF CreateRun, Busy
<1> HIDE DEF y
<1>5. /\ run' \in [Runs -> Row \cup {NoRun}] /\ run'[r] = y
      /\ \A q \in Runs : q # r => run'[q] = run[q]
  BY <1>1, <1>2, OneRow DEF CertInv
<1>6. RowsKept
  BY <1>2, <1>5 DEF RowsKept, KeptRow
<1>7. /\ status' \in [Agents -> Statuses] /\ \A b \in Agents : b # a => status'[b] = status[b]
      /\ champion = a => status'[a] = status[a]
      /\ champion # a => status'[a] = "certifying" /\ status[a] # "active"
  BY <1>3 DEF CertInv, CertTyped, Statuses
<1>8. CertTyped' /\ ChampionIsActive'
  BY <1>3, <1>5, <1>7 DEF CertInv, CertTyped, ChampionIsActive
<1>9. \A q \in Runs : /\ Live(q)' <=> Live(q) \/ q = r
                      /\ q # r => run'[q] = run[q]
  BY <1>1, <1>2, <1>5 DEF Live
<1>10. OneLive'
  BY <1>1, <1>4, <1>5, <1>9 DEF CertInv, OneLive
<1>11. ASSUME NEW b \in Agents
       PROVE  status'[b] = "certifying" <=>
                \E q \in Runs : Live(q)' /\ run'[q].kind = "challenger" /\ run'[q].agent = b
  <2>1. CASE b = a /\ champion = a
    <3>1. status'[b] # "certifying"
      BY <1>7, <2>1 DEF CertInv, ChampionIsActive
    <3> QED BY <1>1, <1>4, <1>5, <1>9, <2>1, <3>1
  <2>2. CASE b = a /\ champion # a
    BY <1>1, <1>5, <1>7, <1>9, <2>2
  <2>3. CASE b # a
    <3>1. \A q \in Runs : /\ Live(q)' /\ run'[q].agent = b => q # r /\ Live(q)
                          /\ Live(q) => q # r
      BY <1>1, <1>2, <1>5, <1>9, <2>3 DEF Live
    <3> QED BY <1>7, <1>9, <2>3, <3>1 DEF CertInv, CertifyingIsLive
  <2> QED BY <2>1, <2>2, <2>3
<1>12. CertifyingIsLive'
  BY <1>11 DEF CertifyingIsLive
<1>13. PassedBefore'
  <2> SUFFICES ASSUME NEW b \in Agents, status'[b] \in {"certified", "active"}
               PROVE  \E q \in Runs : /\ run'[q] \in Row /\ run'[q].agent = b
                                      /\ run'[q].kind = "challenger" /\ run'[q].state = "passed"
    BY DEF PassedBefore
  <2>1. status[b] \in {"certified", "active"}
    BY <1>7
  <2>2. PICK q \in Runs : /\ run[q] \in Row /\ run[q].agent = b
                          /\ run[q].kind = "challenger" /\ run[q].state = "passed"
    BY <2>1 DEF CertInv, PassedBefore
  <2> QED BY <2>2, <1>6 DEF RowsKept, KeptRow
<1>14. Counted'
  BY <1>1, <1>5 DEF CertInv, Counted, CountedRow
<1> QED BY <1>6, <1>8, <1>10, <1>12, <1>13, <1>14 DEF CertInv

(* A process has no scores when it begins, or has stopped. *)
LEMMA IdleExec ==
  ASSUME CertificationAssumption, CertTyped, NEW p \in Processes, NEW x \in Runs \cup {None},
         exec' = [exec EXCEPT ![p] = [run |-> x, scores |-> <<>>]]
  PROVE  ExecTyped'
<1> DEFINE e == [run |-> x, scores |-> <<>>]
<1>1. e \in [run : Runs \cup {None}, scores : Seq(BOOLEAN)] /\ Len(e.scores) <= Cases
  BY DEF CertificationAssumption
<1>2. exec' = [exec EXCEPT ![p] = e]
  OBVIOUS
<1> HIDE DEF e
<1> QED BY <1>1, <1>2 DEF CertTyped, ExecTyped

(* The claim of a queued run. *)
LEMMA StartKeeps ==
  ASSUME CertificationAssumption, CertInv, NEW p \in Processes, NEW r \in Runs, Start(p, r)
  PROVE  CertInv' /\ RowsKept
<1> DEFINE y == [run[r] EXCEPT !.state = "running"]
<1>1. run[r] \in Row /\ run[r].state = "queued"
  BY DEF Start, CertInv, CertTyped, NoRun
<1>2. /\ y \in Row /\ y.state = "running" /\ y.agent = run[r].agent /\ y.kind = run[r].kind
      /\ y.decided = run[r].decided
  BY <1>1 DEF Row, States
<1>3. run' = [run EXCEPT ![r] = y] /\ UNCHANGED <<status, champion, corpus, gates>>
  BY <1>1 DEF Start, CertInv, CertTyped, published
<1>4. ExecTyped'
  <2>1. exec' = [exec EXCEPT ![p] = [run |-> r, scores |-> <<>>]]
    BY DEF Start
  <2> QED BY <2>1, IdleExec DEF CertInv, CertTyped
<1> HIDE DEF y
<1>5. KeptRow(run[r], y) /\ CountedRow(y)
  BY <1>1, <1>2 DEF KeptRow, CountedRow, CertInv, Counted
<1> QED BY <1>1, <1>2, <1>3, <1>4, <1>5, QuietRow

(* One case of the corpus. *)
LEMMA EvaluateKeeps ==
  ASSUME CertificationAssumption, CertInv, NEW p \in Processes, EvaluateCase(p)
  PROVE  CertInv' /\ RowsKept
<1> DEFINE r == exec[p].run
           n == Len(exec[p].scores) + 1
<1>1. r \in Runs /\ n \in 1..Cases /\ UNCHANGED <<champion, corpus, gates>>
  BY DEF EvaluateCase, CertInv, CertTyped, published, CertificationAssumption
<1>2. CASE StillRunning(r)
  <2>1. PICK correct \in BOOLEAN :
          /\ run' = [run EXCEPT ![r].results = @ \union {<<n, correct>>}]
          /\ exec' = [exec EXCEPT ![p].scores = Append(@, correct)]
          /\ UNCHANGED <<status, degraded>>
    BY <1>2 DEF EvaluateCase
  <2> DEFINE y == [run[r] EXCEPT !.results = @ \union {<<n, correct>>}]
  <2>2. run[r] \in Row /\ run[r].state = "running"
    BY <1>1, <1>2 DEF StillRunning, CertInv, CertTyped, NoRun
  <2>3. /\ y \in Row /\ y.state = "running" /\ y.agent = run[r].agent /\ y.kind = run[r].kind
        /\ y.decided = run[r].decided
    BY <1>1, <2>2 DEF Row
  <2>4. run' = [run EXCEPT ![r] = y]
    BY <1>1, <2>1, <2>2 DEF CertInv, CertTyped
  <2>5. ExecTyped'
    <3>1. exec[p].scores \in Seq(BOOLEAN) /\ exec[p] \in [run : Runs \cup {None}, scores : Seq(BOOLEAN)]
      BY DEF CertInv, CertTyped
    <3> DEFINE e == [exec[p] EXCEPT !.scores = Append(@, correct)]
    <3>2. Append(exec[p].scores, correct) \in Seq(BOOLEAN) /\ Len(Append(exec[p].scores, correct)) = n
      BY <3>1
    <3>3. e \in [run : Runs \cup {None}, scores : Seq(BOOLEAN)] /\ Len(e.scores) <= Cases
      <4> DEFINE t == Append(exec[p].scores, correct)
      <4> HIDE DEF t
      <4>1. \A f \in [run : Runs \cup {None}, scores : Seq(BOOLEAN)] :
              [f EXCEPT !.scores = t] = [run |-> f.run, scores |-> t]
        OBVIOUS
      <4>2. exec[p].run \in Runs \cup {None} /\ t \in Seq(BOOLEAN) /\ Len(t) <= Cases
        BY <1>1, <3>1, <3>2 DEF t
      <4>3. e = [run |-> exec[p].run, scores |-> t]
        BY <3>1, <4>1 DEF t
      <4> QED BY <4>2, <4>3
    <3>4. exec' = [exec EXCEPT ![p] = e]
      BY <2>1 DEF CertInv, CertTyped
    <3> HIDE DEF e
    <3> QED BY <3>3, <3>4 DEF CertInv, CertTyped, ExecTyped
  <2> HIDE DEF y
  <2>6. KeptRow(run[r], y) /\ CountedRow(y)
    BY <1>1, <2>2, <2>3 DEF KeptRow, CountedRow, CertInv, Counted
  <2> QED BY <1>1, <2>1, <2>2, <2>3, <2>4, <2>5, <2>6, QuietRow
<1>3. CASE ~StillRunning(r)
  <2>1. FailRun(r) /\ exec' = [exec EXCEPT ![p] = Idle]
    BY <1>3 DEF EvaluateCase
  <2>2. ExecTyped'
    BY <2>1, IdleExec DEF CertInv, Idle
  <2> QED BY <1>1, <2>1, <2>2, FailKeeps
<1> QED BY <1>2, <1>3

(* The last transaction of executeRun. *)
LEMMA FinishKeeps ==
  ASSUME CertificationAssumption, CertInv, NEW p \in Processes, Finish(p)
  PROVE  CertInv' /\ RowsKept
<1> DEFINE r == exec[p].run
           passed == GatesPass(r, exec[p].scores)
<1>1. /\ r \in Runs /\ Len(exec[p].scores) = Cases /\ UNCHANGED <<champion, corpus, gates>>
      /\ exec' = [exec EXCEPT ![p] = Idle]
  BY DEF Finish, CertInv, CertTyped, published
<1>2. ExecTyped'
  BY <1>1, IdleExec DEF CertInv, Idle
<1>3. CASE ~StillRunning(r)
  <2>1. UNCHANGED <<run, status>>
    BY <1>3 DEF Finish
  <2> QED BY <1>1, <1>2, <2>1 DEF CertInv, CertTyped, ExecTyped, ChampionIsActive, OneLive,
              CertifyingIsLive, PassedBefore, Counted, Live, RowsKept, KeptRow
<1>4. CASE StillRunning(r)
  <2> DEFINE y == [run[r] EXCEPT !.state = IF passed THEN "passed" ELSE "failed",
                                 !.total = Len(exec[p].scores),
                                 !.fresh = passed /\ run[r].kind = "challenger"]
             end == IF passed THEN "certified" ELSE "rejected"
  <2>1. run[r] \in Row /\ Live(r) /\ run[r].state = "running"
    BY <1>1, <1>4 DEF StillRunning, CertInv, CertTyped, NoRun, Live
  <2>2. passed \in BOOLEAN
    BY DEF GatesPass
  <2>3. run' = [run EXCEPT ![r] = y]
    BY <1>1, <1>4, <2>1 DEF Finish, CertInv, CertTyped
  <2>4. status' = (IF run[r].kind = "challenger" /\ status[run[r].agent] = "certifying"
                   THEN [status EXCEPT ![run[r].agent] = end] ELSE status)
    BY <1>4 DEF Finish
  <2> HIDE DEF passed
  <2>5. /\ y \in Row /\ y.agent = run[r].agent /\ y.kind = run[r].kind
        /\ y.decided = run[r].decided /\ y.total = Cases
        /\ y.state = (IF passed THEN "passed" ELSE "failed") /\ y.state \in {"passed", "failed"}
    <3>1. CASE passed
      <4>1. y = [run[r] EXCEPT !.state = "passed", !.total = Cases,
                               !.fresh = run[r].kind = "challenger"]
        BY <1>1, <3>1
      <4>2. (run[r].kind = "challenger") \in BOOLEAN
        OBVIOUS
      <4> HIDE DEF y
      <4>3. /\ y \in Row /\ y.state = "passed" /\ y.agent = run[r].agent /\ y.kind = run[r].kind
            /\ y.decided = run[r].decided /\ y.total = Cases
        BY <2>1, <4>1, <4>2 DEF Row, States, CertificationAssumption
      <4> QED BY <3>1, <4>3
    <3>2. CASE ~passed
      <4>1. y = [run[r] EXCEPT !.state = "failed", !.total = Cases, !.fresh = FALSE]
        BY <1>1, <3>2
      <4> HIDE DEF y
      <4>2. /\ y \in Row /\ y.state = "failed" /\ y.agent = run[r].agent /\ y.kind = run[r].kind
            /\ y.decided = run[r].decided /\ y.total = Cases
        BY <2>1, <4>1 DEF Row, States, CertificationAssumption
      <4> QED BY <3>2, <4>2
    <3> QED BY <3>1, <3>2
  <2>6. end \in {"shadow", "certified", "rejected"} /\ (end = "certified" => y.state = "passed")
    BY <2>2, <2>5
  <2> HIDE DEF y, end
  <2>7. CountedRow(run[r])
    BY <1>1, <2>1 DEF CertInv, Counted
  <2>8. KeptRow(run[r], y) /\ CountedRow(y) /\ y.state \in {"passed", "failed", "error"}
    BY <2>1, <2>5, <2>7 DEF KeptRow, CountedRow
  <2> QED BY <1>1, <1>2, <2>1, <2>3, <2>4, <2>5, <2>6, <2>8, EndedRow
<1> QED BY <1>3, <1>4

(* A process that boots reaps every running run. *)
LEMMA RebootKeeps ==
  ASSUME CertificationAssumption, CertInv, NEW p \in Processes, Reboot(p)
  PROVE  CertInv' /\ RowsKept
<1> DEFINE reaped == {r \in Runs : run[r].state = "running"}
           ended(r) == [run[r] EXCEPT !.state = "error", !.total = Cardinality(run[r].results)]
<1>1. /\ run' = [r \in Runs |-> IF r \in reaped THEN ended(r) ELSE run[r]]
      /\ status' = [a \in Agents |-> IF status[a] = "certifying" /\ \E r \in reaped :
                                          run[r].agent = a /\ run[r].kind = "challenger"
                                     THEN "shadow" ELSE status[a]]
      /\ exec' = [exec EXCEPT ![p] = Idle] /\ UNCHANGED <<champion, corpus, gates>>
  BY DEF Reboot, published
<1>2. \A r \in reaped : run[r] \in Row /\ Live(r)
  BY DEF CertInv, CertTyped, NoRun, Live
<1>3. \A r \in reaped : /\ ended(r) \in Row /\ ended(r).state = "error"
                        /\ ended(r).agent = run[r].agent /\ ended(r).kind = run[r].kind
                        /\ ended(r).decided = run[r].decided
  <2> SUFFICES ASSUME NEW r \in reaped
               PROVE  /\ ended(r) \in Row /\ ended(r).state = "error"
                      /\ ended(r).agent = run[r].agent /\ ended(r).kind = run[r].kind
                      /\ ended(r).decided = run[r].decided
    OBVIOUS
  <2>1. run[r] \in Row
    BY <1>2
  <2> QED BY <2>1, ErrorRow
<1>4. ExecTyped'
  BY <1>1, IdleExec DEF CertInv, Idle
<1>5. \A r \in Runs : /\ r \in reaped => run'[r] = ended(r)
                      /\ r \notin reaped => run'[r] = run[r]
  BY <1>1
<1>6. \A r \in reaped : run[r].state = "running"
  OBVIOUS
<1> HIDE DEF reaped, ended
<1>7. /\ status' \in [Agents -> Statuses]
      /\ \A a \in Agents : \/ status'[a] = status[a]
                           \/ status[a] = "certifying" /\ status'[a] = "shadow"
  BY <1>1 DEF CertInv, CertTyped, Statuses
<1>8. run' \in [Runs -> Row \cup {NoRun}]
  BY <1>1, <1>3 DEF CertInv, CertTyped
<1>9. CertTyped' /\ ChampionIsActive'
  BY <1>1, <1>4, <1>7, <1>8 DEF CertInv, CertTyped, ExecTyped, ChampionIsActive
<1>10. RowsKept
  BY <1>3, <1>5, <1>6 DEF RowsKept, KeptRow
<1>11. \A q \in Runs : /\ Live(q)' <=> Live(q) /\ q \notin reaped
                       /\ Live(q)' => run'[q] = run[q]
  BY <1>2, <1>3, <1>5 DEF Live
<1>12. OneLive'
  BY <1>11 DEF CertInv, OneLive
<1>13. ASSUME NEW a \in Agents
       PROVE  status'[a] = "certifying" <=>
                \E q \in Runs : Live(q)' /\ run'[q].kind = "challenger" /\ run'[q].agent = a
  <2>1. CASE \E r \in reaped : run[r].agent = a /\ run[r].kind = "challenger"
    <3>1. PICK r \in reaped : run[r].agent = a /\ run[r].kind = "challenger"
      BY <2>1
    <3>2. r \in Runs /\ Live(r)
      BY <1>2, <3>1 DEF reaped
    <3>3. \A q \in Runs : ~(Live(q)' /\ run'[q].agent = a)
      BY <1>11, <3>1, <3>2 DEF CertInv, OneLive
    <3>4. status'[a] # "certifying"
      BY <1>1, <2>1
    <3> QED BY <3>3, <3>4
  <2>2. CASE ~\E r \in reaped : run[r].agent = a /\ run[r].kind = "challenger"
    <3>1. status'[a] = status[a]
      BY <1>1, <2>2
    <3> QED BY <1>11, <2>2, <3>1 DEF CertInv, CertifyingIsLive
  <2> QED BY <2>1, <2>2
<1>14. CertifyingIsLive'
  BY <1>13 DEF CertifyingIsLive
<1>15. PassedBefore'
  <2> SUFFICES ASSUME NEW b \in Agents, status'[b] \in {"certified", "active"}
               PROVE  \E q \in Runs : /\ run'[q] \in Row /\ run'[q].agent = b
                                      /\ run'[q].kind = "challenger" /\ run'[q].state = "passed"
    BY DEF PassedBefore
  <2>1. PICK q \in Runs : /\ run[q] \in Row /\ run[q].agent = b
                          /\ run[q].kind = "challenger" /\ run[q].state = "passed"
    BY <1>7 DEF CertInv, PassedBefore
  <2> QED BY <2>1, <1>10 DEF RowsKept, KeptRow
<1>16. Counted'
  <2> SUFFICES ASSUME NEW r \in Runs, run'[r] \in Row PROVE CountedRow(run'[r])
    BY DEF Counted
  <2>1. CASE r \in reaped
    <3>1. ~run[r].decided
      BY <1>2, <1>6, <2>1 DEF CertInv, Counted, CountedRow
    <3> QED BY <1>3, <1>5, <2>1, <3>1 DEF CountedRow
  <2>2. CASE r \notin reaped
    BY <1>5, <2>2 DEF CertInv, Counted
  <2> QED BY <2>1, <2>2
<1> QED BY <1>9, <1>10, <1>12, <1>14, <1>15, <1>16 DEF CertInv

(* promote: the version becomes the champion, and the evidence is kept. *)
LEMMA PromoteKeeps ==
  ASSUME CertificationAssumption, CertInv, NEW r \in Runs, NEW a \in Agents, Promote(a, r)
  PROVE  CertInv' /\ RowsKept
<1> DEFINE y == [run[r] EXCEPT !.decided = TRUE, !.detail = "evidence"]
<1>1. /\ run[r] \in Row /\ run[r].agent = a /\ status[a] = "certified"
      /\ run[r].kind = "challenger" /\ run[r].state = "passed"
      /\ Cardinality(run[r].results) = run[r].total
  BY DEF Promote, Eligible, CertInv, CertTyped
<1>2. /\ status' = [b \in Agents |-> IF b = a THEN "active"
                                     ELSE IF b \in Superseded(a) THEN "retired" ELSE status[b]]
      /\ champion' = a /\ UNCHANGED <<exec, corpus, gates>>
  BY DEF Promote, published
<1>3. run' = [run EXCEPT ![r] = y]
  BY <1>1 DEF Promote, CertInv, CertTyped
<1>4. /\ y \in Row /\ y.state = "passed" /\ y.agent = a /\ y.kind = "challenger"
      /\ y.detail = "evidence" /\ y.total = run[r].total /\ y.results = run[r].results
  BY <1>1 DEF Row
<1> HIDE DEF y
<1>5. run[r].total = Cases
  BY <1>1 DEF CertInv, Counted, CountedRow
<1>6. KeptRow(run[r], y) /\ CountedRow(y)
  BY <1>1, <1>4, <1>5 DEF KeptRow, CountedRow
<1>7. /\ run' \in [Runs -> Row \cup {NoRun}] /\ run'[r] = y
      /\ \A q \in Runs : q # r => run'[q] = run[q]
  BY <1>3, <1>4, OneRow DEF CertInv
<1>8. RowsKept
  BY <1>6, <1>7, <1>4 DEF RowsKept, KeptRow
<1>9. /\ status' \in [Agents -> Statuses] /\ status'[a] = "active"
      /\ \A b \in Agents : b # a =>
           \/ status'[b] = status[b] /\ b # champion
           \/ status'[b] = "retired" /\ status[b] \in {"active", "certified"}
  <2>1. \A b \in Agents : b \in Superseded(a) => status[b] \in {"active", "certified"}
    BY DEF Superseded, CertInv, ChampionIsActive
  <2>2. \A b \in Agents : b # a /\ b \notin Superseded(a) => b # champion
    BY DEF Superseded
  <2> QED BY <1>2, <2>1, <2>2 DEF CertInv, CertTyped, Statuses
<1>10. CertTyped'
  BY <1>2, <1>7, <1>9 DEF CertInv, CertTyped
<1>11. ChampionIsActive'
  BY <1>2, <1>9 DEF CertInv, ChampionIsActive
<1>12. \A q \in Runs : /\ Live(q)' <=> Live(q)
                       /\ run[q] \in Row => run'[q].agent = run[q].agent /\ run'[q].kind = run[q].kind
  BY <1>1, <1>4, <1>7 DEF Live
<1>13. OneLive'
  BY <1>12 DEF CertInv, OneLive, Live
<1>14. \A b \in Agents : status'[b] = "certifying" <=> status[b] = "certifying"
  BY <1>1, <1>9
<1>15. CertifyingIsLive'
  BY <1>12, <1>14 DEF CertInv, CertifyingIsLive, Live
<1>16. PassedBefore'
  <2> SUFFICES ASSUME NEW b \in Agents, status'[b] \in {"certified", "active"}
               PROVE  \E q \in Runs : /\ run'[q] \in Row /\ run'[q].agent = b
                                      /\ run'[q].kind = "challenger" /\ run'[q].state = "passed"
    BY DEF PassedBefore
  <2>1. status[b] \in {"certified", "active"}
    BY <1>1, <1>9
  <2>2. PICK q \in Runs : /\ run[q] \in Row /\ run[q].agent = b
                          /\ run[q].kind = "challenger" /\ run[q].state = "passed"
    BY <2>1 DEF CertInv, PassedBefore
  <2> QED BY <2>2, <1>8 DEF RowsKept, KeptRow
<1>17. Counted'
  BY <1>6, <1>7 DEF CertInv, Counted
<1> QED BY <1>8, <1>10, <1>11, <1>13, <1>15, <1>16, <1>17 DEF CertInv

(* retire. *)
LEMMA RetireKeeps ==
  ASSUME CertificationAssumption, CertInv, NEW a \in Agents, Retire(a)
  PROVE  CertInv' /\ RowsKept
<1>1. /\ status[a] \in {"shadow", "certified", "rejected", "active"}
      /\ status' = [status EXCEPT ![a] = "retired"]
      /\ champion' = (IF champion = a THEN None ELSE champion)
      /\ UNCHANGED <<run, exec, corpus, gates>>
  BY DEF Retire, published
<1>2. /\ status' \in [Agents -> Statuses] /\ status'[a] = "retired"
      /\ \A b \in Agents : b # a => status'[b] = status[b]
  BY <1>1 DEF CertInv, CertTyped, Statuses
<1>3. CertTyped'
  BY <1>1, <1>2 DEF CertInv, CertTyped
<1>4. ChampionIsActive'
  BY <1>1, <1>2 DEF CertInv, ChampionIsActive, CertificationAssumption
<1>5. OneLive' /\ Counted' /\ RowsKept
  BY <1>1 DEF CertInv, OneLive, Counted, Live, RowsKept, KeptRow, CertTyped
<1>6. CertifyingIsLive' /\ PassedBefore'
  <2>1. \A b \in Agents : status'[b] = "certifying" <=> status[b] = "certifying"
    BY <1>1, <1>2
  <2> QED BY <1>1, <1>2, <2>1 DEF CertInv, CertifyingIsLive, PassedBefore, Live
<1> QED BY <1>3, <1>4, <1>5, <1>6 DEF CertInv

(* A promotion's time runs out, and details are pruned. *)
LEMMA ExpireKeeps ==
  ASSUME CertInv, NEW r \in Runs, Expire(r)
  PROVE  CertInv' /\ RowsKept
<1> DEFINE y == [run[r] EXCEPT !.fresh = FALSE]
<1>1. run[r] \in Row
  BY DEF Expire, CertInv, CertTyped
<1>2. /\ y \in Row /\ y.state = run[r].state /\ y.agent = run[r].agent /\ y.kind = run[r].kind
      /\ y.decided = run[r].decided /\ y.total = run[r].total /\ y.results = run[r].results
      /\ y.detail = run[r].detail
  BY <1>1 DEF Row
<1>3. run' = [run EXCEPT ![r] = y] /\ UNCHANGED <<status, champion, exec, corpus, gates>>
  BY <1>1 DEF Expire, CertInv, CertTyped, published
<1>4. ExecTyped'
  BY <1>3 DEF CertInv, CertTyped, ExecTyped
<1> HIDE DEF y
<1>5. KeptRow(run[r], y) /\ CountedRow(y)
  BY <1>1, <1>2 DEF KeptRow, CountedRow, CertInv, Counted
<1> QED BY <1>1, <1>2, <1>3, <1>4, <1>5, QuietRow

(* Pruning leaves the evidence of a promotion alone: its detail is no longer full. *)
LEMMA PruneKeeps ==
  ASSUME CertInv, NEW r \in Runs, Prune(r)
  PROVE  CertInv' /\ RowsKept
<1> DEFINE y == [run[r] EXCEPT !.results = {}, !.detail = "summary"]
<1>1. run[r] \in Row /\ run[r].detail = "full" /\ run[r].state \in {"passed", "failed", "error"}
  BY DEF Prune, Prunable, Terminal, CertInv, CertTyped
<1>2. /\ y \in Row /\ y.state = run[r].state /\ y.agent = run[r].agent /\ y.kind = run[r].kind
      /\ y.decided = run[r].decided /\ y.total = run[r].total /\ y.results = {}
  BY <1>1 DEF Row
<1>3. run' = [run EXCEPT ![r] = y] /\ UNCHANGED <<status, champion, exec, corpus, gates>>
  BY <1>1 DEF Prune, CertInv, CertTyped, published
<1>4. ExecTyped'
  BY <1>3 DEF CertInv, CertTyped, ExecTyped
<1> HIDE DEF y
<1>5. KeptRow(run[r], y) /\ CountedRow(y)
  BY <1>1, <1>2 DEF KeptRow, CountedRow, CertInv, Counted
<1> QED BY <1>1, <1>2, <1>3, <1>4, <1>5, QuietRow

(* Every step keeps the invariant and the outcomes. *)
LEMMA CertStep ==
  ASSUME CertificationAssumption, CertInv, [Next]_vars
  PROVE  CertInv' /\ [OutcomeIsFinal]_vars
<1>1. ASSUME NEW r \in Runs, NEW a \in Agents, CreateRun(r, a) \/ Promote(a, r)
      PROVE  CertInv' /\ RowsKept
  BY <1>1, CreateKeeps, PromoteKeeps
<1>2. ASSUME NEW p \in Processes, Work(p) PROVE CertInv' /\ RowsKept
  BY <1>2, EvaluateKeeps, FinishKeeps, StartKeeps DEF Work
<1>3. ASSUME NEW p \in Processes, Timeout(p) \/ ExecutionError(p) PROVE CertInv' /\ RowsKept
  <2>1. exec[p].run \in Runs /\ FailRun(exec[p].run) /\ UNCHANGED <<champion, corpus, gates>>
    BY <1>3 DEF Timeout, ExecutionError, published, CertInv, CertTyped
  <2>2. ExecTyped'
    <3>1. CASE Timeout(p)
      BY <3>1 DEF Timeout, CertInv, CertTyped, ExecTyped
    <3>2. CASE ExecutionError(p)
      <4>1. exec' = [exec EXCEPT ![p] = Idle]
        BY <3>2 DEF ExecutionError
      <4> QED BY <4>1, IdleExec DEF CertInv, Idle
    <3> QED BY <1>3, <3>1, <3>2
  <2> QED BY <2>1, <2>2, FailKeeps
<1>4. ASSUME NEW p \in Processes, Reboot(p) PROVE CertInv' /\ RowsKept
  BY <1>4, RebootKeeps
<1>5. ASSUME NEW r \in Runs, Expire(r) \/ Prune(r) PROVE CertInv' /\ RowsKept
  BY <1>5, ExpireKeeps, PruneKeeps
<1>6. ASSUME NEW a \in Agents, Retire(a) PROVE CertInv' /\ RowsKept
  BY <1>6, RetireKeeps
<1>7. ASSUME PublishCorpus \/ PublishGates PROVE CertInv' /\ RowsKept
  <2>1. UNCHANGED <<status, champion, run, exec>> /\ corpus' \in Nat /\ gates' \in Nat
    BY <1>7 DEF PublishCorpus, PublishGates, CertInv, CertTyped
  <2>2. CertTyped' /\ ChampionIsActive' /\ RowsKept
    BY <2>1 DEF CertInv, CertTyped, ChampionIsActive, RowsKept, KeptRow
  <2>3. OneLive' /\ CertifyingIsLive' /\ PassedBefore' /\ Counted'
    BY <2>1 DEF CertInv, OneLive, CertifyingIsLive, PassedBefore, Counted, Live
  <2> QED BY <2>2, <2>3 DEF CertInv
<1>8. CASE UNCHANGED vars
  BY <1>8 DEF vars, CertInv, CertTyped, ChampionIsActive, OneLive, CertifyingIsLive,
              PassedBefore, Counted, Live
<1>9. CertTyped
  BY DEF CertInv
<1>10. CASE Next
  <2>1. CertInv' /\ RowsKept
    BY <1>1, <1>2, <1>3, <1>4, <1>5, <1>6, <1>7, <1>10 DEF Next
  <2> QED BY <1>9, <2>1, FinalOutcome
<1> QED BY <1>8, <1>10

(* The invariant says what certification promises. *)
LEMMA CertMeans ==
  ASSUME CertInv
  PROVE  TypeOK /\ ChampionIsActive /\ CertifyingHasRun /\ CertifiedHasPassed /\ EvidenceKept
<1>1. TypeOK
  BY DEF CertInv, CertTyped, TypeOK, Statuses, Row, States, Active, Terminal
<1>2. CertifyingHasRun
  <2> SUFFICES ASSUME NEW a \in Agents
               PROVE LET live == {r \in RunsOf(a) : run[r].state \in Active /\ run[r].kind = "challenger"}
                     IN  Cardinality(live) <= 1 /\ (status[a] = "certifying" <=> live # {})
    BY DEF CertifyingHasRun
  <2> DEFINE live == {r \in RunsOf(a) : run[r].state \in Active /\ run[r].kind = "challenger"}
  <2>1. \A r : r \in live <=> r \in Runs /\ Live(r) /\ run[r].kind = "challenger" /\ run[r].agent = a
    BY RowIsNoNoRun DEF RunsOf, Active, Live, CertInv, CertTyped
  <2> HIDE DEF live
  <2>2. status[a] = "certifying" <=> live # {}
    BY <2>1 DEF CertInv, CertifyingIsLive
  <2>3. \A r, q \in live : r = q
    BY <2>1 DEF CertInv, OneLive
  <2>4. Cardinality(live) <= 1
    <3>1. CASE live = {}
      <4>1. Cardinality(live) = 0
        BY <3>1, FS_EmptySet
      <4> QED BY <4>1
    <3>2. CASE live # {}
      <4>1. PICK r : live = {r}
        BY <2>3, <3>2
      <4>2. Cardinality(live) = 1
        BY <4>1, FS_Singleton
      <4> QED BY <4>2
    <3> QED BY <3>1, <3>2
  <2> QED BY <2>2, <2>4 DEF live
<1>3. CertifiedHasPassed
  BY RowIsNoNoRun DEF CertInv, PassedBefore, CertifiedHasPassed, RunsOf
<1>4. EvidenceKept
  BY DEF CertInv, CertTyped, Counted, CountedRow, EvidenceKept
<1> QED BY <1>1, <1>2, <1>3, <1>4 DEF CertInv

(* A version is certifying exactly while one challenger run of it is       *)
(* queued or running, the champion is the one active version, every        *)
(* certified version passed, no outcome changes once a run has ended, and  *)
(* the results a promotion rested on are all kept (CertificationService,   *)
(* PromotionService), for any number of versions, runs, processes, late    *)
(* executions, reboots and publications.                                   *)
THEOREM CertifiedIsSound ==
  CertificationAssumption => (Spec => CertificationIsSound)
<1> SUFFICES ASSUME CertificationAssumption PROVE Spec => CertificationIsSound
  OBVIOUS
<1>1. Init => CertInv
  BY CertInit
<1>2. CertInv /\ [Next]_vars => CertInv' /\ [OutcomeIsFinal]_vars
  BY CertStep
<1>3. CertInv => TypeOK /\ ChampionIsActive /\ CertifyingHasRun /\ CertifiedHasPassed /\ EvidenceKept
  BY CertMeans
<1> QED BY <1>1, <1>2, <1>3, PTL DEF Spec, CertificationIsSound

-----------------------------------------------------------------------------
(* The plan of Plugin calls of a run. What the proof rests on is not the   *)
(* lease, which a worker may lose at any moment, but the row of sequence   *)
(* 1: a call has one, so one worker at most ever acts for it, whoever      *)
(* holds the run by then.                                                  *)

CONSTANTS Workers, NoWorker, Plan, Tool, Limit, MaxTerminal, MaxFaults, MaxChanges
VARIABLES planRun, owner, cancel, grant, plugin, ledger, effects, pc, at, tries, ending, context,
          faults, changes

Ledger == INSTANCE PluginLedger WITH run <- planRun

(* An instance counts as this module does.                                 *)
LEMMA SameCount == ASSUME NEW S PROVE Ledger!Cardinality(S) = Cardinality(S)
BY Zenon DEF Ledger!Cardinality, Cardinality

(* The worker has written the row of sequence 1 of the call it is at, and  *)
(* not yet that of sequence 2; ending, it may have written that one too.   *)
Acting  == {"begun", "calling", "waiting", "returned"}
Holding == Acting \cup {"ending"}

(* Every call a worker has passed is on record as succeeded; its output is *)
(* all the model has seen.                                                 *)
PassedCallsSucceeded ==
  \A w \in Workers : /\ \A c \in Ledger!Calls : c < at[w] => ledger[c] = "succeeded"
                     /\ \A c \in context[w] : c < at[w]

RowIsHeld ==
  \A w \in Workers : /\ pc[w] \in Holding \cup {"authorized"} => at[w] \in Ledger!Calls
                     /\ pc[w] \in Acting => ledger[at[w]] = "running"
                     /\ pc[w] = "ending" => ledger[at[w]] # "none"
                     /\ pc[w] \in {"begun", "calling"} => effects[at[w]] = 0

OneHolder ==
  \A v, w \in Workers : pc[v] \in Holding /\ pc[w] \in Holding /\ at[v] = at[w] => v = w

EffectHasRow == \A c \in Ledger!Calls : effects[c] > 0 => ledger[c] # "none"

(* Counted over the rows of sequence 1, as appendInvocation counts. *)
RowsWithinLimit == \A c \in Ledger!Calls : Cardinality(Ledger!SameTool(c)) <= Limit

PlanInv ==
  /\ Ledger!TypeOK /\ PassedCallsSucceeded /\ RowIsHeld /\ OneHolder /\ EffectHasRow
  /\ Ledger!PlanInOrder
  /\ RowsWithinLimit

(* What the steps do not count. *)
Core == PassedCallsSucceeded /\ RowIsHeld /\ OneHolder /\ EffectHasRow
  /\ Ledger!PlanInOrder

-----------------------------------------------------------------------------
(* Types.                                                                  *)

LEMMA TriesBounded ==
  ASSUME Ledger!PlanAssumption, NEW n \in 0 .. MaxTerminal
  PROVE  (n + 1) % MaxTerminal \in 0 .. MaxTerminal
BY DEF Ledger!PlanAssumption

LEMMA MoveTyped ==
  ASSUME Ledger!TypeOK, NEW w \in Workers, NEW stage \in Ledger!Stages
  PROVE  [pc EXCEPT ![w] = stage] \in [Workers -> Ledger!Stages]
BY DEF Ledger!TypeOK

LEMMA RequeuedTyped == Ledger!Requeued \in {"queued", "ended"}
BY DEF Ledger!Requeued

LEMMA TypeInit == Ledger!PlanAssumption /\ Ledger!Init => Ledger!TypeOK
<1> SUFFICES ASSUME Ledger!PlanAssumption, Ledger!Init PROVE Ledger!TypeOK
  OBVIOUS
<1>1. /\ ledger \in [Ledger!Calls -> Ledger!Ended \cup {"none", "running"}]
      /\ effects \in [Ledger!Calls -> Nat]
      /\ pc \in [Workers -> Ledger!Stages] /\ ending \in [Workers -> Ledger!Ended]
      /\ context \in [Workers -> SUBSET Ledger!Calls]
  BY DEF Ledger!Init, Ledger!Stages, Ledger!Ended
<1>2. 1 \in 1 .. Plan + 1 /\ 0 \in 0 .. MaxTerminal /\ 0 \in 0 .. MaxFaults /\ 0 \in 0 .. MaxChanges
  BY DEF Ledger!PlanAssumption
<1>3. /\ at \in [Workers -> 1 .. Plan + 1] /\ tries \in [Workers -> 0 .. MaxTerminal]
      /\ faults \in 0 .. MaxFaults /\ changes \in 0 .. MaxChanges
  BY <1>2 DEF Ledger!Init
<1> QED BY <1>1, <1>3 DEF Ledger!Init, Ledger!TypeOK

(* The steps of the run around the plan. *)
LEMMA TypeWorld ==
  ASSUME Ledger!PlanAssumption, Ledger!TypeOK, Ledger!LeaseExpires \/ Ledger!Govern
  PROVE  Ledger!TypeOK'
<1>1. CASE Ledger!LeaseExpires
  BY <1>1, RequeuedTyped DEF Ledger!PlanAssumption, Ledger!LeaseExpires, Ledger!TypeOK,
                             Ledger!workers
<1>2. CASE Ledger!Govern
  <2>1. changes' \in 0 .. MaxChanges
    BY <1>2 DEF Ledger!PlanAssumption, Ledger!Govern, Ledger!TypeOK
  <2>2. cancel' \in BOOLEAN
    BY <1>2 DEF Ledger!Govern, Ledger!TypeOK
  <2>3. grant' \in {"active", "revoked", "exhausted"} /\ plugin' \in {"enabled", "disabled"}
    BY <1>2 DEF Ledger!Govern, Ledger!TypeOK
  <2> QED BY <1>2, <2>1, <2>2, <2>3 DEF Ledger!Govern, Ledger!TypeOK, Ledger!workers
<1> QED BY <1>1, <1>2

(* The steps of a worker: the stage it moves to, and the rest. *)
LEMMA TypeWorker ==
  ASSUME Ledger!PlanAssumption, Ledger!TypeOK, RowIsHeld, NEW w \in Workers,
         \/ Ledger!Claim(w) \/ Ledger!WorkerStep(w) \/ Ledger!Return(w)
         \/ Ledger!AppendLost(w) \/ Ledger!Crash(w)
  PROVE  Ledger!TypeOK'
<1> USE DEF Ledger!Goto, Ledger!End, Ledger!Stay, Ledger!world
<1>1. CASE Ledger!Claim(w)
  BY <1>1 DEF Ledger!PlanAssumption, Ledger!Claim, Ledger!TypeOK, Ledger!Stages, Ledger!Calls
<1>2. CASE Ledger!StartCall(w)
  BY <1>2 DEF Ledger!StartCall, Ledger!TypeOK, Ledger!Stages
<1>3. CASE Ledger!FinishPlan(w) \/ Ledger!Return(w)
  BY <1>3 DEF Ledger!FinishPlan, Ledger!Return, Ledger!TypeOK, Ledger!Stages
<1>4. CASE Ledger!BeginInvocation(w)
  <2>1. ledger' \in [Ledger!Calls -> Ledger!Ended \cup {"none", "running"}]
        /\ pc' \in [Workers -> Ledger!Stages]
    BY <1>4 DEF Ledger!BeginInvocation, Ledger!TypeOK, Ledger!Stages
  <2>2. faults' \in 0 .. MaxFaults
    BY <1>4 DEF Ledger!BeginInvocation, Ledger!TypeOK, Ledger!PlanAssumption
  <2> QED BY <1>4, <2>1, <2>2 DEF Ledger!BeginInvocation, Ledger!TypeOK
<1>5. Ledger!EndingOf(w) \in Ledger!Ended
  BY DEF Ledger!EndingOf, Ledger!Ended
<1>6. CASE Ledger!Recheck(w)
  BY <1>5, <1>6 DEF Ledger!Recheck, Ledger!TypeOK, Ledger!Stages
<1>7. CASE Ledger!SendEffect(w)
  <2>1. at[w] \in Ledger!Calls
    BY <1>7 DEF Ledger!SendEffect, RowIsHeld, Holding, Acting
  <2> QED BY <1>7, <2>1 DEF Ledger!SendEffect, Ledger!TypeOK, Ledger!Stages
<1>8. CASE Ledger!CallFails(w)
  BY <1>5, <1>8 DEF Ledger!CallFails, Ledger!TypeOK, Ledger!Stages
<1>9. CASE Ledger!Conclude(w)
  BY <1>5, <1>9 DEF Ledger!Conclude, Ledger!TypeOK, Ledger!Stages, Ledger!Ended
<1>10. CASE Ledger!AppendTerminal(w)
  <2>1. at[w] \in Ledger!Calls
    BY <1>10 DEF Ledger!AppendTerminal, RowIsHeld, Holding
  <2>2. at[w] + 1 \in 1 .. Plan + 1
    BY <2>1 DEF Ledger!Calls, Ledger!PlanAssumption
  <2>3. Ledger!Advance(w) => /\ pc' \in [Workers -> Ledger!Stages] /\ at' \in [Workers -> 1 .. Plan + 1]
                      /\ context' \in [Workers -> SUBSET Ledger!Calls]
    BY <2>1, <2>2 DEF Ledger!Advance, Ledger!TypeOK, Ledger!Stages
  <2>4. /\ pc' \in [Workers -> Ledger!Stages] /\ at' \in [Workers -> 1 .. Plan + 1]
        /\ context' \in [Workers -> SUBSET Ledger!Calls]
    BY <1>10, <2>3 DEF Ledger!AppendTerminal, Ledger!TypeOK, Ledger!Stages
  <2>5. /\ ledger' \in [Ledger!Calls -> Ledger!Ended \cup {"none", "running"}]
        /\ ending' \in [Workers -> Ledger!Ended] /\ tries' \in [Workers -> 0 .. MaxTerminal]
    BY <1>10 DEF Ledger!AppendTerminal, Ledger!TypeOK, Ledger!Ended, Ledger!PlanAssumption
  <2> QED BY <1>10, <2>4, <2>5 DEF Ledger!AppendTerminal, Ledger!TypeOK
<1>11. CASE Ledger!AppendLost(w)
  <2>1. tries[w] \in 0 .. MaxTerminal
    BY DEF Ledger!TypeOK
  <2>2. tries' \in [Workers -> 0 .. MaxTerminal]
    BY <1>11, <2>1, TriesBounded DEF Ledger!AppendLost, Ledger!TypeOK
  <2>3. pc' \in [Workers -> Ledger!Stages]
        /\ ledger' \in [Ledger!Calls -> Ledger!Ended \cup {"none", "running"}]
    BY <1>11 DEF Ledger!AppendLost, Ledger!TypeOK, Ledger!Stages
  <2>4. faults' \in 0 .. MaxFaults
    BY <1>11 DEF Ledger!AppendLost, Ledger!TypeOK, Ledger!PlanAssumption
  <2> QED BY <1>11, <2>2, <2>3, <2>4 DEF Ledger!AppendLost, Ledger!TypeOK
<1>12. CASE Ledger!Dispose(w)
  BY <1>12, RequeuedTyped DEF Ledger!Dispose, Ledger!TypeOK, Ledger!Stages
<1>13. CASE Ledger!Crash(w)
  BY <1>13 DEF Ledger!Crash, Ledger!TypeOK, Ledger!Stages, Ledger!PlanAssumption
<1> QED BY <1>1, <1>2, <1>3, <1>4, <1>6, <1>7, <1>8, <1>9, <1>10, <1>11, <1>12, <1>13
     DEF Ledger!WorkerStep

-----------------------------------------------------------------------------
(* The rows.                                                               *)

(* A row is never taken back and its end never rewritten, in any step. *)
LEMMA RowsAreFinal ==
  ASSUME Ledger!TypeOK, RowIsHeld, [Ledger!Next]_(Ledger!vars)
  PROVE  /\ Ledger!TerminalIsFinal
         /\ \A c \in Ledger!Calls : ledger[c] # "none" => ledger'[c] # "none"
<1>1. CASE ledger' = ledger
  BY <1>1 DEF Ledger!TerminalIsFinal, Ledger!Ended
<1>2. ASSUME NEW w \in Workers, Ledger!BeginInvocation(w), ledger' # ledger
      PROVE  Ledger!TerminalIsFinal /\ \A c \in Ledger!Calls : ledger[c] # "none" => ledger'[c] # "none"
  BY <1>2 DEF Ledger!BeginInvocation, Ledger!BeginAccepted, Ledger!TerminalIsFinal, Ledger!TypeOK,
              Ledger!Ended
<1>3. ASSUME NEW w \in Workers, Ledger!AppendTerminal(w) \/ Ledger!AppendLost(w), ledger' # ledger
      PROVE  Ledger!TerminalIsFinal /\ \A c \in Ledger!Calls : ledger[c] # "none" => ledger'[c] # "none"
  <2>1. ~Ledger!Recorded(w) /\ ledger' = [ledger EXCEPT ![at[w]] = ending[w]]
    BY <1>3 DEF Ledger!AppendTerminal, Ledger!AppendLost
  <2> QED BY <2>1 DEF Ledger!Recorded, Ledger!TerminalIsFinal, Ledger!TypeOK, Ledger!Ended
<1> QED BY <1>1, <1>2, <1>3
     DEF Ledger!Next, Ledger!vars, Ledger!WorkerStep, Ledger!Claim, Ledger!StartCall,
         Ledger!FinishPlan, Ledger!Recheck, Ledger!SendEffect, Ledger!CallFails, Ledger!Conclude,
         Ledger!Dispose, Ledger!Return, Ledger!Crash, Ledger!LeaseExpires, Ledger!Govern,
         Ledger!Stay

(* A step that changes neither rows nor effects and moves one worker, to a *)
(* stage it may be in.                                                     *)
LEMMA MoveStep ==
  ASSUME Ledger!TypeOK, Core, NEW w \in Workers, NEW stage, pc' = [pc EXCEPT ![w] = stage],
         UNCHANGED <<ledger, effects, at, context>>,
         \/ stage \notin Holding \cup {"authorized"}
         \/ stage = "authorized" /\ at[w] \in Ledger!Calls
         \/ stage = "calling" /\ pc[w] = "begun"
         \/ stage = "returned" /\ pc[w] = "waiting"
         \/ stage = "ending" /\ pc[w] \in Acting
  PROVE  Core'
<1>1. PassedCallsSucceeded' /\ EffectHasRow' /\ Ledger!PlanInOrder'
  BY DEF Core, PassedCallsSucceeded, EffectHasRow, Ledger!PlanInOrder
<1>2. \A v \in Workers : pc'[v] = IF v = w THEN stage ELSE pc[v]
  BY DEF Ledger!TypeOK
<1>3. stage \in Holding => pc[w] \in Holding
  BY DEF Holding, Acting
<1>4. OneHolder'
  BY <1>2, <1>3 DEF Core, OneHolder
<1>5. RowIsHeld'
  BY <1>2 DEF Core, RowIsHeld, Holding, Acting
<1> QED BY <1>1, <1>4, <1>5 DEF Core

(* Nobody moves and no row changes. *)
LEMMA WorldStep ==
  ASSUME Core, UNCHANGED <<ledger, effects, pc, at, context>>
  PROVE  Core'
BY DEF Core, PassedCallsSucceeded, RowIsHeld, OneHolder, EffectHasRow, Ledger!PlanInOrder

(* A claim starts the plan from its first call. *)
LEMMA ClaimStep ==
  ASSUME Ledger!PlanAssumption, Ledger!TypeOK, Core, NEW w \in Workers, Ledger!Claim(w)
  PROVE  Core'
<1>1. /\ \A v \in Workers : pc'[v] = (IF v = w THEN "ready" ELSE pc[v])
      /\ \A v \in Workers : at'[v] = (IF v = w THEN 1 ELSE at[v])
      /\ \A v \in Workers : context'[v] = (IF v = w THEN {} ELSE context[v])
      /\ ledger' = ledger /\ effects' = effects
  BY DEF Ledger!Claim, Ledger!Goto, Ledger!TypeOK
<1>2. "ready" \notin Holding \cup {"authorized"}
  BY DEF Holding, Acting
<1>3. PassedCallsSucceeded'
  BY <1>1 DEF Core, PassedCallsSucceeded, Ledger!Calls
<1>4. RowIsHeld'
  BY <1>1, <1>2 DEF Core, RowIsHeld, Holding, Acting
<1>5. OneHolder'
  BY <1>1, <1>2 DEF Core, OneHolder
<1>6. EffectHasRow' /\ Ledger!PlanInOrder'
  BY <1>1 DEF Core, EffectHasRow, Ledger!PlanInOrder
<1> QED BY <1>3, <1>4, <1>5, <1>6 DEF Core

(* The first row of a call: no other worker can be acting for it. *)
LEMMA BeginStep ==
  ASSUME Ledger!PlanAssumption, Ledger!TypeOK, Core, NEW w \in Workers,
         Ledger!BeginInvocation(w), Ledger!BeginAccepted(w)
  PROVE  Core'
<1>1. PICK stage \in {"begun", "stopped"} : pc' = [pc EXCEPT ![w] = stage]
  BY DEF Ledger!BeginInvocation, Ledger!Goto
<1>2. /\ \A v \in Workers : pc'[v] = (IF v = w THEN stage ELSE pc[v])
      /\ at[w] \in Ledger!Calls /\ ledger[at[w]] = "none"
      /\ \A c \in Ledger!Calls : ledger'[c] = IF c = at[w] THEN "running" ELSE ledger[c]
      /\ UNCHANGED <<at, effects, context>>
  BY <1>1 DEF Ledger!BeginInvocation, Ledger!BeginAccepted, Ledger!TypeOK, Core, RowIsHeld
<1>3. effects[at[w]] = 0
  <2>1. effects[at[w]] \in Nat
    BY <1>2 DEF Ledger!TypeOK
  <2> QED BY <1>2, <2>1 DEF Core, EffectHasRow
<1>4. \A v \in Workers : pc[v] \in Holding => at[v] # at[w]
  BY <1>2 DEF Core, RowIsHeld, Holding
<1>5. PassedCallsSucceeded'
  BY <1>2 DEF Core, PassedCallsSucceeded
<1>6. RowIsHeld'
  <2>1. ASSUME NEW v \in Workers, v # w
        PROVE  /\ pc'[v] \in Holding \cup {"authorized"} => at'[v] \in Ledger!Calls
               /\ pc'[v] \in Acting => ledger'[at'[v]] = "running"
               /\ pc'[v] = "ending" => ledger'[at'[v]] # "none"
               /\ pc'[v] \in {"begun", "calling"} => effects'[at'[v]] = 0
    BY <1>2, <1>4, <2>1 DEF Core, RowIsHeld, Holding, Acting
  <2>2. /\ pc'[w] \in Holding \cup {"authorized"} => at'[w] \in Ledger!Calls
        /\ pc'[w] \in Acting => ledger'[at'[w]] = "running"
        /\ pc'[w] # "ending"
        /\ pc'[w] \in {"begun", "calling"} => effects'[at'[w]] = 0
    BY <1>2, <1>3
  <2> QED BY <2>1, <2>2 DEF RowIsHeld
<1>7. OneHolder'
  BY <1>2, <1>4 DEF Core, OneHolder
<1>8. EffectHasRow'
  BY <1>2 DEF Core, EffectHasRow
<1>9. Ledger!PlanInOrder'
  <2>1. \A c \in Ledger!Calls : ledger[c] = "succeeded" => ledger'[c] = "succeeded"
    BY <1>2
  <2>2. \A d \in Ledger!Calls : \A c \in 1 .. d - 1 : c \in Ledger!Calls
    BY DEF Ledger!Calls, Ledger!PlanAssumption
  <2> QED BY <1>2, <2>1, <2>2 DEF Core, Ledger!PlanInOrder
<1> QED BY <1>5, <1>6, <1>7, <1>8, <1>9 DEF Core

(* The effect: the row of the call is the worker's own, and it has had no  *)
(* effect before.                                                          *)
LEMMA EffectStep ==
  ASSUME Ledger!PlanAssumption, Ledger!TypeOK, Core, NEW w \in Workers, Ledger!SendEffect(w)
  PROVE  Core'
<1>1. /\ \A v \in Workers : pc'[v] = (IF v = w THEN "waiting" ELSE pc[v])
      /\ pc[w] = "calling" /\ UNCHANGED <<at, ledger, context>>
  BY DEF Ledger!SendEffect, Ledger!Goto, Ledger!TypeOK
<1>2. at[w] \in Ledger!Calls /\ ledger[at[w]] = "running" /\ effects[at[w]] = 0
  BY <1>1 DEF Core, RowIsHeld, Holding, Acting
<1>3. \A c \in Ledger!Calls : effects'[c] = IF c = at[w] THEN 1 ELSE effects[c]
  BY <1>2 DEF Ledger!SendEffect, Ledger!TypeOK
<1>4. PassedCallsSucceeded'
  BY <1>1 DEF Core, PassedCallsSucceeded
<1>5. \A v \in Workers : v # w /\ pc[v] \in Holding => at[v] # at[w]
  BY <1>1 DEF Core, OneHolder, Holding, Acting
<1>6. RowIsHeld'
  BY <1>1, <1>2, <1>3, <1>5 DEF Core, RowIsHeld, Holding, Acting
<1>7. OneHolder'
  BY <1>1 DEF Core, OneHolder, Holding, Acting
<1>8. EffectHasRow'
  BY <1>1, <1>2, <1>3 DEF Core, EffectHasRow
<1>9. Ledger!PlanInOrder'
  <2>1. \A c \in 1 .. at[w] - 1 : ledger[c] = "succeeded"
    BY <1>2 DEF Core, PassedCallsSucceeded, Ledger!Calls, Ledger!PlanAssumption
  <2> QED BY <1>1, <1>2, <1>3, <2>1 DEF Core, Ledger!PlanInOrder
<1> QED BY <1>4, <1>6, <1>7, <1>8, <1>9 DEF Core

(* The row of sequence 2, with or without its acknowledgement: the worker  *)
(* passes the call only if it is on record as succeeded.                   *)
LEMMA AppendStep ==
  ASSUME Ledger!PlanAssumption, Ledger!TypeOK, Core, NEW w \in Workers,
         Ledger!AppendTerminal(w) \/ Ledger!AppendLost(w)
  PROVE  Core'
<1>1. pc[w] = "ending" /\ at[w] \in Ledger!Calls /\ ledger[at[w]] # "none" /\ UNCHANGED effects
  BY DEF Ledger!AppendTerminal, Ledger!AppendLost, Core, RowIsHeld, Holding
<1>2. \/ ledger' = ledger
      \/ ledger[at[w]] \notin Ledger!Ended /\ ledger' = [ledger EXCEPT ![at[w]] = ending[w]]
  BY DEF Ledger!AppendTerminal, Ledger!AppendLost, Ledger!Recorded
<1>3. /\ ending[w] \in Ledger!Ended
      /\ \A c \in Ledger!Calls : c # at[w] => ledger'[c] = ledger[c]
      /\ ledger'[at[w]] # "none"
      /\ \A c \in Ledger!Calls : ledger[c] = "succeeded" => ledger'[c] = "succeeded"
  BY <1>1, <1>2 DEF Ledger!TypeOK, Ledger!Ended
<1>4. \/ UNCHANGED <<at, context>> /\ (pc' = pc \/ pc' = [pc EXCEPT ![w] = "stopped"])
      \/ /\ ledger'[at[w]] = "succeeded" /\ pc' = [pc EXCEPT ![w] = "ready"]
         /\ at' = [at EXCEPT ![w] = @ + 1]
         /\ context' = [context EXCEPT ![w] = @ \cup {at[w]}]
  <2>1. CASE Ledger!AppendLost(w)
    BY <2>1 DEF Ledger!AppendLost, Ledger!Goto
  <2>2. ASSUME ledger'[at[w]] = ending[w], Ledger!Advance(w)
        PROVE  \/ UNCHANGED <<at, context>> /\ pc' = [pc EXCEPT ![w] = "stopped"]
               \/ /\ ledger'[at[w]] = "succeeded" /\ pc' = [pc EXCEPT ![w] = "ready"]
                  /\ at' = [at EXCEPT ![w] = @ + 1]
                  /\ context' = [context EXCEPT ![w] = @ \cup {at[w]}]
    BY <2>2 DEF Ledger!Advance, Ledger!Goto
  <2>3. CASE Ledger!AppendTerminal(w)
    <3>1. CASE Ledger!Recorded(w) /\ ledger[at[w]] = ending[w] /\ Ledger!Advance(w) /\ UNCHANGED ledger
      BY <2>2, <3>1
    <3>2. CASE ledger' = [ledger EXCEPT ![at[w]] = ending[w]] /\ Ledger!Advance(w)
      <4>1. ledger'[at[w]] = ending[w]
        BY <1>1, <3>2 DEF Ledger!TypeOK
      <4> QED BY <2>2, <3>2, <4>1
    <3>3. CASE UNCHANGED <<at, context>> /\ (pc' = pc \/ Ledger!Goto(w, "stopped"))
      BY <3>3 DEF Ledger!Goto
    <3> QED BY <2>3, <3>1, <3>2, <3>3 DEF Ledger!AppendTerminal
  <2> QED BY <2>1, <2>3
<1>5. EffectHasRow' /\ Ledger!PlanInOrder'
  <2>1. \A d \in Ledger!Calls : \A c \in 1 .. d - 1 : c \in Ledger!Calls
    BY DEF Ledger!Calls, Ledger!PlanAssumption
  <2> QED BY <1>1, <1>3, <2>1 DEF Core, EffectHasRow, Ledger!PlanInOrder
<1>6. \A v \in Workers : v # w => pc'[v] = pc[v] /\ at'[v] = at[v] /\ context'[v] = context[v]
  BY <1>4 DEF Ledger!TypeOK
<1>7. \/ at'[w] = at[w] /\ context'[w] = context[w] /\ pc'[w] \in {"ending", "stopped"}
      \/ /\ ledger'[at[w]] = "succeeded" /\ pc'[w] = "ready" /\ at'[w] = at[w] + 1
         /\ context'[w] = context[w] \cup {at[w]}
  BY <1>1, <1>4 DEF Ledger!TypeOK
<1>8. PassedCallsSucceeded'
  <2>1. ASSUME NEW v \in Workers, v # w
        PROVE  /\ \A c \in Ledger!Calls : c < at'[v] => ledger'[c] = "succeeded"
               /\ \A c \in context'[v] : c < at'[v]
    BY <1>3, <1>6, <2>1 DEF Core, PassedCallsSucceeded
  <2>2. \A c \in Ledger!Calls : c < at'[w] => ledger'[c] = "succeeded"
    BY <1>1, <1>3, <1>7 DEF Core, PassedCallsSucceeded, Ledger!Calls
  <2>3. \A c \in context'[w] : c < at'[w]
    <3>1. context[w] \subseteq Ledger!Calls
      BY DEF Ledger!TypeOK
    <3> QED BY <1>1, <1>7, <3>1 DEF Core, PassedCallsSucceeded, Ledger!Calls
  <2> QED BY <2>1, <2>2, <2>3 DEF PassedCallsSucceeded
<1>9. \A v \in Workers : v # w /\ pc[v] \in Holding => at[v] # at[w]
  BY <1>1 DEF Core, OneHolder, Holding
<1>10. RowIsHeld'
  <2>1. ASSUME NEW v \in Workers, v # w
        PROVE  /\ pc'[v] \in Holding \cup {"authorized"} => at'[v] \in Ledger!Calls
               /\ pc'[v] \in Acting => ledger'[at'[v]] = "running"
               /\ pc'[v] = "ending" => ledger'[at'[v]] # "none"
               /\ pc'[v] \in {"begun", "calling"} => effects'[at'[v]] = 0
    BY <1>1, <1>3, <1>6, <1>9, <2>1 DEF Core, RowIsHeld, Holding, Acting
  <2>2. /\ pc'[w] \in Holding \cup {"authorized"} => at'[w] \in Ledger!Calls
        /\ pc'[w] \notin Acting
        /\ pc'[w] = "ending" => ledger'[at'[w]] # "none"
        /\ pc'[w] \notin {"begun", "calling"}
    BY <1>1, <1>3, <1>7 DEF Holding, Acting
  <2> QED BY <2>1, <2>2 DEF RowIsHeld
<1>11. OneHolder'
  BY <1>1, <1>6, <1>7, <1>9 DEF Core, OneHolder, Holding, Acting
<1> QED BY <1>5, <1>8, <1>10, <1>11 DEF Core

(* Every step keeps what the plan rests on. *)
LEMMA CoreStep ==
  ASSUME Ledger!PlanAssumption, Ledger!TypeOK, Core, [Ledger!Next]_(Ledger!vars)
  PROVE  Core'
<1> USE DEF Ledger!Goto, Ledger!End, Ledger!Stay
<1>1. CASE Ledger!LeaseExpires \/ Ledger!Govern \/ UNCHANGED Ledger!vars
  BY <1>1, WorldStep DEF Ledger!LeaseExpires, Ledger!Govern, Ledger!vars, Ledger!workers
<1>2. ASSUME NEW w \in Workers,
             \/ Ledger!Claim(w) \/ Ledger!WorkerStep(w) \/ Ledger!Return(w)
         \/ Ledger!AppendLost(w) \/ Ledger!Crash(w)
      PROVE  Core'
  <2>1. CASE Ledger!StartCall(w)
    <3>1. at[w] \in Ledger!Calls
      BY <2>1 DEF Ledger!StartCall, Ledger!TypeOK, Ledger!Calls, Ledger!PlanAssumption
    <3>2. PICK stage \in {"authorized", "stopped"} : pc' = [pc EXCEPT ![w] = stage]
      BY <2>1 DEF Ledger!StartCall
    <3>3. "stopped" \notin Holding \cup {"authorized"}
      BY DEF Holding, Acting
    <3> QED BY <2>1, <3>1, <3>2, <3>3, MoveStep DEF Ledger!StartCall
  <2>2. {"planned", "idle", "stopped"} \cap (Holding \cup {"authorized"}) = {}
    BY DEF Holding, Acting
  <2>3. CASE Ledger!FinishPlan(w)
    BY <2>2, <2>3, MoveStep DEF Ledger!FinishPlan
  <2>4. CASE Ledger!BeginInvocation(w)
    <3>1. CASE Ledger!BeginAccepted(w)
      BY <2>4, <3>1, BeginStep
    <3>2. CASE ~Ledger!BeginAccepted(w)
      BY <2>2, <2>4, <3>2, MoveStep DEF Ledger!BeginInvocation
    <3> QED BY <3>1, <3>2
  <2>5. CASE Ledger!Recheck(w)
    BY <2>5, MoveStep DEF Ledger!Recheck, Acting
  <2>6. CASE Ledger!SendEffect(w)
    BY <2>6, EffectStep
  <2>7. CASE Ledger!Return(w)
    BY <2>7, MoveStep DEF Ledger!Return
  <2>8. CASE Ledger!CallFails(w)
    BY <2>8, MoveStep DEF Ledger!CallFails, Acting
  <2>9. CASE Ledger!Conclude(w)
    BY <2>9, MoveStep DEF Ledger!Conclude, Acting
  <2>10. CASE Ledger!Dispose(w)
    BY <2>2, <2>10, MoveStep DEF Ledger!Dispose
  <2>11. CASE Ledger!Crash(w)
    BY <2>2, <2>11, MoveStep DEF Ledger!Crash
  <2> QED BY <1>2, <2>1, <2>3, <2>4, <2>5, <2>6, <2>7, <2>8, <2>9, <2>10, <2>11,
             ClaimStep, AppendStep DEF Ledger!WorkerStep
<1> QED BY <1>1, <1>2 DEF Ledger!Next

(* Only a first row adds to what is counted against the limit, and it is   *)
(* refused at the limit.                                                   *)
LEMMA LimitStep ==
  ASSUME Ledger!PlanAssumption, Ledger!TypeOK, Core, RowsWithinLimit, [Ledger!Next]_(Ledger!vars)
  PROVE  RowsWithinLimit'
<1>1. IsFiniteSet(Ledger!Calls)
  BY FS_Interval DEF Ledger!Calls, Ledger!PlanAssumption
<1>2. \A c \in Ledger!Calls : IsFiniteSet(Ledger!SameTool(c)) /\ Cardinality(Ledger!SameTool(c)) \in Nat
  BY <1>1, FS_Subset, FS_CardinalityType DEF Ledger!SameTool, Ledger!Begun
<1>3. CASE \A c \in Ledger!Calls : ledger'[c] # "none" <=> ledger[c] # "none"
  <2>1. Ledger!Begun' = Ledger!Begun
    BY <1>3 DEF Ledger!Begun
  <2>2. \A c \in Ledger!Calls : Ledger!SameTool(c)' = Ledger!SameTool(c)
    BY <2>1 DEF Ledger!SameTool
  <2> QED BY <2>2 DEF RowsWithinLimit
<1>4. ASSUME NEW w \in Workers, Ledger!BeginInvocation(w), Ledger!BeginAccepted(w)
      PROVE  RowsWithinLimit'
  <2>1. at[w] \in Ledger!Calls /\ ledger' = [ledger EXCEPT ![at[w]] = "running"] /\ ledger[at[w]] = "none"
    BY <1>4 DEF Ledger!BeginInvocation, Ledger!BeginAccepted, Core, RowIsHeld
  <2>2. Ledger!Begun' = Ledger!Begun \cup {at[w]} /\ at[w] \notin Ledger!Begun
    BY <2>1 DEF Ledger!Begun, Ledger!TypeOK
  <2>3. ASSUME NEW c \in Ledger!Calls, Tool[c] = Tool[at[w]]
        PROVE  Cardinality(Ledger!SameTool(c)') <= Limit
    <3>1. Ledger!SameTool(c) = Ledger!SameTool(at[w]) /\ Ledger!SameTool(c)' = Ledger!SameTool(c) \cup {at[w]}
      BY <2>1, <2>2, <2>3 DEF Ledger!SameTool
    <3>2. Cardinality(Ledger!SameTool(c)') = Cardinality(Ledger!SameTool(c)) + 1
      BY <1>2, <2>2, <3>1, FS_AddElement DEF Ledger!SameTool
    <3>3. Cardinality(Ledger!SameTool(c)) < Limit
      BY <1>4, <3>1, SameCount DEF Ledger!BeginAccepted
    <3> QED BY <1>2, <3>2, <3>3 DEF Ledger!PlanAssumption
  <2>4. ASSUME NEW c \in Ledger!Calls, Tool[c] # Tool[at[w]]
        PROVE  Ledger!SameTool(c)' = Ledger!SameTool(c)
    BY <2>2, <2>4 DEF Ledger!SameTool
  <2> QED BY <2>3, <2>4 DEF RowsWithinLimit
<1>5. ASSUME NEW w \in Workers, Ledger!AppendTerminal(w) \/ Ledger!AppendLost(w), NEW c \in Ledger!Calls
      PROVE  ledger'[c] # "none" <=> ledger[c] # "none"
  <2>1. at[w] \in Ledger!Calls /\ ledger[at[w]] # "none" /\ ending[w] \in Ledger!Ended
    BY <1>5 DEF Ledger!AppendTerminal, Ledger!AppendLost, Core, RowIsHeld, Holding, Ledger!TypeOK
  <2>2. ledger' = ledger \/ ledger' = [ledger EXCEPT ![at[w]] = ending[w]]
    BY <1>5 DEF Ledger!AppendTerminal, Ledger!AppendLost
  <2> QED BY <2>1, <2>2 DEF Ledger!TypeOK, Ledger!Ended
<1>6. CASE UNCHANGED ledger
  BY <1>3, <1>6
<1> QED BY <1>3, <1>4, <1>5, <1>6
     DEF Ledger!Next, Ledger!vars, Ledger!WorkerStep, Ledger!Claim, Ledger!StartCall,
         Ledger!FinishPlan, Ledger!BeginInvocation, Ledger!Recheck, Ledger!SendEffect,
         Ledger!CallFails, Ledger!Conclude, Ledger!Dispose, Ledger!Return, Ledger!Crash,
         Ledger!LeaseExpires, Ledger!Govern, Ledger!Stay

LEMMA PlanInvHolds == Ledger!PlanAssumption => (Ledger!Spec => []PlanInv)
<1> SUFFICES ASSUME Ledger!PlanAssumption PROVE Ledger!Spec => []PlanInv
  OBVIOUS
<1>1. Ledger!Init => PlanInv
  <2> SUFFICES ASSUME Ledger!Init PROVE PlanInv
    OBVIOUS
  <2>1. Ledger!TypeOK
    BY TypeInit
  <2>2. PassedCallsSucceeded /\ RowIsHeld /\ OneHolder /\ EffectHasRow
  /\ Ledger!PlanInOrder
    BY DEF Ledger!Init, PassedCallsSucceeded, RowIsHeld, OneHolder, EffectHasRow,
           Ledger!PlanInOrder, Holding, Acting, Ledger!Calls, Ledger!PlanAssumption
  <2>3. \A c \in Ledger!Calls : Ledger!SameTool(c) = {}
    BY DEF Ledger!Init, Ledger!SameTool, Ledger!Begun
  <2>4. RowsWithinLimit
    BY <2>3, FS_EmptySet DEF RowsWithinLimit, Ledger!PlanAssumption
  <2> QED BY <2>1, <2>2, <2>4 DEF PlanInv
<1>2. PlanInv /\ [Ledger!Next]_(Ledger!vars) => PlanInv'
  <2> SUFFICES ASSUME PlanInv, [Ledger!Next]_(Ledger!vars) PROVE PlanInv'
    OBVIOUS
  <2>1. Ledger!TypeOK /\ Core /\ RowsWithinLimit /\ RowIsHeld
    BY DEF PlanInv, Core
  <2>2. Ledger!TypeOK'
    <3>1. CASE UNCHANGED Ledger!vars
      BY <2>1, <3>1 DEF Ledger!TypeOK, Ledger!vars, Ledger!world, Ledger!workers
    <3> QED BY <2>1, <3>1, TypeWorld, TypeWorker DEF Ledger!Next
  <2> QED BY <2>1, <2>2, CoreStep, LimitStep DEF PlanInv, Core
<1> QED BY <1>1, <1>2, PTL DEF Ledger!Spec

-----------------------------------------------------------------------------
(* The external effect of a planned call happens at most once, and only    *)
(* after its predecessors are on record as succeeded, although workers     *)
(* crash, leases expire under a worker that goes on, and acknowledgements  *)
(* are lost; and the model has seen no output but of calls recorded as     *)
(* succeeded (WorkerPluginPlanCoordinator, WorkerPluginExecutor).          *)
THEOREM EffectsHappenOnceInOrder ==
  Ledger!PlanAssumption => (Ledger!Spec => [](Ledger!PlanInOrder /\ Ledger!OutputIsRecorded))
<1>1. ASSUME PlanInv PROVE Ledger!PlanInOrder /\ Ledger!OutputIsRecorded
  <2>1. \A w \in Workers : context[w] \subseteq Ledger!Calls
    BY <1>1 DEF PlanInv, Ledger!TypeOK
  <2> QED BY <1>1, <2>1 DEF PlanInv, PassedCallsSucceeded, Ledger!OutputIsRecorded
<1> QED BY <1>1, PlanInvHolds, PTL

(* No capability takes effect more often in the run than the scope of its  *)
(* grant allows, however often the run is claimed (maxInvocationsPerRun).  *)
THEOREM InvocationsWithinLimit ==
  Ledger!PlanAssumption => (Ledger!Spec => []Ledger!InvocationLimit)
<1> SUFFICES ASSUME Ledger!PlanAssumption PROVE Ledger!Spec => []Ledger!InvocationLimit
  OBVIOUS
<1>1. ASSUME PlanInv PROVE Ledger!InvocationLimit
  <2>1. SUFFICES ASSUME NEW c \in Ledger!Calls
                 PROVE  Cardinality({d \in Ledger!Calls : effects[d] > 0 /\ Tool[d] = Tool[c]}) <= Limit
    BY SameCount DEF Ledger!InvocationLimit
  <2> DEFINE E == {d \in Ledger!Calls : effects[d] > 0 /\ Tool[d] = Tool[c]}
  <2>2. E \subseteq Ledger!SameTool(c)
    BY <1>1 DEF PlanInv, EffectHasRow, Ledger!SameTool, Ledger!Begun
  <2>3. IsFiniteSet(Ledger!SameTool(c))
    BY <1>1, FS_Interval, FS_Subset DEF Ledger!SameTool, Ledger!Begun, Ledger!Calls,
                                        Ledger!PlanAssumption
  <2>4. Cardinality(E) <= Cardinality(Ledger!SameTool(c)) /\ Cardinality(E) \in Nat
        /\ Cardinality(Ledger!SameTool(c)) \in Nat
    BY <2>2, <2>3, FS_Subset, FS_CardinalityType
  <2>5. Cardinality(Ledger!SameTool(c)) <= Limit
    BY <1>1 DEF PlanInv, RowsWithinLimit
  <2> QED BY <1>1, <2>4, <2>5 DEF Ledger!PlanAssumption
<1> QED BY <1>1, PlanInvHolds, PTL

(* What a ledger row says is final, in every step of every worker          *)
(* (append-only by key and sequence).                                      *)
THEOREM LedgerIsAppendOnly ==
  Ledger!PlanAssumption => (Ledger!Spec => [][Ledger!TerminalIsFinal]_(Ledger!vars))
<1>1. PlanInv /\ [Ledger!Next]_(Ledger!vars) => [Ledger!TerminalIsFinal]_(Ledger!vars)
  BY RowsAreFinal DEF PlanInv
<1> QED BY <1>1, PlanInvHolds, PTL DEF Ledger!Spec

(* "A mid-call disable, revocation, cancellation, or context change can    *)
(* never be called success": the row says succeeded only if the run was    *)
(* held, uncancelled, granted and enabled when it was written              *)
(* (assertWorkerPluginAuthorization, appendInvocation).                    *)
THEOREM SuccessesAreGoverned ==
  Ledger!PlanAssumption => (Ledger!Spec => [][Ledger!SuccessIsGoverned]_(Ledger!vars))
<1>1. PlanInv /\ [Ledger!Next]_(Ledger!vars) => [Ledger!SuccessIsGoverned]_(Ledger!vars)
  <2> SUFFICES ASSUME PlanInv, [Ledger!Next]_(Ledger!vars) PROVE Ledger!SuccessIsGoverned
    OBVIOUS
  <2>1. Ledger!TypeOK
    BY DEF PlanInv
  <2>2. CASE ledger' = ledger
    BY <2>2 DEF Ledger!SuccessIsGoverned
  <2>3. ASSUME NEW w \in Workers, Ledger!BeginInvocation(w), ledger' # ledger PROVE Ledger!SuccessIsGoverned
    BY <2>1, <2>3 DEF Ledger!BeginInvocation, Ledger!SuccessIsGoverned, Ledger!TypeOK
  <2>4. ASSUME NEW w \in Workers, Ledger!AppendTerminal(w) \/ Ledger!AppendLost(w), ledger' # ledger
        PROVE  Ledger!SuccessIsGoverned
    <3>1. /\ ending[w] = "succeeded" => Ledger!SuccessAllowed(w)
          /\ ledger' = [ledger EXCEPT ![at[w]] = ending[w]]
      BY <2>4 DEF Ledger!AppendTerminal, Ledger!AppendLost
    <3> QED BY <2>1, <3>1
         DEF Ledger!SuccessIsGoverned, Ledger!SuccessAllowed, Ledger!Authorized,
             Ledger!Revalidated, Ledger!TypeOK
  <2> QED BY <2>2, <2>3, <2>4
       DEF Ledger!Next, Ledger!vars, Ledger!WorkerStep, Ledger!Claim, Ledger!StartCall,
           Ledger!FinishPlan, Ledger!Recheck, Ledger!SendEffect, Ledger!CallFails,
           Ledger!Conclude, Ledger!Dispose, Ledger!Return, Ledger!Crash, Ledger!LeaseExpires,
           Ledger!Govern, Ledger!Stay
<1> QED BY <1>1, PlanInvHolds, PTL DEF Ledger!Spec

-----------------------------------------------------------------------------
(* The workstation broker (WorkstationBroker), for any windows and lease.  *)
(* An order is consumed by the session that verifies it, and only such a   *)
(* session executes; so what was executed keeps every later session from   *)
(* being verified.                                                         *)
CONSTANTS MinWindow, MaxWindow, DailyWindow, AdHocWindow, LeaseTime, MaxTime, MaxDeliveries
VARIABLES now, request, snapshot, order, session, handshake, consumed, verifiedAt, executions, deliveries

Broker == INSTANCE WorkstationBroker

Snapshots ==
  [state : {"waiting_for_user", "expired", "leased", "completed"}, effects : BOOLEAN,
   window : Nat, expiresAt : Nat]

(* Both proofs hold for every binding, and were verified in time.          *)
Proved(proofs, time) ==
  /\ proofs.user /\ proofs.device /\ proofs.matches = Broker!Bindings
  /\ time \in Nat /\ time < order.leaseExpiresAt

OrderIsValid ==
  order # None => /\ order \in Broker!Orders /\ Broker!PayloadValid(order)
                  /\ "workstation" \in request.needs
                  /\ snapshot \in Snapshots /\ snapshot.expiresAt = order.expiresAt

SessionHasOrder ==
  /\ session = "idle" => snapshot = None /\ order = None /\ consumed = {} /\ executions = {}
  /\ session \notin {"idle", "central", "failed"} => order # None
  /\ snapshot # None /\ snapshot.state = "expired" => session = "expired"

VerifiedOnce ==
  session \in {"verified", "leased"} =>
    /\ Proved(handshake, verifiedAt) /\ verifiedAt <= now
    /\ order \in consumed /\ executions = {}

ExecutionsProved ==
  /\ \A e \in executions : Proved(e.proofs, e.verifiedAt)
  /\ executions # {} => order \in consumed /\ \E e : executions = {e}

BrokerInv ==
  /\ now \in Nat /\ request \in Broker!Requests
  /\ OrderIsValid /\ SessionHasOrder /\ VerifiedOnce /\ ExecutionsProved

(* Both placement engines: a window that the control plane accepts is in   *)
(* bounds.                                                                 *)
LEMMA PlacementsAgree ==
  ASSUME Broker!WindowAssumption, NEW r \in Broker!Requests
  PROVE  /\ Broker!PlaceTS(r) # None => Broker!Place(r) = Broker!PlaceTS(r)
         /\ "workstation" \in r.needs => Broker!Place(r) = Broker!PlaceTS(r)
<1>1. r.window = None \/ r.window \in Nat
  BY DEF Broker!Requests, Broker!WindowAssumption
<1>2. r.window = None => Broker!Window(r) \in MinWindow .. MaxWindow
  BY DEF Broker!Window, Broker!WindowAssumption
<1>3. r.window # None => Broker!Window(r) = r.window
  BY DEF Broker!Window
<1> QED
  BY <1>1, <1>2, <1>3 DEF Broker!Place, Broker!PlaceTS

(* The first delivery: a signed order is valid, and its snapshot waits     *)
(* without effects.                                                        *)
LEMMA ReceivedOrder ==
  ASSUME Broker!WindowAssumption, BrokerInv, Broker!Receive
  PROVE  /\ UNCHANGED <<now, request, consumed, executions>> /\ executions = {}
         /\ \/ session' = "failed" /\ order' = None /\ snapshot' = None
            \/ /\ session' = "central" /\ order' = None
               /\ snapshot'.state = "control_plane_ready" /\ "workstation" \notin request.needs
            \/ /\ session' = "delivered" /\ order' \in Broker!Orders /\ Broker!PayloadValid(order')
               /\ "workstation" \in request.needs
               /\ snapshot' \in Snapshots /\ snapshot'.expiresAt = order'.expiresAt
               /\ snapshot'.effects = FALSE /\ snapshot'.state = "waiting_for_user"
<1> DEFINE placed == Broker!Place(request)
           o == [issuedAt |-> now, notBefore |-> now, expiresAt |-> now + placed.window,
                 leaseExpiresAt |-> now + LeaseTime, window |-> placed.window]
<1>1. /\ session = "idle" /\ order = None /\ snapshot = None /\ executions = {}
      /\ now \in Nat /\ request \in Broker!Requests
      /\ UNCHANGED <<now, request, consumed, executions>>
  BY DEF BrokerInv, SessionHasOrder, Broker!Receive
<1>2. \/ placed = None
      \/ /\ placed = [state |-> "control_plane_ready", effects |-> TRUE, window |-> None]
         /\ "workstation" \notin request.needs
      \/ /\ placed = [state |-> "waiting_for_user", effects |-> FALSE, window |-> Broker!Window(request)]
         /\ "workstation" \in request.needs /\ Broker!Window(request) \in MinWindow .. MaxWindow
  BY DEF Broker!Place
<1>3. CASE session' = "failed" /\ UNCHANGED <<snapshot, order>>
  BY <1>1, <1>3
<1>4. CASE /\ placed # None /\ placed.state = "control_plane_ready"
           /\ snapshot' = [placed EXCEPT !.window = None]
           /\ session' = "central" /\ UNCHANGED order
  <2>1. /\ placed = [state |-> "control_plane_ready", effects |-> TRUE, window |-> None]
        /\ "workstation" \notin request.needs
    BY <1>2, <1>4
  <2> HIDE DEF placed
  <2>2. snapshot' = [state |-> "control_plane_ready", effects |-> TRUE, window |-> None]
    BY <1>4, <2>1
  <2> QED
    BY <1>1, <1>4, <2>1, <2>2
<1>5. CASE /\ placed # None /\ placed.state # "control_plane_ready" /\ Broker!PayloadValid(o)
           /\ snapshot' = [state |-> placed.state, effects |-> placed.effects,
                           window |-> placed.window, expiresAt |-> o.expiresAt]
           /\ order' = o /\ session' = "delivered"
  <2>1. /\ placed = [state |-> "waiting_for_user", effects |-> FALSE, window |-> Broker!Window(request)]
        /\ "workstation" \in request.needs /\ Broker!Window(request) \in MinWindow .. MaxWindow
    BY <1>2, <1>5
  <2>2. placed.window \in Nat /\ placed.state = "waiting_for_user" /\ placed.effects = FALSE
    BY <2>1 DEF Broker!WindowAssumption
  <2> HIDE DEF placed
  <2>3. o \in Broker!Orders
    BY <1>1, <2>2 DEF Broker!Orders, Broker!WindowAssumption
  <2>4. o.expiresAt \in Nat
    BY <1>1, <2>2
  <2>5. snapshot' \in Snapshots /\ snapshot'.expiresAt = order'.expiresAt
        /\ snapshot'.effects = FALSE /\ snapshot'.state = "waiting_for_user"
    <3> HIDE DEF o
    <3> QED
      BY <1>5, <2>2, <2>4 DEF Snapshots
  <2> HIDE DEF o
  <2> QED
    BY <1>1, <1>5, <2>1, <2>3, <2>5
<1> QED
  BY <1>3, <1>4, <1>5 DEF Broker!Receive

(* Every step keeps the invariant and allows effects only in time.         *)
LEMMA BrokerSteps ==
  ASSUME Broker!WindowAssumption, BrokerInv, [Broker!Next]_(Broker!vars)
  PROVE  BrokerInv' /\ Broker!NoLateEffects
<1>1. CASE Broker!Receive
  <2>1. None \notin Broker!Orders
    BY DEF Broker!WindowAssumption
  <2>2. UNCHANGED <<now, request, consumed, executions>> /\ executions = {} /\ now \in Nat
        /\ request \in Broker!Requests
    BY <1>1, ReceivedOrder DEF BrokerInv
  <2>3. session' \in {"failed", "central", "delivered"}
    BY <1>1, ReceivedOrder
  <2>4. OrderIsValid'
    <3>1. CASE order' = None
      BY <3>1 DEF OrderIsValid
    <3>2. CASE order' # None
      <4>1. /\ order' \in Broker!Orders /\ Broker!PayloadValid(order')
            /\ "workstation" \in request.needs
            /\ snapshot' \in Snapshots /\ snapshot'.expiresAt = order'.expiresAt
        BY <1>1, <3>2, ReceivedOrder
      <4> QED
        BY <2>2, <4>1 DEF OrderIsValid, Broker!PayloadValid
    <3> QED
      BY <3>1, <3>2
  <2>5. SessionHasOrder'
    <3>1. /\ session' = "delivered" => order' # None
          /\ snapshot' # None => snapshot'.state \in {"control_plane_ready", "waiting_for_user"}
      BY <1>1, <2>1, ReceivedOrder
    <3> QED
      BY <2>3, <3>1 DEF SessionHasOrder
  <2>6. VerifiedOnce' /\ ExecutionsProved'
    BY <2>2, <2>3 DEF VerifiedOnce, ExecutionsProved
  <2>7. snapshot = None
    BY <1>1 DEF Broker!Receive, BrokerInv, SessionHasOrder
  <2>8. Broker!NoLateEffects
    <3>1. snapshot' # None /\ snapshot'.effects /\ snapshot # snapshot' =>
            "workstation" \notin request.needs /\ snapshot'.state = "control_plane_ready"
      BY <1>1, <2>7, ReceivedOrder, Zenon
    <3> QED
      BY <2>7, <3>1, Zenon DEF Broker!NoLateEffects
  <2> QED
    BY <2>2, <2>4, <2>5, <2>6, <2>8 DEF BrokerInv
<1>2. CASE Broker!Tick
  <2>1. now' \in Nat /\ now <= now'
    BY <1>2 DEF BrokerInv, Broker!Tick
  <2>2. UNCHANGED <<request, snapshot, order, session, handshake, consumed, verifiedAt, executions>>
    BY <1>2 DEF Broker!Tick
  <2>3. OrderIsValid' /\ SessionHasOrder'
    BY <2>2 DEF BrokerInv, OrderIsValid, SessionHasOrder, Broker!PayloadValid
  <2>4. VerifiedOnce'
    BY <2>1, <2>2 DEF BrokerInv, VerifiedOnce, Proved
  <2>5. ExecutionsProved'
    BY <2>2 DEF BrokerInv, ExecutionsProved, Proved
  <2>6. Broker!NoLateEffects
    BY <2>2 DEF Broker!NoLateEffects
  <2> QED
    BY <2>1, <2>2, <2>3, <2>4, <2>5, <2>6 DEF BrokerInv
<1>3. ASSUME session \notin {"idle", "expired"}, session' # "idle",
             session' \notin {"idle", "central", "failed"} => order # None,
             session' \notin {"verified", "leased"},
             UNCHANGED <<now, request, snapshot, order, executions>>,
             consumed \subseteq consumed'
      PROVE  BrokerInv' /\ Broker!NoLateEffects
  <2>1. OrderIsValid'
    BY <1>3 DEF BrokerInv, OrderIsValid, Broker!PayloadValid
  <2>2. SessionHasOrder'
    BY <1>3 DEF BrokerInv, SessionHasOrder
  <2>3. VerifiedOnce' /\ ExecutionsProved'
    BY <1>3 DEF BrokerInv, VerifiedOnce, ExecutionsProved, Proved
  <2>4. Broker!NoLateEffects
    BY <1>3 DEF Broker!NoLateEffects
  <2> QED
    BY <1>3, <2>1, <2>2, <2>3, <2>4 DEF BrokerInv
<1>4. ASSUME session \notin {"idle", "expired"}, order # None,
             session' \in {"delivered", "expired", "completed"},
             UNCHANGED <<now, request, order, executions, consumed>>,
             snapshot' \in Snapshots, snapshot'.expiresAt = snapshot.expiresAt, ~snapshot'.effects,
             snapshot'.state = "expired" => session' = "expired"
      PROVE  BrokerInv' /\ Broker!NoLateEffects
  <2>1. OrderIsValid'
    BY <1>4 DEF BrokerInv, OrderIsValid, Broker!PayloadValid
  <2>2. SessionHasOrder'
    BY <1>4 DEF BrokerInv, SessionHasOrder
  <2>3. VerifiedOnce' /\ ExecutionsProved'
    BY <1>4 DEF BrokerInv, VerifiedOnce, ExecutionsProved, Proved
  <2>4. Broker!NoLateEffects
    BY <1>4 DEF BrokerInv, SessionHasOrder, Broker!NoLateEffects
  <2> QED
    BY <1>4, <2>1, <2>2, <2>3, <2>4 DEF BrokerInv
<1>5. CASE Broker!Redeliver
  <2>1. session \in {"completed", "failed"} /\ order # None /\ session' = "delivered"
        /\ snapshot' = [snapshot EXCEPT !.state = "waiting_for_user", !.effects = FALSE]
        /\ UNCHANGED <<now, request, order, consumed, executions>>
    BY <1>5 DEF Broker!Redeliver
  <2>2. snapshot \in Snapshots
    BY <2>1 DEF BrokerInv, OrderIsValid
  <2>3. /\ snapshot' \in Snapshots /\ snapshot'.expiresAt = snapshot.expiresAt
        /\ snapshot'.effects = FALSE /\ snapshot'.state = "waiting_for_user"
    BY <2>1, <2>2 DEF Snapshots
  <2> QED
    BY <1>4, <2>1, <2>3
<1>6. ASSUME NEW a \in BOOLEAN, Broker!Open(a)
      PROVE  BrokerInv' /\ Broker!NoLateEffects
  <2>1. session = "delivered" /\ order # None /\ snapshot \in Snapshots
    BY <1>6 DEF Broker!Open, BrokerInv, SessionHasOrder, OrderIsValid
  <2>2. UNCHANGED <<now, request, order, handshake, consumed, verifiedAt, executions>>
    BY <1>6 DEF Broker!Open, Broker!Untouched
  <2>3. CASE session' \in {"failed", "waiting"} /\ UNCHANGED snapshot
    BY <1>3, <2>1, <2>2, <2>3
  <2>4. CASE /\ session' = "expired"
             /\ snapshot' = [snapshot EXCEPT !.state = "expired", !.effects = FALSE]
    <3>1. /\ snapshot' \in Snapshots /\ snapshot'.expiresAt = snapshot.expiresAt
          /\ snapshot'.effects = FALSE
      BY <2>1, <2>4 DEF Snapshots
    <3> QED
      BY <1>4, <2>1, <2>2, <2>4, <3>1
  <2> QED
    BY <1>6, <2>3, <2>4 DEF Broker!Open
<1>7. CASE \/ \E h \in Broker!Handshakes : Broker!Present(h)
           \/ Broker!BindDevice \/ Broker!Replay \/ Broker!TimeOut
  <2>1. /\ session \in {"waiting", "presented", "bound", "verified", "leased", "executed"}
        /\ session' \in {"presented", "bound", "failed", "replayed"}
        /\ UNCHANGED <<now, request, snapshot, order, executions, consumed>>
    BY <1>7 DEF Broker!Present, Broker!BindDevice, Broker!Replay, Broker!TimeOut, Broker!Steps,
                Broker!Untouched
  <2>2. order # None
    BY <2>1 DEF BrokerInv, SessionHasOrder
  <2> QED
    BY <1>3, <2>1, <2>2
<1>8. CASE Broker!VerifyDualIdentity
  <2>1. session = "bound" /\ order # None /\ UNCHANGED <<now, request, snapshot, order, handshake, executions>>
    BY <1>8 DEF Broker!VerifyDualIdentity, Broker!Untouched, BrokerInv, SessionHasOrder
  <2>2. CASE session' = "failed" /\ UNCHANGED <<consumed, verifiedAt>>
    BY <1>3, <2>1, <2>2
  <2>3. CASE /\ Broker!Verified /\ Broker!Consumable
             /\ session' = "verified" /\ consumed' = consumed \union {order} /\ verifiedAt' = now
    <3>1. executions = {}
      BY <2>3 DEF Broker!Consumable, BrokerInv, ExecutionsProved
    <3>2. Proved(handshake, now)
      BY <2>3 DEF Broker!Verified, Broker!Current, Proved, BrokerInv
    <3>3. VerifiedOnce'
      BY <2>1, <2>3, <3>1, <3>2 DEF VerifiedOnce, Proved, BrokerInv
    <3>4. OrderIsValid' /\ SessionHasOrder' /\ ExecutionsProved'
      BY <2>1, <2>3, <3>1 DEF BrokerInv, OrderIsValid, SessionHasOrder, ExecutionsProved, Broker!PayloadValid
    <3>5. Broker!NoLateEffects
      BY <2>1 DEF Broker!NoLateEffects
    <3> QED
      BY <2>1, <3>3, <3>4, <3>5 DEF BrokerInv
  <2> QED
    BY <1>8, <2>2, <2>3 DEF Broker!VerifyDualIdentity
<1>9. CASE Broker!Resume
  <2>1. session = "verified" /\ order # None
        /\ UNCHANGED <<now, request, order, handshake, consumed, verifiedAt, executions>>
    BY <1>9 DEF Broker!Resume, Broker!Untouched, BrokerInv, SessionHasOrder
  <2>2. CASE session' = "failed" /\ UNCHANGED snapshot
    BY <1>3, <2>1, <2>2
  <2>3. CASE /\ Broker!Resumes(snapshot) /\ session' = "leased"
             /\ snapshot' = [snapshot EXCEPT !.state = "leased", !.effects = TRUE]
    <3>1. snapshot \in Snapshots /\ snapshot.expiresAt = order.expiresAt /\ "workstation" \in request.needs
      BY <2>1 DEF BrokerInv, OrderIsValid
    <3>2. snapshot' \in Snapshots /\ snapshot'.expiresAt = snapshot.expiresAt /\ snapshot'.state = "leased"
      BY <2>3, <3>1 DEF Snapshots
    <3>3. OrderIsValid' /\ SessionHasOrder'
      BY <2>1, <2>3, <3>1, <3>2 DEF BrokerInv, OrderIsValid, SessionHasOrder, Broker!PayloadValid
    <3>4. VerifiedOnce' /\ ExecutionsProved'
      BY <2>1 DEF BrokerInv, VerifiedOnce, ExecutionsProved, Proved
    <3>5. now < order.expiresAt /\ snapshot.state # "expired"
      BY <2>3, <3>1 DEF Broker!Resumes
    <3>6. Broker!NoLateEffects
      BY <2>1, <3>1, <3>5 DEF Broker!NoLateEffects
    <3> QED
      BY <2>1, <3>3, <3>4, <3>6 DEF BrokerInv
  <2> QED
    BY <1>9, <2>2, <2>3 DEF Broker!Resume
<1>10. CASE Broker!Execute
  <2> DEFINE e == [delivery |-> deliveries, verifiedAt |-> verifiedAt, proofs |-> handshake]
  <2>1. /\ session = "leased" /\ session' = "executed" /\ executions' = executions \union {e}
        /\ UNCHANGED <<now, request, snapshot, order, consumed>>
    BY <1>10 DEF Broker!Execute, Broker!Steps, Broker!Untouched
  <2>2. /\ order # None /\ Proved(handshake, verifiedAt) /\ executions = {} /\ order \in consumed
    BY <2>1 DEF BrokerInv, SessionHasOrder, VerifiedOnce
  <2>3. e.verifiedAt = verifiedAt /\ e.proofs = handshake
    OBVIOUS
  <2> HIDE DEF e
  <2>4. executions' = {e}
    BY <2>1, <2>2
  <2>5. ExecutionsProved'
    BY <2>1, <2>2, <2>3, <2>4 DEF ExecutionsProved, Proved
  <2>6. OrderIsValid' /\ SessionHasOrder' /\ VerifiedOnce'
    BY <2>1, <2>2 DEF BrokerInv, OrderIsValid, SessionHasOrder, VerifiedOnce, Broker!PayloadValid
  <2>7. Broker!NoLateEffects
    BY <2>1 DEF Broker!NoLateEffects
  <2> QED
    BY <2>1, <2>5, <2>6, <2>7 DEF BrokerInv
<1>11. CASE Broker!Complete
  <2>1. /\ session \in {"replayed", "executed"} /\ session' = "completed"
        /\ snapshot' = [snapshot EXCEPT !.state = "completed", !.effects = FALSE]
        /\ UNCHANGED <<now, request, order, consumed, executions>>
    BY <1>11 DEF Broker!Complete, Broker!Untouched
  <2>2. order # None /\ snapshot \in Snapshots
    BY <2>1 DEF BrokerInv, SessionHasOrder, OrderIsValid
  <2>3. /\ snapshot' \in Snapshots /\ snapshot'.expiresAt = snapshot.expiresAt
        /\ snapshot'.effects = FALSE /\ snapshot'.state = "completed"
    BY <2>1, <2>2 DEF Snapshots
  <2> QED
    BY <1>4, <2>1, <2>2, <2>3
<1>12. CASE UNCHANGED Broker!vars
  BY <1>12 DEF Broker!vars, BrokerInv, OrderIsValid, SessionHasOrder, VerifiedOnce,
               ExecutionsProved, Proved, Broker!PayloadValid, Broker!NoLateEffects
<1> QED
  BY <1>1, <1>2, <1>5, <1>6, <1>7, <1>8, <1>9, <1>10, <1>11, <1>12 DEF Broker!Next, Broker!Session

(* The cardinality of the instance is the cardinality.                     *)
LEMMA BrokerCount == ASSUME NEW S PROVE Broker!Cardinality(S) = Cardinality(S)
BY Zenon DEF Broker!Cardinality, Cardinality

(* Whatever the executor is asked to do was verified with both proofs      *)
(* while the lease ran, it is asked once however often the order is        *)
(* delivered, the two implementations agree, and effects are allowed only  *)
(* inside the freshness window.                                            *)
THEOREM EffectsNeedBothProofs ==
  Broker!WindowAssumption =>
    (Broker!Spec => /\ [](/\ Broker!ExecutedUnderBothProofs /\ Broker!ExecutedOnce
                          /\ Broker!LanguagesAgree)
                    /\ [][Broker!NoLateEffects]_(Broker!vars))
<1> SUFFICES ASSUME Broker!WindowAssumption
             PROVE  Broker!Spec => /\ [](/\ Broker!ExecutedUnderBothProofs /\ Broker!ExecutedOnce
                                         /\ Broker!LanguagesAgree)
                                   /\ [][Broker!NoLateEffects]_(Broker!vars)
  OBVIOUS
<1>1. Broker!Init => BrokerInv
  BY DEF Broker!Init, BrokerInv, OrderIsValid, SessionHasOrder, VerifiedOnce, ExecutionsProved
<1>2. BrokerInv /\ [Broker!Next]_(Broker!vars) => BrokerInv'
  BY BrokerSteps
<1>3. BrokerInv => Broker!ExecutedUnderBothProofs
  BY DEF BrokerInv, ExecutionsProved, Proved, Broker!ExecutedUnderBothProofs
<1>4. BrokerInv => Broker!ExecutedOnce
  <2> SUFFICES ASSUME BrokerInv
               PROVE  Cardinality(executions) <= 1
    BY BrokerCount DEF Broker!ExecutedOnce
  <2> QED
    BY FS_Singleton, FS_EmptySet DEF BrokerInv, ExecutionsProved
<1>5. BrokerInv => Broker!LanguagesAgree
  <2> SUFFICES ASSUME BrokerInv
               PROVE  Broker!LanguagesAgree
    OBVIOUS
  <2>1. order # None => Broker!PayloadValidTS(order)
    BY DEF BrokerInv, OrderIsValid, Broker!Orders, Broker!PayloadValid, Broker!PayloadValidTS
  <2>2. session = "verified" => (Broker!Resumes(snapshot) <=> Broker!ResumesTS(snapshot, consumed \ {order}))
    BY DEF BrokerInv, VerifiedOnce, Broker!Resumes, Broker!ResumesTS
  <2>3. /\ Broker!PlaceTS(request) # None => Broker!Place(request) = Broker!PlaceTS(request)
        /\ "workstation" \in request.needs => Broker!Place(request) = Broker!PlaceTS(request)
    BY PlacementsAgree DEF BrokerInv
  <2> QED
    BY <2>1, <2>2, <2>3 DEF Broker!LanguagesAgree
<1>6. BrokerInv /\ [Broker!Next]_(Broker!vars) => [Broker!NoLateEffects]_(Broker!vars)
  BY BrokerSteps
<1> QED
  BY <1>1, <1>2, <1>3, <1>4, <1>5, <1>6, PTL DEF Broker!Spec

-----------------------------------------------------------------------------
(* One call of a Plugin tool (PluginCall), for any limits, any number of   *)
(* redirects and any answers.  A call that got as far as a request has     *)
(* narrowing limits, so the limit in force is the least of the two.        *)
CONSTANTS MaxLimit, MaxRedirects, Undefined
VARIABLES mode, declared, authorized, stage, url, hops, aborted, requests, result, out

Call == INSTANCE PluginCall

(* One request for each redirect that was followed, and one more once the  *)
(* last is under way.                                                      *)
RequestsMatchHops ==
  /\ requests \in Seq([url : Call!Urls, secret : BOOLEAN])
  /\ stage \in {"start", "secret"} => Len(requests) = 0 /\ hops = 0
  /\ stage = "connect" => Len(requests) = hops
  /\ stage = "sent" => Len(requests) = hops + 1
  /\ stage = "done" => Len(requests) <= hops + 1
  /\ url = Call!Home /\ Call!SecretsStayHome

CallIsNarrowed == mode = "call" /\ stage \in {"secret", "connect", "sent"} => Call!Narrows

CallInv == Call!TypeOK /\ RequestsMatchHops /\ CallIsNarrowed /\ Call!OutputWithinLimits

(* What passes the limits in force passes every limit that is stated.      *)
LEMMA AcceptedWithinLimits ==
  ASSUME Call!CallAssumption, Call!TypeOK, Call!Narrows,
         NEW o \in [bytes : Call!Sizes, records : Call!Sizes, valid : BOOLEAN], Call!Accepts(o)
  PROVE  /\ o.valid
         /\ \A l \in {declared, authorized} : /\ Call!Within(o.bytes, l["maxResponseBytes"])
                                              /\ Call!Within(o.records, l["maxRecords"])
<1>1. ASSUME NEW k \in Call!LimitKeys, NEW n \in Nat, Call!Within(n, Call!Effective(k))
      PROVE  Call!Within(n, declared[k]) /\ Call!Within(n, authorized[k])
  <2>1. /\ declared[k] \in Nat \cup {Undefined} /\ authorized[k] \in Nat \cup {Undefined}
        /\ authorized[k] # Undefined => declared[k] # Undefined /\ authorized[k] <= declared[k]
    BY DEF Call!TypeOK, Call!Limits, Call!Narrows, Call!CallAssumption
  <2> QED
    BY <1>1, <2>1 DEF Call!Within, Call!Effective, Call!CallAssumption
<1>2. o.bytes \in Nat /\ o.records \in Nat
  BY DEF Call!Sizes, Call!CallAssumption
<1>3. o.valid /\ Call!Within(o.bytes, Call!Effective("maxResponseBytes"))
      /\ Call!Within(o.records, Call!Effective("maxRecords"))
  BY DEF Call!Accepts
<1> QED
  BY <1>1, <1>2, <1>3 DEF Call!LimitKeys

LEMMA CallStarts ==
  ASSUME Call!CallAssumption, Call!Init
  PROVE  CallInv
<1>1. Call!TypeOK
  <2>1. /\ mode \in {"call", "probe"} /\ declared \in Call!Limits /\ authorized \in Call!Limits
        /\ plugin \in {"installed", "enabled", "degraded", "disabled"}
        /\ url = Call!Home /\ url \in Call!Urls
    BY DEF Call!Init, Call!Urls
  <2>2. hops \in 0 .. MaxRedirects /\ stage = "start" /\ result = "none"
    BY DEF Call!Init, Call!CallAssumption
  <2>3. bound \in BOOLEAN /\ aborted \in BOOLEAN
    BY Zenon DEF Call!Init
  <2> QED
    BY <2>1, <2>2, <2>3 DEF Call!TypeOK
<1>2. RequestsMatchHops
  <2>1. requests = << >> /\ stage = "start" /\ hops = 0 /\ url = Call!Home
    BY DEF Call!Init
  <2>2. requests \in Seq([url : Call!Urls, secret : BOOLEAN])
    BY <2>1
  <2>3. Len(requests) = 0 /\ Call!SecretsStayHome
    BY <2>1 DEF Call!SecretsStayHome
  <2> QED
    BY <2>1, <2>2, <2>3 DEF RequestsMatchHops
<1>3. CallIsNarrowed /\ Call!OutputWithinLimits
  BY DEF Call!Init, CallIsNarrowed, Call!OutputWithinLimits
<1> QED
  BY <1>1, <1>2, <1>3 DEF CallInv

(* The call before its request.                                            *)
LEMMA CallBegins ==
  ASSUME Call!CallAssumption, CallInv, Call!Start \/ Call!ResolveSecret
  PROVE  CallInv'
<1> USE DEF Call!Quiet, Call!config, Call!Finish
<1>1. Call!TypeOK'
  BY DEF CallInv, Call!TypeOK, Call!Start, Call!ResolveSecret, Call!CallAssumption
<1>2. RequestsMatchHops'
  BY DEF CallInv, RequestsMatchHops, Call!SecretsStayHome, Call!Start, Call!ResolveSecret
<1>3. CallIsNarrowed'
  BY DEF CallInv, CallIsNarrowed, Call!Narrows, Call!Start, Call!ResolveSecret
<1>4. Call!OutputWithinLimits'
  BY DEF CallInv, Call!TypeOK, Call!OutputWithinLimits, Call!Start, Call!ResolveSecret
<1> QED
  BY <1>1, <1>2, <1>3, <1>4 DEF CallInv

LEMMA CallConnects ==
  ASSUME Call!CallAssumption, CallInv, Call!Connect
  PROVE  CallInv'
<1> USE DEF Call!Quiet, Call!config, Call!Finish, Call!RequestFails
<1>1. Call!TypeOK'
  BY DEF CallInv, Call!TypeOK, Call!Connect, Call!CallAssumption
<1>2. RequestsMatchHops'
  <2>1. CASE UNCHANGED requests
    BY <2>1 DEF CallInv, RequestsMatchHops, Call!SecretsStayHome, Call!Connect
  <2>2. CASE stage' = "sent" /\ requests' = Append(requests, [url |-> url, secret |-> TRUE])
    <3> DEFINE q == [url |-> url, secret |-> TRUE]
    <3>1. q \in [url : Call!Urls, secret : BOOLEAN] /\ q.url = Call!Home
      BY DEF CallInv, Call!TypeOK, RequestsMatchHops
    <3>2. requests' = Append(requests, q) /\ requests \in Seq([url : Call!Urls, secret : BOOLEAN])
      BY <2>2 DEF CallInv, RequestsMatchHops
    <3> HIDE DEF q
    <3>3. /\ requests' \in Seq([url : Call!Urls, secret : BOOLEAN]) /\ Len(requests') = Len(requests) + 1
          /\ \A i \in DOMAIN requests' : requests'[i] = q \/ (i \in DOMAIN requests /\ requests'[i] = requests[i])
      BY <3>1, <3>2
    <3>4. Call!SecretsStayHome'
      BY <3>1, <3>3 DEF CallInv, RequestsMatchHops, Call!SecretsStayHome, Call!Home
    <3> QED
      BY <2>2, <3>3, <3>4 DEF CallInv, RequestsMatchHops, Call!Connect, Call!Home, Call!Urls
  <2> QED
    BY <2>1, <2>2 DEF Call!Connect
<1>3. CallIsNarrowed'
  BY DEF CallInv, CallIsNarrowed, Call!Narrows, Call!Connect
<1>4. Call!OutputWithinLimits'
  BY DEF CallInv, Call!TypeOK, Call!OutputWithinLimits, Call!Connect
<1> QED
  BY <1>1, <1>2, <1>3, <1>4 DEF CallInv

LEMMA CallAnswers ==
  ASSUME Call!CallAssumption, CallInv,
         NEW o \in [bytes : Call!Sizes, records : Call!Sizes, valid : BOOLEAN], Call!Answer(o)
  PROVE  CallInv'
<1> USE DEF Call!config, Call!Finish
<1>1. Call!TypeOK' /\ RequestsMatchHops' /\ CallIsNarrowed'
  BY DEF CallInv, Call!TypeOK, RequestsMatchHops, CallIsNarrowed, Call!SecretsStayHome, Call!Answer
<1>2. Call!OutputWithinLimits'
  <2>1. CASE ~Call!Accepts(o)
    BY <2>1 DEF Call!Answer, Call!OutputWithinLimits
  <2>2. CASE Call!Accepts(o)
    <3>1. out' = o /\ Call!Narrows /\ UNCHANGED <<declared, authorized>>
      BY <2>2 DEF Call!Answer, CallInv, CallIsNarrowed
    <3> QED
      BY <2>2, <3>1, AcceptedWithinLimits DEF CallInv, Call!OutputWithinLimits, Call!Within
  <2> QED
    BY <2>1, <2>2
<1> QED
  BY <1>1, <1>2 DEF CallInv

LEMMA CallEndsOrMoves ==
  ASSUME Call!CallAssumption, CallInv,
         \/ \E to \in Call!Urls : Call!FollowRedirect(to)
         \/ \E e \in BOOLEAN : Call!ProbeAnswer(e)
         \/ Call!Refuse \/ Call!AbortedCall \/ Call!Abort \/ UNCHANGED Call!vars
  PROVE  CallInv'
<1> USE DEF Call!Quiet, Call!config, Call!Finish, Call!RequestFails
<1>1. ASSUME NEW to \in Call!Urls, Call!FollowRedirect(to)
      PROVE  CallInv'
  <2>1. Call!TypeOK'
    BY <1>1 DEF CallInv, Call!TypeOK, Call!FollowRedirect, Call!RedirectAllowed, Call!CallAssumption
  <2>2. RequestsMatchHops'
    BY <1>1 DEF CallInv, Call!TypeOK, RequestsMatchHops, Call!SecretsStayHome, Call!FollowRedirect, Call!RedirectAllowed
  <2>3. CallIsNarrowed' /\ Call!OutputWithinLimits'
    BY <1>1 DEF CallInv, CallIsNarrowed, Call!Narrows, Call!OutputWithinLimits, Call!TypeOK, Call!FollowRedirect
  <2> QED
    BY <2>1, <2>2, <2>3 DEF CallInv
<1>2. ASSUME \/ \E e \in BOOLEAN : Call!ProbeAnswer(e)
             \/ Call!Refuse \/ Call!AbortedCall
      PROVE  CallInv'
  <2>1. Call!TypeOK'
    BY <1>2 DEF CallInv, Call!TypeOK, Call!ProbeAnswer, Call!Refuse, Call!AbortedCall
  <2>2. RequestsMatchHops'
    BY <1>2 DEF CallInv, Call!TypeOK, RequestsMatchHops, Call!SecretsStayHome, Call!ProbeAnswer, Call!Refuse, Call!AbortedCall
  <2>3. CallIsNarrowed' /\ Call!OutputWithinLimits'
    BY <1>2 DEF CallInv, CallIsNarrowed, Call!OutputWithinLimits, Call!TypeOK, Call!ProbeAnswer,
                Call!Refuse, Call!AbortedCall
  <2> QED
    BY <2>1, <2>2, <2>3 DEF CallInv
<1>3. CASE Call!Abort \/ UNCHANGED Call!vars
  BY <1>3 DEF CallInv, Call!TypeOK, RequestsMatchHops, CallIsNarrowed, Call!Narrows, Call!SecretsStayHome,
              Call!OutputWithinLimits, Call!Within, Call!Abort, Call!vars
<1> QED
  BY <1>1, <1>2, <1>3

(* What a call returns is valid and within every stated limit, the secret  *)
(* header goes to the governed origin only, and there is at most one       *)
(* request more than the redirects a call may follow, however often it is  *)
(* redirected or aborted (callTool, assertScopeNarrowsTool,                *)
(* defaultHttpRequester).                                                  *)
THEOREM CallsAreContained ==
  Call!CallAssumption =>
    (Call!Spec => [](Call!TypeOK /\ Call!OutputWithinLimits /\ Call!SecretsStayHome /\ Call!BoundedRequests))
<1> SUFFICES ASSUME Call!CallAssumption
             PROVE  Call!Spec => [](Call!TypeOK /\ Call!OutputWithinLimits /\ Call!SecretsStayHome
                                    /\ Call!BoundedRequests)
  OBVIOUS
<1>1. Call!Init => CallInv
  BY CallStarts
<1>2. CallInv /\ [Call!Next]_(Call!vars) => CallInv'
  BY CallBegins, CallConnects, CallAnswers, CallEndsOrMoves DEF Call!Next, Call!Process, Call!Network
<1>3. CallInv => Call!TypeOK /\ Call!OutputWithinLimits /\ Call!SecretsStayHome /\ Call!BoundedRequests
  <2>1. ASSUME CallInv PROVE Call!BoundedRequests
    <3>1. hops \in 0 .. MaxRedirects /\ MaxRedirects \in Nat /\ Len(requests) <= hops + 1
      BY <2>1 DEF CallInv, Call!TypeOK, RequestsMatchHops, Call!CallAssumption
    <3>2. Len(requests) \in Nat
      BY <2>1 DEF CallInv, RequestsMatchHops
    <3> QED
      BY <3>1, <3>2 DEF Call!BoundedRequests
  <2> QED
    BY <2>1 DEF CallInv, RequestsMatchHops
<1> QED
  BY <1>1, <1>2, <1>3, PTL DEF Call!Spec

-----------------------------------------------------------------------------
(* The authority of a run.                                                 *)

CONSTANTS Versions, Entry, Pins, Plugins, Uses, Declared, Limits, MaxRows
VARIABLES rows, grants, creating, grantedRun, calls

Authority == INSTANCE PluginAuthority WITH run <- grantedRun

(* Cardinality and finiteness mean the same in the instance.               *)
LEMMA SameAuthorityCount ==
  ASSUME NEW S
  PROVE  Authority!Cardinality(S) = Cardinality(S) /\ (Authority!IsFiniteSet(S) <=> IsFiniteSet(S))
<1>1. Authority!IsFiniteSet(S) <=> IsFiniteSet(S)
  BY Zenon DEF Authority!IsFiniteSet, IsFiniteSet
<1>2. Authority!Cardinality(S) = Cardinality(S)
  BY Zenon DEF Authority!Cardinality, Cardinality, Authority!IsFiniteSet, IsFiniteSet
<1> QED
  BY <1>1, <1>2

LEMMA SmallestNumber ==
  ASSUME NEW T, T \subseteq Nat, T # {}
  PROVE  \E x \in T : \A y \in T : x <= y
<1>1. IsWellFoundedOn(OpToRel(<, Nat), Nat)
  BY NatLessThanWellFounded
<1>2. PICK x \in T : \A y \in T : ~(<<y, x>> \in OpToRel(<, Nat))
  BY <1>1, WFMin, Zenon
<1>3. \A y \in T : ~(y < x)
  BY <1>2 DEF OpToRel
<1> QED
  BY <1>3

(* Chain(n): where chains of n pins' ends lie that begin at the entry.     *)
Chain(c, n) ==
  /\ c \in [1..n -> Versions] /\ c[1] = Entry
  /\ \A i \in 1..n - 1 : <<c[i], c[i + 1]>> \in Pins

Joined(c, i, j, n) == [k \in 1..(n - (j - i)) |-> IF k <= i THEN c[k] ELSE c[k + (j - i)]]

(* A chain that visits a version twice can be cut short.                   *)
LEMMA ChainCut ==
  ASSUME NEW n \in Nat, NEW c, Chain(c, n), NEW i \in 1..n, NEW j \in 1..n, i < j, c[i] = c[j]
  PROVE  /\ n - (j - i) \in 1..n - 1
         /\ Chain(Joined(c, i, j, n), n - (j - i))
         /\ Joined(c, i, j, n)[n - (j - i)] = c[n]
<1> DEFINE m == n - (j - i)
           d == Joined(c, i, j, n)
<1>1. m \in 1..n - 1 /\ i <= m /\ m \in Nat
  OBVIOUS
<1>2. \A k \in 1..m : (k <= i => d[k] = c[k]) /\ (k > i => d[k] = c[k + (j - i)] /\ k + (j - i) \in 1..n)
  BY DEF Joined
<1>3. \A k \in 1..m : d[k] \in Versions
  BY <1>2 DEF Chain
<1>4. d \in [1..m -> Versions]
  BY <1>3 DEF Joined
<1>5. d[1] = Entry
  BY <1>1, <1>2 DEF Chain
<1>6. ASSUME NEW k \in 1..m - 1 PROVE <<d[k], d[k + 1]>> \in Pins
  <2>1. k \in 1..m /\ k + 1 \in 1..m
    BY <1>1
  <2>2. CASE k < i
    <3>1. d[k] = c[k] /\ d[k + 1] = c[k + 1] /\ k \in 1..n - 1
      BY <1>1, <1>2, <2>1, <2>2
    <3> QED
      BY <3>1 DEF Chain
  <2>3. CASE k = i
    <3>1. d[k] = c[j] /\ d[k + 1] = c[j + 1] /\ j \in 1..n - 1
      <4>1. d[k] = c[i]
        BY <1>2, <2>1, <2>3
      <4>2. d[k + 1] = c[k + 1 + (j - i)] /\ k + 1 + (j - i) = j + 1
        BY <1>2, <2>1, <2>3
      <4>3. j \in 1..n - 1
        BY <2>3
      <4> QED
        BY <4>1, <4>2, <4>3
    <3> QED
      BY <3>1 DEF Chain
  <2>4. CASE k > i
    <3>1. d[k] = c[k + (j - i)] /\ d[k + 1] = c[k + 1 + (j - i)] /\ k + (j - i) \in 1..n - 1
          /\ k + 1 + (j - i) = k + (j - i) + 1
      BY <1>1, <1>2, <2>1, <2>4
    <3> HIDE DEF d
    <3> QED
      BY <3>1 DEF Chain
  <2> QED
    BY <2>2, <2>3, <2>4
<1>7. d[m] = c[n]
  <2>1. CASE m = i
    BY <1>1, <1>2, <2>1
  <2>2. CASE m > i
    <3>1. m + (j - i) = n /\ m \in 1..m
      BY <1>1
    <3> QED
      BY <1>2, <2>2, <3>1
  <2> QED
    BY <1>1, <2>1, <2>2
<1> HIDE DEF d, m
<1>8. Chain(d, m)
  BY <1>4, <1>5, <1>6 DEF Chain
<1> QED
  BY <1>1, <1>7, <1>8 DEF d, m

(* The search for what the entry reaches finds nothing that no chain of    *)
(* pins leads to, and chains longer than there are versions find nothing   *)
(* that shorter ones do not.                                               *)
LEMMA ReachedByChains ==
  ASSUME Authority!ReleaseAssumption
  PROVE  Authority!Reachable \subseteq Authority!ChainsFromEntry
<1> DEFINE Lengths(v) == {n \in Nat \ {0} : \E c : Chain(c, n) /\ c[n] = v}
           Ends == {v \in Versions : Lengths(v) # {}}
<1>1. /\ IsFiniteSet(Versions) /\ Entry \in Versions /\ Pins \subseteq Versions \X Versions
      /\ Cardinality(Versions) \in Nat /\ Authority!Cardinality(Versions) = Cardinality(Versions)
  BY SameAuthorityCount, FS_CardinalityType DEF Authority!ReleaseAssumption
<1>2. Entry \in Ends
  <2> DEFINE c == [k \in 1..1 |-> Entry]
  <2>1. Chain(c, 1) /\ c[1] = Entry
    BY <1>1 DEF Chain
  <2>2. 1 \in Lengths(Entry)
    BY <2>1
  <2> QED
    BY <1>1, <2>2
<1>3. ASSUME NEW p \in Pins, p[1] \in Ends PROVE p[2] \in Ends
  <2>1. p = <<p[1], p[2]>> /\ p[2] \in Versions
    BY <1>1
  <2>1a. PICK n \in Nat \ {0} : \E c : Chain(c, n) /\ c[n] = p[1]
    BY <1>3
  <2>2. PICK c : Chain(c, n) /\ c[n] = p[1]
    BY <2>1a
  <2> DEFINE e == [k \in 1..n + 1 |-> IF k <= n THEN c[k] ELSE p[2]]
  <2>3. \A k \in 1..n : e[k] = c[k]
    OBVIOUS
  <2>4. e[n + 1] = p[2]
    OBVIOUS
  <2>5. e \in [1..n + 1 -> Versions]
    BY <2>1, <2>2 DEF Chain
  <2>6. e[1] = Entry
    BY <2>2, <2>3 DEF Chain
  <2>7. ASSUME NEW k \in 1..(n + 1) - 1 PROVE <<e[k], e[k + 1]>> \in Pins
    <3>1. CASE k = n
      <4>1. k \in 1..n /\ e[k] = p[1] /\ e[k + 1] = p[2]
        BY <2>2, <2>3, <2>4, <3>1
      <4> HIDE DEF e
      <4> QED
        BY <1>3, <2>1, <4>1
    <3>2. CASE k # n
      <4>1. k \in 1..n - 1 /\ k + 1 \in 1..n /\ k \in 1..n
        BY <3>2
      <4> HIDE DEF e
      <4> QED
        BY <2>2, <2>3, <4>1 DEF Chain
    <3> QED
      BY <3>1, <3>2
  <2> HIDE DEF e
  <2>8. Chain(e, n + 1)
    BY <2>5, <2>6, <2>7 DEF Chain
  <2>9. n + 1 \in Lengths(p[2])
    BY <2>4, <2>8
  <2> QED
    BY <2>1, <2>9
<1>4. Authority!Reachable \subseteq Ends
  <2> HIDE DEF Ends
  <2>1. Ends \in SUBSET Versions
    BY DEF Ends
  <2> QED
    BY <1>2, <1>3, <2>1 DEF Authority!Reachable
<1>5. ASSUME NEW v \in Ends PROVE v \in Authority!ChainsFromEntry
  <2>1. PICK n \in Lengths(v) : \A m \in Lengths(v) : n <= m
    <3>1. Lengths(v) \subseteq Nat /\ Lengths(v) # {}
      BY <1>5
    <3> HIDE DEF Lengths
    <3> QED
      BY <3>1, SmallestNumber
  <2>2. PICK c : Chain(c, n) /\ c[n] = v
    BY <2>1
  <2>3. n \in Nat \ {0}
    OBVIOUS
  <2>4. ASSUME Cardinality(Versions) < n PROVE FALSE
    <3>1. IsFiniteSet(1..n) /\ Cardinality(1..n) = n
      <4>1. IsFiniteSet(1..n) /\ Cardinality(1..n) = IF 1 > n THEN 0 ELSE n - 1 + 1
        BY <2>3, FS_Interval
      <4> QED
        BY <2>3, <4>1
    <3>2. c \in [1..n -> Versions]
      BY <2>2 DEF Chain
    <3>3. PICK x \in 1..n, y \in 1..n : x # y /\ c[x] = c[y]
      BY <1>1, <2>4, <3>1, <3>2, FS_PigeonHole
    <3>4. PICK i \in 1..n, j \in 1..n : i < j /\ c[i] = c[j]
      <4>1. CASE x < y
        BY <3>3, <4>1
      <4>2. CASE y < x
        BY <3>3, <4>2
      <4> QED
        BY <3>3, <4>1, <4>2
    <3> DEFINE m == n - (j - i)
               d == Joined(c, i, j, n)
    <3>5. m \in 1..n - 1 /\ Chain(d, m) /\ d[m] = c[n]
      BY <2>2, <2>3, <3>4, ChainCut
    <3> HIDE DEF m, d
    <3>6. m \in Lengths(v) /\ m < n
      BY <2>2, <2>3, <3>5
    <3> QED
      BY <2>1, <2>3, <3>6
  <2>5. n \in 1..Cardinality(Versions)
    BY <1>1, <2>3, <2>4
  <2> QED
    BY <1>1, <2>2, <2>5 DEF Authority!ChainsFromEntry, Chain
<1> QED
  BY <1>4, <1>5

(* Scopes that were materialized name an installation of what the entry    *)
(* reaches.  What a run requires was derived from the declarations that    *)
(* the entry's dependencies name, for an installation its creator sees.    *)
Placed(s) ==
  /\ s.row \in Authority!Rows /\ rows[s.row].plugin = s.plugin
  /\ s.plugin \in Authority!Reachable /\ s.limit \in Nat

Derived(r) ==
  LET c == Authority!Capability(r.plugin, r.tool) IN
  /\ r.effect = c.effect /\ r.limit = c.limit /\ r.approvalRequired = Authority!ApprovalRequired(c)
  /\ \E u \in Uses : u.plugin = r.plugin /\ u.tool = r.tool /\ u.by \in Authority!Reachable

(* p sees the installation; it is the workspace's only if those of p's     *)
(* department that were there when it was chosen are gone.                 *)
Located(p, r) ==
  /\ r.row \in Authority!Rows /\ rows[r.row].plugin = r.plugin
  /\ Authority!Visible(p, r.row)
  /\ 1..r.known \subseteq Authority!Rows
  /\ p.department # "none" /\ rows[r.row].department = "none" =>
       \A i \in 1..r.known :
         rows[i].plugin = r.plugin /\ rows[i].department = p.department
           => rows[i].state = "uninstalled"

Bound(r) == Located(grantedRun.by, r)

(* A call was made under a scope the run's grant still has.                *)
Granted(c) ==
  \E s \in grants[grantedRun.grant].scopes :
    /\ s.row = c.requirement.row /\ s.plugin = c.requirement.plugin /\ s.tool = c.requirement.tool
    /\ c.n <= s.limit /\ s.limit <= c.requirement.limit

RowStates == {"installed", "enabled", "disabled", "uninstalled"}
GrantNames == {"standing", "perRun"}
RunStates == {"paused_plugin", "queued", "awaiting_approval", "running", "failed", "succeeded"}

AuthorityTyped ==
  /\ rows \in Seq([plugin : Plugins, department : {"sales", "none"}, state : RowStates])
  /\ DOMAIN grants = GrantNames
  /\ \A g \in GrantNames : grants[g] = [active |-> grants[g].active, scopes |-> grants[g].scopes]
  /\ IsFiniteSet(calls) /\ \A c \in calls : c = [requirement |-> c.requirement, n |-> c.n] /\ c.n \in Nat

RunTyped ==
  LET k == grantedRun IN
  /\ k = [state |-> k.state, by |-> k.by, required |-> k.required, plan |-> k.plan,
          approved |-> k.approved, stop |-> k.stop, grant |-> k.grant]
  /\ k.state \in RunStates /\ k.grant \in GrantNames \cup {"none"} /\ k.approved \in BOOLEAN
  /\ k.by \in Authority!Principals
  /\ k.state \in {"queued", "running", "succeeded"} =>
       k.grant \in GrantNames /\ Authority!Covered(k.required, grants[k.grant].scopes)
  /\ \A r \in k.required : Derived(r) /\ Bound(r)

CallsTyped ==
  calls # {} =>
    /\ grantedRun.state \in {"running", "failed", "succeeded"} /\ grantedRun.grant \in GrantNames
    /\ \A c \in calls : /\ c.requirement \in grantedRun.required /\ Granted(c)
                        /\ c.requirement.approvalRequired => grantedRun.approved

(* What a createRun under way has read so far.                             *)
CreatingTyped ==
  creating # Authority!Nothing =>
    /\ creating = [stage |-> creating.stage, by |-> creating.by, grant |-> creating.grant,
                   required |-> creating.required, unavailable |-> creating.unavailable]
    /\ grantedRun.state = "none" /\ creating.by \in Authority!Principals
    /\ creating.grant.active => creating.grant.scopes \subseteq grants["standing"].scopes
    /\ \A r \in creating.required : Derived(r) /\ Located(creating.by, r)

AuthorityInv ==
  /\ AuthorityTyped
  /\ \A g \in GrantNames : \A s \in grants[g].scopes : Placed(s)
  /\ IF grantedRun.state = "none" THEN calls = {} ELSE RunTyped /\ CallsTyped

LEMMA NewestIsOne ==
  ASSUME NEW n \in Nat, NEW S, S \subseteq 1..n, S # {}
  PROVE  Authority!Newest(S) \in S
<1> DEFINE Below == {n - i : i \in S}
<1>1. Below \subseteq Nat /\ Below # {}
  <2>1. \A i \in S : n - i \in Nat
    OBVIOUS
  <2>2. PICK i \in S : TRUE
    OBVIOUS
  <2>3. n - i \in Below
    OBVIOUS
  <2> QED
    BY <2>1, <2>3
<1>2. PICK d \in Below : \A e \in Below : d <= e
  <2> HIDE DEF Below
  <2> QED
    BY <1>1, SmallestNumber
<1>3. PICK i \in S : d = n - i
  BY <1>2
<1>4. ASSUME NEW j \in S PROVE j <= i
  <2>1. n - j \in Below /\ i \in Nat /\ j \in Nat
    OBVIOUS
  <2>2. n - i <= n - j
    BY <1>2, <1>3, <2>1
  <2> QED
    BY <2>1, <2>2
<1>5. \E i_1 \in S : \A j \in S : j <= i_1
  BY <1>3, <1>4
<1> HIDE DEF Below
<1> QED
  BY <1>5 DEF Authority!Newest

(* Rows come and change state, what they install stays, and one that was   *)
(* uninstalled stays so.                                                   *)
RowsStay ==
  \A i \in Authority!Rows :
    /\ i \in Authority!Rows' /\ rows'[i].plugin = rows[i].plugin
    /\ rows'[i].department = rows[i].department
    /\ rows[i].state = "uninstalled" => rows'[i].state = "uninstalled"

(* A run that moves without a new grant keeps what is known of it.         *)
LEMMA QuietStep ==
  ASSUME AuthorityInv, UNCHANGED <<grants, calls>>,
         rows' \in Seq([plugin : Plugins, department : {"sales", "none"}, state : RowStates]),
         RowsStay,
         \/ grantedRun.state = "none" /\ UNCHANGED grantedRun
         \/ /\ grantedRun.state # "none"
            /\ grantedRun' = [state |-> grantedRun'.state, by |-> grantedRun.by,
                              required |-> grantedRun.required, plan |-> grantedRun.plan,
                              approved |-> grantedRun.approved, stop |-> grantedRun'.stop,
                              grant |-> grantedRun.grant]
            /\ grantedRun'.state \in RunStates
            /\ grantedRun'.state \in {"queued", "running", "succeeded"} =>
                 grantedRun.state \in {"queued", "running", "succeeded"}
            /\ calls # {} => grantedRun'.state \in {"running", "failed", "succeeded"}
  PROVE  AuthorityInv'
<1>1. ASSUME NEW s, Placed(s) PROVE Placed(s)'
  BY <1>1 DEF Placed, Authority!Reachable, RowsStay
<1>2. ASSUME NEW r, Bound(r), grantedRun'.by = grantedRun.by PROVE Bound(r)'
  BY <1>2 DEF Bound, Located, Authority!Visible, RowsStay
<1>3. ASSUME NEW r, Derived(r) PROVE Derived(r)'
  BY <1>3 DEF Derived, Authority!Capability, Authority!ApprovalRequired, Authority!Reachable
<1>4. AuthorityTyped'
  BY DEF AuthorityInv, AuthorityTyped
<1>5. \A g \in GrantNames : \A s \in grants'[g].scopes : Placed(s)'
  BY <1>1 DEF AuthorityInv
<1>6. CASE grantedRun.state = "none" /\ UNCHANGED grantedRun
  BY <1>4, <1>5, <1>6 DEF AuthorityInv
<1>7. CASE grantedRun.state # "none"
  <2> DEFINE k == grantedRun
  <2>1. /\ k' = [state |-> k'.state, by |-> k.by, required |-> k.required, plan |-> k.plan,
                 approved |-> k.approved, stop |-> k'.stop, grant |-> k.grant]
        /\ k'.state \in RunStates /\ k'.state # "none"
        /\ k'.state \in {"queued", "running", "succeeded"} => k.state \in {"queued", "running", "succeeded"}
        /\ calls # {} => k'.state \in {"running", "failed", "succeeded"}
    BY <1>7 DEF RunStates
  <2>2. /\ k'.by = k.by /\ k'.required = k.required /\ k'.plan = k.plan
        /\ k'.approved = k.approved /\ k'.grant = k.grant
    BY <2>1
  <2>3. RunTyped /\ CallsTyped
    BY <1>7 DEF AuthorityInv
  <2>4. \A r \in k'.required : Derived(r)' /\ Bound(r)'
    BY <1>2, <1>3, <2>2, <2>3 DEF RunTyped
  <2>5. /\ k' = [state |-> k'.state, by |-> k'.by, required |-> k'.required, plan |-> k'.plan,
                 approved |-> k'.approved, stop |-> k'.stop, grant |-> k'.grant]
    BY <2>1, <2>2
  <2>6. k'.state \in {"queued", "running", "succeeded"} =>
          k'.grant \in GrantNames /\ Authority!Covered(k'.required, grants'[k'.grant].scopes)
    BY <2>1, <2>2, <2>3 DEF RunTyped
  <2>7. k'.grant \in GrantNames \cup {"none"} /\ k'.approved \in BOOLEAN /\ k'.by \in Authority!Principals
    BY <2>2, <2>3 DEF RunTyped
  <2>8. RunTyped'
    BY <2>1, <2>4, <2>5, <2>6, <2>7 DEF RunTyped, Authority!Covered, Authority!Principals
  <2>9. \A c : Granted(c) => Granted(c)'
    BY <2>2 DEF Granted
  <2>10. CallsTyped'
    BY <2>1, <2>2, <2>3, <2>9 DEF CallsTyped
  <2> QED
    BY <1>4, <1>5, <2>1, <2>8, <2>10 DEF AuthorityInv
<1> QED
  BY <1>6, <1>7

(* Grants that lose no scope keep what runs and calls rest on.             *)
LEMMA GrantStep ==
  ASSUME AuthorityInv, UNCHANGED <<rows, grantedRun, calls>>, DOMAIN grants' = GrantNames,
         \A g \in GrantNames : /\ grants'[g] = [active |-> grants'[g].active, scopes |-> grants'[g].scopes]
                               /\ \A s \in grants'[g].scopes : Placed(s)
                               /\ grants[g].scopes \subseteq grants'[g].scopes
  PROVE  AuthorityInv'
<1>1. AuthorityTyped'
  BY DEF AuthorityInv, AuthorityTyped
<1>2. \A g \in GrantNames : \A s \in grants'[g].scopes : Placed(s)'
  BY DEF Placed, Authority!Rows, Authority!Reachable
<1>3. \A r : (Derived(r) => Derived(r)') /\ (Bound(r) => Bound(r)')
  BY DEF Derived, Bound, Located, Authority!Rows, Authority!Visible, Authority!Reachable,
         Authority!Capability, Authority!ApprovalRequired
<1>4. CASE grantedRun.state = "none"
  BY <1>1, <1>2, <1>4 DEF AuthorityInv
<1>5. CASE grantedRun.state # "none"
  <2>1. RunTyped /\ CallsTyped
    BY <1>5 DEF AuthorityInv
  <2>2. \A g \in GrantNames : \A op : Authority!Covered(op, grants[g].scopes) =>
                                       Authority!Covered(op, grants'[g].scopes)
    BY DEF Authority!Covered
  <2>3. RunTyped'
    BY <1>3, <2>1, <2>2 DEF RunTyped, Authority!Covered, Authority!Principals
  <2>4. ASSUME NEW c, Granted(c), grantedRun.grant \in GrantNames PROVE Granted(c)'
    BY <2>4 DEF Granted
  <2>5. CallsTyped'
    BY <2>1, <2>4 DEF CallsTyped
  <2> QED
    BY <1>1, <1>2, <1>5, <2>3, <2>5 DEF AuthorityInv
<1> QED
  BY <1>4, <1>5

(* What a person's request becomes is placed.                              *)
LEMMA RequestIsPlaced ==
  ASSUME Authority!ReleaseAssumption, NEW p, NEW q \in Authority!RequestedScopes,
         Authority!Acceptable(p, q), NEW s \in Authority!Materialized(q)
  PROVE  Placed(s)
<1>1. PICK t \in q : s = [row |-> t.row, plugin |-> rows[t.row].plugin, tool |-> t.tool,
                          limit |-> t.limit,
                          effect |-> Authority!Capability(rows[t.row].plugin, t.tool).effect]
  BY DEF Authority!Materialized
<1>2. t.limit \in Nat
  BY DEF Authority!RequestedScopes, Authority!ReleaseAssumption
<1>3. t.row \in Authority!Rows /\ rows[t.row].plugin \in Authority!Reachable
  BY DEF Authority!Acceptable
<1> QED
  BY <1>1, <1>2, <1>3 DEF Placed

(* A requirement is derived for the one who creates the run.               *)
LEMMA RequirementsAreBound ==
  ASSUME AuthorityTyped, NEW p \in Authority!Principals, NEW t \in Authority!RequiredPlugins,
         NEW r, r = Authority!Requirement(p, t), r.row # 0
  PROVE  Derived(r) /\ Located(p, r)
<1>1. r = [row |-> Authority!InstallationFor(p, t.plugin), plugin |-> t.plugin, tool |-> t.tool,
           effect |-> Authority!Capability(t.plugin, t.tool).effect,
           limit |-> Authority!Capability(t.plugin, t.tool).limit,
           approvalRequired |-> Authority!ApprovalRequired(Authority!Capability(t.plugin, t.tool)),
           known |-> Len(rows)]
  BY DEF Authority!Requirement
<1>2. /\ r.plugin = t.plugin /\ r.tool = t.tool /\ r.row = Authority!InstallationFor(p, r.plugin)
      /\ r.effect = Authority!Capability(r.plugin, r.tool).effect
      /\ r.limit = Authority!Capability(r.plugin, r.tool).limit
      /\ r.approvalRequired = Authority!ApprovalRequired(Authority!Capability(r.plugin, r.tool))
      /\ r.known = Len(rows)
  BY <1>1
<1>3. PICK u \in Uses : u.by \in Authority!Reachable /\ t = [plugin |-> u.plugin, tool |-> u.tool]
  BY DEF Authority!RequiredPlugins
<1>4. Derived(r)
  BY <1>2, <1>3 DEF Derived
<1> DEFINE own == Authority!Candidates(p, r.plugin, p.department)
           all == Authority!Candidates(p, r.plugin, "none")
<1>5. r.row = IF own # {} THEN Authority!Newest(own) ELSE IF all # {} THEN Authority!Newest(all) ELSE 0
  BY <1>2 DEF Authority!InstallationFor
<1>6. Len(rows) \in Nat /\ own \subseteq 1..Len(rows) /\ all \subseteq 1..Len(rows)
  BY DEF AuthorityTyped, Authority!Candidates, Authority!Rows
<1> HIDE DEF own, all
<1>7. (own # {} /\ r.row \in own) \/ (own = {} /\ r.row \in all)
  BY <1>5, <1>6, NewestIsOne
<1>8. r.row \in Authority!Rows /\ rows[r.row].plugin = r.plugin /\ Authority!Visible(p, r.row)
  BY <1>7 DEF own, all, Authority!Candidates
<1>9. r.row \in own => rows[r.row].department = p.department
  BY DEF own, Authority!Candidates
<1>10. own = {} => \A i \in Authority!Rows : ~(rows[i].plugin = r.plugin /\ rows[i].state # "uninstalled"
                                               /\ rows[i].department = p.department)
  BY DEF own, Authority!Candidates, Authority!Visible
<1>11. Located(p, r)
  BY <1>2, <1>7, <1>8, <1>9, <1>10 DEF Located, Authority!Rows
<1> QED
  BY <1>4, <1>11

PluginRow == [plugin : Plugins, department : {"sales", "none"}, state : RowStates]

(* The rows after an installation came, or changed state.                  *)
LEMMA RowsEvolve ==
  ASSUME AuthorityTyped,
         \/ \E v \in Plugins, d \in {"sales", "none"} : Authority!Install(v, d)
         \/ \E i \in Authority!Rows : Authority!Enable(i) \/ Authority!Disable(i) \/ Authority!Uninstall(i)
  PROVE  rows' \in Seq(PluginRow) /\ RowsStay
<1>1. /\ rows \in Seq(PluginRow) /\ Authority!Rows = 1..Len(rows) /\ Len(rows) \in Nat
      /\ Authority!Rows' = 1..Len(rows')
  BY DEF AuthorityTyped, Authority!Rows, PluginRow
<1>2. ASSUME NEW v \in Plugins, NEW d \in {"sales", "none"}, Authority!Install(v, d)
      PROVE  rows' \in Seq(PluginRow) /\ RowsStay
  <2> DEFINE new == [plugin |-> v, department |-> d, state |-> "installed"]
  <2>1. rows' = Append(rows, new)
    BY <1>2 DEF Authority!Install
  <2>2. new \in PluginRow
    BY DEF RowStates, PluginRow
  <2> HIDE DEF new
  <2>3. rows' \in Seq(PluginRow) /\ Len(rows') = Len(rows) + 1 /\ \A i \in 1..Len(rows) : rows'[i] = rows[i]
    BY <1>1, <2>1, <2>2
  <2> QED
    BY <1>1, <2>3 DEF RowsStay
<1>3. ASSUME NEW i \in Authority!Rows, NEW s \in RowStates, rows' = [rows EXCEPT ![i].state = s],
             rows[i].state = "uninstalled" => s = "uninstalled"
      PROVE  rows' \in Seq(PluginRow) /\ RowsStay
  <2>1. rows[i] \in PluginRow
    BY <1>1
  <2> DEFINE new == [rows[i] EXCEPT !.state = s]
  <2>2. /\ new \in PluginRow /\ new.plugin = rows[i].plugin /\ new.department = rows[i].department
        /\ new.state = s
    BY <2>1 DEF PluginRow
  <2>3. rows' = [rows EXCEPT ![i] = new]
    BY <1>1, <1>3, <2>1
  <2> HIDE DEF new
  <2>4. rows' \in Seq(PluginRow) /\ Len(rows') = Len(rows)
        /\ \A j \in 1..Len(rows) : rows'[j] = IF j = i THEN new ELSE rows[j]
    BY <1>1, <2>2, <2>3
  <2> QED
    BY <1>1, <1>3, <2>2, <2>4 DEF RowsStay
<1>4. ASSUME NEW i \in Authority!Rows,
             Authority!Enable(i) \/ Authority!Disable(i) \/ Authority!Uninstall(i)
      PROVE  rows' \in Seq(PluginRow) /\ RowsStay
  <2>1. "enabled" \in RowStates /\ "disabled" \in RowStates /\ "uninstalled" \in RowStates
    BY DEF RowStates
  <2> QED
    BY <1>3, <1>4, <2>1 DEF Authority!Enable, Authority!Disable, Authority!Uninstall
<1> QED
  BY <1>2, <1>4

LEMMA RowSteps ==
  ASSUME AuthorityInv, UNCHANGED <<grants, calls>>,
         \/ \E v \in Plugins, d \in {"sales", "none"} : Authority!Install(v, d)
         \/ \E i \in Authority!Rows : Authority!Enable(i) \/ Authority!Disable(i) \/ Authority!Uninstall(i)
  PROVE  AuthorityInv'
<1>1. rows' \in Seq([plugin : Plugins, department : {"sales", "none"}, state : RowStates]) /\ RowsStay
  BY RowsEvolve DEF AuthorityInv, PluginRow
<1>2. \/ grantedRun.state = "none"
      \/ /\ grantedRun.state # "none" /\ RunTyped /\ CallsTyped
         /\ grantedRun = [state |-> grantedRun.state, by |-> grantedRun.by, required |-> grantedRun.required,
                          plan |-> grantedRun.plan, approved |-> grantedRun.approved,
                          stop |-> grantedRun.stop, grant |-> grantedRun.grant]
         /\ grantedRun.state \in RunStates
  BY DEF AuthorityInv, RunTyped
<1>3. calls # {} => grantedRun.state \in {"running", "failed", "succeeded"}
  BY <1>2 DEF AuthorityInv, CallsTyped
<1>4. CASE UNCHANGED grantedRun
  BY <1>1, <1>2, <1>3, <1>4, QuietStep
<1>5. ASSUME NEW i \in Authority!Rows, Authority!Disable(i) PROVE AuthorityInv'
  <2>1. \/ grantedRun' = grantedRun
        \/ grantedRun.state = "queued" /\ grantedRun' = [grantedRun EXCEPT !.state = "paused_plugin"]
        \/ grantedRun.state = "running" /\ grantedRun' = [grantedRun EXCEPT !.stop = TRUE]
    BY <1>5 DEF Authority!Disable
  <2>2. CASE grantedRun' = grantedRun
    BY <1>4, <2>2
  <2>3. CASE grantedRun.state = "queued" /\ grantedRun' = [grantedRun EXCEPT !.state = "paused_plugin"]
    <3>1. grantedRun' = [state |-> "paused_plugin", by |-> grantedRun.by, required |-> grantedRun.required,
                         plan |-> grantedRun.plan, approved |-> grantedRun.approved,
                         stop |-> grantedRun.stop, grant |-> grantedRun.grant]
      BY <1>2, <2>3
    <3>2. /\ grantedRun'.state = "paused_plugin" /\ grantedRun'.stop = grantedRun.stop /\ calls = {}
          /\ "paused_plugin" \in RunStates
      BY <1>3, <2>3, <3>1 DEF RunStates
    <3> QED
      BY <1>1, <2>3, <3>1, <3>2, QuietStep
  <2>4. CASE grantedRun.state = "running" /\ grantedRun' = [grantedRun EXCEPT !.stop = TRUE]
    <3>1. grantedRun' = [state |-> "running", by |-> grantedRun.by, required |-> grantedRun.required,
                         plan |-> grantedRun.plan, approved |-> grantedRun.approved,
                         stop |-> TRUE, grant |-> grantedRun.grant]
      BY <1>2, <2>4
    <3>2. grantedRun'.state = "running" /\ grantedRun'.stop = TRUE /\ "running" \in RunStates
      BY <3>1 DEF RunStates
    <3> QED
      BY <1>1, <2>4, <3>1, <3>2, QuietStep
  <2> QED
    BY <2>1, <2>2, <2>3, <2>4
<1> QED
  BY <1>4, <1>5 DEF Authority!Install, Authority!Enable, Authority!Uninstall

LEMMA GrantSteps ==
  ASSUME Authority!ReleaseAssumption, AuthorityInv,
         \/ \E p \in Authority!Principals, q \in Authority!RequestedScopes : Authority!CreateGrant(p, q)
         \/ \E g \in DOMAIN grants : Authority!Revoke(g)
  PROVE  AuthorityInv'
<1>1. /\ DOMAIN grants = GrantNames
      /\ \A g \in GrantNames : grants[g] = [active |-> grants[g].active, scopes |-> grants[g].scopes]
      /\ \A g \in GrantNames : \A s \in grants[g].scopes : Placed(s)
  BY DEF AuthorityInv, AuthorityTyped
<1>2. ASSUME NEW p \in Authority!Principals, NEW q \in Authority!RequestedScopes,
             Authority!CreateGrant(p, q)
      PROVE  AuthorityInv'
  <2> DEFINE scopes == Authority!Materialized(q)
  <2>1. /\ grants["standing"].scopes = {} /\ Authority!Acceptable(p, q)
        /\ grants' = [grants EXCEPT !["standing"] = [active |-> TRUE, scopes |-> scopes]]
        /\ UNCHANGED <<rows, grantedRun, calls>>
    BY <1>2 DEF Authority!CreateGrant, Authority!NoGrant
  <2>2. \A s \in scopes : Placed(s)
    BY <2>1, RequestIsPlaced
  <2> HIDE DEF scopes
  <2>3. /\ DOMAIN grants' = GrantNames
        /\ grants'["standing"] = [active |-> TRUE, scopes |-> scopes]
        /\ \A g \in GrantNames \ {"standing"} : grants'[g] = grants[g]
    BY <1>1, <2>1 DEF GrantNames
  <2>4. ASSUME NEW g \in GrantNames
        PROVE  /\ grants'[g] = [active |-> grants'[g].active, scopes |-> grants'[g].scopes]
               /\ \A s \in grants'[g].scopes : Placed(s)
               /\ grants[g].scopes \subseteq grants'[g].scopes
    <3>1. CASE g = "standing"
      BY <2>1, <2>2, <2>3, <3>1
    <3>2. CASE g # "standing"
      BY <1>1, <2>3, <3>2
    <3> QED
      BY <3>1, <3>2
  <2> QED
    BY <2>1, <2>3, <2>4, GrantStep
<1>3. ASSUME NEW g \in DOMAIN grants, Authority!Revoke(g) PROVE AuthorityInv'
  <2>1. grants' = [grants EXCEPT ![g].active = FALSE] /\ UNCHANGED <<rows, grantedRun, calls>> /\ g \in GrantNames
    BY <1>1, <1>3 DEF Authority!Revoke
  <2>2. DOMAIN grants' = GrantNames /\ \A h \in GrantNames \ {g} : grants'[h] = grants[h]
    BY <1>1, <2>1
  <2>3. grants'[g] = [active |-> FALSE, scopes |-> grants[g].scopes]
    <3>1. grants'[g] = [grants[g] EXCEPT !.active = FALSE]
      BY <1>1, <2>1
    <3>2. grants[g] = [active |-> grants[g].active, scopes |-> grants[g].scopes]
      BY <1>1, <2>1
    <3> QED
      BY <3>1, <3>2
  <2>4. ASSUME NEW h \in GrantNames
        PROVE  /\ grants'[h] = [active |-> grants'[h].active, scopes |-> grants'[h].scopes]
               /\ \A s \in grants'[h].scopes : Placed(s)
               /\ grants[h].scopes \subseteq grants'[h].scopes
    <3>1. CASE h = g
      BY <1>1, <2>3, <3>1
    <3>2. CASE h # g
      BY <1>1, <2>2, <3>2
    <3> QED
      BY <3>1, <3>2
  <2> QED
    BY <2>1, <2>2, <2>4, GrantStep
<1> QED
  BY <1>2, <1>3

LEMMA StillBound ==
  ASSUME UNCHANGED rows, grantedRun'.by = grantedRun.by, NEW r, Derived(r), Bound(r)
  PROVE  Derived(r)' /\ Bound(r)'
<1>1. Derived(r)'
  BY DEF Derived, Authority!Capability, Authority!ApprovalRequired, Authority!Reachable
<1>2. Bound(r)'
  BY DEF Bound, Located, Authority!Rows, Authority!Visible
<1> QED
  BY <1>1, <1>2

(* The insert of a run, its approval and its claim.                        *)
LEMMA RunSteps ==
  ASSUME Authority!ReleaseAssumption, AuthorityInv, CreatingTyped,
         \/ \E plan \in Authority!Plans : Authority!CommitCreateRun(plan)
         \/ \E p \in Authority!Principals, q \in Authority!RequestedScopes : Authority!ApproveRun(p, q)
         \/ Authority!Claim \/ Authority!Finish
  PROVE  AuthorityInv'
<1> DEFINE k == grantedRun
<1>1. k.state # "none" =>
        /\ RunTyped /\ CallsTyped
        /\ k = [state |-> k.state, by |-> k.by, required |-> k.required, plan |-> k.plan,
                approved |-> k.approved, stop |-> k.stop, grant |-> k.grant]
  BY DEF AuthorityInv, RunTyped
<1>2. k.state \in {"none", "queued", "awaiting_approval"} => calls = {}
  BY DEF AuthorityInv, CallsTyped
<1>3. AuthorityTyped
  BY DEF AuthorityInv
<1>4. ASSUME NEW plan \in Authority!Plans, Authority!CommitCreateRun(plan)
      PROVE  AuthorityInv'
  <2> DEFINE required == creating.required
             queued == /\ creating.grant.active
                       /\ Authority!Allows(creating.grant.scopes, required, FALSE)
  <2>1. /\ creating # Authority!Nothing /\ UNCHANGED <<rows, grants, calls>>
        /\ k' = [state |-> IF creating.unavailable THEN "paused_plugin"
                           ELSE IF queued THEN "queued" ELSE "awaiting_approval",
                 by |-> creating.by, required |-> required, plan |-> plan,
                 approved |-> FALSE, stop |-> FALSE,
                 grant |-> IF ~creating.unavailable /\ queued THEN "standing" ELSE "none"]
    BY <1>4 DEF Authority!CommitCreateRun
  <2>2. /\ calls = {} /\ creating.by \in Authority!Principals
        /\ creating.grant.active => creating.grant.scopes \subseteq grants["standing"].scopes
        /\ \A r \in required : Derived(r) /\ Located(creating.by, r)
    BY <1>2, <2>1 DEF CreatingTyped
  <2>3. queued => Authority!Covered(required, grants["standing"].scopes)
    BY <2>2 DEF Authority!Allows, Authority!Covered
  <2> HIDE DEF required, queued
  <2>4. /\ k'.by = creating.by /\ k'.required = required /\ k'.approved = FALSE /\ k'.stop = FALSE
        /\ k'.state \in {"paused_plugin", "queued", "awaiting_approval"} /\ k'.grant \in {"standing", "none"}
        /\ k'.state = "queued" => k'.grant = "standing" /\ queued
        /\ k' = [state |-> k'.state, by |-> k'.by, required |-> k'.required, plan |-> k'.plan,
                 approved |-> k'.approved, stop |-> k'.stop, grant |-> k'.grant]
    BY <2>1
  <2>5. \A r \in k'.required : Derived(r)' /\ Bound(r)'
    BY <2>1, <2>2, <2>4 DEF Derived, Bound, Located, Authority!Rows, Authority!Visible,
         Authority!Capability, Authority!ApprovalRequired, Authority!Reachable
  <2>6. RunTyped'
    BY <2>1, <2>2, <2>3, <2>4, <2>5 DEF RunTyped, RunStates, GrantNames, Authority!Covered,
         Authority!Principals
  <2>7. CallsTyped' /\ k'.state # "none"
    BY <2>1, <2>2, <2>4 DEF CallsTyped
  <2> QED
    BY <1>3, <2>1, <2>6, <2>7 DEF AuthorityInv, AuthorityTyped, Placed, Authority!Rows, Authority!Reachable
<1>5. ASSUME NEW p \in Authority!Principals, NEW q \in Authority!RequestedScopes, Authority!ApproveRun(p, q)
      PROVE  AuthorityInv'
  <2> DEFINE scopes == Authority!Materialized(q)
  <2>1. /\ k.state = "awaiting_approval" /\ Authority!Acceptable(p, q)
        /\ Authority!Covered(k.required, scopes)
        /\ grants' = [grants EXCEPT !["perRun"] = [active |-> TRUE, scopes |-> scopes]]
        /\ k' = [k EXCEPT !.state = "queued", !.grant = "perRun", !.approved = TRUE]
        /\ UNCHANGED <<rows, calls>>
    BY <1>5 DEF Authority!ApproveRun
  <2>2. \A s \in scopes : Placed(s)
    BY <2>1, RequestIsPlaced
  <2> HIDE DEF scopes
  <2>3. /\ DOMAIN grants' = GrantNames
        /\ grants'["perRun"] = [active |-> TRUE, scopes |-> scopes]
        /\ \A g \in GrantNames \ {"perRun"} : grants'[g] = grants[g]
    BY <1>3, <2>1 DEF GrantNames, AuthorityTyped
  <2>4. \A g \in GrantNames : /\ grants'[g] = [active |-> grants'[g].active, scopes |-> grants'[g].scopes]
                              /\ \A s \in grants'[g].scopes : Placed(s)
    <3> SUFFICES ASSUME NEW g \in GrantNames
                 PROVE  /\ grants'[g] = [active |-> grants'[g].active, scopes |-> grants'[g].scopes]
                        /\ \A s \in grants'[g].scopes : Placed(s)
      OBVIOUS
    <3>1. CASE g = "perRun"
      BY <2>2, <2>3, <3>1
    <3>2. CASE g # "perRun"
      BY <2>3, <3>2 DEF AuthorityInv, AuthorityTyped
    <3> QED
      BY <3>1, <3>2
  <2>5. k' = [state |-> "queued", by |-> k.by, required |-> k.required, plan |-> k.plan,
              approved |-> TRUE, stop |-> k.stop, grant |-> "perRun"]
    BY <1>1, <2>1
  <2>6. /\ k'.state = "queued" /\ k'.by = k.by /\ k'.required = k.required /\ k'.plan = k.plan
        /\ k'.approved = TRUE /\ k'.stop = k.stop /\ k'.grant = "perRun"
    BY <2>5
  <2>7. RunTyped /\ calls = {}
    BY <1>1, <1>2, <2>1
  <2>8. \A r \in k'.required : Derived(r)' /\ Bound(r)'
    <3>1. \A r \in k.required : Derived(r) /\ Bound(r)
      BY <2>7 DEF RunTyped
    <3> QED
      BY <2>1, <2>6, <3>1, StillBound
  <2>9. Authority!Covered(k'.required, grants'[k'.grant].scopes)
    BY <2>1, <2>3, <2>6 DEF Authority!Covered
  <2>10. RunTyped'
    BY <2>5, <2>6, <2>7, <2>8, <2>9 DEF RunTyped, RunStates, GrantNames, Authority!Covered, Authority!Principals
  <2>11. CallsTyped' /\ AuthorityTyped'
    BY <1>3, <2>1, <2>3, <2>4, <2>7 DEF CallsTyped, AuthorityTyped
  <2> QED
    BY <2>1, <2>4, <2>6, <2>10, <2>11 DEF AuthorityInv, Placed, Authority!Rows, Authority!Reachable
<1>6. CASE Authority!Claim
  <2>1. k.state = "queued" /\ UNCHANGED <<rows, grants, calls>> /\ calls = {} /\ RunTyped
    BY <1>1, <1>2, <1>6 DEF Authority!Claim
  <2>2. \/ k' = [k EXCEPT !.state = "running"]
        \/ k' = [k EXCEPT !.state = "awaiting_approval", !.grant = "none"]
    BY <1>6 DEF Authority!Claim
  <2>3. CASE k' = [k EXCEPT !.state = "running"]
    <3>1. k' = [state |-> "running", by |-> k.by, required |-> k.required, plan |-> k.plan,
                approved |-> k.approved, stop |-> k.stop, grant |-> k.grant]
      BY <1>1, <2>1, <2>3
    <3>2. k'.state = "running" /\ k'.stop = k.stop /\ "running" \in RunStates
      BY <3>1 DEF RunStates
    <3> QED
      BY <1>3, <2>1, <3>1, <3>2, QuietStep DEF AuthorityTyped, Authority!Rows, RowsStay
  <2>4. CASE k' = [k EXCEPT !.state = "awaiting_approval", !.grant = "none"]
    <3>1. k' = [state |-> "awaiting_approval", by |-> k.by, required |-> k.required, plan |-> k.plan,
                approved |-> k.approved, stop |-> k.stop, grant |-> "none"]
      BY <1>1, <2>1, <2>4
    <3>2. /\ k'.state = "awaiting_approval" /\ k'.by = k.by /\ k'.required = k.required /\ k'.plan = k.plan
          /\ k'.approved = k.approved /\ k'.stop = k.stop /\ k'.grant = "none"
      BY <3>1
    <3>3. \A r \in k'.required : Derived(r)' /\ Bound(r)'
      <4>1. \A r \in k.required : Derived(r) /\ Bound(r)
        BY <2>1 DEF RunTyped
      <4> QED
        BY <2>1, <3>2, <4>1, StillBound
    <3>4. RunTyped'
      BY <2>1, <3>1, <3>2, <3>3 DEF RunTyped, RunStates, Authority!Principals
    <3>5. CallsTyped' /\ AuthorityTyped'
      BY <1>3, <2>1 DEF CallsTyped, AuthorityTyped
    <3> QED
      BY <2>1, <3>2, <3>4, <3>5 DEF AuthorityInv, Placed, Authority!Rows, Authority!Reachable
  <2> QED
    BY <2>2, <2>3, <2>4
<1>7. CASE Authority!Finish
  <2>1. k.state = "running" /\ UNCHANGED <<rows, grants, calls>> /\ k' = [k EXCEPT !.state = "succeeded"]
    BY <1>7 DEF Authority!Finish
  <2>2. k' = [state |-> "succeeded", by |-> k.by, required |-> k.required, plan |-> k.plan,
              approved |-> k.approved, stop |-> k.stop, grant |-> k.grant]
    BY <1>1, <2>1
  <2>3. k'.state = "succeeded" /\ k'.stop = k.stop /\ "succeeded" \in RunStates
    BY <2>2 DEF RunStates
  <2> QED
    BY <1>3, <2>1, <2>2, <2>3, QuietStep DEF AuthorityTyped, Authority!Rows, RowsStay
<1> QED
  BY <1>4, <1>5, <1>6, <1>7

LEMMA CallStep ==
  ASSUME Authority!ReleaseAssumption, AuthorityInv, grantedRun.state = "running",
         NEW r \in grantedRun.required, Authority!Call(r)
  PROVE  AuthorityInv'
<1> DEFINE k == grantedRun
<1>1. /\ RunTyped /\ CallsTyped /\ AuthorityTyped /\ UNCHANGED <<rows, grants>>
      /\ k = [state |-> k.state, by |-> k.by, required |-> k.required, plan |-> k.plan,
              approved |-> k.approved, stop |-> k.stop, grant |-> k.grant]
  BY DEF AuthorityInv, RunTyped, Authority!Call
<1>2. PICK made \in Nat : made = Authority!Cardinality({c \in calls : c.requirement = r})
  <2>1. IsFiniteSet({c \in calls : c.requirement = r})
    BY <1>1, FS_Subset DEF AuthorityTyped
  <2> QED
    BY <2>1, FS_CardinalityType, SameAuthorityCount
<1>3. CASE Authority!Authorized(r)
  <2> DEFINE new == [requirement |-> r, n |-> made + 1]
  <2>1. calls' = calls \cup {new} /\ UNCHANGED grantedRun
    BY <1>2, <1>3 DEF Authority!Call
  <2>2. PICK s \in grants[k.grant].scopes : /\ s.row = r.row /\ s.plugin = r.plugin /\ s.tool = r.tool
                                            /\ s.limit <= r.limit /\ made < s.limit
    BY <1>2, <1>3 DEF Authority!Authorized, Authority!Narrowed
  <2>3. r.approvalRequired => k.approved
    BY <1>3 DEF Authority!Authorized
  <2>4. k.grant \in GrantNames /\ Placed(s)
    BY <1>1 DEF RunTyped, AuthorityInv
  <2>5. s.limit \in Nat
    BY <2>4 DEF Placed
  <2>6. new.requirement = r /\ new.n = made + 1 /\ new.n \in Nat /\ new.n <= s.limit
    BY <1>2, <2>2, <2>5
  <2>7. new = [requirement |-> new.requirement, n |-> new.n]
    OBVIOUS
  <2> HIDE DEF new
  <2>8. Granted(new)'
    BY <1>1, <2>1, <2>2, <2>6 DEF Granted
  <2>9. \A c : Granted(c) => Granted(c)'
    BY <1>1, <2>1 DEF Granted
  <2>10. CallsTyped'
    BY <1>1, <2>1, <2>3, <2>4, <2>6, <2>8, <2>9 DEF CallsTyped
  <2>11. IsFiniteSet(calls')
    BY <1>1, <2>1, FS_AddElement DEF AuthorityTyped
  <2>12. AuthorityTyped'
    BY <1>1, <2>1, <2>6, <2>7, <2>11 DEF AuthorityTyped
  <2>13. RunTyped'
    <3>1. \A q \in k.required : Derived(q)' /\ Bound(q)'
      <4>1. \A q \in k.required : Derived(q) /\ Bound(q)
        BY <1>1 DEF RunTyped
      <4> QED
        BY <1>1, <2>1, <4>1, StillBound
    <3> QED
      BY <1>1, <2>1, <3>1 DEF RunTyped, Authority!Covered, Authority!Principals
  <2>14. \A g \in GrantNames : \A s_1 \in grants'[g].scopes : Placed(s_1)'
    BY <1>1 DEF AuthorityInv, Placed, Authority!Rows, Authority!Reachable
  <2> QED
    BY <2>1, <2>10, <2>12, <2>13, <2>14 DEF AuthorityInv
<1>4. CASE ~Authority!Authorized(r)
  <2>1. k' = [k EXCEPT !.state = "failed"] /\ UNCHANGED calls
    BY <1>4 DEF Authority!Call
  <2>2. k' = [state |-> "failed", by |-> k.by, required |-> k.required, plan |-> k.plan,
              approved |-> k.approved, stop |-> k.stop, grant |-> k.grant]
    BY <1>1, <2>1
  <2>3. k'.state = "failed" /\ k'.stop = k.stop /\ "failed" \in RunStates
    BY <2>2 DEF RunStates
  <2> QED
    BY <1>1, <2>1, <2>2, <2>3, QuietStep DEF AuthorityTyped, Authority!Rows, RowsStay
<1> QED
  BY <1>3, <1>4

LEMMA AuthorityStarts == Authority!Init => AuthorityInv /\ CreatingTyped
<1> SUFFICES ASSUME Authority!Init PROVE AuthorityInv /\ CreatingTyped
  OBVIOUS
<1>1. rows = <<>> /\ calls = {} /\ grantedRun.state = "none" /\ creating = Authority!Nothing
  BY DEF Authority!Init
<1>2. grants = [g \in GrantNames |-> [active |-> FALSE, scopes |-> {}]]
  BY DEF Authority!Init, Authority!NoGrant, GrantNames
<1>3. AuthorityTyped
  BY <1>1, <1>2, FS_EmptySet DEF AuthorityTyped
<1>4. \A g \in GrantNames : grants[g].scopes = {}
  BY <1>2
<1> QED
  BY <1>1, <1>3, <1>4 DEF AuthorityInv, CreatingTyped

(* A step that does not touch what createRun has read.                     *)
LEMMA CreatingStays ==
  ASSUME CreatingTyped, UNCHANGED creating, RowsStay,
         grants["standing"].scopes \subseteq grants'["standing"].scopes,
         grantedRun.state = "none" => grantedRun'.state = "none"
  PROVE  CreatingTyped'
<1>1. \A r : Derived(r) => Derived(r)'
  BY DEF Derived, Authority!Capability, Authority!ApprovalRequired, Authority!Reachable
<1>2. \A p, r : Located(p, r) => Located(p, r)'
  BY DEF Located, RowsStay, Authority!Visible
<1> QED
  BY <1>1, <1>2 DEF CreatingTyped, Authority!Nothing, Authority!Principals

LEMMA CreatingSteps ==
  ASSUME AuthorityInv, CreatingTyped, [Authority!Next]_(Authority!vars)
  PROVE  CreatingTyped'
<1>1. ASSUME UNCHANGED rows PROVE RowsStay
  BY <1>1 DEF RowsStay, Authority!Rows
<1>2. CASE UNCHANGED Authority!vars
  BY <1>1, <1>2, CreatingStays DEF Authority!vars
<1>3. CASE \/ \E v \in Plugins, d \in {"sales", "none"} : Authority!Install(v, d)
           \/ \E i \in Authority!Rows : Authority!Enable(i) \/ Authority!Disable(i) \/ Authority!Uninstall(i)
  <2>1. UNCHANGED <<grants, creating>> /\ (grantedRun.state = "none" => grantedRun'.state = "none")
    BY <1>3 DEF Authority!Install, Authority!Enable, Authority!Disable, Authority!Uninstall
  <2> QED
    BY <1>3, <2>1, RowsEvolve, CreatingStays DEF AuthorityInv
<1>4. ASSUME NEW p \in Authority!Principals, NEW q \in Authority!RequestedScopes, Authority!CreateGrant(p, q)
      PROVE  CreatingTyped'
  <2>1. grants["standing"].scopes = {} /\ UNCHANGED <<rows, creating, grantedRun>>
    BY <1>4 DEF Authority!CreateGrant, Authority!NoGrant
  <2> QED
    BY <1>1, <2>1, CreatingStays
<1>5. ASSUME NEW g \in DOMAIN grants, Authority!Revoke(g) PROVE CreatingTyped'
  <2>1. UNCHANGED <<rows, creating, grantedRun>> /\ grants' = [grants EXCEPT ![g].active = FALSE]
    BY <1>5 DEF Authority!Revoke
  <2>2. grants["standing"].scopes \subseteq grants'["standing"].scopes
    <3>1. grants["standing"] = [active |-> grants["standing"].active, scopes |-> grants["standing"].scopes]
          /\ "standing" \in DOMAIN grants
      BY DEF AuthorityInv, AuthorityTyped, GrantNames
    <3> QED
      BY <2>1, <3>1
  <2> QED
    BY <1>1, <2>1, <2>2, CreatingStays
<1>6. CASE \/ \E p \in Authority!Principals, q \in Authority!RequestedScopes : Authority!ApproveRun(p, q)
           \/ Authority!Claim \/ Authority!Finish
           \/ grantedRun.state = "running" /\ \E r \in grantedRun.required : Authority!Call(r)
  <2>1. grantedRun.state # "none" /\ UNCHANGED creating
    BY <1>6 DEF Authority!ApproveRun, Authority!Claim, Authority!Finish, Authority!Call
  <2> QED
    BY <2>1 DEF CreatingTyped, Authority!Nothing
<1>7. ASSUME NEW p \in Authority!Principals, Authority!BeginCreateRun(p) PROVE CreatingTyped'
  <2>1. PICK g \in {grants["standing"], Authority!NoGrant} :
          creating' = [stage |-> "deriving", by |-> p, grant |-> g, required |-> {}, unavailable |-> FALSE]
    BY <1>7 DEF Authority!BeginCreateRun
  <2>2. /\ creating'.by = p /\ creating'.required = {} /\ creating'.grant = g
        /\ creating' = [stage |-> creating'.stage, by |-> creating'.by, grant |-> creating'.grant,
                        required |-> creating'.required, unavailable |-> creating'.unavailable]
    BY <2>1
  <2>3. grantedRun'.state = "none" /\ UNCHANGED grants /\ (g.active => g.scopes \subseteq grants["standing"].scopes)
    BY <1>7 DEF Authority!BeginCreateRun, Authority!NoGrant
  <2> QED
    BY <2>2, <2>3 DEF CreatingTyped, Authority!Principals
<1>8. ASSUME NEW q \in Authority!RequiredPlugins, Authority!DeriveRequirement(q) PROVE CreatingTyped'
  <2> DEFINE r == Authority!Requirement(creating.by, q)
  <2>1. /\ creating # Authority!Nothing /\ UNCHANGED <<rows, grants, grantedRun>>
        /\ creating' = IF r.row = 0 THEN Authority!Nothing
                       ELSE [creating EXCEPT !.required = @ \cup {r},
                                             !.unavailable = @ \/ rows[r.row].state # "enabled"]
    BY <1>8 DEF Authority!DeriveRequirement
  <2>2. CASE r.row = 0
    BY <2>1, <2>2 DEF CreatingTyped, Authority!Nothing
  <2>3. CASE r.row # 0
    <3>1. Derived(r) /\ Located(creating.by, r)
      BY <2>1, <2>3, RequirementsAreBound DEF CreatingTyped, AuthorityInv
    <3> HIDE DEF r
    <3> DEFINE closed == creating.unavailable \/ rows[r.row].state # "enabled"
    <3>2. creating' = [stage |-> creating.stage, by |-> creating.by, grant |-> creating.grant,
                       required |-> creating.required \cup {r}, unavailable |-> closed]
      BY <2>1, <2>3 DEF CreatingTyped
    <3> HIDE DEF closed
    <3>3. /\ creating'.by = creating.by /\ creating'.grant = creating.grant
          /\ creating'.required = creating.required \cup {r}
          /\ creating' = [stage |-> creating'.stage, by |-> creating'.by, grant |-> creating'.grant,
                          required |-> creating'.required, unavailable |-> creating'.unavailable]
      BY <3>2
    <3>4. \A t \in creating'.required : Derived(t) /\ Located(creating.by, t)
      BY <2>1, <3>1, <3>3 DEF CreatingTyped
    <3>5. \A t : Derived(t) => Derived(t)'
      BY DEF Derived, Authority!Capability, Authority!ApprovalRequired, Authority!Reachable
    <3>6. \A p, t : Located(p, t) => Located(p, t)'
      BY <2>1 DEF Located, Authority!Rows, Authority!Visible
    <3> QED
      BY <2>1, <3>3, <3>4, <3>5, <3>6 DEF CreatingTyped, Authority!Principals
  <2> QED
    BY <2>2, <2>3
<1>9. ASSUME NEW plan \in Authority!Plans, Authority!CommitCreateRun(plan) PROVE CreatingTyped'
  BY <1>9 DEF Authority!CommitCreateRun, CreatingTyped, Authority!Nothing
<1> QED
  BY <1>2, <1>3, <1>4, <1>5, <1>6, <1>7, <1>8, <1>9 DEF Authority!Next

LEMMA AuthoritySteps ==
  ASSUME Authority!ReleaseAssumption, AuthorityInv, CreatingTyped, [Authority!Next]_(Authority!vars)
  PROVE  AuthorityInv' /\ CreatingTyped'
<1>1. CASE \/ UNCHANGED Authority!vars
           \/ \E p \in Authority!Principals : Authority!BeginCreateRun(p)
           \/ \E q \in Authority!RequiredPlugins : Authority!DeriveRequirement(q)
  <2>1. UNCHANGED <<rows, grants, grantedRun, calls>>
    BY <1>1 DEF Authority!vars, Authority!BeginCreateRun, Authority!DeriveRequirement
  <2>2. DOMAIN grants = GrantNames
        /\ \A g \in GrantNames : /\ grants[g] = [active |-> grants[g].active, scopes |-> grants[g].scopes]
                                 /\ \A s \in grants[g].scopes : Placed(s)
    BY DEF AuthorityInv, AuthorityTyped
  <2> QED
    BY <2>1, <2>2, GrantStep, CreatingSteps
<1>2. CASE \/ \E v \in Plugins, d \in {"sales", "none"} : Authority!Install(v, d)
           \/ \E i \in Authority!Rows : Authority!Enable(i) \/ Authority!Disable(i) \/ Authority!Uninstall(i)
  <2>1. UNCHANGED <<grants, calls>>
    BY <1>2 DEF Authority!Install, Authority!Enable, Authority!Disable, Authority!Uninstall
  <2> QED
    BY <1>2, <2>1, RowSteps, CreatingSteps
<1>3. CASE grantedRun.state = "running" /\ \E r \in grantedRun.required : Authority!Call(r)
  BY <1>3, CallStep, CreatingSteps
<1> QED
  BY <1>1, <1>2, <1>3, GrantSteps, RunSteps, CreatingSteps DEF Authority!Next

(* Whatever is installed, granted, revoked or disabled between the grant,  *)
(* the run, its claim and its calls: a call is to a Plugin the entry's     *)
(* dependencies name and its chains of pins reach, under a scope of the    *)
(* run's grant for that installation and tool, within the scope's and the  *)
(* declaration's limit, approved by a person if it does more than read;    *)
(* and no run is queued or started outside its grant's scopes              *)
(* (deriveRunPluginRequirements, materializePluginScopes, grantBlockers,   *)
(* assertWorkerPluginAuthorization).                                       *)
THEOREM CallsAreAuthorized ==
  Authority!ReleaseAssumption =>
    (Authority!Spec => [](Authority!CallsWithinAuthority /\ Authority!EffectsAreApproved
                          /\ Authority!AdmittedIsCovered))
<1> SUFFICES ASSUME Authority!ReleaseAssumption
             PROVE  Authority!Spec => [](Authority!CallsWithinAuthority /\ Authority!EffectsAreApproved
                                         /\ Authority!AdmittedIsCovered)
  OBVIOUS
<1>1. Authority!Init => AuthorityInv /\ CreatingTyped
  BY AuthorityStarts
<1>2. AuthorityInv /\ CreatingTyped /\ [Authority!Next]_(Authority!vars) => AuthorityInv' /\ CreatingTyped'
  BY AuthoritySteps
<1>3. AuthorityInv => Authority!CallsWithinAuthority /\ Authority!EffectsAreApproved /\ Authority!AdmittedIsCovered
  <2> SUFFICES ASSUME AuthorityInv
               PROVE  Authority!CallsWithinAuthority /\ Authority!EffectsAreApproved /\ Authority!AdmittedIsCovered
    OBVIOUS
  <2> DEFINE k == grantedRun
  <2>1. ASSUME NEW c \in calls
        PROVE  /\ c.n \in Nat /\ k.grant \in GrantNames
               /\ Derived(c.requirement) /\ Bound(c.requirement) /\ Granted(c)
               /\ c.requirement.approvalRequired => k.approved
    BY DEF AuthorityInv, RunTyped, CallsTyped, AuthorityTyped
  <2>2. ASSUME NEW c \in calls, NEW r, r = c.requirement
        PROVE  /\ \E u \in Uses : u.plugin = r.plugin /\ u.tool = r.tool /\ u.by \in Authority!ChainsFromEntry
               /\ r.plugin \in Authority!ChainsFromEntry
               /\ rows[r.row].plugin = r.plugin /\ Authority!Visible(k.by, r.row)
               /\ \E s \in grants[k.grant].scopes :
                    /\ s.row = r.row /\ s.tool = r.tool
                    /\ c.n <= s.limit /\ s.limit <= Authority!Capability(r.plugin, r.tool).limit
    <3>1. PICK s \in grants[k.grant].scopes :
            /\ s.row = r.row /\ s.plugin = r.plugin /\ s.tool = r.tool
            /\ c.n <= s.limit /\ s.limit <= r.limit
      BY <2>1, <2>2 DEF Granted
    <3>2. s.plugin \in Authority!Reachable
      BY <2>1, <3>1 DEF AuthorityInv, Placed
    <3>3. r.limit = Authority!Capability(r.plugin, r.tool).limit
      BY <2>1, <2>2 DEF Derived
    <3>4. \E u \in Uses : u.plugin = r.plugin /\ u.tool = r.tool /\ u.by \in Authority!Reachable
      BY <2>1, <2>2 DEF Derived
    <3>5. rows[r.row].plugin = r.plugin /\ Authority!Visible(k.by, r.row)
      BY <2>1, <2>2 DEF Bound, Located
    <3> QED
      BY <3>1, <3>2, <3>3, <3>4, <3>5, ReachedByChains
  <2>3. Authority!CallsWithinAuthority
    BY <2>2 DEF Authority!CallsWithinAuthority
  <2>4. Authority!EffectsAreApproved
    <3> SUFFICES ASSUME NEW c \in calls,
                        \/ c.requirement.effect # "read"
                        \/ Authority!Capability(c.requirement.plugin, c.requirement.tool).approval = "approval_required"
                 PROVE  k.approved
      BY DEF Authority!EffectsAreApproved
    <3>1. c.requirement.approvalRequired
      BY <2>1 DEF Derived, Authority!ApprovalRequired
    <3> QED
      BY <2>1, <3>1
  <2>5. Authority!AdmittedIsCovered
    BY DEF AuthorityInv, RunTyped, Authority!Covered, Authority!AdmittedIsCovered
  <2> QED
    BY <2>3, <2>4, <2>5
<1> QED
  BY <1>1, <1>2, <1>3, PTL DEF Authority!Spec

(* However installations come and go while a run is being created and      *)
(* afterwards, the run of a department requires the workspace's            *)
(* installation of a Plugin only if the department's own ones that were    *)
(* there when the requirement was read are gone                            *)
(* (deriveRunPluginRequirements, createRun).                               *)
THEOREM DepartmentsKeepToTheirs ==
  Authority!ReleaseAssumption => (Authority!Spec => []Authority!NoFallback)
<1> SUFFICES ASSUME Authority!ReleaseAssumption
             PROVE  Authority!Spec => []Authority!NoFallback
  OBVIOUS
<1>1. Authority!Init => AuthorityInv /\ CreatingTyped
  BY AuthorityStarts
<1>2. AuthorityInv /\ CreatingTyped /\ [Authority!Next]_(Authority!vars) => AuthorityInv' /\ CreatingTyped'
  BY AuthoritySteps
<1>3. AuthorityInv => Authority!NoFallback
  BY DEF AuthorityInv, RunTyped, Bound, Located, Authority!NoFallback
<1> QED
  BY <1>1, <1>2, <1>3, PTL DEF Authority!Spec

-----------------------------------------------------------------------------
(* Paging through the catalog.                                             *)

CONSTANTS Families, Editions, PageLimit, NoCursor
VARIABLES agents, listedChampion, cursor, seen, stayed, listChanges

Pages == INSTANCE CatalogPages WITH
  Versions <- Editions, Limit <- PageLimit, None <- NoCursor,
  champion <- listedChampion, changes <- listChanges

Shown == {s[1] : s \in seen}

PagesInv ==
  /\ agents \in [Families -> SUBSET Editions]
  /\ listedChampion \in [Families -> Editions \cup {NoCursor}]
  /\ \A f \in Families : listedChampion[f] # NoCursor => listedChampion[f] \in agents[f]
  /\ cursor \in Families \cup {NoCursor, 0} /\ stayed \subseteq Pages!Listed
  /\ cursor \in Families => \A f \in stayed : f <= cursor => f \in Shown
  /\ cursor = 0 => stayed \subseteq Shown

LEMMA SamePageCount ==
  ASSUME NEW S
  PROVE  Pages!Cardinality(S) = Cardinality(S) /\ (Pages!IsFiniteSet(S) <=> IsFiniteSet(S))
<1>1. Pages!IsFiniteSet(S) <=> IsFiniteSet(S)
  BY Zenon DEF Pages!IsFiniteSet, IsFiniteSet
<1>2. Pages!Cardinality(S) = Cardinality(S)
  BY Zenon DEF Pages!Cardinality, Cardinality, Pages!IsFiniteSet, IsFiniteSet
<1> QED
  BY <1>1, <1>2

LEMMA LargestNumber ==
  ASSUME NEW S, S \subseteq Nat, IsFiniteSet(S), S # {}
  PROVE  \E m \in S : \A i \in S : i <= m
<1> DEFINE Above(m) == {i \in S : i > m}
           Counts == {Cardinality(Above(m)) : m \in S}
<1>1. \A m \in S : IsFiniteSet(Above(m)) /\ Cardinality(Above(m)) \in Nat
  BY FS_Subset, FS_CardinalityType
<1>2. Counts \subseteq Nat /\ Counts # {}
  BY <1>1
<1>3. PICK c \in Counts : \A d \in Counts : c <= d
  <2> HIDE DEF Counts
  <2> QED
    BY <1>2, SmallestNumber
<1>4. PICK m \in S : c = Cardinality(Above(m))
  BY <1>3
<1>5. ASSUME NEW i \in S, i > m PROVE FALSE
  <2>1. Above(i) \subseteq Above(m) /\ i \in Above(m) /\ i \notin Above(i)
    <3>1. i \in Nat /\ m \in Nat
      OBVIOUS
    <3>2. ASSUME NEW j \in S, j > i PROVE j > m
      <4>1. j \in Nat
        OBVIOUS
      <4> QED
        BY <1>5, <3>1, <3>2, <4>1
    <3>3. ~(i > i)
      BY <3>1
    <3> QED
      BY <1>5, <3>2, <3>3
  <2>2. Cardinality(Above(m)) <= Cardinality(Above(i))
    BY <1>3, <1>4
  <2>3. IsFiniteSet(Above(m)) /\ Cardinality(Above(m)) \in Nat /\ Cardinality(Above(i)) \in Nat
    BY <1>1
  <2> HIDE DEF Above
  <2>4. Cardinality(Above(i)) <= Cardinality(Above(m)) /\ (Cardinality(Above(m)) = Cardinality(Above(i)) => Above(m) = Above(i))
    BY <2>1, <2>3, FS_Subset
  <2>5. Above(m) = Above(i)
    BY <2>2, <2>3, <2>4
  <2> QED
    BY <2>1, <2>5
<1>6. \A i \in S : i <= m
  BY <1>5
<1> QED
  BY <1>6

(* A page holds the first entries of what remains; where there is no       *)
(* further page it holds everything.                                       *)
LEMMA PageIsFirst ==
  ASSUME Pages!CatalogAssumption
  PROVE  /\ Pages!Page \subseteq Pages!Remaining
         /\ \A f \in Pages!Page, g \in Pages!Remaining : g < f => g \in Pages!Page
         /\ Cardinality(Pages!Remaining) <= PageLimit => Pages!Page = Pages!Remaining
<1> DEFINE R == Pages!Remaining
           Before(f) == {g \in R : g < f}
<1>1. R \subseteq Nat /\ IsFiniteSet(R) /\ Cardinality(R) \in Nat /\ PageLimit \in Nat
  <2>1. R \subseteq Families
    BY DEF Pages!Remaining, Pages!Listed
  <2>2. Families \subseteq Nat /\ IsFiniteSet(Families)
    BY SamePageCount DEF Pages!CatalogAssumption
  <2> HIDE DEF R
  <2> QED
    BY <2>1, <2>2, FS_Subset, FS_CardinalityType DEF Pages!CatalogAssumption
<1>2. Pages!Page = {f \in R : Cardinality(Before(f)) < PageLimit}
  BY SamePageCount DEF Pages!Page
<1> HIDE DEF R
<1>3. \A f \in R : IsFiniteSet(Before(f)) /\ Cardinality(Before(f)) \in Nat
  BY <1>1, FS_Subset, FS_CardinalityType
<1>4. ASSUME NEW f \in Pages!Page, NEW g \in R, g < f PROVE g \in Pages!Page
  <2>1. f \in R /\ Cardinality(Before(f)) < PageLimit /\ Before(g) \subseteq Before(f)
    <3>1. f \in R /\ Cardinality(Before(f)) < PageLimit
      BY <1>2
    <3>2. f \in Nat /\ g \in Nat /\ \A h \in R : h \in Nat
      BY <1>1, <3>1
    <3>3. \A h \in R : h < g => h < f
      BY <1>4, <3>2
    <3> QED
      BY <3>1, <3>3
  <2>2. IsFiniteSet(Before(f)) /\ Cardinality(Before(f)) \in Nat /\ Cardinality(Before(g)) \in Nat
    BY <1>3, <2>1
  <2> HIDE DEF Before
  <2>3. Cardinality(Before(g)) <= Cardinality(Before(f))
    BY <2>1, <2>2, FS_Subset
  <2>4. Cardinality(Before(g)) < PageLimit
    BY <1>1, <2>1, <2>2, <2>3
  <2> QED
    BY <1>2, <2>4
<1>5. ASSUME Cardinality(R) <= PageLimit, NEW f \in R PROVE f \in Pages!Page
  <2>1. Before(f) \subseteq R /\ f \notin Before(f) /\ Cardinality(Before(f)) \in Nat
    BY <1>1, <1>3
  <2> HIDE DEF Before
  <2>2. Cardinality(Before(f)) <= Cardinality(R) /\ (Cardinality(R) = Cardinality(Before(f)) => R = Before(f))
    BY <1>1, <2>1, FS_Subset
  <2>3. Cardinality(Before(f)) < PageLimit
    BY <1>1, <1>5, <2>1, <2>2
  <2> QED
    BY <1>2, <2>3
<1> QED
  BY <1>2, <1>4, <1>5 DEF R

LEMMA PagesStep ==
  ASSUME Pages!CatalogAssumption, PagesInv, [Pages!Next]_(Pages!vars)
  PROVE  PagesInv'
<1>1. CASE Pages!Fetch
  <2>1. /\ UNCHANGED <<agents, listedChampion, stayed>> /\ cursor # 0
        /\ seen' = seen \union {<<f, Pages!Representative(f)>> : f \in Pages!Page}
        /\ IF Cardinality(Pages!Remaining) > PageLimit
           THEN cursor' \in {f \in Pages!Page : \A g \in Pages!Page : g <= f}
           ELSE cursor' = 0
    BY <1>1, SamePageCount DEF Pages!Fetch
  <2>2. Shown' = Shown \cup Pages!Page
    <3> DEFINE new == {<<f, Pages!Representative(f)>> : f \in Pages!Page}
    <3>1. seen' = seen \cup new
      BY <2>1
    <3>2. {s[1] : s \in new} = Pages!Page
      <4>1. \A f \in Pages!Page : <<f, Pages!Representative(f)>> \in new
        OBVIOUS
      <4>2. \A s \in new : s[1] \in Pages!Page
        OBVIOUS
      <4> HIDE DEF new
      <4>3. ASSUME NEW f \in Pages!Page PROVE f \in {s[1] : s \in new}
        <5>1. PICK t \in new : t = <<f, Pages!Representative(f)>>
          BY <4>1
        <5>2. t[1] = f
          BY <5>1
        <5> QED
          BY <5>1, <5>2
      <4> QED
        BY <4>2, <4>3
    <3> HIDE DEF new
    <3> QED
      BY <3>1, <3>2 DEF Shown
  <2>3. /\ Families \subseteq Nat \ {0} /\ NoCursor \notin Families /\ PageLimit \in Nat
        /\ Pages!Listed \subseteq Families /\ stayed \subseteq Pages!Listed
    BY DEF Pages!CatalogAssumption, Pages!Listed, PagesInv
  <2>4. Pages!Remaining \subseteq Pages!Listed /\ Pages!Page \subseteq Pages!Remaining
    BY PageIsFirst DEF Pages!Remaining
  <2>5. ASSUME NEW f \in stayed, f \notin Pages!Remaining PROVE f \in Shown
    BY <2>3, <2>5 DEF Pages!Remaining, PagesInv
  <2>6. CASE Cardinality(Pages!Remaining) > PageLimit
    <3>1. cursor' \in Pages!Page
      BY <2>1, <2>6
    <3>2. ASSUME NEW f \in stayed, f <= cursor' PROVE f \in Shown'
      <4>1. CASE f \in Pages!Remaining
        <5>1. f = cursor' \/ f < cursor'
          BY <2>3, <2>4, <3>1, <3>2
        <5> QED
          BY <2>2, <3>1, <4>1, <5>1, PageIsFirst
      <4>2. CASE f \notin Pages!Remaining
        BY <2>2, <2>5, <4>2
      <4> QED
        BY <4>1, <4>2
    <3>3. cursor' \in Families /\ cursor' # 0
      BY <2>3, <2>4, <3>1
    <3> QED
      BY <2>1, <3>2, <3>3 DEF PagesInv, Pages!Listed
  <2>7. CASE ~(Cardinality(Pages!Remaining) > PageLimit)
    <3>1. cursor' = 0 /\ cursor' \notin Families
      BY <2>1, <2>3, <2>7
    <3>2. Pages!Page = Pages!Remaining
      <4>1. Cardinality(Pages!Remaining) \in Nat
        <5>1. IsFiniteSet(Families) /\ Pages!Remaining \subseteq Families
          BY <2>3, <2>4, SamePageCount DEF Pages!CatalogAssumption
        <5> QED
          BY <5>1, FS_Subset, FS_CardinalityType
      <4> QED
        BY <2>3, <2>7, <4>1, PageIsFirst
    <3>3. stayed \subseteq Shown'
      BY <2>2, <2>5, <3>2
    <3> QED
      BY <2>1, <3>1, <3>3 DEF PagesInv, Pages!Listed
  <2> QED
    BY <2>6, <2>7
<1>2. ASSUME NEW f \in Families, NEW v \in Editions, Pages!Change(f, v) PROVE PagesInv'
  <2>1. /\ agents \in [Families -> SUBSET Editions]
        /\ listedChampion \in [Families -> Editions \cup {NoCursor}]
        /\ \A g \in Families : listedChampion[g] # NoCursor => listedChampion[g] \in agents[g]
        /\ stayed' = stayed \ {g \in Families : agents'[g] = {}} /\ UNCHANGED <<cursor, seen>>
        /\ NoCursor \notin Editions
    BY <1>2 DEF Pages!Change, PagesInv, Pages!CatalogAssumption
  <2>2. \/ agents' = [agents EXCEPT ![f] = @ \union {v}] /\ UNCHANGED listedChampion
        \/ v \in agents[f] /\ listedChampion' = [listedChampion EXCEPT ![f] = v] /\ UNCHANGED agents
        \/ /\ agents' = [agents EXCEPT ![f] = @ \ {v}]
           /\ listedChampion' = [listedChampion EXCEPT ![f] = IF @ = v THEN NoCursor ELSE @]
    BY <1>2 DEF Pages!Change
  <2>3. agents' \in [Families -> SUBSET Editions] /\ listedChampion' \in [Families -> Editions \cup {NoCursor}]
    BY <2>1, <2>2
  <2>4. \A g \in Families : listedChampion'[g] # NoCursor => listedChampion'[g] \in agents'[g]
    BY <2>1, <2>2
  <2>5. stayed' \subseteq stayed /\ stayed' \subseteq Pages!Listed'
    BY <2>1 DEF PagesInv, Pages!Listed
  <2>6. Shown' = Shown
    BY <2>1 DEF Shown
  <2> QED
    BY <2>1, <2>3, <2>4, <2>5, <2>6 DEF PagesInv
<1>3. CASE UNCHANGED Pages!vars
  BY <1>3 DEF Pages!vars, PagesInv, Pages!Listed, Shown
<1> QED
  BY <1>1, <1>2, <1>3 DEF Pages!Next

LEMMA PagesStart == Pages!CatalogAssumption /\ Pages!Init => PagesInv
  BY DEF Pages!CatalogAssumption, Pages!Init, PagesInv, Pages!Listed

(* A client that has followed the cursor to the end was shown every family *)
(* that was listed all the time, whatever came, went and was retired       *)
(* between the pages, the family of the cursor included                    *)
(* (CatalogService.list).                                                  *)
THEOREM ListingSkipsNothing ==
  Pages!CatalogAssumption => (Pages!Spec => []Pages!NothingSkipped)
<1> SUFFICES ASSUME Pages!CatalogAssumption PROVE Pages!Spec => []Pages!NothingSkipped
  OBVIOUS
<1>1. Pages!Init => PagesInv
  BY PagesStart
<1>2. PagesInv /\ [Pages!Next]_(Pages!vars) => PagesInv'
  BY PagesStep
<1>3. PagesInv => Pages!NothingSkipped
  BY DEF PagesInv, Shown, Pages!NothingSkipped
<1> QED
  BY <1>1, <1>2, <1>3, PTL DEF Pages!Spec

(* What a page shows of a family is listed, is its champion if there is    *)
(* one, and its newest version otherwise (CatalogService.list).            *)
THEOREM ListingShowsChampions ==
  Pages!CatalogAssumption => (Pages!Spec => [][Pages!ShowsRepresentative]_(Pages!vars))
<1> SUFFICES ASSUME Pages!CatalogAssumption
             PROVE  Pages!Spec => [][Pages!ShowsRepresentative]_(Pages!vars)
  OBVIOUS
<1>1. Pages!Init => PagesInv
  BY PagesStart
<1>2. PagesInv /\ [Pages!Next]_(Pages!vars) => PagesInv'
  BY PagesStep
<1>3. PagesInv /\ [Pages!Next]_(Pages!vars) => [Pages!ShowsRepresentative]_(Pages!vars)
  <2> SUFFICES ASSUME PagesInv, Pages!Next, NEW s \in seen' \ seen
               PROVE  /\ s[2] \in agents[s[1]]
                      /\ listedChampion[s[1]] # NoCursor => s[2] = listedChampion[s[1]]
                      /\ listedChampion[s[1]] = NoCursor => \A w \in agents[s[1]] : w <= s[2]
    BY DEF Pages!ShowsRepresentative
  <2>1. seen' = seen \union {<<f, Pages!Representative(f)>> : f \in Pages!Page}
    BY DEF Pages!Next, Pages!Change, Pages!Fetch
  <2>2. PICK f \in Pages!Page : s = <<f, Pages!Representative(f)>>
    BY <2>1
  <2>3. f \in Families /\ agents[f] # {}
    BY PageIsFirst DEF Pages!Remaining, Pages!Listed
  <2>4. /\ agents[f] \subseteq Editions /\ agents[f] \subseteq Nat /\ IsFiniteSet(agents[f])
        /\ NoCursor \notin agents[f]
        /\ listedChampion[f] # NoCursor => listedChampion[f] \in agents[f]
    <3>1. agents[f] \subseteq Editions /\ IsFiniteSet(Editions) /\ Editions \subseteq Nat /\ NoCursor \notin Editions
      BY <2>3, SamePageCount DEF PagesInv, Pages!CatalogAssumption
    <3>2. IsFiniteSet(agents[f])
      BY <3>1, FS_Subset
    <3> QED
      BY <2>3, <3>1, <3>2 DEF PagesInv
  <2>5. CASE listedChampion[f] # NoCursor
    BY <2>2, <2>4, <2>5 DEF Pages!Representative
  <2>6. CASE listedChampion[f] = NoCursor
    <3>1. \E v \in agents[f] : \A w \in agents[f] : w <= v
      BY <2>3, <2>4, LargestNumber
    <3>2. Pages!Representative(f) = CHOOSE v \in agents[f] : \A w \in agents[f] : w <= v
      BY <2>4, <2>6 DEF Pages!Representative
    <3>3. Pages!Representative(f) \in agents[f] /\ \A w \in agents[f] : w <= Pages!Representative(f)
      BY <3>1, <3>2
    <3> QED
      BY <2>2, <2>6, <3>3
  <2> QED
    BY <2>5, <2>6
<1> QED
  BY <1>1, <1>2, <1>3, PTL DEF Pages!Spec

-----------------------------------------------------------------------------
(* The compositions of Skills a builder is shown.                          *)
CONSTANTS Requested, Extra, Skills, MaxSkills, MaxSuggestions
VARIABLES features, pinned, seeds, selected, found, suggested

Match == INSTANCE CapabilityMatch WITH pins <- pinned, shown <- suggested

(* Grown(S, seed): what the inner loop may have made of a seed.            *)
Grown(S, seed) ==
  /\ seed \in S /\ S \subseteq Skills /\ IsFiniteSet(S) /\ Cardinality(S) <= MaxSkills
  /\ Cardinality(Match!CoveredBy(S)) >= Cardinality(Match!Matched(seed)) + Cardinality(S) - 1

(* What is asked of a composition that is kept.                            *)
IsSaturated(S) ==
  /\ Cardinality(S) = MaxSkills \/ \A s \in Skills : Match!Gain(s, S) = 0
  /\ \E s \in S : Cardinality(Match!CoveredBy(S)) >= Cardinality(Match!Matched(s)) + Cardinality(S) - 1

(* The inductive invariant.  A composition that is being grown belongs to  *)
(* the one seed that is tried next, which no step changes before it is     *)
(* complete.                                                               *)
MatchInv ==
  /\ features \in [Skills -> SUBSET (Requested \cup Extra)]
  /\ seeds \subseteq Match!Candidates
  /\ selected = {} \/ \E seed \in Match!First(seeds, {}) : Grown(selected, seed)
  /\ \A S \in found : S \subseteq Skills /\ Cardinality(S) \in 2 .. MaxSkills
  /\ \A S \in found : IsSaturated(S)

(* The module counts sets as this one does.                                *)
LEMMA SameMatchCount ==
  ASSUME NEW S
  PROVE  Match!Cardinality(S) = Cardinality(S) /\ (Match!IsFiniteSet(S) <=> IsFiniteSet(S))
<1>1. Match!IsFiniteSet(S) <=> IsFiniteSet(S)
  BY Zenon DEF Match!IsFiniteSet, IsFiniteSet
<1>2. Match!Cardinality(S) = Cardinality(S)
  BY Zenon DEF Match!Cardinality, Cardinality, Match!IsFiniteSet, IsFiniteSet
<1> QED
  BY <1>1, <1>2

(* What the definitions that count say, in these terms.                    *)
LEMMA MatchCounts ==
  /\ Match!MatchAssumption => /\ IsFiniteSet(Requested) /\ IsFiniteSet(Skills)
                              /\ Skills \subseteq Nat /\ MaxSkills \in Nat \ {0, 1}
  /\ \A s, S : Match!Gain(s, S) = Cardinality(Match!Matched(s) \ Match!CoveredBy(S))
  /\ \A S : Match!Growable(S) =
       {s \in Match!Candidates \ S : Cardinality(S) < MaxSkills /\ Match!CoveredBy(S) # Requested
                                       /\ Match!Gain(s, S) > 0}
  /\ Match!Saturated <=> \A S \in found : IsSaturated(S)
<1>1. Match!MatchAssumption => /\ IsFiniteSet(Requested) /\ IsFiniteSet(Skills)
                               /\ Skills \subseteq Nat /\ MaxSkills \in Nat \ {0, 1}
  BY SameMatchCount DEF Match!MatchAssumption
<1>2. \A s, S : Match!Gain(s, S) = Cardinality(Match!Matched(s) \ Match!CoveredBy(S))
  BY SameMatchCount DEF Match!Gain
<1>3. \A S : Match!Growable(S) =
        {s \in Match!Candidates \ S : Cardinality(S) < MaxSkills /\ Match!CoveredBy(S) # Requested
                                        /\ Match!Gain(s, S) > 0}
  BY SameMatchCount DEF Match!Growable
<1>4. Match!Saturated <=> \A S \in found : IsSaturated(S)
  BY SameMatchCount DEF Match!Saturated, IsSaturated
<1> QED
  BY <1>1, <1>2, <1>3, <1>4

(* What a Skill offers of a request is finite, and so is its gain.         *)
LEMMA GainsAreCounted ==
  ASSUME Match!MatchAssumption, NEW s, NEW S
  PROVE  /\ IsFiniteSet(Match!Matched(s)) /\ Cardinality(Match!Matched(s)) \in Nat
         /\ IsFiniteSet(Match!CoveredBy(S)) /\ Cardinality(Match!CoveredBy(S)) \in Nat
         /\ Match!CoveredBy(S) \subseteq Requested
         /\ Match!Gain(s, S) \in Nat
         /\ Match!Gain(s, S) = 0 <=> Match!Matched(s) \subseteq Match!CoveredBy(S)
<1>1. IsFiniteSet(Requested)
  BY MatchCounts
<1>2. Match!Matched(s) \subseteq Requested /\ Match!CoveredBy(S) \subseteq Requested
  BY DEF Match!Matched, Match!CoveredBy
<1>3. IsFiniteSet(Match!Matched(s)) /\ IsFiniteSet(Match!CoveredBy(S))
  BY <1>1, <1>2, FS_Subset
<1>4. IsFiniteSet(Match!Matched(s) \ Match!CoveredBy(S))
  BY <1>3, FS_Difference
<1>5. Match!Gain(s, S) = 0 <=> Match!Matched(s) \ Match!CoveredBy(S) = {}
  BY <1>4, FS_EmptySet, MatchCounts
<1>6. Match!Gain(s, S) \in Nat
  BY <1>4, FS_CardinalityType, MatchCounts
<1> QED
  BY <1>2, <1>3, <1>5, <1>6, FS_CardinalityType

(* The sort puts one seed first.                                           *)
LEMMA OneSeedIsFirst ==
  ASSUME Match!MatchAssumption, seeds \subseteq Skills,
         NEW s \in Match!First(seeds, {}), NEW t \in Match!First(seeds, {})
  PROVE  s = t
<1> SUFFICES ASSUME s # t PROVE FALSE
  OBVIOUS
<1>1. s \in Nat /\ t \in Nat
  BY MatchCounts DEF Match!First
<1>2. Match!Gain(s, {}) \in Nat /\ Match!Gain(t, {}) \in Nat
  BY GainsAreCounted
<1>3. Match!Better(s, t, {}) /\ Match!Better(t, s, {})
  BY DEF Match!First
<1> QED
  BY <1>1, <1>2, <1>3 DEF Match!Better

(* The composition a step of the inner loop finds is grown from its seed.  *)
LEMMA CompositionIsGrown ==
  ASSUME Match!MatchAssumption, MatchInv, NEW seed \in Match!First(seeds, {})
  PROVE  Grown(selected \cup {seed}, seed)
<1>1. seeds \subseteq Skills
  BY DEF MatchInv, Match!Candidates
<1>2. seed \in Skills
  BY <1>1 DEF Match!First
<1>3. CASE selected = {}
  <2>1. selected \cup {seed} = {seed}
    BY <1>3
  <2>2. Match!CoveredBy({seed}) = Match!Matched(seed)
    BY DEF Match!CoveredBy
  <2>3. IsFiniteSet({seed}) /\ Cardinality({seed}) = 1
    BY FS_Singleton
  <2>4. Cardinality(Match!Matched(seed)) \in Nat /\ MaxSkills \in Nat /\ MaxSkills >= 1
    BY GainsAreCounted, MatchCounts
  <2>5. Cardinality(Match!CoveredBy({seed})) >=
          Cardinality(Match!Matched(seed)) + Cardinality({seed}) - 1
    BY <2>2, <2>3, <2>4
  <2>6. Grown({seed}, seed)
    BY <1>2, <2>3, <2>4, <2>5 DEF Grown
  <2> QED
    BY <2>1, <2>6
<1>4. CASE selected # {}
  <2>1. PICK first \in Match!First(seeds, {}) : Grown(selected, first)
    BY <1>4 DEF MatchInv
  <2>2. first = seed
    BY <1>1, OneSeedIsFirst
  <2>3. selected \cup {seed} = selected
    BY <2>1, <2>2 DEF Grown
  <2> QED
    BY <2>1, <2>2, <2>3
<1> QED
  BY <1>3, <1>4

(* A Skill that gains coverage leaves the composition grown.               *)
LEMMA GainGrows ==
  ASSUME Match!MatchAssumption, NEW S, NEW seed, Grown(S, seed), NEW s \in Match!Growable(S)
  PROVE  Grown(S \cup {s}, seed)
<1>1. /\ s \in Skills /\ s \notin S /\ Cardinality(S) < MaxSkills /\ Match!Gain(s, S) > 0
  BY MatchCounts DEF Match!Candidates
<1>2. /\ IsFiniteSet(S \cup {s}) /\ Cardinality(S \cup {s}) = Cardinality(S) + 1
      /\ Cardinality(S) \in Nat /\ MaxSkills \in Nat
  BY <1>1, FS_AddElement, FS_CardinalityType, MatchCounts DEF Grown
<1> DEFINE A == Match!CoveredBy(S)
           B == Match!Matched(s) \ A
<1>3. Match!CoveredBy(S \cup {s}) = A \cup B /\ A \cap B = {}
  BY DEF Match!CoveredBy
<1>4. IsFiniteSet(A) /\ IsFiniteSet(B) /\ Cardinality(A) \in Nat
  BY GainsAreCounted, FS_Difference
<1>5. Cardinality(B) = Match!Gain(s, S) /\ Cardinality(B) \in Nat
  BY <1>4, FS_CardinalityType, MatchCounts
<1>6. Cardinality(A \cup B) = Cardinality(A) + Cardinality(B) - Cardinality(A \cap B)
  BY <1>4, FS_Union
<1>7. Cardinality(A \cap B) = 0
  BY <1>3, FS_EmptySet
<1>8. Cardinality(Match!CoveredBy(S \cup {s})) >= Cardinality(A) + 1
  <2> HIDE DEF A, B
  <2> QED
    BY <1>1, <1>3, <1>4, <1>5, <1>6, <1>7
<1>9. Cardinality(Match!Matched(seed)) \in Nat
  BY GainsAreCounted
<1>10. /\ seed \in S /\ S \subseteq Skills
       /\ Cardinality(A) >= Cardinality(Match!Matched(seed)) + Cardinality(S) - 1
  BY DEF Grown
<1>11. Cardinality(Match!CoveredBy(S \cup {s}))
         >= Cardinality(Match!Matched(seed)) + Cardinality(S \cup {s}) - 1
  <2> HIDE DEF A, B
  <2>1. Cardinality(Match!CoveredBy(S \cup {s})) \in Nat
    BY GainsAreCounted
  <2> QED
    BY <1>2, <1>4, <1>8, <1>9, <1>10, <2>1
<1> QED
  BY <1>1, <1>2, <1>10, <1>11 DEF Grown

(* A composition to which nothing can be added is saturated.               *)
LEMMA CompleteIsSaturated ==
  ASSUME Match!MatchAssumption, NEW S, NEW seed, Grown(S, seed), Match!Growable(S) = {}
  PROVE  IsSaturated(S)
<1>1. seed \in S /\ Cardinality(Match!CoveredBy(S)) >=
                      Cardinality(Match!Matched(seed)) + Cardinality(S) - 1
  BY DEF Grown
<1>2. Cardinality(S) \in Nat /\ Cardinality(S) <= MaxSkills /\ MaxSkills \in Nat
  BY FS_CardinalityType, MatchCounts DEF Grown
<1>3. ASSUME Cardinality(S) # MaxSkills, NEW s \in Skills PROVE Match!Gain(s, S) = 0
  <2> SUFFICES ASSUME Match!Gain(s, S) # 0 PROVE FALSE
    OBVIOUS
  <2>1. Match!Gain(s, S) > 0 /\ ~(Match!Matched(s) \subseteq Match!CoveredBy(S))
    BY GainsAreCounted
  <2>2. s \notin S
    BY <2>1 DEF Match!CoveredBy
  <2>3. Match!Matched(s) # {} /\ Match!CoveredBy(S) # Requested
    BY <2>1 DEF Match!Matched
  <2>4. s \in Match!Growable(S)
    BY <1>2, <1>3, <2>1, <2>2, <2>3, MatchCounts DEF Match!Candidates
  <2> QED
    BY <2>4
<1> QED
  BY <1>1, <1>3 DEF IsSaturated

(* Only the features of the Skills decide what their coverage is.          *)
LEMMA SameFeaturesSameGain ==
  ASSUME features' = features
  PROVE  /\ Match!Candidates' = Match!Candidates
         /\ \A S : IsSaturated(S)' <=> IsSaturated(S)
         /\ seeds' = seeds => Match!First(seeds, {})' = Match!First(seeds, {})
<1>1. \A s : Match!Matched(s)' = Match!Matched(s)
  BY DEF Match!Matched
<1>2. \A S : Match!CoveredBy(S)' = Match!CoveredBy(S)
  BY <1>1 DEF Match!CoveredBy
<1>3. \A s, S : Match!Gain(s, S)' = Match!Gain(s, S)
  BY <1>1, <1>2 DEF Match!Gain
<1>4. Match!Candidates' = Match!Candidates
  BY <1>1 DEF Match!Candidates
<1>5. \A S : IsSaturated(S)' <=> IsSaturated(S)
  BY <1>1, <1>2, <1>3 DEF IsSaturated
<1>6. seeds' = seeds => Match!First(seeds, {})' = Match!First(seeds, {})
  BY <1>3 DEF Match!First, Match!Better
<1> QED
  BY <1>4, <1>5, <1>6

LEMMA MatchInit == Match!MatchAssumption /\ Match!Init => MatchInv
  BY DEF Match!Init, MatchInv

LEMMA MatchNext ==
  Match!MatchAssumption /\ MatchInv /\ [Match!Next]_(Match!vars) => MatchInv'
<1> SUFFICES ASSUME Match!MatchAssumption, MatchInv, [Match!Next]_(Match!vars) PROVE MatchInv'
  OBVIOUS
<1>1. features' = features
  BY DEF Match!Next, Match!Show, Match!Grow, Match!NextSeed, Match!vars
<1>2. /\ features \in [Skills -> SUBSET (Requested \cup Extra)]
      /\ seeds \subseteq Match!Candidates
      /\ selected = {} \/ \E seed \in Match!First(seeds, {}) : Grown(selected, seed)
      /\ \A S \in found : S \subseteq Skills /\ Cardinality(S) \in 2 .. MaxSkills
      /\ \A S \in found : IsSaturated(S)
  BY DEF MatchInv
<1>3. /\ Match!Candidates' = Match!Candidates
      /\ \A S : IsSaturated(S)' <=> IsSaturated(S)
      /\ seeds' = seeds => Match!First(seeds, {})' = Match!First(seeds, {})
  BY <1>1, SameFeaturesSameGain
<1>4. (\A S \in found' : IsSaturated(S)) => (\A S \in found : IsSaturated(S))'
  BY <1>3
<1>5. ASSUME NEW T, NEW seed, Grown(T, seed), selected' = T
      PROVE  Grown(selected, seed)'
  BY <1>1, <1>5 DEF Grown, Match!CoveredBy, Match!Matched
<1>6. ASSUME UNCHANGED <<seeds, selected, found>> PROVE MatchInv'
  <2>1. (selected = {} \/ \E seed \in Match!First(seeds, {}) : Grown(selected, seed))'
    BY <1>2, <1>3, <1>5, <1>6
  <2>2. (\A S \in found : IsSaturated(S))'
    BY <1>2, <1>4, <1>6
  <2> QED
    BY <1>1, <1>2, <1>3, <1>6, <2>1, <2>2 DEF MatchInv
<1>7. ASSUME NEW seed \in Match!First(seeds, {}), Match!Grow(seed) PROVE MatchInv'
  <2> DEFINE S == selected \cup {seed}
  <2>1. PICK s \in Match!First(Match!Growable(S), S) : selected' = S \cup {s}
    BY <1>7 DEF Match!Grow
  <2>2. seeds' = seeds /\ found' = found
    BY <1>7 DEF Match!Grow
  <2>3. s \in Match!Growable(S)
    BY <2>1 DEF Match!First
  <2>4. Grown(S \cup {s}, seed)
    BY <2>3, CompositionIsGrown, GainGrows
  <2>5. (\E p \in Match!First(seeds, {}) : Grown(selected, p))'
    <3>1. Grown(selected, seed)'
      BY <1>5, <2>1, <2>4
    <3> QED
      BY <1>3, <2>2, <3>1
  <2>6. (\A T \in found : IsSaturated(T))'
    BY <1>2, <1>4, <2>2
  <2> QED
    BY <1>1, <1>2, <1>3, <2>2, <2>5, <2>6 DEF MatchInv
<1>8. ASSUME NEW seed \in Match!First(seeds, {}), Match!NextSeed(seed) PROVE MatchInv'
  <2> DEFINE S == selected \cup {seed}
  <2>1. /\ Match!Growable(S) = {} /\ seeds' = seeds \ {seed} /\ selected' = {}
        /\ found' = IF Cardinality(S) < 2 THEN found ELSE found \cup {S}
    BY <1>8, SameMatchCount DEF Match!NextSeed
  <2>2. Grown(S, seed) /\ IsSaturated(S)
    BY <2>1, CompositionIsGrown, CompleteIsSaturated
  <2>3. ~(Cardinality(S) < 2) => S \subseteq Skills /\ Cardinality(S) \in 2 .. MaxSkills
    BY <2>2, FS_CardinalityType, MatchCounts DEF Grown
  <2> HIDE DEF S
  <2>4. \A T \in found' : /\ T \subseteq Skills /\ Cardinality(T) \in 2 .. MaxSkills
                          /\ IsSaturated(T)
    BY <1>2, <2>1, <2>2, <2>3
  <2>5. (\A T \in found : IsSaturated(T))'
    BY <1>4, <2>4
  <2>6. seeds' \subseteq Match!Candidates'
    BY <1>2, <1>3, <2>1
  <2> QED
    BY <1>1, <1>2, <2>1, <2>4, <2>5, <2>6 DEF MatchInv
<1> QED
  BY <1>6, <1>7, <1>8 DEF Match!Next, Match!Show, Match!vars

(* The greedy search leaves no Skill out of a composition that would still *)
(* have added to it while there was room, and never takes one that adds    *)
(* nothing, whatever the catalog and the request                           *)
(* (suggestSkillCompositions).                                             *)
THEOREM CompositionsAreSaturated ==
  Match!MatchAssumption => (Match!Spec => []Match!Saturated)
<1> SUFFICES ASSUME Match!MatchAssumption PROVE Match!Spec => []Match!Saturated
  OBVIOUS
<1>1. Match!Init => MatchInv
  BY MatchInit
<1>2. MatchInv /\ [Match!Next]_(Match!vars) => MatchInv'
  BY MatchNext
<1>3. MatchInv => Match!Saturated
  BY MatchCounts DEF MatchInv
<1> QED
  BY <1>1, <1>2, <1>3, PTL DEF Match!Spec
=============================================================================
