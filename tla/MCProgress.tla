----------------------------- MODULE MCProgress -----------------------------
(***************************************************************************)
(* What must eventually happen, each with the fairness of its component:   *)
(* schedules, briefings, planned Plugin calls, health probes, the catalog  *)
(* index, certification and generation runs, listings, broker sessions,    *)
(* requests and polled queries.                                            *)
(***************************************************************************)
EXTENDS Integers, Sequences, FiniteSets, TLC

CONSTANTS Nil

VARIABLES case, catchUpNow, catchUpCurrent, catchUpSched, catchUpDispatch, catchUpRun,
          catchUpDigest, catchUpTick, catchUpMoves, catchUpLost, catchUpSlow, reclaimNow,
          reclaimCurrent, reclaimSched, reclaimDispatch, reclaimRun, reclaimDigest, reclaimTick,
          reclaimMoves, reclaimLost, reclaimSlow, lock, nextSeq, event, digestCursor, snaps,
          delivered, briefing, digestFailures, planRun, owner, cancel, grant, plugin, ledger,
          effects, pc, at, tries, planEnding, context, faults, planChanges, state, config,
          bound, requested, latest, probe, removal, holding, installationRun, inUse, up,
          outages, pub, outbox, attempts, index, indexHeld, intake, decision, observed,
          deployment, indexReq, status, degraded, certifyChampion, certifyRun, exec, corpus,
          gates, reboots, spec, interp, asked, editor, doomed, agent, job, proc, jobsEnding,
          crashes, agents, pagesChampion, pagesCursor, seen, stayed, pagesChanges, brokerNow,
          request, snapshot, order, session, handshake, consumed, verifiedAt, executions,
          deliveries, mode, bindings, active, accessReq, accessHeld, server, q, mutation,
          terminalSeen, pending, failedClosed, due, ended, certifiedFailures

catchUpVars == <<catchUpNow, catchUpCurrent, catchUpSched, catchUpDispatch, catchUpRun,
                 catchUpDigest, catchUpTick, catchUpMoves, catchUpLost, catchUpSlow>>
reclaimVars == <<reclaimNow, reclaimCurrent, reclaimSched, reclaimDispatch, reclaimRun,
                 reclaimDigest, reclaimTick, reclaimMoves, reclaimLost, reclaimSlow>>
digestVars == <<lock, nextSeq, event, digestCursor, snaps, delivered, briefing, digestFailures>>
planVars == <<planRun, owner, cancel, grant, plugin, ledger, effects, pc, at, tries, planEnding,
              context, faults, planChanges>>
installationVars == <<state, config, bound, requested, latest, probe, removal, holding,
                      installationRun, inUse, up, outages>>
indexVars == <<pub, outbox, attempts, index, indexHeld, intake, decision, observed, deployment,
               indexReq>>
certifyVars == <<status, degraded, certifyChampion, certifyRun, exec, corpus, gates, reboots>>
jobsVars == <<spec, interp, asked, editor, doomed, agent, job, proc, jobsEnding, crashes>>
pagesVars == <<agents, pagesChampion, pagesCursor, seen, stayed, pagesChanges>>
brokerVars == <<brokerNow, request, snapshot, order, session, handshake, consumed, verifiedAt,
                executions, deliveries>>
accessVars == <<mode, bindings, active, accessReq, accessHeld>>
certifiedVars == <<server, q, mutation, terminalSeen, pending, failedClosed, due, ended,
                   certifiedFailures>>

CatchUp == INSTANCE AutomationScheduler WITH
  Procs <- {"p1"}, Schedules <- {"s1", "s2"}, Tokens <- {"t1", "t2", "t3"},
  Policy <- [s1 |-> "all", s2 |-> "none"], Interval <- 1, Window <- 2, MaxCatchUp <- 2,
  WithGrant <- {}, WithDigest <- {"s2"}, Limit <- 1, Horizon <- 3, MaxMoves <- 0, MaxLost <- 0,
  MaxSlow <- 0, now <- catchUpNow, current <- catchUpCurrent, sched <- catchUpSched,
  dispatch <- catchUpDispatch, run <- catchUpRun, digest <- catchUpDigest, tick <- catchUpTick,
  moves <- catchUpMoves, lost <- catchUpLost, slow <- catchUpSlow
Reclaim == INSTANCE AutomationScheduler WITH
  Procs <- {"p1"}, Schedules <- {"s1"}, Tokens <- {"t1", "t2", "t3"},
  Policy <- [s1 |-> "latest_only"], Interval <- 1, Window <- 1, MaxCatchUp <- 1,
  WithGrant <- {"s1"}, WithDigest <- {}, Limit <- 1, Horizon <- 1, MaxMoves <- 1, MaxLost <- 1,
  MaxSlow <- 1, now <- reclaimNow, current <- reclaimCurrent, sched <- reclaimSched,
  dispatch <- reclaimDispatch, run <- reclaimRun, digest <- reclaimDigest, tick <- reclaimTick,
  moves <- reclaimMoves, lost <- reclaimLost, slow <- reclaimSlow
Digest == INSTANCE DigestDelivery WITH
  Streams <- {"workspace", "own", "other"}, Visible <- {"workspace", "own"},
  Writers <- {"w1", "w2", "w3"}, StreamOf <- [w1 |-> "workspace", w2 |-> "own", w3 |-> "other"],
  NotShown <- {}, Briefings <- {"b1", "b2"}, DigestLimit <- 2, MaxFailures <- 1,
  cursor <- digestCursor, failures <- digestFailures
Plan == INSTANCE PluginLedger WITH
  Workers <- {"w1", "w2"}, NoWorker <- Nil, Plan <- 3, Tool <- <<"search", "write", "search">>,
  Limit <- 1, MaxTerminal <- 2, MaxFaults <- 1, MaxChanges <- 1, run <- planRun,
  ending <- planEnding, changes <- planChanges
Installation == INSTANCE PluginInstallation WITH
  Probers <- {"p1", "p2"}, Removers <- {}, Runs <- {}, MaxConfig <- 1, MaxOutages <- 1,
  run <- installationRun
Index == INSTANCE CatalogReuse WITH
  Intakes <- {}, Keys <- {}, Requests <- {}, Indexers <- {"x1", "x2"}, MaxRevision <- 3,
  MaxAttempts <- 2, MaxConfigs <- 2, held <- indexHeld, req <- indexReq
Certify == INSTANCE Certification WITH
  Agents <- {"a1"}, MinCorrect <- 1, Runs <- {"r1", "r2"}, Processes <- {"p1", "p2"},
  Cases <- 1, MaxVersion <- 1, MaxReboots <- 1, None <- Nil, champion <- certifyChampion,
  run <- certifyRun
Jobs == INSTANCE Generation WITH
  Specs <- {"s1", "s2"}, Sections <- {"outcomes"}, Interps <- {}, Editors <- {"e1"},
  MaxRevision <- 1, Jobs <- {"j1", "j2"}, Processes <- {"p1"}, Concurrency <- 1,
  MaxCrashes <- 1, None <- Nil, ending <- jobsEnding
Pages == INSTANCE CatalogPages WITH
  Families <- {1, 2, 3}, Versions <- {1, 2}, Limit <- 1, MaxChanges <- 2, None <- 99,
  champion <- pagesChampion, cursor <- pagesCursor, changes <- pagesChanges
Broker == INSTANCE WorkstationBroker WITH
  MinWindow <- 1, MaxWindow <- 2, DailyWindow <- 2, AdHocWindow <- 1, LeaseTime <- 1,
  MaxTime <- 2, MaxDeliveries <- 1, None <- Nil, now <- brokerNow
Access == INSTANCE RequestAccess WITH
  Requests <- {"q1"}, Tested <- {"promote"},
  Modes <- {"local", "static_bearer", "fixture_oidc", "oidc_jwks", "oidc_closed"}, None <- Nil,
  req <- accessReq, held <- accessHeld
Certified == INSTANCE QueryCache WITH
  Keys <- {"certification-run", "agent"}, Ops <- {"promoteAgent"}, Terminal <- 1,
  MaxVersion <- 2, MaxPages <- 2, MaxFailures <- 1, failures <- certifiedFailures

(* What the components assume of their constants. *)
ASSUME PagesCatalogAssumption == Pages!CatalogAssumption

(* `case` names the component that moves; the others stay as they were initialised. *)
Init ==
  /\ case \in {"catch_up", "reclaim", "digest", "plan", "installation", "index",
              "certification", "generation", "pages", "broker", "access", "certified"}
  /\ CatchUp!Init
  /\ Reclaim!Init
  /\ Digest!Init
  /\ Plan!Init
  /\ Installation!Init
  /\ Index!Init
  /\ Certify!Init
  /\ Jobs!Init
  /\ Pages!Init /\ (case # "pages" => agents = [f \in {1, 2, 3} |-> {1}])
  /\ Broker!Init /\ (case # "broker" => request = CHOOSE r \in Broker!Requests : TRUE)
  /\ Access!Init /\ (case # "access" => mode = "local" /\ [role |-> "consumer", scope |-> "other"] \in bindings)
  /\ Certified!Init

Next ==
  \/ case = "catch_up" /\ CatchUp!Next /\ UNCHANGED
       <<case, reclaimVars, digestVars, planVars, installationVars, indexVars, certifyVars,
         jobsVars, pagesVars, brokerVars, accessVars, certifiedVars>>
  \/ case = "reclaim" /\ Reclaim!Next /\ UNCHANGED
       <<case, catchUpVars, digestVars, planVars, installationVars, indexVars, certifyVars,
         jobsVars, pagesVars, brokerVars, accessVars, certifiedVars>>
  \/ case = "digest" /\ Digest!Next /\ UNCHANGED
       <<case, catchUpVars, reclaimVars, planVars, installationVars, indexVars, certifyVars,
         jobsVars, pagesVars, brokerVars, accessVars, certifiedVars>>
  \/ case = "plan" /\ Plan!Next /\ UNCHANGED
       <<case, catchUpVars, reclaimVars, digestVars, installationVars, indexVars, certifyVars,
         jobsVars, pagesVars, brokerVars, accessVars, certifiedVars>>
  \/ case = "installation" /\ Installation!Next /\ UNCHANGED
       <<case, catchUpVars, reclaimVars, digestVars, planVars, indexVars, certifyVars, jobsVars,
         pagesVars, brokerVars, accessVars, certifiedVars>>
  \/ case = "index" /\ Index!Next /\ UNCHANGED
       <<case, catchUpVars, reclaimVars, digestVars, planVars, installationVars, certifyVars,
         jobsVars, pagesVars, brokerVars, accessVars, certifiedVars>>
  \/ case = "certification" /\ Certify!Next /\ UNCHANGED
       <<case, catchUpVars, reclaimVars, digestVars, planVars, installationVars, indexVars,
         jobsVars, pagesVars, brokerVars, accessVars, certifiedVars>>
  \/ case = "generation" /\ Jobs!Next /\ UNCHANGED
       <<case, catchUpVars, reclaimVars, digestVars, planVars, installationVars, indexVars,
         certifyVars, pagesVars, brokerVars, accessVars, certifiedVars>>
  \/ case = "pages" /\ Pages!Next /\ UNCHANGED
       <<case, catchUpVars, reclaimVars, digestVars, planVars, installationVars, indexVars,
         certifyVars, jobsVars, brokerVars, accessVars, certifiedVars>>
  \/ case = "broker" /\ Broker!Next /\ UNCHANGED
       <<case, catchUpVars, reclaimVars, digestVars, planVars, installationVars, indexVars,
         certifyVars, jobsVars, pagesVars, accessVars, certifiedVars>>
  \/ case = "access" /\ Access!Next /\ UNCHANGED
       <<case, catchUpVars, reclaimVars, digestVars, planVars, installationVars, indexVars,
         certifyVars, jobsVars, pagesVars, brokerVars, certifiedVars>>
  \/ case = "certified" /\ Certified!Next /\ UNCHANGED
       <<case, catchUpVars, reclaimVars, digestVars, planVars, installationVars, indexVars,
         certifyVars, jobsVars, pagesVars, brokerVars, accessVars>>

vars == <<case, catchUpVars, reclaimVars, digestVars, planVars, installationVars, indexVars,
          certifyVars, jobsVars, pagesVars, brokerVars, accessVars, certifiedVars>>

(* Each component is fair as its module says: the processes, timers and    *)
(* event loops that make its steps run on; users and outages are not fair. *)
Fairness ==
  /\ \A p \in {"p1"} : WF_catchUpVars(case = "catch_up" /\ CatchUp!ProcStep(p))
  /\ \A d \in CatchUp!Occurrences : WF_catchUpVars(case = "catch_up" /\ CatchUp!LeaseExpires(d))
  /\ \A p \in {"p1"} : WF_reclaimVars(case = "reclaim" /\ Reclaim!ProcStep(p))
  /\ \A d \in Reclaim!Occurrences : WF_reclaimVars(case = "reclaim" /\ Reclaim!LeaseExpires(d))
  /\ \A w \in {"w1", "w2", "w3"} : WF_digestVars(case = "digest" /\ (Digest!InsertEvent(w) \/ Digest!EndTransaction(w)))
  /\ \A b \in {"b1", "b2"} : WF_digestVars(case = "digest" /\ Digest!Brief(b))
  /\ \A b \in {"b1", "b2"} : SF_digestVars(case = "digest" /\ Digest!LockStreams(b))
  /\ \A w \in {"w1", "w2"} : WF_planVars(case = "plan" /\ Plan!WorkerStep(w))
  /\ \A p \in {"p1", "p2"} : WF_installationVars(case = "installation" /\ Installation!Checks(p))
  /\ WF_installationVars(case = "installation" /\ (Installation!EndConfigure \/ Installation!EndDisable))
  /\ \A x \in {"x1", "x2"}, n \in Index!Revisions : WF_indexVars(case = "index" /\ Index!Claim(x, n))
  /\ \A x \in {"x1", "x2"} : SF_indexVars(case = "index" /\ Index!Publish(x))
  /\ \A p \in {"p1", "p2"} : WF_certifyVars(case = "certification" /\ Certify!Work(p))
  /\ \A p \in {"p1"} : WF_jobsVars(case = "generation" /\ Jobs!Work(p))
  /\ WF_pagesVars(case = "pages" /\ Pages!Fetch)
  /\ WF_brokerVars(case = "broker" /\ Broker!Session)
  /\ \A r \in {"q1"} : WF_accessVars(case = "access" /\ Access!Serve(r))
  /\ \A k \in {"certification-run", "agent"} : WF_certifiedVars(case = "certified" /\ Certified!Interval(k))
  /\ \A k \in {"certification-run", "agent"} : WF_certifiedVars(case = "certified" /\ Certified!ServerReads(k))
  /\ \A k \in {"certification-run", "agent"} : WF_certifiedVars(case = "certified" /\ Certified!Answer(k))
  /\ \A k \in {"certification-run", "agent"} : WF_certifiedVars(case = "certified" /\ Certified!PageAnswer(k))
  /\ WF_certifiedVars(case = "certified" /\ Certified!Apply("promoteAgent"))
  /\ WF_certifiedVars(case = "certified" /\ Certified!Succeed("promoteAgent"))
  /\ WF_certifiedVars(case = "certified" /\ Certified!TerminalEffect)

Spec == Init /\ [][Next]_vars /\ Fairness

(* Limits are met exactly at their edge: catching up leaves one dispatch   *)
(* for every occurrence the policy keeps (planDueOccurrences), no          *)
(* capability is invoked more often in a run than its grant allows,        *)
(* retries and takeovers included (maxInvocationsPerRun), and no more      *)
(* generators run in a process than its semaphore has permits, also over   *)
(* crashes.                                                                *)
BoundsAreExact ==
  /\ case = "catch_up" => CatchUp!CatchUpExact
  /\ case = "plan" => Plan!InvocationLimit
  /\ case = "generation" => Jobs!WithinConcurrency

(* A client that pages through the catalog while it changes is shown every *)
(* family that was listed all along, although the family of its cursor may *)
(* be retired meanwhile, and the champion of each that had one all along   *)
(* (the cursor of the catalog listing).                                    *)
ListingIsFaithful ==
  /\ [](case = "pages" => Pages!NothingSkipped)
  /\ [][case = "pages" => Pages!ShowsRepresentative]_vars

(* An active schedule that is due is served, although a tick takes a       *)
(* limited number and the policies leave different backlogs, and a         *)
(* dispatch that was written is settled, also when the process that        *)
(* claimed it is slow or dies (scheduleDue).                               *)
SchedulesAreServed ==
  /\ case = "catch_up" => CatchUp!DueIsServed
  /\ case = "reclaim" => Reclaim!DispatchSettles

(* Every committed event of a visible stream reaches a daily briefing,     *)
(* although deliveries fail, a digest holds a limited number, and writers  *)
(* hold the locks of the streams.                                          *)
EventIsDelivered == case = "digest" => Digest!EventIsDelivered

(* A copy catches up with what it copies: an installation whose service    *)
(* stays up is enabled again (tick), the index shows the last revision of  *)
(* a publication (processPending), a listing whose cursor was retired      *)
(* comes to its end, and a polled query shows what the server has.         *)
CatchesUp ==
  /\ case = "installation" => Installation!ComesBack
  /\ case = "index" => Index!IndexCatchesUp
  /\ case = "pages" => Pages!ReachesEnd
  /\ case = "certified" => Certified!PolledCatchesUp

(* Accepted work ends, also after crashes, reboots and timeouts: a worker  *)
(* never hangs in a plan of Plugin calls, certification runs and           *)
(* generation jobs settle, a broker session does not wait at the pipe for  *)
(* ever, and every request is answered, whatever its handler throws.       *)
WorkEnds ==
  /\ case = "plan" => Plan!PlanEnds
  /\ case = "certification" => Certify!RunsEnd
  /\ case = "generation" => Jobs!JobsEnd
  /\ case = "broker" => Broker!SessionEnds
  /\ case = "access" => Access!EveryRequestAnswered

=============================================================================
