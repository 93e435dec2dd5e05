---------------------------- MODULE MCGovernance ----------------------------
(***************************************************************************)
(* The governed life of what is run: the calls of a plan in the Plugin     *)
(* ledger, one Plugin installation, the scopes of its authority, the       *)
(* release channel, the registry, the published catalog and certification. *)
(* Each is an instance of its component module; registry, authority and    *)
(* certification have several instances, with the same variables.          *)
(***************************************************************************)
EXTENDS ReleaseGovernance, Integers, TLC

(* The plan's two calls use two tools of the Plugin. *)
TwoTools == <<"search", "write">>

(* A brief whose skill uses two tools of one Plugin, beside a second Plugin *)
(* that the release holds for another agent.                                *)
AgentVersions == {"brief", "skill", "other", "mail", "ledger"}
AgentPins == {<<"brief", "skill">>, <<"skill", "mail">>, <<"other", "ledger">>}
Use(v, p, t) == [by |-> v, plugin |-> p, tool |-> t]
ReadUses  == {Use("skill", "mail", "get"), Use("other", "ledger", "get")}
AgentUses == ReadUses \cup {Use("skill", "mail", "send")}
Declares(p, t, e, n) == [plugin |-> p, tool |-> t, effect |-> e, approval |-> "none", limit |-> n]
AgentTools(n) ==
  {Declares("mail", "get", "read", n), Declares("mail", "send", "write", n), Declares("ledger", "get", "read", n)}

(* Two releases that share resource b; only the suite of r1 certifies b,    *)
(* so r2 can be promoted only after r1 has passed.                          *)
SharedContents == [r \in {"r1", "r2"} |-> IF r = "r1" THEN {"a", "b"} ELSE {"b", "c"}]
SuiteCloses    == [r \in {"r1", "r2"} |-> IF r = "r1" THEN {"a", "b"} ELSE {"c"}]

VARIABLES case, ledgerRun, owner, cancel, grant, plugin, ledger, effects, pc, at, tries, ending,
          context, faults, changes, state, config, bound, requested, latest, probe, removal,
          holding, installationRun, inUse, up, outages, rows, grants, creating, authorityRun,
          calls, registryVersion, registryImports, registryReleases, registryRequest,
          lineageVersion, lineageImports, lineageReleases, lineageRequest, pub, outbox,
          attempts, index, held, intake, decision, observed, deployment, req, status, degraded,
          champion, certificationRun, exec, corpus, gates, reboots

ledgerVars == <<ledgerRun, owner, cancel, grant, plugin, ledger, effects, pc, at, tries, ending,
                context, faults, changes>>
installationVars == <<state, config, bound, requested, latest, probe, removal, holding,
                      installationRun, inUse, up, outages>>
authorityVars == <<rows, grants, creating, authorityRun, calls>>
registryVars == <<registryVersion, registryImports, registryReleases, registryRequest>>
lineageVars == <<lineageVersion, lineageImports, lineageReleases, lineageRequest>>
reuseVars == <<pub, outbox, attempts, index, held, intake, decision, observed, deployment, req>>
certificationVars == <<status, degraded, champion, certificationRun, exec, corpus, gates,
                       reboots>>

Ledger == INSTANCE PluginLedger WITH
  Workers <- {"w1", "w2"}, NoWorker <- None, Plan <- 2, Tool <- TwoTools, Limit <- 2,
  MaxTerminal <- 2, MaxFaults <- 3, MaxChanges <- 2, run <- ledgerRun
Installation == INSTANCE PluginInstallation WITH
  Probers <- {"p1", "p2"}, Removers <- {"m1"}, Runs <- {}, MaxConfig <- 2, MaxOutages <- 1,
  run <- installationRun
Holds == INSTANCE PluginInstallation WITH
  Probers <- {"p1"}, Removers <- {"m1"}, Runs <- {"r1"}, MaxConfig <- 2, MaxOutages <- 1,
  run <- installationRun
Authority == INSTANCE PluginAuthority WITH
  Versions <- AgentVersions, Entry <- "brief", Pins <- AgentPins, Plugins <- {"mail", "ledger"},
  Uses <- AgentUses, Declared <- AgentTools(1), Limits <- {1}, MaxRows <- 1, run <- authorityRun
Limits == INSTANCE PluginAuthority WITH
  Versions <- {"brief", "mail"}, Entry <- "brief", Pins <- {<<"brief", "mail">>},
  Plugins <- {"mail"}, Uses <- {Use("brief", "mail", "get")},
  Declared <- {Declares("mail", "get", "read", 2)}, Limits <- {1, 3}, MaxRows <- 2,
  run <- authorityRun
TwoImports == INSTANCE Registry WITH
  Versions <- {"a", "b"}, FamilyOf <- [v \in {"a", "b"} |-> v], Editions <- {1},
  Requests <- {"q1", "q2"}, Candidates <- {}, MaxStage <- 3, version <- registryVersion,
  imports <- registryImports, releases <- registryReleases, request <- registryRequest
OneImport == INSTANCE Registry WITH
  Versions <- {"a", "b"}, FamilyOf <- [v \in {"a", "b"} |-> v], Editions <- {1},
  Requests <- {"q1"}, Candidates <- {}, MaxStage <- 2, version <- registryVersion,
  imports <- registryImports, releases <- registryReleases, request <- registryRequest
Lineage == INSTANCE Registry WITH
  Versions <- {"a"}, FamilyOf <- [v \in {"a"} |-> v], Editions <- {1, 2},
  Requests <- {"q1", "q2"}, Candidates <- {"c1", "c2"}, MaxStage <- 2,
  version <- lineageVersion, imports <- lineageImports, releases <- lineageReleases,
  request <- lineageRequest
Index == INSTANCE CatalogReuse WITH
  Intakes <- {}, Keys <- {}, Requests <- {}, Indexers <- {"x1", "x2"}, MaxRevision <- 4,
  MaxAttempts <- 3, MaxConfigs <- 2
Decisions == INSTANCE CatalogReuse WITH
  Intakes <- {"i1", "i2"}, Keys <- {"k1", "k2"}, Requests <- {"q1", "q2"}, Indexers <- {"x1"},
  MaxRevision <- 2, MaxAttempts <- 1, MaxConfigs <- 2
Certify == INSTANCE Certification WITH
  Agents <- {"a1", "a2"}, MinCorrect <- 1, Runs <- {"r1", "r2"}, Processes <- {"p1", "p2"},
  Cases <- 1, MaxVersion <- 1, MaxReboots <- 1, run <- certificationRun
Gates == INSTANCE Certification WITH
  Agents <- {"a1", "a2"}, MinCorrect <- 1, Runs <- {"r1", "r2"}, Processes <- {"p1"},
  Cases <- 1, MaxVersion <- 2, MaxReboots <- 0, run <- certificationRun

(* What the components assume of their constants. *)
ASSUME LedgerPlanAssumption == Ledger!PlanAssumption
ASSUME InstallationAssumption == Installation!InstallationAssumption
ASSUME AuthorityReleaseAssumption == Authority!ReleaseAssumption
ASSUME LimitsReleaseAssumption == Limits!ReleaseAssumption
ASSUME ChannelConstants == ChannelAssumption
ASSUME IndexReuseAssumption == Index!ReuseAssumption
ASSUME DecisionsReuseAssumption == Decisions!ReuseAssumption
ASSUME CertifyCertificationAssumption == Certify!CertificationAssumption
ASSUME GatesCertificationAssumption == Gates!CertificationAssumption
ASSUME TwoImportsStageAssumption == TwoImports!StageAssumption

(* `case` names the component that moves; the others stay switched off. *)
SuiteInit ==
  /\ case \in {"channel", "ledger", "installation", "holds", "authority", "limits", "registry",
              "one_import", "lineage", "index", "decisions", "certification", "gates"}
  /\ Init
  /\ IF case = "ledger" THEN Ledger!Init ELSE
       /\ ledgerRun = 0 /\ owner = 0 /\ cancel = 0 /\ grant = 0 /\ plugin = 0 /\ ledger = 0
       /\ effects = 0 /\ pc = 0 /\ at = 0 /\ tries = 0 /\ ending = 0 /\ context = 0
       /\ faults = 0 /\ changes = 0
  /\ IF case = "installation" THEN Installation!Init ELSE
     IF case = "holds" THEN Holds!Init ELSE
       /\ state = 0 /\ config = 0 /\ bound = 0 /\ requested = 0 /\ latest = 0 /\ probe = 0
       /\ removal = 0 /\ holding = 0 /\ installationRun = 0 /\ inUse = 0 /\ up = 0
       /\ outages = 0
  /\ IF case = "authority" THEN Authority!Init ELSE IF case = "limits" THEN Limits!Init ELSE
       /\ rows = 0 /\ grants = 0 /\ creating = 0 /\ authorityRun = 0 /\ calls = 0
  /\ IF case = "registry" THEN TwoImports!Init ELSE
     IF case = "one_import" THEN OneImport!Init ELSE
       /\ registryVersion = 0 /\ registryImports = 0 /\ registryReleases = 0
       /\ registryRequest = 0
  /\ IF case = "lineage" THEN Lineage!Init ELSE
       /\ lineageVersion = 0 /\ lineageImports = 0 /\ lineageReleases = 0 /\ lineageRequest = 0
  /\ IF case = "index" THEN Index!Init ELSE IF case = "decisions" THEN Decisions!Init ELSE
       /\ pub = 0 /\ outbox = 0 /\ attempts = 0 /\ index = 0 /\ held = 0 /\ intake = 0
       /\ decision = 0 /\ observed = 0 /\ deployment = 0 /\ req = 0
  /\ IF case = "certification" THEN Certify!Init ELSE IF case = "gates" THEN Gates!Init ELSE
       /\ status = 0 /\ degraded = 0 /\ champion = 0 /\ certificationRun = 0 /\ exec = 0
       /\ corpus = 0 /\ gates = 0 /\ reboots = 0

SuiteNext ==
  \/ case = "channel" /\ Next /\ UNCHANGED <<case, ledgerVars, installationVars, authorityVars,
         registryVars, lineageVars, reuseVars, certificationVars>>
  \/ case = "ledger" /\ Ledger!Next /\ UNCHANGED
       <<case, vars, installationVars, authorityVars, registryVars, lineageVars, reuseVars,
         certificationVars>>
  \/ case = "installation" /\ Installation!Next /\ UNCHANGED
       <<case, vars, ledgerVars, authorityVars, registryVars, lineageVars, reuseVars,
         certificationVars>>
  \/ case = "holds" /\ Holds!Next /\ UNCHANGED
       <<case, vars, ledgerVars, authorityVars, registryVars, lineageVars, reuseVars,
         certificationVars>>
  \/ case = "authority" /\ Authority!Next /\ UNCHANGED
       <<case, vars, ledgerVars, installationVars, registryVars, lineageVars, reuseVars,
         certificationVars>>
  \/ case = "limits" /\ Limits!Next /\ UNCHANGED
       <<case, vars, ledgerVars, installationVars, registryVars, lineageVars, reuseVars,
         certificationVars>>
  \/ case = "registry" /\ TwoImports!Next /\ UNCHANGED
       <<case, vars, ledgerVars, installationVars, authorityVars, lineageVars, reuseVars,
         certificationVars>>
  \/ case = "one_import" /\ OneImport!Next /\ UNCHANGED
       <<case, vars, ledgerVars, installationVars, authorityVars, lineageVars, reuseVars,
         certificationVars>>
  \/ case = "lineage" /\ Lineage!Next /\ UNCHANGED
       <<case, vars, ledgerVars, installationVars, authorityVars, registryVars, reuseVars,
         certificationVars>>
  \/ case = "index" /\ Index!Next /\ UNCHANGED
       <<case, vars, ledgerVars, installationVars, authorityVars, registryVars, lineageVars,
         certificationVars>>
  \/ case = "decisions" /\ Decisions!Next /\ UNCHANGED
       <<case, vars, ledgerVars, installationVars, authorityVars, registryVars, lineageVars,
         certificationVars>>
  \/ case = "certification" /\ Certify!Next /\ UNCHANGED
       <<case, vars, ledgerVars, installationVars, authorityVars, registryVars, lineageVars,
         reuseVars>>
  \/ case = "gates" /\ Gates!Next /\ UNCHANGED
       <<case, vars, ledgerVars, installationVars, authorityVars, registryVars, lineageVars,
         reuseVars>>

suiteVars == <<case, vars, ledgerVars, installationVars, authorityVars, registryVars,
               lineageVars, reuseVars, certificationVars>>

SuiteSpec == SuiteInit /\ [][SuiteNext]_suiteVars

(* Once a version has left experimental its manifest and pins stay,        *)
(* whatever two imports have read before, and so do the digests a release  *)
(* names and the lineage of an import; a pin that no longer matches its    *)
(* target was of an experimental version, and an import that no other one  *)
(* overtakes closes no cycle (importResource, createRelease).              *)
RegistryIsFrozen ==
  /\ [](/\ case = "registry" => /\ TwoImports!TypeOK
                                /\ TwoImports!ReleaseIsExact
                                /\ TwoImports!StalePinWasExperimental
        /\ case = "one_import" => /\ OneImport!ReleaseIsExact
                                  /\ OneImport!NoCycle)
  /\ [][/\ case = "registry" => TwoImports!FrozenIsImmutable
        /\ case = "lineage" => Lineage!LineageIsImmutable]_suiteVars

(* A planned Plugin call takes effect at most once, after its predecessor  *)
(* succeeded on record, under a scope of the grant for that installation   *)
(* and tool, within its limit, and approved by a person if it does more    *)
(* than read; its success is recorded only while the run is held, granted  *)
(* and enabled, its row is final, and a run of a department is bound to an *)
(* installation of the workspace only if the department had none of its    *)
(* own when the requirement was read.                                      *)
CallsAreGoverned ==
  /\ [](/\ case = "ledger" => /\ Ledger!TypeOK
                              /\ Ledger!PlanInOrder
                              /\ Ledger!OutputIsRecorded
        /\ case = "authority" => /\ Authority!CallsWithinAuthority
                                 /\ Authority!EffectsAreApproved
        /\ case = "limits" => /\ Limits!CallsWithinAuthority
                              /\ Limits!AdmittedIsCovered
                              /\ Limits!NoFallback)
  /\ [][case = "ledger" => /\ Ledger!TerminalIsFinal
                           /\ Ledger!SuccessIsGoverned]_suiteVars

(* A result obtained against a superseded configuration never enables the  *)
(* configuration that replaced it; an operator's disable stands against    *)
(* probes under way; a run that waits or runs for a Plugin that is         *)
(* disabled or gone was asked to stop or was queued on an earlier answer;  *)
(* and a run that was held or asked to stop never succeeds (checkHealth,   *)
(* configure, holdAffectedRuns).                                           *)
InstallationIsProbed ==
  /\ [](/\ case = "installation" => /\ Installation!TypeOK
                                    /\ Installation!EnabledAsProbed
        /\ case = "holds" => Holds!NoRunIsMissed)
  /\ [][/\ case = "installation" => Installation!DisabledStays
        /\ case = "holds" => Holds!HeldNeverSucceeds]_suiteVars

(* The index moves only to newer revisions, however late or repeated the   *)
(* processing of an event is (processOne), and an intake is decided once,  *)
(* whatever keys and retries are used (createDecision).                    *)
CatalogIsDecidedOnce ==
  /\ [](/\ case = "index" => Index!TypeOK
        /\ case = "decisions" => Decisions!DecidedOnce)
  /\ [][case = "index" => Index!IndexNeverRegresses]_suiteVars

(* A version is certifying exactly while one challenger run of it is       *)
(* queued or running, and certified or active only after it passed; a late *)
(* result does not change the end of a run, a promotion keeps the case     *)
(* results it rested on, and the champion is the one active version,       *)
(* through timeouts and reboots (failRun, executeRun, promote,             *)
(* pruneRunDetails).                                                       *)
CertificationIsSound ==
  /\ [](/\ case = "certification" => /\ Certify!TypeOK
                                     /\ Certify!CertifyingHasRun
                                     /\ Certify!CertifiedHasPassed
        /\ case = "gates" => /\ Gates!ChampionIsActive
                             /\ Gates!EvidenceKept)
  /\ [][case = "certification" => Certify!OutcomeIsFinal]_suiteVars

=============================================================================
