---------------------------- MODULE MCAlgorithms ----------------------------
(***************************************************************************)
(* The algorithms that answer in one go, on every input of a small size:   *)
(* the check of an AIM manifest, its timeline, a Plugin call, Plugin       *)
(* schemas, the certification contract of a release, the match of          *)
(* capabilities to a request, the check of dependencies and the order of   *)
(* roadmap versions.                                                       *)
(***************************************************************************)
EXTENDS AimManifest, Integers, Sequences, FiniteSets, TLC

CONSTANTS Nil

Node(r, t, p, a, i, q) == [ref |-> r, type |-> t, prop |-> p, additional |-> a, items |-> i, required |-> q]

(* All graphs of two schema nodes are made of these; 0 is no node and 3     *)
(* stands for additional properties of any form.                            *)
SmallNodes ==
  {Node(r, "string", 0, 0, 0, FALSE) : r \in 0..2}
  \cup {Node(0, "array", 0, 0, i, FALSE) : i \in 0..2}
  \cup {Node(0, "object", p, a, 0, q) : p \in 0..2, a \in {0, 2, 3}, q \in BOOLEAN}

(* The features are interchangeable: those of the first skill are the       *)
(* first ones.                                                              *)
Initial == {{}, {"f1"}, {"f1", "f2"}, {"f1", "f2", "f3"}}

(* Short measurements, and two long enough for the percentile to leave a    *)
(* sample out.                                                              *)
Histories == {<<>>, <<100>>, <<1, 100>>, <<1, 1, 2>>, [i \in 1..20 |-> IF i = 7 THEN 100 ELSE 1],
              [i \in 1..20 |-> IF i > 18 THEN 100 ELSE 1]}

VARIABLES case, mode, declared, authorized, plugin, bound, stage, url, hops, aborted, requests,
          callResult, out, schema, value, todo, count, schemaVerdict, contractPins, held,
          pending, closure, phase, checks, values, contractVerdict, certifies, features,
          matchPins, seeds, selected, found, shown, deps, next, stack, visiting, visited,
          answer, issues, left, right, third, observed, source, status, timelineResult, metric

callVars == <<mode, declared, authorized, plugin, bound, stage, url, hops, aborted, requests,
              callResult, out>>
schemaVars == <<schema, value, todo, count, schemaVerdict>>
contractVars == <<contractPins, held, pending, closure, phase, checks, values, contractVerdict,
                  certifies>>
matchVars == <<features, matchPins, seeds, selected, found, shown>>
dependenciesVars == <<deps, next, stack, visiting, visited, answer, issues>>
roadmapVars == <<left, right, third>>
timelineVars == <<observed, source, status, timelineResult, metric>>

Call == INSTANCE PluginCall WITH
  MaxLimit <- 1, MaxRedirects <- 3, Undefined <- Nil, result <- callResult
Schema == INSTANCE PluginSchema WITH
  Nodes <- SmallNodes, MaxDepth <- 3, MaxNodes <- 9, verdict <- schemaVerdict
Contract == INSTANCE ReleaseContract WITH
  Resources <- {"a", "b"}, Missing <- Nil, Subject <- "a", MinSamples <- 2, MinRatio <- 90,
  MaxLatency <- 95, MaxPins <- 2, Samples <- Histories, pins <- contractPins,
  verdict <- contractVerdict
Match == INSTANCE CapabilityMatch WITH
  Requested <- {"f1", "f2", "f3"}, Extra <- {}, Skills <- {1, 2, 3}, MaxSkills <- 2,
  MaxSuggestions <- 2, pins <- matchPins
Dependencies == INSTANCE DependencyCheck WITH N <- 3
Roadmap == INSTANCE RoadmapProgram WITH
  Cores <- {0, 1} \X {0, 1} \X {0, 1}, MaxNumber <- 1, Names <- {1}, MaxParts <- 1, None <- Nil
Prerelease == INSTANCE RoadmapProgram WITH
  Cores <- {<<0, 1, 0>>, <<0, 1, 1>>}, MaxNumber <- 1, Names <- {1}, MaxParts <- 2, None <- Nil
Timeline == INSTANCE AimTimeline WITH
  MaxTime <- 3, PartRefs <- {"e1"}, CriterionRefs <- {}, AgentRefs <- {"e1"}, Stages <- {4},
  Refs <- {{}, {"e2"}}, FirstAt <- 0..3, MaxRecords <- 1, Evidence <- {"e1", "e2"},
  SourceOf <- [e1 |-> "s1", e2 |-> "s1"], ItemSla <- [e1 |-> 1, e2 |-> 0],
  SourceSla <- [s1 |-> 0], Sources <- {"s1"}, DefaultSla <- 2, result <- timelineResult
Limits == INSTANCE AimTimeline WITH
  MaxTime <- 3, PartRefs <- {"e1", "e2"}, CriterionRefs <- {}, AgentRefs <- {}, Stages <- {4},
  Refs <- {{}}, FirstAt <- {0, 3}, MaxRecords <- 1, Evidence <- {"e1", "e2"},
  SourceOf <- [e1 |-> "s1", e2 |-> "s1"], ItemSla <- [e1 |-> 0, e2 |-> 2],
  SourceSla <- [s1 |-> 1], Sources <- {"s1"}, DefaultSla <- 3, result <- timelineResult
Stages == INSTANCE AimTimeline WITH
  MaxTime <- 3, PartRefs <- {}, CriterionRefs <- {}, AgentRefs <- {}, Stages <- 1..5,
  Refs <- {{}}, FirstAt <- {0}, MaxRecords <- 2, Evidence <- {}, SourceOf <- <<>>,
  ItemSla <- <<>>, SourceSla <- [s1 |-> 0], Sources <- {"s1"}, DefaultSla <- 2,
  result <- timelineResult

(* What the components assume of their constants. *)
ASSUME CallAssumption == Call!CallAssumption
ASSUME ContractAssumption == Contract!ContractAssumption
ASSUME SchemaAssumption == Schema!SchemaAssumption
ASSUME MatchAssumption == Match!MatchAssumption
ASSUME RoadmapAssumption == Roadmap!RoadmapAssumption
ASSUME PrereleaseRoadmapAssumption == Prerelease!RoadmapAssumption
ASSUME DependenciesNAssumption == Dependencies!NAssumption
ASSUME TimelineAssumption == Timeline!TimelineAssumption
ASSUME LimitsTimelineAssumption == Limits!TimelineAssumption
ASSUME StagesTimelineAssumption == Stages!TimelineAssumption

(* `case` names the component that moves; the others stay switched off. *)
SuiteInit ==
  /\ case \in {"manifest", "call", "schema", "contract", "match", "dependencies", "roadmap",
              "prerelease", "timeline", "limits", "stages"}
  /\ Init /\ (case # "manifest" => part["p1"].anchor = "x1" /\ part["p2"].anchor = "x2")
  /\ IF case = "call" THEN Call!Init ELSE
       /\ mode = 0 /\ declared = 0 /\ authorized = 0 /\ plugin = 0 /\ bound = 0
       /\ stage = "done" /\ url = 0 /\ hops = 0 /\ aborted = 0 /\ requests = 0 /\ callResult = 0
       /\ out = 0
  /\ IF case = "schema" THEN Schema!Init ELSE
       /\ schema = 0 /\ value = 0 /\ todo = 0 /\ count = 0 /\ schemaVerdict = "none"
  /\ IF case = "contract" THEN Contract!Init ELSE
       /\ contractPins = 0 /\ held = 0 /\ pending = 0 /\ closure = 0 /\ phase = "done"
       /\ checks = 0 /\ values = 0 /\ contractVerdict = 0 /\ certifies = 0
  /\ IF case = "match" THEN Match!Init /\ features[1] \in Initial ELSE
       /\ features = 0 /\ matchPins = 0 /\ seeds = {} /\ selected = 0 /\ found = 0 /\ shown = 0
  /\ IF case = "dependencies" THEN Dependencies!Init ELSE
       /\ deps = 0 /\ next = 0 /\ stack = 0 /\ visiting = 0 /\ visited = 0 /\ answer = 0
       /\ issues = 0
  /\ IF case = "roadmap" THEN Roadmap!Init ELSE
     IF case = "prerelease" THEN Prerelease!Init ELSE left = 0 /\ right = 0 /\ third = 0
  /\ IF case = "timeline" THEN Timeline!Init ELSE IF case = "limits" THEN Limits!Init ELSE
     IF case = "stages" THEN Stages!Init ELSE
       /\ observed = 0 /\ source = 0 /\ status = 0 /\ timelineResult = 0 /\ metric = 0

SuiteNext ==
  \/ case = "manifest" /\ Next /\ UNCHANGED <<case, callVars, schemaVars, contractVars,
         matchVars, dependenciesVars, roadmapVars, timelineVars>>
  \/ case = "call" /\ Call!Next /\ UNCHANGED
       <<case, vars, schemaVars, contractVars, matchVars, dependenciesVars, roadmapVars,
         timelineVars>>
  \/ case = "schema" /\ Schema!Next /\ UNCHANGED
       <<case, vars, callVars, contractVars, matchVars, dependenciesVars, roadmapVars,
         timelineVars>>
  \/ case = "contract" /\ Contract!Next /\ UNCHANGED
       <<case, vars, callVars, schemaVars, matchVars, dependenciesVars, roadmapVars,
         timelineVars>>
  \/ case = "match" /\ Match!Next /\ UNCHANGED
       <<case, vars, callVars, schemaVars, contractVars, dependenciesVars, roadmapVars,
         timelineVars>>
  \/ case = "dependencies" /\ Dependencies!Next /\ UNCHANGED
       <<case, vars, callVars, schemaVars, contractVars, matchVars, roadmapVars, timelineVars>>
  \/ case = "roadmap" /\ Roadmap!Next /\ UNCHANGED
       <<case, vars, callVars, schemaVars, contractVars, matchVars, dependenciesVars,
         timelineVars>>
  \/ case = "prerelease" /\ Prerelease!Next /\ UNCHANGED
       <<case, vars, callVars, schemaVars, contractVars, matchVars, dependenciesVars,
         timelineVars>>
  \/ case = "timeline" /\ Timeline!Next /\ UNCHANGED
       <<case, vars, callVars, schemaVars, contractVars, matchVars, dependenciesVars,
         roadmapVars>>
  \/ case = "limits" /\ Limits!Next /\ UNCHANGED
       <<case, vars, callVars, schemaVars, contractVars, matchVars, dependenciesVars,
         roadmapVars>>
  \/ case = "stages" /\ Stages!Next /\ UNCHANGED
       <<case, vars, callVars, schemaVars, contractVars, matchVars, dependenciesVars,
         roadmapVars>>

suiteVars == <<case, vars, callVars, schemaVars, contractVars, matchVars, dependenciesVars,
               roadmapVars, timelineVars>>

(* The process goes on, and the timer of a call fires. *)
Fairness ==
  /\ WF_callVars(case = "call" /\ Call!Process) /\ WF_callVars(case = "call" /\ Call!Abort)
  /\ WF_schemaVars(case = "schema" /\ Schema!Next)
  /\ WF_contractVars(case = "contract" /\ Contract!Next)
  /\ WF_matchVars(case = "match" /\ Match!Next)
  /\ WF_dependenciesVars(case = "dependencies" /\ Dependencies!Next)

SuiteSpec == SuiteInit /\ [][SuiteNext]_suiteVars /\ Fairness

(* What a Plugin call returns is valid and within the narrower of the      *)
(* limits of tool and grant, and the secret goes to the governed origin    *)
(* only, over a bounded number of redirects (callTool); a value is         *)
(* accepted exactly when it conforms to the schema, through nested values  *)
(* and references (assertPluginJsonSchema).                                *)
CallIsContained ==
  /\ case = "call" => /\ Call!TypeOK
                      /\ Call!OutputWithinLimits
                      /\ Call!SecretsStayHome
                      /\ Call!BoundedRequests
  /\ case = "schema" => /\ Schema!AcceptedConforms
                        /\ Schema!RefusedDoesNotConform

(* The release evaluator certifies what the subject transitively pins, all *)
(* of it and nothing else, and passes on measured evidence; suggested      *)
(* compositions are saturated, fix no family at two versions, and are      *)
(* ranked; the dependency check reports exactly the real cycles; and       *)
(* roadmap versions are totally ordered, the current one not older than    *)
(* any.                                                                    *)
SearchesAreSound ==
  /\ case = "contract" => /\ Contract!TypeOK
                          /\ Contract!CertifiesClosure
                          /\ Contract!PassedIsMeasured
  /\ case = "match" => /\ Match!TypeOK
                       /\ Match!Saturated
                       /\ Match!NoVersionConflict
                       /\ Match!ShownInOrder
  /\ case = "dependencies" => Dependencies!FindsCycles
  /\ case = "roadmap" => /\ Roadmap!IsTotalOrder
                         /\ Roadmap!CurrentIsNewest
  /\ case = "prerelease" => /\ Prerelease!IsTotalOrder
                            /\ Prerelease!CurrentIsNewest

(* A part of the AIM view is green only while its evidence and its status  *)
(* source are within their limits, the limit of an item before that of its *)
(* source and this before the default, and on a satisfied result not       *)
(* withdrawn since; a record changes nothing shown for a time before its   *)
(* date, the interpolated progress excepted; and progress does not fall    *)
(* back while every record moves the part on (deriveVisualState, stateAt,  *)
(* lifecycleProgress).                                                     *)
TimelineIsHonest ==
  /\ [](/\ case = "timeline" => Timeline!GreenIsCurrent
        /\ case = "limits" => Limits!GreenIsCurrent
        /\ case = "stages" => Stages!ProgressNeverFallsBack)
  /\ [][case = "timeline" => Timeline!HistoryIsStable]_suiteVars

(* Every Plugin call ends, whether or not the service answers, and so do   *)
(* the schema walk, the resolution of pins, the capability search and the  *)
(* dependency check, on cyclic inputs too.                                 *)
AlgorithmsEnd ==
  /\ case = "call" => Call!CallEnds
  /\ case = "schema" => Schema!WalkEnds
  /\ case = "contract" => Contract!Terminates
  /\ case = "match" => Match!SearchEnds
  /\ case = "dependencies" => Dependencies!SearchEnds

=============================================================================
