-------------------------- MODULE ReleaseContract --------------------------
(* DeterministicContractReleaseEvaluator: the dependency closure of the    *)
(* suite's subject, one queue step at a time, then the suite's cases and   *)
(* its gates. Resources of the release pin dependencies; a pin may name a  *)
(* resource the release does not hold, and pins may form cycles.           *)
EXTENDS Naturals, Integers, Sequences, FiniteSets

CONSTANTS Resources, \* resources of the release
          Missing,   \* a pin no resource of the release answers
          Subject,   \* the resource the suite names
          MinRatio,  \* percent of assertions a ratio gate asks for
          MinSamples, MaxLatency,
          MaxPins,   \* bound on the pins of a resource
          Samples    \* the histories that are measured

ContractAssumption ==
  /\ IsFiniteSet(Resources) /\ Subject \in Resources /\ Missing \notin Resources
  /\ MinRatio \in Nat /\ MinSamples \in Nat \ {0} /\ MaxLatency \in Nat /\ MaxPins \in Nat
  /\ Samples \subseteq Seq(Nat)

VARIABLES pins,      \* dependencies of each resource, in manifest order
          held,      \* the resources the release holds with a valid manifest
          pending, closure, phase,
          checks,    \* what the assertions of the suite found: kind -> outcomes
          values,    \* measured history
          verdict, certifies

vars == <<pins, held, pending, closure, phase, checks, values, verdict, certifies>>

Kinds == {"output_schema_valid", "citations", "no_attempted_actions"}
Orders(S) == {s \in UNION {[1..n -> S] : n \in 0..Cardinality(S)} :
                \A i, j \in DOMAIN s : i # j => s[i] # s[j]}

Init ==
  /\ pins \in [Resources -> {s \in Orders(Resources \union {Missing}) : Len(s) <= MaxPins}]
  /\ held \in SUBSET Resources
  /\ pending = IF Subject \in held THEN <<Subject>> ELSE <<>>
  /\ closure = {}
  /\ phase = IF Subject \in held THEN "closing" ELSE "incomplete"
  /\ checks = [k \in Kinds |-> <<>>] /\ values = <<>>
  /\ verdict = "none" /\ certifies = {}

Resolved(d) == d \in held

(* One turn of resolveDependencyClosure's loop: a resource already in the  *)
(* closure is skipped; the first pin that does not resolve ends the search.*)
MutantVisit ==
  /\ phase = "closing" /\ pending # <<>>
  /\ LET r == Head(pending) IN
     /\ closure' = closure \union {r}
     /\ IF \A i \in DOMAIN pins[r] : Resolved(pins[r][i])
        THEN pending' = pins[r] /\ UNCHANGED phase
        ELSE pending' = <<>> /\ phase' = "incomplete"
  /\ UNCHANGED <<pins, held, checks, values, verdict, certifies>>

Visit ==
  /\ phase = "closing" /\ pending # <<>>
  /\ LET r == Head(pending) IN
     IF r \in closure
     THEN pending' = Tail(pending) /\ UNCHANGED <<closure, phase>>
     ELSE /\ closure' = closure \union {r}
          /\ IF \A i \in DOMAIN pins[r] : Resolved(pins[r][i])
             THEN pending' = Tail(pending) \o pins[r] /\ UNCHANGED phase
             ELSE pending' = <<>> /\ phase' = "incomplete"
  /\ UNCHANGED <<pins, held, checks, values, verdict, certifies>>

Closed ==
  /\ phase = "closing" /\ pending = <<>>
  /\ phase' = "complete"
  /\ UNCHANGED <<pins, held, pending, closure, checks, values, verdict, certifies>>

-----------------------------------------------------------------------------
(* The cases of the suite and the gates.                                   *)

Count(k, outcome) == Cardinality({i \in DOMAIN checks'[k] : checks'[k][i] = outcome})

(* contractGate: a gate the suite configures without an assertion fails. Ratios *)
(* are compared with thresholds in percent.                                *)
RatioGate(k) == Len(checks'[k]) > 0 /\ 100 * Count(k, TRUE) >= MinRatio * Len(checks'[k])
ActionGate == Len(checks'["no_attempted_actions"]) > 0 /\ Count("no_attempted_actions", FALSE) <= 0

(* historyGate over percentile95: too few samples is not applicable.       *)
Rank95(n) == LET i == (95 * n + 99) \div 100 - 1 IN IF i < 0 THEN 0 ELSE i
Percentile95(vs) ==
  CHOOSE v \in {vs[i] : i \in DOMAIN vs} :
    /\ Cardinality({i \in DOMAIN vs : vs[i] < v}) <= Rank95(Len(vs))
    /\ Cardinality({i \in DOMAIN vs : vs[i] <= v}) > Rank95(Len(vs))
HistoryGate(vs) ==
  IF Len(vs) < MinSamples THEN "not_applicable"
  ELSE IF Percentile95(vs) <= MaxLatency THEN "passed" ELSE "failed"

Passed(complete) ==
  /\ complete
  /\ \A k \in Kinds : \A i \in DOMAIN checks'[k] : checks'[k][i]
  /\ RatioGate("output_schema_valid") /\ RatioGate("citations") /\ ActionGate
  /\ HistoryGate(values') # "failed"

(* evaluateReleaseContract, once the closure is known. A subject that is   *)
(* absent fails every assertion.                                           *)
Evaluate ==
  /\ phase \in {"complete", "incomplete"}
  /\ checks' \in [Kinds -> UNION {[1..n -> BOOLEAN] : n \in 0..1}]
  /\ Subject \notin held => \A k \in Kinds : \A i \in DOMAIN checks'[k] : ~checks'[k][i]
  /\ values' \in Samples
  /\ verdict' = IF Passed(phase = "complete") THEN "passed" ELSE "failed"
  /\ certifies' = IF Passed(phase = "complete") THEN closure ELSE {}
  /\ phase' = "done"
  /\ UNCHANGED <<pins, held, pending, closure>>

Next == Visit \/ Closed \/ Evaluate

Spec == Init /\ [][Next]_vars /\ WF_vars(Next)

-----------------------------------------------------------------------------
(* Properties.                                                             *)

Pinned(r) == {pins[r][i] : i \in DOMAIN pins[r]}
PinClosed(S) == Subject \in S /\ \A r \in S \cap Resources : Pinned(r) \subseteq S

(* What the subject pins, directly or through others: the least such set.  *)
Reachable ==
  {r \in Resources \union {Missing} :
     \A S \in SUBSET (Resources \union {Missing}) : PinClosed(S) => r \in S}

TypeOK ==
  /\ phase \in {"closing", "complete", "incomplete", "done"}
  /\ closure \subseteq Resources /\ certifies \subseteq closure
  /\ verdict \in {"none", "passed", "failed"}

(* The evaluator certifies what the subject transitively pins, all of it   *)
(* and nothing else, and only when the release holds every pin, in spite   *)
(* of cycles and of the early return (resolveDependencyClosure).           *)
CertifiesClosure ==
  verdict = "passed" => certifies = Reachable /\ Reachable \subseteq held

(* A passed verdict rests on evidence of every contract gate and on no     *)
(* sample above the latency threshold unless it is beyond the percentile   *)
(* or history is too short (contractGate, historyGate).                    *)
PassedIsMeasured ==
  verdict = "passed" =>
    /\ \A k \in Kinds : checks[k] # <<>>
    /\ Len(values) >= MinSamples =>
         100 * Cardinality({i \in DOMAIN values : values[i] <= MaxLatency}) >= 95 * Len(values)

(* Cycles of pins do not keep the search from ending.                      *)
Terminates == <>(phase = "done")
=============================================================================
