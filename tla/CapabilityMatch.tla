--------------------------- MODULE CapabilityMatch ---------------------------
(* The matching behind a builder's referred choices: coverage and delta of *)
(* capability features, and the greedy search for compositions of Skills   *)
(* that together cover more of a request (suggestSkillCompositions), kept  *)
(* only if their exact version pins agree (compatibleComposition).         *)
EXTENDS Naturals, Sequences, FiniteSets, SequencesExt

CONSTANTS Requested, \* features the intake asks for
          Extra,     \* features it does not ask for
          Skills,    \* ids, ordered
          MaxSkills, MaxSuggestions

MatchAssumption ==
  /\ IsFiniteSet(Requested) /\ IsFiniteSet(Skills) /\ Skills \subseteq Nat
  /\ MaxSkills \in Nat \ {0, 1}

VARIABLES features, \* skill -> its features
          pins,     \* skill -> the versions it fixes: its own family, then its dependencies
          seeds,    \* candidates whose composition is still to be tried
          selected, \* the composition being grown
          found, shown

vars == <<features, pins, seeds, selected, found, shown>>

Matched(s) == features[s] \intersect Requested
CoveredBy(S) == UNION {Matched(s) : s \in S}

(* capabilityDelta and structuredCapabilityCoverage. *)
Delta(S) ==
  LET offered == UNION {features[s] : s \in S} IN
  [has |-> Requested \intersect offered, lacks |-> Requested \ offered, offers |-> offered \ Requested]
Coverage(S) == (100 * Cardinality(Delta(S).has)) \div Cardinality(Requested)

Gain(s, S) == Cardinality(Matched(s) \ CoveredBy(S))
(* More gain first, then the smaller id. *)
Better(s, t, S) == Gain(s, S) > Gain(t, S) \/ (Gain(s, S) = Gain(t, S) /\ s < t)

(* First(C, S): what the sort by gain puts first. *)
First(C, S) == {s \in C : \A t \in C : s = t \/ Better(s, t, S)}

Candidates == {s \in Skills : Matched(s) # {}}

Init ==
  /\ features \in [Skills -> SUBSET (Requested \union Extra)]
  /\ pins \in [Skills -> {<<>>} \union {<<<<t, v>>>> : t \in Skills, v \in 1..2}]
  /\ \A s \in Skills : pins[s] # <<>> => pins[s][1][1] # s
  /\ seeds = Candidates
  /\ selected = {} /\ found = {} /\ shown = <<>>

MutantGrowable(S) ==
  {s \in Candidates \ S : Cardinality(S) < MaxSkills /\ CoveredBy(S) # Requested /\ Gain(s, S) >= 0}

Growable(S) ==
  {s \in Candidates \ S : Cardinality(S) < MaxSkills /\ CoveredBy(S) # Requested /\ Gain(s, S) > 0}

(* One turn of the inner loop: the candidate that gains most joins.        *)
Grow(seed) ==
  LET S == selected \union {seed} IN
  /\ selected' \in {S \union {s} : s \in First(Growable(S), S)}
  /\ UNCHANGED <<features, pins, seeds, found, shown>>

(* The seed's composition is complete: one Skill alone is no composition.  *)
NextSeed(seed) ==
  LET S == selected \union {seed} IN
  /\ Growable(S) = {}
  /\ found' = IF Cardinality(S) < 2 THEN found ELSE found \union {S}
  /\ seeds' = seeds \ {seed} /\ selected' = {}
  /\ UNCHANGED <<features, pins, shown>>

(* By coverage, then the fewer Skills, then the ids. *)
Ranks(S, T) ==
  \/ Coverage(S) > Coverage(T)
  \/ Coverage(S) = Coverage(T) /\ Cardinality(S) < Cardinality(T)
  \/ /\ Coverage(S) = Coverage(T) /\ Cardinality(S) = Cardinality(T)
     /\ \E s \in S \ T : \A t \in T \ S : s < t

(* compatibleComposition: versions are collected in order and the first    *)
(* disagreement ends it.                                                   *)
Fix(known, pin) ==
  IF known.ok /\ pin[1] \in DOMAIN known.version /\ known.version[pin[1]] # pin[2]
  THEN [known EXCEPT !.ok = FALSE]
  ELSE [known EXCEPT !.version = [f \in DOMAIN @ \union {pin[1]} |-> IF f = pin[1] THEN pin[2] ELSE @[f]]]

Fixed(s) == <<<<s, 1>>>> \o pins[s]
Compatible(S) ==
  LET all == FlattenSeq([i \in 1..Cardinality(S) |-> Fixed(SetToSortSeq(S, <)[i])])
  IN FoldLeft(Fix, [ok |-> TRUE, version |-> <<>>], all).ok

Show ==
  /\ seeds = {} /\ found # {} /\ shown = <<>>
  /\ LET ranked == SetToSortSeq(found, Ranks)
         cut == SubSeq(ranked, 1, IF Len(ranked) < MaxSuggestions THEN Len(ranked) ELSE MaxSuggestions)
     IN shown' = SelectSeq(cut, Compatible)
  /\ UNCHANGED <<features, pins, seeds, selected, found>>

Next == Show \/ \E seed \in First(seeds, {}) : Grow(seed) \/ NextSeed(seed)

Spec == Init /\ [][Next]_vars /\ WF_vars(Next)

-----------------------------------------------------------------------------
(* Properties.                                                             *)

TypeOK ==
  /\ found \subseteq {S \in SUBSET Skills : Cardinality(S) \in 2..MaxSkills}
  /\ selected \subseteq Skills /\ Range(shown) \subseteq found

(* No Skill that would add to a suggested composition was left out while   *)
(* there was room, and each Skill after the first added coverage           *)
(* (suggestSkillCompositions).                                             *)
Saturated ==
  \A S \in found :
    /\ Cardinality(S) = MaxSkills \/ \A s \in Skills : Gain(s, S) = 0
    /\ \E s \in S : Cardinality(CoveredBy(S)) >= Cardinality(Matched(s)) + Cardinality(S) - 1

(* Skills suggested together never fix one family at two versions,         *)
(* whatever the order they are looked at in (compatibleComposition).       *)
NoVersionConflict ==
  \A i \in DOMAIN shown : \A s, t \in shown[i] :
    \A p \in {<<s, 1>>} \union Range(pins[s]), q \in {<<t, 1>>} \union Range(pins[t]) :
      p[1] = q[1] => p[2] = q[2]

(* What is shown is ranked, and its delta splits the request.              *)
ShownInOrder ==
  /\ \A i, j \in DOMAIN shown : i < j => Coverage(shown[i]) >= Coverage(shown[j])
  /\ \A i \in DOMAIN shown : Delta(shown[i]).lacks = Requested \ CoveredBy(shown[i])

(* The greedy search ends for every catalog.                               *)
SearchEnds == <>(seeds = {})
=============================================================================
