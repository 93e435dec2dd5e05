--------------------------- MODULE RoadmapProgram ---------------------------
(***************************************************************************)
(* RoadmapService.getProgram: the newest version, by semantic version, of  *)
(* each of two Roadmap families is projected with its exact dependencies,  *)
(* or the program is unavailable. compareRoadmapVersions is checked as an  *)
(* order on all triples of versions.                                       *)
(***************************************************************************)
EXTENDS Integers, Sequences, FiniteSets, SequencesExt

CONSTANTS
  Cores,       \* the cores <<major, minor, patch>> of versions
  MaxNumber,   \* bound on numbers in a prerelease
  Names,       \* alphanumeric prerelease identifiers: numbers in their order
  MaxParts,    \* bound on the length of a prerelease
  None         \* no prerelease

(* A prerelease identifier is a number or a name; names are numbered in    *)
(* the order localeCompare gives them.  Numbers are without leading zeros. *)
Identifiers == [numeric : {TRUE}, value : 0..MaxNumber] \union [numeric : {FALSE}, value : Names]
Prereleases == UNION {[1..n -> Identifiers] : n \in 1..MaxParts}
SemVers == [core : Cores, pre : Prereleases \union {None}]

RoadmapAssumption ==
  /\ Cores \subseteq Nat \X Nat \X Nat
  /\ MaxNumber \in Nat /\ Names \subseteq Int /\ MaxParts \in Nat

VARIABLES left, right, third

vars == <<left, right, third>>

FirstDifference(a, b) ==
  LET differ == {n \in 1..Len(a) : n <= Len(b) /\ a[n] # b[n]} IN
  IF differ = {} THEN 0 ELSE CHOOSE n \in differ : \A m \in differ : n <= m

(* comparePrerelease: the first difference decides, a number is below a    *)
(* name, the shorter is below the longer.                                  *)
ComparePrerelease(a, b) ==
  LET n == FirstDifference(a, b) IN
  IF n = 0 THEN Len(a) - Len(b)
  ELSE IF a[n].numeric # b[n].numeric THEN (IF a[n].numeric THEN -1 ELSE 1)
  ELSE a[n].value - b[n].value

CompareRoadmapVersions(a, b) ==
  LET n == FirstDifference(a.core, b.core) IN
  IF n # 0 THEN a.core[n] - b.core[n]
  ELSE IF a.pre = None THEN (IF b.pre = None THEN 0 ELSE 1)
  ELSE IF b.pre = None THEN -1
  ELSE ComparePrerelease(a.pre, b.pre)

(* currentRoadmapVersions takes the first after sorting down.              *)
Current(versions) ==
  SetToSortSeq(versions, LAMBDA a, b : CompareRoadmapVersions(a, b) > 0)[1]

Init == left \in SemVers /\ right \in SemVers /\ third \in SemVers
Next == UNCHANGED vars
Spec == Init /\ [][Next]_vars

-----------------------------------------------------------------------------
(* compareRoadmapVersions is a total order: it is zero on equal versions   *)
(* only, changes sign with its arguments and is transitive, so the sort    *)
(* that picks the current version has one answer.                          *)
IsTotalOrder ==
  /\ CompareRoadmapVersions(left, right) = 0 <=> left = right
  /\ CompareRoadmapVersions(left, right) < 0 <=> CompareRoadmapVersions(right, left) > 0
  /\ CompareRoadmapVersions(left, right) < 0 /\ CompareRoadmapVersions(right, third) < 0
       => CompareRoadmapVersions(left, third) < 0

(* A release is newer than each of its prereleases, and the current        *)
(* version is not older than any (currentRoadmapVersions).                 *)
CurrentIsNewest ==
  LET current == Current({left, right, third}) IN
  /\ \A v \in {left, right, third} : CompareRoadmapVersions(v, current) <= 0
  /\ current.pre # None => [current EXCEPT !.pre = None] \notin {left, right, third}
=============================================================================
