--------------------------- MODULE DependencyCheck ---------------------------
(***************************************************************************)
(* requireAcyclicDependencies of the AIM program contract                  *)
(* (packages/contracts/src/aim/program-contract.ts): a depth-first search  *)
(* that stops a node at its first bad dependency and never visits a node   *)
(* twice.  One step is one call or one return of visit.                    *)
(***************************************************************************)
EXTENDS Naturals, Sequences, SequencesExt, FiniteSets

CONSTANTS N       \* the manifest's capabilities, in order, are 1 .. N

NAssumption == N \in Nat \ {0}

VARIABLES
  deps,           \* dependencyIds of each capability, in the order listed
  next,           \* the capability the outer loop comes to
  stack,          \* calls of visit in progress: <<id, dependencies done>>
  visiting, visited,
  answer,         \* what the visit that just returned returned; "none" otherwise
  issues          \* capabilities named in "Dependency cycle includes"

vars == <<deps, next, stack, visiting, visited, answer, issues>>

Ids   == 1 .. N
Lists == UNION {{f \in [1..n -> Ids] : \A i, j \in 1..n : i # j => f[i] # f[j]} : n \in 0..N}

(* References are known and no capability names itself: the checks before. *)
Init ==
  /\ deps \in {d \in [Ids -> Lists] : \A i \in Ids : \A k \in DOMAIN d[i] : d[i][k] # i}
  /\ next = 1 /\ stack = <<>> /\ visiting = {} /\ visited = {} /\ answer = "none" /\ issues = {}

Top == stack[Len(stack)]

(* visit(id), up to its first recursive call.                              *)
Enter(id) ==
  IF id \in visiting THEN answer' = "cycle" /\ UNCHANGED <<stack, visiting>>
  ELSE IF id \in visited THEN answer' = "valid" /\ UNCHANGED <<stack, visiting>>
  ELSE stack' = Append(stack, <<id, 0>>) /\ visiting' = visiting \cup {id} /\ answer' = "none"

(* values.forEach: the next capability in order.                           *)
Root ==
  /\ stack = <<>> /\ answer = "none" /\ next <= N
  /\ Enter(next)
  /\ UNCHANGED <<deps, next, visited, issues>>

(* every: the next dependency while none has failed.                       *)
Descend ==
  /\ stack # <<>> /\ answer = "none" /\ Top[2] < Len(deps[Top[1]])
  /\ Enter(deps[Top[1]][Top[2] + 1])
  /\ UNCHANGED <<deps, next, visited, issues>>

Return(result) ==
  /\ visiting' = visiting \ {Top[1]} /\ visited' = visited \cup {Top[1]}
  /\ stack' = Front(stack) /\ answer' = result
  /\ UNCHANGED <<deps, next, issues>>

AllDone == stack # <<>> /\ answer = "none" /\ Top[2] = Len(deps[Top[1]]) /\ Return("valid")
ShortCircuit == stack # <<>> /\ answer = "cycle" /\ Return("cycle")

Advance ==
  /\ stack # <<>> /\ answer = "valid"
  /\ stack' = [stack EXCEPT ![Len(stack)] = <<Top[1], Top[2] + 1>>] /\ answer' = "none"
  /\ UNCHANGED <<deps, next, visiting, visited, issues>>

(* Back in the outer loop: addIssue when the visit failed.                 *)
Report ==
  /\ stack = <<>> /\ answer # "none"
  /\ issues' = issues \cup (IF answer = "cycle" THEN {next} ELSE {})
  /\ next' = next + 1 /\ answer' = "none"
  /\ UNCHANGED <<deps, stack, visiting, visited>>

Next == Root \/ Descend \/ AllDone \/ ShortCircuit \/ Advance \/ Report

Spec == Init /\ [][Next]_vars /\ WF_vars(Next)

-----------------------------------------------------------------------------
Done == next = N + 1

(* Dependencies have a cycle when there are capabilities each of which     *)
(* depends on one of them.                                                 *)
HasCycle == \E C \in SUBSET Ids : C # {} /\ \A i \in C : \E k \in DOMAIN deps[i] : deps[i][k] \in C

(* The search reports something exactly when the dependencies really have  *)
(* a cycle, although it cuts nodes short and marks them visited.           *)
(* (requireAcyclicDependencies.)                                           *)
FindsCycles == Done => (issues # {} <=> HasCycle)

(* The search ends, also on cyclic dependencies.                           *)
SearchEnds == <>Done

=============================================================================
