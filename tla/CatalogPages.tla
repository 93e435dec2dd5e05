---------------------------- MODULE CatalogPages ----------------------------
(***************************************************************************)
(* CatalogService.list: a client follows nextCursor through the ranked     *)
(* families of the catalog while agents are created, promoted and retired. *)
(* The cursor is the last family of the page; where it is not listed any   *)
(* more the listing starts again from its first entry.                     *)
(***************************************************************************)
EXTENDS Naturals, FiniteSets

CONSTANTS
  Families,    \* families, by the rank of their slug: numbers
  Versions,    \* version numbers of agents
  Limit,       \* entries of a page
  MaxChanges,  \* bound on changes during the listing
  None         \* no cursor, no champion

CatalogAssumption ==
  /\ Families \subseteq Nat \ {0} /\ IsFiniteSet(Families) /\ None \notin Families \union {0}
  /\ Versions \subseteq Nat /\ IsFiniteSet(Versions) /\ None \notin Versions
  /\ Limit \in Nat \ {0}

VARIABLES
  agents,    \* for each family the versions that are not retired
  champion,  \* for each family its champion
  cursor,    \* what the client sends next, "done" at the end
  seen,      \* what the client has been shown
  stayed,    \* families listed ever since the client began
  changes

vars == <<agents, champion, cursor, seen, stayed, changes>>

Listed == {f \in Families : agents[f] # {}}

(* A family is represented by its champion, else by its newest version.    *)
Representative(f) ==
  IF champion[f] \in agents[f] THEN champion[f]
  ELSE CHOOSE v \in agents[f] : \A w \in agents[f] : w <= v

Init ==
  /\ agents \in [Families -> SUBSET Versions]
  /\ champion = [f \in Families |-> None]
  /\ cursor = None /\ seen = {} /\ changes = 0
  /\ stayed = Listed

(* What follows the cursor, all where it is not found.                     *)
MutantRemaining ==
  IF cursor = None THEN Listed ELSE {f \in Listed : f > cursor + 1}

Remaining ==
  IF cursor \in Listed THEN {f \in Listed : f > cursor} ELSE Listed

Page == {f \in Remaining : Cardinality({g \in Remaining : g < f}) < Limit}

Fetch ==
  /\ cursor # 0
  /\ seen' = seen \union {<<f, Representative(f)>> : f \in Page}
  /\ IF Cardinality(Remaining) > Limit
     THEN cursor' \in {f \in Page : \A g \in Page : g <= f}
     ELSE cursor' = 0
  /\ UNCHANGED <<agents, champion, stayed, changes>>

(* spec-service, promotion-service: versions come, become champion, retire.*)
Change(f, v) ==
  /\ changes < MaxChanges /\ changes' = changes + 1
  /\ \/ agents' = [agents EXCEPT ![f] = @ \union {v}] /\ UNCHANGED champion
     \/ v \in agents[f] /\ champion' = [champion EXCEPT ![f] = v] /\ UNCHANGED agents
     \/ /\ agents' = [agents EXCEPT ![f] = @ \ {v}]
        /\ champion' = [champion EXCEPT ![f] = IF @ = v THEN None ELSE @]
  /\ stayed' = stayed \ {g \in Families : agents'[g] = {}}
  /\ UNCHANGED <<cursor, seen>>

Next == Fetch \/ \E f \in Families, v \in Versions : Change(f, v)

Spec == Init /\ [][Next]_vars

(* The client follows the cursor. *)
FairSpec == Spec /\ WF_vars(Fetch)

-----------------------------------------------------------------------------
(* A client that has reached the end was shown every family that was       *)
(* listed all the time, whatever was retired or created between pages.     *)
NothingSkipped == cursor = 0 => stayed \subseteq {s[1] : s \in seen}

(* It was shown a family's champion if the family had one all along: never *)
(* a version that was not listed.                                          *)
ShowsRepresentative ==
  \A s \in seen' \ seen : /\ s[2] \in agents[s[1]]
                          /\ champion[s[1]] # None => s[2] = champion[s[1]]
                          /\ champion[s[1]] = None => \A w \in agents[s[1]] : w <= s[2]

(* Although a retired cursor starts the listing again, it comes to an end  *)
(* when the catalog stops changing.                                        *)
ReachesEnd == <>(cursor = 0)
=============================================================================
