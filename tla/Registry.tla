------------------------------ MODULE Registry ------------------------------
(***************************************************************************)
(* RegistryService: manifests compiled from Git are imported as versions   *)
(* of resource families, pin their dependencies by digest, freeze when     *)
(* they leave experimental, and enter immutable releases. Imports run      *)
(* under READ COMMITTED: a request reads and checks, then writes; the      *)
(* database refuses a second row of a version and, by a trigger, a change  *)
(* of a frozen one.                                                        *)
(***************************************************************************)
EXTENDS Naturals, FiniteSets

CONSTANTS
  Versions,     \* exact versions (family and version number)
  FamilyOf,     \* the family of a version
  Editions,     \* contents a manifest can have beside its dependencies
  Requests,     \* concurrent requests
  MaxStage,     \* bound on how far lifecycles advance
  Candidates,   \* improvement candidates an import may be linked to
  None

(* MaxStage is a position in Lifecycles.                                   *)
StageAssumption == MaxStage \in 1..5

Lifecycles == <<"experimental", "candidate", "evaluated", "certified", "deprecated">>

(* What a manifest says; its digest is a hash of all of it.                *)
Manifests == [deps : SUBSET Versions, lifecycle : {"experimental", "candidate"}, edition : Editions]

VARIABLES
  version,   \* the stored versions
  imports,   \* RepositoryImport: version, digest and improvement candidate
  releases,  \* the releases: for each, the digests by version
  request    \* what a request has read

vars == <<version, imports, releases, request>>

NoVersion == [lifecycle |-> "none"]
Idle == [op |-> "idle"]
Stored == {v \in Versions : version[v] # NoVersion}

Init ==
  /\ version = [v \in Versions |-> NoVersion]
  /\ imports = {}
  /\ releases = {}
  /\ request = [r \in Requests |-> Idle]

Frozen(v) == version[v].lifecycle # "experimental"

(* The versions that v reaches by the pins in the graph deps.              *)
Reaches(deps, v) ==
  LET out[n \in 0..Cardinality(Versions)] ==
        IF n = 0 THEN deps[v] ELSE out[n - 1] \union UNION {deps[w] : w \in out[n - 1]}
  IN out[Cardinality(Versions)]

Graph == [v \in Versions |-> IF v \in Stored THEN version[v].manifest.deps ELSE {}]

(* assertAcyclicExactPins on what is stored with the proposed version.     *)
AcyclicWith(v, deps) ==
  LET proposed == [Graph EXCEPT ![v] = deps] IN
  \A w \in Stored \union {v} : w \notin Reaches(proposed, w)

(* importResource up to its writes; c is the incubating improvement        *)
(* candidate the import is linked to.                                      *)
ReadImport(r, v, m, c) ==
  /\ request[r] = Idle
  /\ m.deps \subseteq Stored /\ AcyclicWith(v, m.deps)
  /\ v \in Stored => version[v].manifest = m \/ ~Frozen(v)
  /\ request' = [request EXCEPT ![r] =
       [op |-> "import", version |-> v, manifest |-> m, candidate |-> c,
        seen |-> IF version[v] = NoVersion THEN "new"
                 ELSE IF version[v].manifest = m THEN "same" ELSE "changed",
        pins |-> [d \in m.deps |-> version[d].manifest]]]
  /\ UNCHANGED <<version, imports, releases>>

(* The unique key and the trigger "Frozen resource definition is           *)
(* immutable" abort the transaction.                                       *)
MutantRefused(q) == q.seen = "new" /\ version[q.version] # NoVersion

Refused(q) ==
  \/ q.seen = "new" /\ version[q.version] # NoVersion
  \/ q.seen = "changed" /\ Frozen(q.version)

(* One import per version and digest, bound to one candidate at most.      *)
ImportsOf(q) == {i \in imports : i.version = q.version /\ i.digest = q.manifest}

Bound(q) == \E i \in ImportsOf(q) : q.candidate # None /\ i.candidate \notin {None, q.candidate}

(* Pins that a row does not have yet are added to it.                      *)
WithMissing(pins, more) ==
  [d \in DOMAIN pins \union DOMAIN more |-> IF d \in DOMAIN pins THEN pins[d] ELSE more[d]]

(* The row is created, or changed with its pins; where the digest was the  *)
(* same, pins that are missing are added.                                  *)
WriteImport(r) ==
  LET q == request[r]
      row == [version |-> q.version, digest |-> q.manifest, candidate |-> q.candidate] IN
  /\ q.op = "import"
  /\ request' = [request EXCEPT ![r] = Idle]
  /\ IF Refused(q) \/ Bound(q) THEN UNCHANGED <<version, imports>>
     ELSE /\ version' = IF q.seen = "same" THEN [version EXCEPT ![q.version].pins = WithMissing(@, q.pins)]
                        ELSE [version EXCEPT ![q.version] =
                                [manifest |-> q.manifest, lifecycle |-> q.manifest.lifecycle, pins |-> q.pins]]
          /\ imports' = IF q.candidate = None /\ ImportsOf(q) # {} THEN imports
                        ELSE (imports \ ImportsOf(q)) \union {row}
  /\ UNCHANGED releases

(* Evaluation and promotion move a frozen version on, never back.          *)
Advance(v) ==
  /\ v \in Stored /\ Frozen(v)
  /\ \E n \in 2..(MaxStage - 1) : /\ version[v].lifecycle = Lifecycles[n]
                     /\ version' = [version EXCEPT ![v].lifecycle = Lifecycles[n + 1]]
  /\ UNCHANGED <<imports, releases, request>>

-----------------------------------------------------------------------------
(* createRelease reads and checks the versions before its transaction.     *)

Releasable(v) == version[v].lifecycle \in {"candidate", "evaluated", "certified"}

Closed(set) == \A v \in set : version[v].manifest.deps \subseteq set

ReadRelease(r, set) ==
  /\ request[r] = Idle /\ set # {} /\ set \subseteq Stored
  /\ \A v, w \in set : FamilyOf[v] = FamilyOf[w] => v = w
  /\ (\A v \in set : Releasable(v)) /\ Closed(set)
  /\ request' = [request EXCEPT ![r] =
       [op |-> "release", digests |-> [v \in set |-> version[v].manifest]]]
  /\ UNCHANGED <<version, imports, releases>>

(* A release of the same digest is returned as it is.                      *)
WriteRelease(r) ==
  /\ request[r].op = "release"
  /\ request' = [request EXCEPT ![r] = Idle]
  /\ releases' = releases \union {request[r].digests}
  /\ UNCHANGED <<version, imports>>

(* resolvedDependencies of a roadmap: pins whose digest is not the         *)
(* target's any more make it unavailable.                                  *)
Mismatched(v) == {d \in version[v].manifest.deps : version[v].pins[d] # version[d].manifest}

Next ==
  \/ \E r \in Requests :
       \/ \E v \in Versions, m \in Manifests, c \in Candidates \union {None} : ReadImport(r, v, m, c)
       \/ WriteImport(r) \/ WriteRelease(r)
       \/ \E set \in SUBSET Versions : ReadRelease(r, set)
  \/ \E v \in Versions : Advance(v)

Spec == Init /\ [][Next]_vars

-----------------------------------------------------------------------------
(* Properties.                                                             *)

TypeOK ==
  /\ \A v \in Stored : version[v].manifest \in Manifests /\ version[v].manifest.deps \subseteq DOMAIN version[v].pins
  /\ \A i \in imports : i.version \in Stored /\ i.digest \in Manifests

(* "Frozen resource definition is immutable": once a version has left      *)
(* experimental its manifest and its pins stay, whatever two imports have  *)
(* read before (importResource).                                           *)
FrozenIsImmutable ==
  \A v \in Stored : Frozen(v) => /\ version'[v].manifest = version[v].manifest
                                 /\ \A d \in DOMAIN version[v].pins :
                                      version'[v].pins[d] = version[v].pins[d]

(* A release names what is stored: its digests are those of the versions,  *)
(* for good, and every dependency of its members is a member.              *)
ReleaseIsExact ==
  \A rel \in releases : \A v \in DOMAIN rel :
    rel[v] = version[v].manifest /\ rel[v].deps \subseteq DOMAIN rel

(* A pin whose digest does not match its target any more, on which the     *)
(* roadmaps answer that they are unavailable, was of an experimental       *)
(* version (resolvedDependencies).                                         *)
StalePinWasExperimental ==
  \A v \in Stored : \A d \in Mismatched(v) : version[v].pins[d].lifecycle = "experimental"

(* "Repository import lineage is already bound to another improvement      *)
(* candidate": an import's candidate, once set, stays, and there is one    *)
(* import per version and digest.                                          *)
LineageIsImmutable ==
  \A i \in imports : \E j \in imports' :
    /\ j.version = i.version /\ j.digest = i.digest
    /\ i.candidate # None => j.candidate = i.candidate

(* "Resource dependency pins form a cycle": no version reaches itself.     *)
NoCycle == \A v \in Stored : v \notin Reaches(Graph, v)

=============================================================================
