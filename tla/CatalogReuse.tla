---------------------------- MODULE CatalogReuse ----------------------------
(* ReuseService and CatalogIndexService: publications are activated with   *)
(* their release and retired by hand, an outbox carries each change to the *)
(* catalog index, and a builder's decision on a referred choice deploys    *)
(* it. retirePublication and the activation are Serializable transactions  *)
(* on the publication's row; createDecision reads the catalog before its   *)
(* transaction and runs at READ COMMITTED.                                 *)
EXTENDS Naturals, Sequences, FiniteSets

CONSTANTS Intakes, Keys, Requests, Indexers,
          MaxRevision, MaxAttempts, MaxConfigs

(* Nothing is an intake that marks the absence of one. *)
ReuseAssumption ==
  /\ "none" \notin Intakes /\ MaxRevision \in Nat \ {0} /\ MaxAttempts \in Nat
  /\ MaxConfigs \in Nat

VARIABLES pub,        \* the publication: state and revision
          outbox,     \* revision -> state of its event
          attempts,   \* revision -> claims of its event so far
          index,      \* revision and retired flag the index holds
          held,       \* event each indexer works on, 0 if none
          intake,     \* state of each intake
          decision,   \* idempotency key -> recorded decision
          observed,   \* intakes with a demand observation
          deployment, \* intake -> its deployment
          req         \* a createDecision request under way

pubVars == <<pub, outbox>>
indexVars == <<attempts, index, held>>
builderVars == <<intake, decision, observed, deployment, req>>
vars == <<pub, outbox, attempts, index, held, intake, decision, observed, deployment, req>>

Revisions == 1..MaxRevision
NoDecision == [intake |-> "none", action |-> "none"]
NoDeployment == [active |-> FALSE, flagged |-> FALSE, config |-> 0]
Idle == [pc |-> "idle"]
Actions == {"use_as_is", "configure", "extend", "build_new"}

Init ==
  /\ pub = [state |-> "prepared", revision |-> 1]
  /\ outbox = [n \in Revisions |-> "absent"] /\ attempts = [n \in Revisions |-> 0]
  /\ index = [revision |-> 0, retired |-> TRUE]
  /\ held = [x \in Indexers |-> 0]
  /\ intake = [i \in Intakes |-> "absent"]
  /\ decision = [k \in Keys |-> NoDecision]
  /\ observed = {}
  /\ deployment = [i \in Intakes |-> NoDeployment]
  /\ req = [q \in Requests |-> Idle]

-----------------------------------------------------------------------------
(* Publications.                                                           *)

(* Odd revisions retire and even ones activate: the publication starts     *)
(* prepared at revision 1 and the two alternate.                           *)
Retires(n) == n % 2 = 1

Enqueue(n) == outbox' = [outbox EXCEPT ![n] = "pending"]

FlagDeployments(flag) ==
  deployment' = [i \in Intakes |-> IF deployment[i].active
                                   THEN [deployment[i] EXCEPT !.flagged = flag] ELSE deployment[i]]

Republish(state) ==
  /\ pub.revision < MaxRevision
  /\ pub' = [state |-> state, revision |-> pub.revision + 1]
  /\ Enqueue(pub.revision + 1)
  /\ FlagDeployments(state = "retired")
  /\ UNCHANGED <<indexVars, intake, decision, observed, req>>

(* activateReleaseCatalogPublications when the channel reaches the release. *)
Activate == pub.state \in {"prepared", "retired"} /\ Republish("active")
(* retirePublication, or the channel leaving the release. *)
Retire == pub.state = "active" /\ Republish("retired")

-----------------------------------------------------------------------------
(* The index outbox.                                                       *)

MutantClaimable(n) == attempts[n] < MaxAttempts /\ outbox[n] = "failed"

Claimable(n) == attempts[n] < MaxAttempts /\ outbox[n] \in {"pending", "failed"}
(* A claim older than five minutes, its indexer dead or slow. *)
Stale(n) == attempts[n] < MaxAttempts /\ outbox[n] = "processing"

Claim(x, n) ==
  /\ held[x] = 0
  /\ Claimable(n) \/ Stale(n)
  /\ outbox' = [outbox EXCEPT ![n] = "processing"]
  /\ attempts' = [attempts EXCEPT ![n] = @ + 1]
  /\ held' = [held EXCEPT ![x] = n]
  /\ UNCHANGED <<pub, index, builderVars>>

MutantNewer(n) == TRUE

Newer(n) == index.revision <= n

(* processOne's transaction, after the embedding: an event that is no      *)
(* longer processing is left alone, an older revision does not overwrite   *)
(* the index.                                                              *)
Publish(x) ==
  LET n == held[x] IN
  /\ n # 0
  /\ held' = [held EXCEPT ![x] = 0]
  /\ IF outbox[n] = "processing"
     THEN /\ index' = IF Newer(n) THEN [revision |-> n, retired |-> Retires(n)] ELSE index
          /\ outbox' = [outbox EXCEPT ![n] = "published"]
     ELSE UNCHANGED <<index, outbox>>
  /\ UNCHANGED <<pub, attempts, builderVars>>

(* The embedding or the transaction fails: the event is marked failed,     *)
(* whoever holds it by now.                                                *)
Fail(x) ==
  /\ held[x] # 0
  /\ outbox' = [outbox EXCEPT ![held[x]] = "failed"]
  /\ held' = [held EXCEPT ![x] = 0]
  /\ UNCHANGED <<pub, attempts, index, builderVars>>

(* The process stops in the middle of an event. *)
Crash(x) ==
  /\ held[x] # 0
  /\ held' = [held EXCEPT ![x] = 0]
  /\ UNCHANGED <<pubVars, attempts, index, builderVars>>

-----------------------------------------------------------------------------
(* Intakes, decisions and deployments.                                     *)

(* Confirmed at once or not at all: nothing confirms an intake later.      *)
CreateIntake(i) ==
  /\ intake[i] = "absent"
  /\ \E state \in {"interpreted", "confirmed"} : intake' = [intake EXCEPT ![i] = state]
  /\ UNCHANGED <<pubVars, indexVars, decision, observed, deployment, req>>

(* A completed retry is answered before the mutable catalog is consulted;  *)
(* otherwise the choice must be an active referred one, indexed as such.   *)
Referred == ~index.retired /\ pub.state = "active"
Replays(k, i, a) == decision[k] = [intake |-> i, action |-> a]

Submit(q) ==
  /\ req[q] = Idle
  /\ \E i \in Intakes, k \in Keys, a \in Actions :
       /\ decision[k] = NoDecision
       /\ a # "build_new" => Referred
       /\ req' = [req EXCEPT ![q] = [pc |-> "locked", intake |-> i, key |-> k, action |-> a]]
  /\ UNCHANGED <<pubVars, indexVars, intake, decision, observed, deployment>>

(* The transaction holds the key's and the intake's lock, and reads.       *)
LockHeld(q) == \E p \in Requests \ {q} : req[p].pc = "write" /\
                 (req[p].key = req[q].key \/ req[p].intake = req[q].intake)

Check(q) ==
  /\ req[q].pc = "locked" /\ ~LockHeld(q)
  /\ LET x == req[q]
         refused == \/ decision[x.key] # NoDecision
                    \/ intake[x.intake] # "confirmed"
                    \/ x.action # "build_new" /\ pub.state # "active"
     IN req' = [req EXCEPT ![q] = IF refused THEN Idle ELSE [x EXCEPT !.pc = "write"]]
  /\ UNCHANGED <<pubVars, indexVars, intake, decision, observed, deployment>>

Deploys(a) == a \in {"use_as_is", "configure"}

(* The inserts of the same transaction; the publication is not locked.     *)
Record(q) ==
  /\ req[q].pc = "write"
  /\ LET x == req[q] IN
     /\ decision' = [decision EXCEPT ![x.key] = [intake |-> x.intake, action |-> x.action]]
     /\ intake' = [intake EXCEPT ![x.intake] = "decided"]
     /\ observed' = IF x.action = "build_new" THEN observed \union {x.intake} ELSE observed
     /\ deployment' = IF Deploys(x.action)
                      THEN [deployment EXCEPT ![x.intake] =
                              [active |-> TRUE, flagged |-> FALSE,
                               config |-> IF x.action = "configure" THEN 1 ELSE 0]]
                      ELSE deployment
  /\ req' = [req EXCEPT ![q] = Idle]
  /\ UNCHANGED <<pubVars, indexVars>>

(* appendConfigurationRevision: only a configured deployment takes one.    *)
Configure(i) ==
  /\ deployment[i].config \in 1..(MaxConfigs - 1)
  /\ deployment' = [deployment EXCEPT ![i].config = @ + 1]
  /\ UNCHANGED <<pubVars, indexVars, intake, decision, observed, req>>

Index(x) == Publish(x) \/ Fail(x) \/ Crash(x) \/ \E n \in Revisions : Claim(x, n)

Next ==
  \/ Activate \/ Retire
  \/ \E x \in Indexers : Index(x)
  \/ \E i \in Intakes : CreateIntake(i) \/ Configure(i)
  \/ \E q \in Requests : Submit(q) \/ Check(q) \/ Record(q)

Spec == Init /\ [][Next]_vars

(* CatalogIndexScheduler ticks; a claim and its publication follow, and    *)
(* the embedding provider does not fail for ever.                          *)
FairSpec ==
  /\ Spec
  /\ \A x \in Indexers : /\ SF_vars(Publish(x))
                         /\ \A n \in Revisions : WF_vars(Claim(x, n))

-----------------------------------------------------------------------------
(* Properties.                                                             *)

TypeOK ==
  /\ pub.state \in {"prepared", "active", "retired"} /\ pub.revision \in Revisions
  /\ index.revision \in 0..MaxRevision /\ held \in [Indexers -> 0..MaxRevision]
  /\ \A n \in Revisions : outbox[n] # "absent" => n <= pub.revision
  /\ \A i \in Intakes : deployment[i].active => intake[i] = "decided"

(* The index moves only to newer revisions, however late or repeated an    *)
(* event's processing is, so a removed publication does not come back      *)
(* (processOne).                                                           *)
IndexNeverRegresses == index'.revision >= index.revision

(* An intake is decided once, whatever keys and retries are used, and a    *)
(* demand observation belongs to a decision to build (createDecision).     *)
DecidedOnce ==
  /\ \A k, l \in Keys : decision[k] = NoDecision \/ k = l \/ decision[k].intake # decision[l].intake
  /\ \A i \in observed : \E k \in Keys : Replays(k, i, "build_new")

(* Both over a whole behaviour (CatalogIndexService, ReuseService).        *)
CatalogIsDecidedOnce ==
  /\ [](TypeOK /\ DecidedOnce)
  /\ [][IndexNeverRegresses]_vars

(* Events that have attempts left are published: the index comes to show   *)
(* the publication's last revision (processPending).                       *)
IndexCatchesUp ==
  \A n \in Revisions :
    [](outbox[n] # "absent" => <>(index.revision >= n \/ attempts[n] >= MaxAttempts))

=============================================================================
