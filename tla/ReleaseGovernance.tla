------------------------- MODULE ReleaseGovernance -------------------------
(* ReleaseGovernanceService: releases are evaluated, evidence is promoted  *)
(* or declined, and one production channel points at the active release.   *)
(* Every operation is a PostgreSQL transaction at isolation level          *)
(* Serializable. Its snapshot is taken by its first statement, before the  *)
(* advisory or row lock that statement waits for, so the locks order the   *)
(* transactions but do not refresh what they read: a transaction is two    *)
(* steps here, its snapshot and its commit, and the database lets it       *)
(* commit only if some serial order explains it.                           *)
EXTENDS Naturals, Sequences, FiniteSets

CONSTANTS Releases, Contents, Certifies, \* resources of a release; those its suite certifies
          Verified,                      \* releases with repository-verified provenance
          Txns, MaxEvals, MaxDecisions, MaxHistory, None

VARIABLES db,      \* what the database holds
          history, \* finished production runs of a release, which key its evaluations
          txn      \* the transaction of each session

(* No release is the absent one, and a suite certifies resources that some *)
(* release holds.                                                          *)
ChannelAssumption ==
  /\ None \notin Releases /\ MaxEvals \in Nat /\ MaxHistory \in Nat
  /\ Certifies \in [Releases -> SUBSET UNION {Contents[r] : r \in Releases}]

vars == <<db, history, txn>>

Resources == UNION {Contents[r] : r \in Releases}
Evals == 1..MaxEvals
Database == [evals : Seq([rel : Releases, key : 0..MaxHistory, passed : BOOLEAN]),
             declines : SUBSET Evals,
             decisions : Seq([action : {"promoted", "rolled_back"}, rel : Releases,
                              prev : Releases \union {None}, ev : Evals]),
             current : Releases \union {None}, prior : Releases \union {None},
             certified : SUBSET Resources,
             pub : [Releases -> {"prepared", "active", "retired"}]]
Idle == [op |-> "none"]

Init ==
  /\ db = [evals |-> <<>>, declines |-> {}, decisions |-> <<>>, current |-> None, prior |-> None,
           certified |-> {}, pub |-> [r \in Releases |-> "prepared"]]
  /\ history = [r \in Releases |-> 0]
  /\ txn = [t \in Txns |-> Idle]

EvalsOf(s, r) == {e \in DOMAIN s.evals : s.evals[e].rel = r}
(* Ordered by finishedAt, newest first. *)
IsLatest(s, e, r) == \A f \in EvalsOf(s, r) : f <= e
PassingEvidence(s, e, r) == e \in EvalsOf(s, r) /\ s.evals[e].passed

(* activateReleaseCatalogPublications: the publications of the release the *)
(* pointer leaves are retired, those of the one it reaches are activated.  *)
ActivatePublications(pub, r, previous) ==
  [x \in Releases |-> CASE x = r -> "active"
                        [] x = previous /\ pub[x] = "active" -> "retired"
                        [] OTHER -> pub[x]]

(* swapChannel writes the decision and moves the pointer as the snapshot   *)
(* showed it.                                                              *)
SwapChannel(s, action, r, e) ==
  [db EXCEPT !.decisions = Append(@, [action |-> action, rel |-> r, prev |-> s.current, ev |-> e]),
             !.current = r, !.prior = s.current,
             !.pub = ActivatePublications(@, r, s.current)]

-----------------------------------------------------------------------------
(* The four operations: the guard on the snapshot s, and what is written.  *)

EvaluationExists(s, r) == \E e \in EvalsOf(s, r) : s.evals[e].key = history[r]
Certified(s, r, passed) == IF passed THEN s.certified \union Certifies[r] ELSE s.certified
Evaluated(s, x, passed) ==
  [db EXCEPT !.evals = Append(@, [rel |-> x.rel, key |-> history[x.rel], passed |-> passed]),
             !.certified = Certified(db, x.rel, passed)]

MayDecline(s, x) ==
  /\ PassingEvidence(s, x.ev, x.rel) /\ IsLatest(s, x.ev, x.rel)
  /\ x.ev \notin s.declines
  /\ \A i \in DOMAIN s.decisions : s.decisions[i].ev # x.ev

MutantMayPromote(s, x) ==
  PassingEvidence(s, x.ev, x.rel) /\ IsLatest(s, x.ev, x.rel) /\ Contents[x.rel] \subseteq s.certified /\ s.current # x.rel

MayPromote(s, x) ==
  /\ PassingEvidence(s, x.ev, x.rel) /\ x.ev \notin s.declines /\ IsLatest(s, x.ev, x.rel)
  /\ Contents[x.rel] \subseteq s.certified /\ x.rel \in Verified
  /\ s.current # x.rel

(* rollback takes the latest earlier decision for the target whose         *)
(* evidence passed.                                                        *)
MayRollback(s, x) ==
  /\ s.current \notin {None, x.rel}
  /\ \E i \in DOMAIN s.decisions :
       /\ s.decisions[i].rel = x.rel /\ s.decisions[i].ev = x.ev
       /\ s.evals[x.ev].passed
       /\ \A j \in DOMAIN s.decisions : s.decisions[j].rel = x.rel => j <= i

Reads(x) ==
  CASE x.op = "evaluate" -> {<<"evals", x.rel>>}
    [] x.op = "decline"  -> {<<"evals", x.rel>>, <<"declines", x.rel>>, <<"decisions", x.rel>>}
    [] x.op = "promote"  -> {<<"evals", x.rel>>, <<"declines", x.rel>>, <<"certified", None>>,
                             <<"channel", None>>}
    [] x.op = "rollback" -> {<<"decisions", x.rel>>, <<"channel", None>>}

Writes(x) ==
  CASE x.op = "evaluate" -> {<<"evals", x.rel>>, <<"certified", None>>}
    [] x.op = "decline"  -> {<<"declines", x.rel>>}
    [] OTHER             -> {<<"decisions", x.rel>>, <<"channel", None>>}

(* A transaction reads its snapshot. changed and touched collect what      *)
(* transactions that commit after the snapshot write, and read or write.   *)
Begin(t) ==
  /\ txn[t] = Idle
  /\ \E op \in {"evaluate", "decline", "promote", "rollback"}, r \in Releases, e \in Evals :
       /\ op = "evaluate" => e = 1
       /\ txn' = [txn EXCEPT ![t] = [op |-> op, rel |-> r, ev |-> e, snap |-> db,
                                     changed |-> {}, touched |-> {}, reordered |-> FALSE]]
       /\ CASE op = "evaluate" -> ~EvaluationExists(db, r) /\ Len(db.evals) < MaxEvals
            [] op = "decline"  -> MayDecline(db, txn'[t])
            [] op = "promote"  -> MayPromote(db, txn'[t]) /\ Len(db.decisions) < MaxDecisions
            [] op = "rollback" -> MayRollback(db, txn'[t]) /\ Len(db.decisions) < MaxDecisions
  /\ UNCHANGED <<db, history>>

(* Serializable isolation: what it read is as it was, or it can be placed  *)
(* before everything that committed since.                                 *)
AsOfNow(x) == Reads(x) \intersect x.changed = {}
AsOfSnapshot(x) == ~x.reordered /\ Writes(x) \intersect x.touched = {}

Serializable(x) == AsOfNow(x) \/ AsOfSnapshot(x)

Observe(t) ==
  [u \in Txns |-> IF u = t THEN Idle
                  ELSE IF txn[u] = Idle THEN Idle
                  ELSE [txn[u] EXCEPT !.changed = @ \union Writes(txn[t]),
                                      !.touched = @ \union Reads(txn[t]) \union Writes(txn[t]),
                                      !.reordered = @ \/ ~AsOfNow(txn[t])]]

Commit(t) ==
  /\ txn[t] # Idle /\ Serializable(txn[t])
  /\ LET x == txn[t] IN
     CASE x.op = "evaluate" -> \E passed \in BOOLEAN : db' = Evaluated(x.snap, x, passed)
       [] x.op = "decline"  -> db' = [db EXCEPT !.declines = @ \union {x.ev}]
       [] x.op = "promote"  -> db' = SwapChannel(x.snap, "promoted", x.rel, x.ev)
       [] x.op = "rollback" -> db' = SwapChannel(x.snap, "rolled_back", x.rel, x.ev)
  /\ txn' = Observe(t)
  /\ UNCHANGED history

(* A serialization failure: the request fails and nothing is written.      *)
Abort(t) ==
  /\ txn[t] # Idle /\ ~Serializable(txn[t])
  /\ txn' = [txn EXCEPT ![t] = Idle]
  /\ UNCHANGED <<db, history>>

(* A production run of the active release finishes; its metrics are new    *)
(* history for the next evaluation.                                        *)
RunFinishes ==
  /\ db.current # None /\ history[db.current] < MaxHistory
  /\ history' = [history EXCEPT ![db.current] = @ + 1]
  /\ UNCHANGED <<db, txn>>

Next == RunFinishes \/ \E t \in Txns : Begin(t) \/ Commit(t) \/ Abort(t)

Spec == Init /\ [][Next]_vars

-----------------------------------------------------------------------------
(* Properties.                                                             *)

TypeOK ==
  /\ db \in Database
  /\ db.declines \subseteq DOMAIN db.evals
  /\ \A i \in DOMAIN db.decisions : db.decisions[i].ev \in DOMAIN db.evals

(* The decisions are an unbroken chain: each records the release the       *)
(* channel pointed at before it, the channel points at the last one's, and *)
(* priorReleaseId at the one it replaced, although rollback locks another  *)
(* key than promote does (swapChannel).                                    *)
PointerChain ==
  LET n == Len(db.decisions) IN
  /\ \A i \in 1..n : db.decisions[i].prev = (IF i = 1 THEN None ELSE db.decisions[i - 1].rel)
  /\ n > 0 => db.current = db.decisions[n].rel /\ db.prior = db.decisions[n].prev
  /\ n = 0 => db.current = None

(* "This evidence already has an immutable decision": no evaluation is     *)
(* both promoted and declined (decline, movePointer).                      *)
EvidenceDecidedOnce == \A i \in DOMAIN db.decisions : db.decisions[i].ev \notin db.declines

(* Every release the channel ever pointed at rests on evidence that passed *)
(* for that release and that a promotion, not only a rollback, relied on.  *)
EvidenceLineage ==
  \A i \in DOMAIN db.decisions :
    /\ PassingEvidence(db, db.decisions[i].ev, db.decisions[i].rel)
    /\ Contents[db.decisions[i].rel] \subseteq db.certified
    /\ \E j \in 1..i : /\ db.decisions[j].action = "promoted"
                       /\ db.decisions[j].ev = db.decisions[i].ev

(* The catalog offers the release the channel points at and no other       *)
(* (activateReleaseCatalogPublications).                                   *)
CatalogFollowsChannel == \A r \in Releases : db.pub[r] = "active" <=> r = db.current

(* The four together: what the release channel promises its readers        *)
(* (ReleaseGovernanceService).                                             *)
ChannelIsGoverned ==
  /\ TypeOK
  /\ PointerChain
  /\ EvidenceDecidedOnce
  /\ EvidenceLineage
  /\ CatalogFollowsChannel

=============================================================================
