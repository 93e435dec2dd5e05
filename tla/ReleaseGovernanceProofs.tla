---------------------- MODULE ReleaseGovernanceProofs ----------------------
(***************************************************************************)
(* What people and imports decide, for every value of the constants.       *)
(*   The release channel is governed for any number of releases, sessions, *)
(*   evaluations and decisions. A transaction commits on the snapshot it   *)
(*   began with; the proof says what that snapshot still tells about the   *)
(*   database, item by item, as long as the item is not in changed, and    *)
(*   why placing the transaction before those that overtook it is as good. *)
(*   The attention queue shows every matter once and binds a decision to   *)
(*   what was shown.                                                       *)
(*   The registry keeps what is frozen, pinned and released, and imports   *)
(*   that come one at a time close no cycle of pins.                       *)
(*   The release evaluator passes a suite on the closure of its subject's  *)
(* pins and on measured history: the closure is the least one that holds   *)
(* every pin, and the percentile's place is counted, for any history.      *)
(* This module extends ReleaseGovernance; the other three are instances    *)
(* with variables of their own.                                            *)
(***************************************************************************)
EXTENDS ReleaseGovernance, FiniteSetTheorems, NaturalsInduction, WellFoundedInduction, TLAPS

Ops == {"evaluate", "decline", "promote", "rollback"}
Items == {"evals", "declines", "decisions", "certified", "channel"} \X (Releases \union {None})
Transaction == [op : Ops, rel : Releases, ev : Evals, snap : Database,
                changed : SUBSET Items, touched : SUBSET Items, reordered : BOOLEAN]

Grounded ==
  /\ TypeOK
  /\ history \in [Releases -> 0..MaxHistory]
  /\ txn \in [Txns -> {Idle} \union Transaction]

(* Evaluations and decisions are only ever appended, certificates only     *)
(* added.                                                                  *)
Earlier(s, d) ==
  /\ Len(s.evals) <= Len(d.evals)
  /\ \A e \in 1..Len(s.evals) : s.evals[e] = d.evals[e]
  /\ Len(s.decisions) <= Len(d.decisions)
  /\ \A i \in 1..Len(s.decisions) : s.decisions[i] = d.decisions[i]
  /\ s.certified \subseteq d.certified

(* What transaction x may still rely on in database state d. *)
ChannelSeen(x, d) == <<"channel", None>> \notin x.changed => d.current = x.snap.current
DecisionsSeen(x, d) ==
  <<"decisions", x.rel>> \notin x.changed =>
    \A i \in 1..Len(d.decisions) : d.decisions[i].rel = x.rel => i <= Len(x.snap.decisions)
DeclinesSeen(x, d) ==
  <<"declines", x.rel>> \notin x.changed =>
    \A e \in d.declines : d.evals[e].rel = x.rel => e \in x.snap.declines

(* A decline reads the decisions of its release, a promotion its declines: *)
(* what a transaction that has to be placed first can conclude from its    *)
(* own writes not having been looked at.                                   *)
DeclineReadsDecisions(x) ==
  <<"declines", x.rel>> \in x.changed => <<"decisions", x.rel>> \in x.touched
PromotionReadsDeclines(x, d) ==
  <<"declines", x.rel>> \notin x.touched =>
    \A i \in 1..Len(d.decisions) :
      d.decisions[i].rel = x.rel /\ d.decisions[i].action = "promoted"
        => i <= Len(x.snap.decisions)

Admitted(x) ==
  /\ x.op = "decline" => MayDecline(x.snap, x)
  /\ x.op = "promote" => MayPromote(x.snap, x)
  /\ x.op = "rollback" => MayRollback(x.snap, x)

Sound(x, d) ==
  /\ Earlier(x.snap, d) /\ Admitted(x)
  /\ x.changed \subseteq x.touched
  /\ ChannelSeen(x, d) /\ DecisionsSeen(x, d) /\ DeclinesSeen(x, d)
  /\ DeclineReadsDecisions(x) /\ PromotionReadsDeclines(x, d)

ChannelInv ==
  /\ Grounded /\ ChannelIsGoverned
  /\ \A t \in Txns : txn[t] # Idle => Sound(txn[t], db)

-----------------------------------------------------------------------------
EvalRow == [rel : Releases, key : 0..MaxHistory, passed : BOOLEAN]
DecisionRow == [action : {"promoted", "rolled_back"}, rel : Releases,
                prev : Releases \union {None}, ev : Evals]

(* The fields of a database state or of a snapshot. *)
LEMMA DatabaseFields ==
  ASSUME NEW s \in Database
  PROVE  /\ s.evals \in Seq(EvalRow) /\ s.decisions \in Seq(DecisionRow)
         /\ s.declines \subseteq Evals /\ s.certified \subseteq Resources
         /\ s.current \in Releases \union {None} /\ s.prior \in Releases \union {None}
         /\ s.pub \in [Releases -> {"prepared", "active", "retired"}]
BY DEF Database, EvalRow, DecisionRow

(* A transaction that began holds a snapshot; an idle session holds none.  *)
LEMMA TransactionFields ==
  ASSUME Grounded, NEW t \in Txns, txn[t] # Idle
  PROVE  /\ txn[t] \in Transaction
         /\ txn[t].op \in Ops /\ txn[t].rel \in Releases /\ txn[t].ev \in Evals
         /\ txn[t].snap \in Database
         /\ txn[t].changed \subseteq Items /\ txn[t].touched \subseteq Items
BY DEF Grounded, Transaction

(* What a transaction reads and writes are items of the database. *)
LEMMA ItemsTouched ==
  ASSUME NEW x \in Transaction
  PROVE  Reads(x) \subseteq Items /\ Writes(x) \subseteq Items
<1>1. x.op \in Ops /\ x.rel \in Releases
  BY DEF Transaction
<1>2. CASE x.op = "evaluate"
  BY <1>1, <1>2 DEF Reads, Writes, Items
<1>3. CASE x.op = "decline"
  BY <1>1, <1>3 DEF Reads, Writes, Items
<1>4. CASE x.op = "promote"
  BY <1>1, <1>4 DEF Reads, Writes, Items
<1>5. CASE x.op = "rollback"
  BY <1>1, <1>5 DEF Reads, Writes, Items
<1> QED BY <1>1, <1>2, <1>3, <1>4, <1>5 DEF Ops

(* After a commit, a session that is still in a transaction holds the same *)
(* request and snapshot, and has noted what the commit read and wrote.     *)
LEMMA Observed ==
  ASSUME Grounded, NEW t \in Txns, txn[t] # Idle, txn' = Observe(t),
         NEW u \in Txns, txn'[u] # Idle
  PROVE  /\ u # t /\ txn[u] # Idle /\ txn'[u] \in Transaction
         /\ txn'[u].op = txn[u].op /\ txn'[u].rel = txn[u].rel /\ txn'[u].ev = txn[u].ev
         /\ txn'[u].snap = txn[u].snap
         /\ txn'[u].changed = txn[u].changed \union Writes(txn[t])
         /\ txn'[u].touched = txn[u].touched \union Reads(txn[t]) \union Writes(txn[t])
<1>1. u # t /\ txn[u] # Idle
  BY DEF Observe
<1>2. txn[u] \in Transaction /\ txn[t] \in Transaction
  BY <1>1, TransactionFields
<1>3. Reads(txn[t]) \subseteq Items /\ Writes(txn[t]) \subseteq Items
  BY <1>2, ItemsTouched
<1> DEFINE changed == txn[u].changed \union Writes(txn[t])
           touched == txn[u].touched \union Reads(txn[t]) \union Writes(txn[t])
           reordered == txn[u].reordered \/ ~AsOfNow(txn[t])
<1>4. txn'[u] = [txn[u] EXCEPT !.changed = changed, !.touched = touched,
                               !.reordered = reordered]
  BY <1>1, <1>2 DEF Observe, Transaction
<1>5. changed \in SUBSET Items /\ touched \in SUBSET Items /\ reordered \in BOOLEAN
  BY <1>2, <1>3 DEF Transaction
<1>6. /\ txn'[u] \in Transaction
      /\ txn'[u].op = txn[u].op /\ txn'[u].rel = txn[u].rel /\ txn'[u].ev = txn[u].ev
      /\ txn'[u].snap = txn[u].snap /\ txn'[u].changed = changed /\ txn'[u].touched = touched
  <2> HIDE DEF changed, touched, reordered
  <2> QED BY <1>2, <1>4, <1>5 DEF Transaction
<1> QED BY <1>1, <1>6

(* The sessions after a commit are well formed. *)
LEMMA ObservedTyped ==
  ASSUME Grounded, NEW t \in Txns, txn[t] # Idle, txn' = Observe(t)
  PROVE  txn' \in [Txns -> {Idle} \union Transaction]
<1>1. \A u \in Txns : txn'[u] \in {Idle} \union Transaction
  BY Observed
<1> QED BY <1>1 DEF Observe

(* The guards look at the request and the snapshot only. *)
LEMMA AdmittedKept ==
  ASSUME NEW x, NEW y, y.op = x.op, y.rel = x.rel, y.ev = x.ev, y.snap = x.snap, Admitted(x)
  PROVE  Admitted(y)
BY DEF Admitted, MayDecline, MayPromote, MayRollback

-----------------------------------------------------------------------------
(* What the commit of an admitted transaction finds in the database, in    *)
(* either place the isolation level allows it.                             *)

(* A transaction that moves the pointer read it as it still is. *)
LEMMA PointerAsRead ==
  ASSUME ChannelInv, NEW t \in Txns, txn[t] # Idle, Serializable(txn[t]),
         txn[t].op \in {"promote", "rollback"}
  PROVE  db.current = txn[t].snap.current
<1> DEFINE x == txn[t]
<1>1. ChannelSeen(x, db) /\ x.changed \subseteq x.touched
  BY DEF ChannelInv, Sound
<1>2. <<"channel", None>> \in Reads(x) /\ <<"channel", None>> \in Writes(x)
  BY DEF Reads, Writes
<1>3. <<"channel", None>> \notin x.changed
  BY <1>1, <1>2 DEF Serializable, AsOfNow, AsOfSnapshot
<1> QED BY <1>1, <1>3 DEF ChannelSeen

(* Evidence that passed in a snapshot has passed. *)
LEMMA EvidenceStands ==
  ASSUME ChannelInv, NEW s \in Database, Earlier(s, db), NEW e, NEW r, PassingEvidence(s, e, r)
  PROVE  PassingEvidence(db, e, r) /\ e \in 1..Len(s.evals)
<1>1. db \in Database
  BY DEF ChannelInv, Grounded, TypeOK
<1>2. s.evals \in Seq(EvalRow) /\ db.evals \in Seq(EvalRow)
  BY <1>1, DatabaseFields
<1> QED BY <1>2 DEF PassingEvidence, EvalsOf, Earlier

(* Promotion: nobody has declined the evidence. *)
LEMMA PromotionCommits ==
  ASSUME ChannelInv, NEW t \in Txns, txn[t] # Idle, Serializable(txn[t]),
         txn[t].op = "promote"
  PROVE  /\ PassingEvidence(db, txn[t].ev, txn[t].rel)
         /\ Contents[txn[t].rel] \subseteq db.certified
         /\ txn[t].ev \notin db.declines
<1> DEFINE x == txn[t]
<1>1. Sound(x, db)
  BY DEF ChannelInv
<1>2. MayPromote(x.snap, x) /\ Earlier(x.snap, db)
  BY <1>1 DEF Sound, Admitted
<1>3. x.snap \in Database
  BY TransactionFields DEF ChannelInv
<1>4. PassingEvidence(db, x.ev, x.rel)
  BY <1>2, <1>3, EvidenceStands DEF MayPromote
<1>5. <<"declines", x.rel>> \notin x.changed
  <2>1. <<"declines", x.rel>> \in Reads(x) /\ <<"decisions", x.rel>> \in Writes(x)
    BY DEF Reads, Writes
  <2>2. CASE AsOfNow(x)
    BY <2>1, <2>2 DEF AsOfNow
  <2>3. CASE AsOfSnapshot(x)
    BY <2>1, <2>3, <1>1 DEF AsOfSnapshot, Sound, DeclineReadsDecisions
  <2> QED BY <2>2, <2>3 DEF Serializable
<1>6. x.ev \notin db.declines
  BY <1>1, <1>2, <1>4, <1>5 DEF Sound, DeclinesSeen, MayPromote, PassingEvidence, EvalsOf
<1> QED BY <1>2, <1>4, <1>6 DEF MayPromote, Earlier

(* Rollback: the decision it returns to is still there. *)
LEMMA RollbackCommits ==
  ASSUME ChannelInv, NEW t \in Txns, txn[t] # Idle, txn[t].op = "rollback"
  PROVE  \E i \in 1..Len(db.decisions) : /\ db.decisions[i].rel = txn[t].rel
                                         /\ db.decisions[i].ev = txn[t].ev
<1> DEFINE x == txn[t]
<1>1. MayRollback(x.snap, x) /\ Earlier(x.snap, db)
  BY DEF ChannelInv, Sound, Admitted
<1>2. x.snap \in Database /\ db \in Database
  BY TransactionFields DEF ChannelInv, Grounded, TypeOK
<1>3. x.snap.decisions \in Seq(DecisionRow) /\ db.decisions \in Seq(DecisionRow)
  BY <1>2, DatabaseFields
<1>4. PICK i \in DOMAIN x.snap.decisions :
        x.snap.decisions[i].rel = x.rel /\ x.snap.decisions[i].ev = x.ev
  BY <1>1 DEF MayRollback
<1>5. i \in 1..Len(x.snap.decisions) /\ Len(x.snap.decisions) \in Nat
      /\ Len(db.decisions) \in Nat
  BY <1>3, <1>4
<1>6. i \in 1..Len(db.decisions) /\ x.snap.decisions[i] = db.decisions[i]
  BY <1>1, <1>5 DEF Earlier
<1> QED BY <1>4, <1>6

(* Decline: no decision rests on the evidence. *)
LEMMA DeclineCommits ==
  ASSUME ChannelInv, NEW t \in Txns, txn[t] # Idle, Serializable(txn[t]),
         txn[t].op = "decline"
  PROVE  /\ PassingEvidence(db, txn[t].ev, txn[t].rel)
         /\ \A i \in 1..Len(db.decisions) : db.decisions[i].ev # txn[t].ev
<1> DEFINE x == txn[t]
<1>1. Sound(x, db)
  BY DEF ChannelInv
<1>2. MayDecline(x.snap, x) /\ Earlier(x.snap, db)
  BY <1>1 DEF Sound, Admitted
<1>3. x.snap \in Database /\ db \in Database
  BY TransactionFields DEF ChannelInv, Grounded, TypeOK
<1>4. PassingEvidence(db, x.ev, x.rel)
  BY <1>2, <1>3, EvidenceStands DEF MayDecline
<1>5. x.snap.decisions \in Seq(DecisionRow) /\ db.decisions \in Seq(DecisionRow)
  BY <1>3, DatabaseFields
<1>6. ASSUME NEW i \in 1..Len(db.decisions), db.decisions[i].ev = x.ev
      PROVE  FALSE
  <2>1. PICK j \in 1..i : db.decisions[j].action = "promoted" /\ db.decisions[j].ev = x.ev
    BY <1>5, <1>6 DEF ChannelInv, ChannelIsGoverned, EvidenceLineage
  <2>2. j \in 1..Len(db.decisions) /\ j \in DOMAIN db.decisions
    BY <1>5
  <2>3. PassingEvidence(db, x.ev, db.decisions[j].rel)
    BY <2>1, <2>2 DEF ChannelInv, ChannelIsGoverned, EvidenceLineage
  <2>4. db.decisions[j].rel = x.rel
    BY <1>4, <2>3 DEF PassingEvidence, EvalsOf
  <2>5. j <= Len(x.snap.decisions)
    <3>1. <<"decisions", x.rel>> \in Reads(x) /\ <<"declines", x.rel>> \in Writes(x)
      BY DEF Reads, Writes
    <3>2. CASE AsOfNow(x)
      BY <1>1, <2>2, <2>4, <3>1, <3>2 DEF AsOfNow, Sound, DecisionsSeen
    <3>3. CASE AsOfSnapshot(x)
      BY <1>1, <2>1, <2>2, <2>4, <3>1, <3>3 DEF AsOfSnapshot, Sound, PromotionReadsDeclines
    <3> QED BY <3>2, <3>3 DEF Serializable
  <2>6. j \in DOMAIN x.snap.decisions /\ x.snap.decisions[j] = db.decisions[j]
    BY <1>2, <1>5, <2>2, <2>5 DEF Earlier
  <2> QED BY <1>2, <2>1, <2>6 DEF MayDecline
<1> QED BY <1>4, <1>6

-----------------------------------------------------------------------------
(* A commit keeps what the snapshots of the other sessions tell of the     *)
(* database: here x is such a transaction before the commit of w and y     *)
(* after it, and d becomes e.                                              *)
Overtaken(x, y, w) ==
  /\ y.op = x.op /\ y.rel = x.rel /\ y.ev = x.ev /\ y.snap = x.snap
  /\ y.changed = x.changed \union Writes(w)
  /\ y.touched = x.touched \union Reads(w) \union Writes(w)

(* The tables only grow. *)
Grown(d, e) ==
  /\ Len(d.evals) <= Len(e.evals)
  /\ \A i \in 1..Len(d.evals) : e.evals[i] = d.evals[i]
  /\ Len(d.decisions) <= Len(e.decisions)
  /\ \A i \in 1..Len(d.decisions) : e.decisions[i] = d.decisions[i]
  /\ d.certified \subseteq e.certified

(* Growing keeps every snapshot a prefix. *)
LEMMA EarlierKept ==
  ASSUME NEW s \in Database, NEW d \in Database, NEW e \in Database, Earlier(s, d), Grown(d, e)
  PROVE  Earlier(s, e)
<1>1. /\ Len(s.evals) \in Nat /\ Len(d.evals) \in Nat /\ Len(e.evals) \in Nat
      /\ Len(s.decisions) \in Nat /\ Len(d.decisions) \in Nat /\ Len(e.decisions) \in Nat
  BY DatabaseFields
<1>2. /\ Len(s.evals) <= Len(e.evals)
      /\ \A i \in 1..Len(s.evals) : s.evals[i] = e.evals[i]
  BY <1>1 DEF Earlier, Grown
<1>3. /\ Len(s.decisions) <= Len(e.decisions)
      /\ \A i \in 1..Len(s.decisions) : s.decisions[i] = e.decisions[i]
  BY <1>1 DEF Earlier, Grown
<1> QED BY <1>2, <1>3 DEF Earlier, Grown

(* What does not depend on the operation that commits. *)
LEMMA SoundKept ==
  ASSUME NEW x, NEW y, NEW w, NEW d \in Database, NEW e \in Database,
         x.snap \in Database, Sound(x, d), Overtaken(x, y, w), Grown(d, e),
         ChannelSeen(y, e), DecisionsSeen(y, e), DeclinesSeen(y, e),
         DeclineReadsDecisions(y), PromotionReadsDeclines(y, e)
  PROVE  Sound(y, e)
<1>1. Earlier(y.snap, e)
  BY EarlierKept DEF Sound, Overtaken
<1>2. Admitted(y)
  BY AdmittedKept DEF Sound, Overtaken
<1>3. y.changed \subseteq y.touched
  BY DEF Sound, Overtaken
<1> QED BY <1>1, <1>2, <1>3 DEF Sound

(* An evaluation adds a row that no decision or decline names yet. *)
LEMMA SoundAfterEvaluation ==
  ASSUME NEW x, NEW y, NEW w, NEW d \in Database, NEW e \in Database,
         x.snap \in Database, Sound(x, d), Overtaken(x, y, w), w.op = "evaluate",
         d.declines \subseteq 1..Len(d.evals), Grown(d, e),
         e.decisions = d.decisions, e.declines = d.declines, e.current = d.current
  PROVE  Sound(y, e)
<1>1. Writes(w) = {<<"evals", w.rel>>, <<"certified", None>>}
  BY DEF Writes
<1>2. ChannelSeen(y, e)
  BY DEF Sound, Overtaken, ChannelSeen
<1>3. DecisionsSeen(y, e) /\ PromotionReadsDeclines(y, e)
  BY DEF Sound, Overtaken, DecisionsSeen, PromotionReadsDeclines
<1>4. DeclinesSeen(y, e)
  BY DEF Sound, Overtaken, DeclinesSeen, Grown
<1>5. DeclineReadsDecisions(y)
  BY <1>1 DEF Sound, Overtaken, DeclineReadsDecisions
<1> QED BY <1>2, <1>3, <1>4, <1>5, SoundKept

(* A decline says so, and has looked at the decisions of its release. *)
LEMMA SoundAfterDecline ==
  ASSUME NEW x, NEW y, NEW w, NEW d \in Database, NEW e \in Database,
         x.snap \in Database, Sound(x, d), Overtaken(x, y, w), w.op = "decline",
         d.evals[w.ev].rel = w.rel, Grown(d, e),
         e.evals = d.evals, e.decisions = d.decisions, e.current = d.current,
         e.declines = d.declines \union {w.ev}
  PROVE  Sound(y, e)
<1>1. Writes(w) = {<<"declines", w.rel>>} /\ <<"decisions", w.rel>> \in Reads(w)
  BY DEF Writes, Reads
<1>2. ChannelSeen(y, e)
  BY DEF Sound, Overtaken, ChannelSeen
<1>3. DecisionsSeen(y, e) /\ PromotionReadsDeclines(y, e)
  BY DEF Sound, Overtaken, DecisionsSeen, PromotionReadsDeclines
<1>4. DeclinesSeen(y, e)
  BY <1>1 DEF Sound, Overtaken, DeclinesSeen
<1>5. DeclineReadsDecisions(y)
  BY <1>1 DEF Sound, Overtaken, DeclineReadsDecisions
<1> QED BY <1>2, <1>3, <1>4, <1>5, SoundKept

(* A move of the pointer says so; a promotion has looked at the declines   *)
(* of its release.                                                         *)
LEMMA SoundAfterSwap ==
  ASSUME NEW x, NEW y, NEW w, NEW d \in Database, NEW e \in Database,
         x.snap \in Database, Sound(x, d), Overtaken(x, y, w),
         w.op \in {"promote", "rollback"}, NEW row, row.rel = w.rel,
         w.op = "rollback" => row.action # "promoted",
         Grown(d, e), e.evals = d.evals, e.declines = d.declines,
         e.decisions = Append(d.decisions, row)
  PROVE  Sound(y, e)
<1>1. /\ Writes(w) = {<<"decisions", w.rel>>, <<"channel", None>>}
      /\ w.op = "promote" => <<"declines", w.rel>> \in Reads(w)
  BY DEF Writes, Reads
<1>2. ChannelSeen(y, e)
  BY <1>1 DEF Overtaken, ChannelSeen
<1>3. d.decisions \in Seq(DecisionRow)
  BY DatabaseFields
<1>4. ASSUME NEW i \in 1..Len(e.decisions)
      PROVE  \/ i \in 1..Len(d.decisions) /\ e.decisions[i] = d.decisions[i]
             \/ e.decisions[i] = row
  BY <1>3, <1>4
<1>5. DecisionsSeen(y, e)
  BY <1>1, <1>4 DEF Sound, Overtaken, DecisionsSeen
<1>6. PromotionReadsDeclines(y, e)
  BY <1>1, <1>4 DEF Sound, Overtaken, PromotionReadsDeclines
<1>7. DeclinesSeen(y, e)
  BY DEF Sound, Overtaken, DeclinesSeen
<1>8. DeclineReadsDecisions(y)
  BY <1>1 DEF Sound, Overtaken, DeclineReadsDecisions
<1> QED BY <1>2, <1>5, <1>6, <1>7, <1>8, SoundKept

-----------------------------------------------------------------------------
(* The steps.                                                              *)

LEMMA ChannelInit == ChannelAssumption /\ Init => ChannelInv
<1> SUFFICES ASSUME ChannelAssumption, Init PROVE ChannelInv
  OBVIOUS
<1>1. db \in Database
  BY DEF Init, Database
<1>2. Grounded
  BY <1>1 DEF Init, Grounded, TypeOK, ChannelAssumption
<1>3. ChannelIsGoverned
  BY <1>2 DEF Init, Grounded, ChannelIsGoverned, PointerChain, EvidenceDecidedOnce,
              EvidenceLineage, CatalogFollowsChannel, ChannelAssumption
<1> QED BY <1>2, <1>3 DEF ChannelInv, Init

(* A transaction begins on what the database holds. *)
LEMMA BeginStep ==
  ASSUME ChannelInv, NEW t \in Txns, Begin(t)
  PROVE  ChannelInv'
<1>1. PICK op \in Ops, r \in Releases, e \in Evals :
        /\ txn' = [txn EXCEPT ![t] = [op |-> op, rel |-> r, ev |-> e, snap |-> db,
                                      changed |-> {}, touched |-> {}, reordered |-> FALSE]]
        /\ CASE op = "evaluate" -> ~EvaluationExists(db, r) /\ Len(db.evals) < MaxEvals
             [] op = "decline"  -> MayDecline(db, txn'[t])
             [] op = "promote"  -> MayPromote(db, txn'[t]) /\ Len(db.decisions) < MaxDecisions
             [] op = "rollback" -> MayRollback(db, txn'[t]) /\ Len(db.decisions) < MaxDecisions
  BY DEF Begin, Ops
<1> DEFINE x == txn'[t]
<1>2. Grounded /\ db \in Database /\ db' = db /\ history' = history
  BY DEF ChannelInv, Begin, Grounded, TypeOK
<1>3. /\ x = [op |-> op, rel |-> r, ev |-> e, snap |-> db, changed |-> {}, touched |-> {},
              reordered |-> FALSE]
      /\ \A u \in Txns : u # t => txn'[u] = txn[u]
  BY <1>1, <1>2 DEF Grounded
<1>4. x \in Transaction
  BY <1>2, <1>3 DEF Transaction
<1>5. txn' \in [Txns -> {Idle} \union Transaction]
  BY <1>1, <1>2, <1>3, <1>4 DEF Grounded
<1>6. Sound(x, db')
  <2>1. x.op = op /\ x.snap = db /\ x.changed = {} /\ x.touched = {}
    BY <1>3
  <2>2. db.evals \in Seq(EvalRow) /\ db.decisions \in Seq(DecisionRow)
    BY <1>2, DatabaseFields
  <2>3. Admitted(x)
    BY <1>1, <2>1 DEF Admitted
  <2>4. Earlier(x.snap, db')
    BY <1>2, <2>1, <2>2 DEF Earlier
  <2>5. ChannelSeen(x, db') /\ DecisionsSeen(x, db') /\ DeclinesSeen(x, db')
    BY <1>2, <2>1, <2>2 DEF ChannelSeen, DecisionsSeen, DeclinesSeen
  <2>6. DeclineReadsDecisions(x) /\ PromotionReadsDeclines(x, db')
    BY <1>2, <2>1, <2>2 DEF DeclineReadsDecisions, PromotionReadsDeclines
  <2> QED BY <2>1, <2>3, <2>4, <2>5, <2>6 DEF Sound
<1>7. \A u \in Txns : txn'[u] # Idle => Sound(txn'[u], db')
  BY <1>2, <1>3, <1>6 DEF ChannelInv
<1>8. Grounded' /\ ChannelIsGoverned'
  BY <1>2, <1>5 DEF ChannelInv, Grounded, TypeOK, ChannelIsGoverned, PointerChain,
     EvidenceDecidedOnce, EvidenceLineage, CatalogFollowsChannel, PassingEvidence, EvalsOf
<1> QED BY <1>7, <1>8 DEF ChannelInv

(* Leaving a transaction, or finishing a run, changes nothing the channel  *)
(* rests on.                                                               *)
LEMMA QuietStep ==
  ASSUME ChannelInv, db' = db, history' \in [Releases -> 0..MaxHistory],
         txn' \in [Txns -> {Idle} \union Transaction],
         \A t \in Txns : txn'[t] = txn[t] \/ txn'[t] = Idle
  PROVE  ChannelInv'
<1>1. Grounded' /\ ChannelIsGoverned'
  BY DEF ChannelInv, Grounded, TypeOK, ChannelIsGoverned, PointerChain,
     EvidenceDecidedOnce, EvidenceLineage, CatalogFollowsChannel, PassingEvidence, EvalsOf
<1>2. \A u \in Txns : txn'[u] # Idle => Sound(txn'[u], db')
  BY DEF ChannelInv
<1> QED BY <1>1, <1>2 DEF ChannelInv

(* A commit overtakes the transactions that are under way. *)
LEMMA CommitOvertakes ==
  ASSUME ChannelInv, NEW t \in Txns, txn[t] # Idle, txn' = Observe(t),
         NEW u \in Txns, txn'[u] # Idle
  PROVE  /\ txn[u].snap \in Database /\ Sound(txn[u], db)
         /\ Overtaken(txn[u], txn'[u], txn[t])
<1>1. txn[u] # Idle /\ Overtaken(txn[u], txn'[u], txn[t])
  BY Observed DEF ChannelInv, Overtaken
<1> QED BY <1>1, TransactionFields DEF ChannelInv

LEMMA EvaluateCommit ==
  ASSUME ChannelAssumption, ChannelInv, NEW t \in Txns, txn[t] # Idle,
         txn[t].op = "evaluate", txn' = Observe(t), history' = history,
         NEW passed \in BOOLEAN, db' = Evaluated(txn[t].snap, txn[t], passed)
  PROVE  ChannelInv'
<1> DEFINE w == txn[t]
           row == [rel |-> w.rel, key |-> history[w.rel], passed |-> passed]
<1>1. /\ Grounded /\ db \in Database /\ w.rel \in Releases
      /\ db.declines \subseteq DOMAIN db.evals
      /\ \A i \in DOMAIN db.decisions : db.decisions[i].ev \in DOMAIN db.evals
  BY TransactionFields DEF ChannelInv, Grounded, TypeOK
<1>2. row \in EvalRow
  BY <1>1 DEF EvalRow, Grounded
<1>3. /\ db.evals \in Seq(EvalRow) /\ db.decisions \in Seq(DecisionRow)
      /\ db.certified \subseteq Resources
  BY <1>1, DatabaseFields
<1>4. Certified(db, w.rel, passed) \in SUBSET Resources /\ db.certified \subseteq Certified(db, w.rel, passed)
  BY <1>1, <1>3 DEF Certified, ChannelAssumption, Resources
<1>5. db' = [db EXCEPT !.evals = Append(db.evals, row), !.certified = Certified(db, w.rel, passed)]
  BY <1>1 DEF Evaluated, Database
<1>6. Append(db.evals, row) \in Seq(EvalRow)
  BY <1>2, <1>3
<1>7. /\ db' \in Database /\ db'.evals = Append(db.evals, row)
      /\ db'.certified = Certified(db, w.rel, passed)
      /\ db'.declines = db.declines /\ db'.decisions = db.decisions /\ db'.current = db.current
      /\ db'.prior = db.prior /\ db'.pub = db.pub
  BY <1>1, <1>4, <1>5, <1>6 DEF Database, EvalRow
<1>8. /\ DOMAIN db'.evals = 1..Len(db'.evals) /\ Len(db'.evals) = Len(db.evals) + 1
      /\ DOMAIN db.evals = 1..Len(db.evals) /\ Len(db.evals) \in Nat
      /\ \A e \in 1..Len(db.evals) : db'.evals[e] = db.evals[e]
  BY <1>2, <1>3, <1>7
<1>9. Grown(db, db')
  BY <1>3, <1>4, <1>7, <1>8 DEF Grown
<1>10. \A u \in Txns : txn'[u] # Idle => Sound(txn'[u], db')
  BY <1>1, <1>7, <1>8, <1>9, CommitOvertakes, SoundAfterEvaluation
<1>11. Grounded'
  <2>1. TypeOK'
    BY <1>1, <1>7, <1>8 DEF TypeOK
  <2> QED BY <1>1, <2>1, ObservedTyped DEF Grounded
<1>12. PointerChain' /\ EvidenceDecidedOnce' /\ CatalogFollowsChannel'
  BY <1>7 DEF ChannelInv, ChannelIsGoverned, PointerChain, EvidenceDecidedOnce,
              CatalogFollowsChannel
<1>13. EvidenceLineage'
  <2>1. \A e, r : PassingEvidence(db, e, r) => PassingEvidence(db', e, r)
    <3> HIDE DEF row
    <3> QED BY <1>7, <1>8 DEF PassingEvidence, EvalsOf
  <2>2. /\ EvidenceLineage /\ db'.decisions = db.decisions
        /\ db.certified \subseteq db'.certified
    BY <1>4, <1>7 DEF ChannelInv, ChannelIsGoverned
  <2> QED BY <2>1, <2>2 DEF EvidenceLineage
<1> QED BY <1>10, <1>11, <1>12, <1>13 DEF ChannelInv, ChannelIsGoverned, Grounded

LEMMA DeclineCommit ==
  ASSUME ChannelInv, NEW t \in Txns, txn[t] # Idle, Serializable(txn[t]),
         txn[t].op = "decline", txn' = Observe(t), history' = history,
         db' = [db EXCEPT !.declines = @ \union {txn[t].ev}]
  PROVE  ChannelInv'
<1> DEFINE w == txn[t]
<1>1. Grounded /\ TypeOK /\ db \in Database /\ w.ev \in Evals
  BY TransactionFields DEF ChannelInv, Grounded, TypeOK
<1>2. /\ PassingEvidence(db, w.ev, w.rel)
      /\ \A i \in 1..Len(db.decisions) : db.decisions[i].ev # w.ev
  BY DeclineCommits
<1>3. db.evals \in Seq(EvalRow) /\ db.decisions \in Seq(DecisionRow)
  BY <1>1, DatabaseFields
<1>4. /\ db' \in Database /\ db'.declines = db.declines \union {w.ev}
      /\ db'.evals = db.evals /\ db'.decisions = db.decisions /\ db'.current = db.current
      /\ db'.prior = db.prior /\ db'.pub = db.pub /\ db'.certified = db.certified
  BY <1>1 DEF Database
<1>5. Grown(db, db')
  BY <1>3, <1>4 DEF Grown
<1>6. db.evals[w.ev].rel = w.rel /\ w.ev \in DOMAIN db.evals
  BY <1>2 DEF PassingEvidence, EvalsOf
<1>7. \A u \in Txns : txn'[u] # Idle => Sound(txn'[u], db')
  BY <1>1, <1>4, <1>5, <1>6, CommitOvertakes, SoundAfterDecline
<1>8. Grounded'
  <2>1. TypeOK'
    BY <1>1, <1>4, <1>6 DEF TypeOK
  <2> QED BY <1>1, <2>1, ObservedTyped DEF Grounded
<1>9. PointerChain' /\ EvidenceLineage' /\ CatalogFollowsChannel'
  BY <1>4 DEF ChannelInv, ChannelIsGoverned, PointerChain, EvidenceLineage,
              CatalogFollowsChannel, PassingEvidence, EvalsOf
<1>10. EvidenceDecidedOnce'
  BY <1>2, <1>3, <1>4 DEF ChannelInv, ChannelIsGoverned, EvidenceDecidedOnce
<1> QED BY <1>7, <1>8, <1>9, <1>10 DEF ChannelInv, ChannelIsGoverned, Grounded

(* Retiring the publications of the release the pointer leaves keeps one   *)
(* release active; no operation moves the pointer to where it is.          *)
LEMMA PublicationsFollow ==
  ASSUME NEW pub, NEW r \in Releases, NEW previous, r # previous,
         \A x \in Releases : pub[x] = "active" <=> x = previous
  PROVE  \A x \in Releases : ActivatePublications(pub, r, previous)[x] = "active" <=> x = r
<1> SUFFICES ASSUME NEW x \in Releases
             PROVE  ActivatePublications(pub, r, previous)[x] = "active" <=> x = r
  OBVIOUS
<1>1. CASE x = r
  BY <1>1 DEF ActivatePublications
<1>2. CASE x # r /\ x = previous
  BY <1>2 DEF ActivatePublications
<1>3. CASE x # r /\ x # previous
  BY <1>3 DEF ActivatePublications
<1> QED BY <1>1, <1>2, <1>3

(* A promotion or a rollback: the decision is appended and the pointer and *)
(* the catalog move with it.                                               *)
LEMMA SwapCommit ==
  ASSUME ChannelAssumption, ChannelInv, NEW t \in Txns, txn[t] # Idle, Serializable(txn[t]),
         txn' = Observe(t), history' = history, NEW action,
         \/ txn[t].op = "promote" /\ action = "promoted"
         \/ txn[t].op = "rollback" /\ action = "rolled_back",
         db' = SwapChannel(txn[t].snap, action, txn[t].rel, txn[t].ev)
  PROVE  ChannelInv'
<1> DEFINE w == txn[t]
           row == [action |-> action, rel |-> w.rel, prev |-> w.snap.current, ev |-> w.ev]
           n == Len(db.decisions)
           pub == ActivatePublications(db.pub, w.rel, w.snap.current)
<1>1. /\ Grounded /\ TypeOK /\ db \in Database /\ w.ev \in Evals /\ w.rel \in Releases
      /\ w.snap \in Database
  BY TransactionFields DEF ChannelInv, Grounded, TypeOK
<1>2. w.snap.current = db.current
  BY PointerAsRead
<1>3. /\ db.evals \in Seq(EvalRow) /\ db.decisions \in Seq(DecisionRow)
      /\ db.current \in Releases \union {None}
      /\ db.pub \in [Releases -> {"prepared", "active", "retired"}]
  BY <1>1, DatabaseFields
<1>4. row \in DecisionRow
  BY <1>1, <1>2, <1>3 DEF DecisionRow
<1>5. pub \in [Releases -> {"prepared", "active", "retired"}]
  BY <1>1, <1>3 DEF ActivatePublications
<1>6. Append(db.decisions, row) \in Seq(DecisionRow)
  BY <1>3, <1>4
<1>7. /\ db' \in Database /\ db'.decisions = Append(db.decisions, row)
      /\ db'.current = w.rel /\ db'.prior = db.current /\ db'.pub = pub
      /\ db'.evals = db.evals /\ db'.declines = db.declines /\ db'.certified = db.certified
  <2>1. db' = [db EXCEPT !.decisions = Append(db.decisions, row), !.current = w.rel,
                         !.prior = w.snap.current, !.pub = pub]
    BY <1>1 DEF SwapChannel, Database
  <2> DEFINE appended == Append(db.decisions, row)
  <2>2. appended \in Seq([action : {"promoted", "rolled_back"}, rel : Releases,
                          prev : Releases \union {None}, ev : Evals])
    BY <1>6 DEF DecisionRow
  <2>3. /\ db' \in Database /\ db'.decisions = appended
        /\ db'.current = w.rel /\ db'.prior = w.snap.current /\ db'.pub = pub
        /\ db'.evals = db.evals /\ db'.declines = db.declines /\ db'.certified = db.certified
    <3>1. db' = [db EXCEPT !.decisions = appended, !.current = w.rel,
                           !.prior = w.snap.current, !.pub = pub]
      BY <2>1
    <3>2. w.rel \in Releases \union {None} /\ w.snap.current \in Releases \union {None}
      BY <1>1, <1>2, <1>3
    <3> HIDE DEF appended, pub, w
    <3> QED BY <1>1, <1>5, <2>2, <3>1, <3>2, ZenonT(30) DEF Database
  <2> QED BY <1>2, <2>3
<1>8. /\ n \in Nat /\ DOMAIN db.decisions = 1..n /\ DOMAIN db'.decisions = 1..(n + 1)
      /\ Len(db'.decisions) = n + 1
      /\ db'.decisions[n + 1] = row
      /\ \A i \in 1..n : db'.decisions[i] = db.decisions[i]
  BY <1>3, <1>4, <1>7
<1>9. Grown(db, db')
  <2> HIDE DEF row, w, pub
  <2>1. Len(db.evals) \in Nat
    BY <1>3
  <2>2. \A i \in 1..n : db'.decisions[i] = db.decisions[i]
    BY <1>8
  <2>3. n <= Len(db'.decisions) /\ db'.evals = db.evals /\ db'.certified = db.certified
    BY <1>7, <1>8
  <2> QED BY <2>1, <2>2, <2>3 DEF Grown
<1>10. \A u \in Txns : txn'[u] # Idle => Sound(txn'[u], db')
  <2>1. row.rel = w.rel /\ (w.op = "rollback" => row.action # "promoted")
        /\ w.op \in {"promote", "rollback"}
    OBVIOUS
  <2> HIDE DEF row
  <2> QED BY <1>1, <1>7, <1>9, <2>1, CommitOvertakes, SoundAfterSwap
<1>11. /\ w.ev \notin db.declines /\ PassingEvidence(db, w.ev, w.rel)
       /\ Contents[w.rel] \subseteq db.certified
       /\ \E j \in 1..(n + 1) : db'.decisions[j].action = "promoted" /\ db'.decisions[j].ev = w.ev
  <2>1. CASE w.op = "promote"
    <3>1. n + 1 \in 1..(n + 1)
      BY <1>8
    <3>2. db'.decisions[n + 1].action = "promoted" /\ db'.decisions[n + 1].ev = w.ev
      BY <1>8, <2>1
    <3>3. /\ w.ev \notin db.declines /\ PassingEvidence(db, w.ev, w.rel)
          /\ Contents[w.rel] \subseteq db.certified
      BY <2>1, PromotionCommits
    <3> HIDE DEF n, row, w
    <3> QED BY <3>1, <3>2, <3>3
  <2>2. CASE w.op = "rollback"
    <3>1. PICK i \in 1..n : db.decisions[i].rel = w.rel /\ db.decisions[i].ev = w.ev
      BY <2>2, RollbackCommits
    <3>2. PICK j \in 1..i : db.decisions[j].action = "promoted" /\ db.decisions[j].ev = w.ev
      BY <1>8, <3>1 DEF ChannelInv, ChannelIsGoverned, EvidenceLineage
    <3>3. j \in 1..n /\ j \in 1..(n + 1)
      BY <1>8
    <3> QED BY <1>8, <3>1, <3>2, <3>3
         DEF ChannelInv, ChannelIsGoverned, EvidenceLineage, EvidenceDecidedOnce
  <2> QED BY <2>1, <2>2
<1>12. TypeOK' /\ Grounded'
  <2>1. w.ev \in DOMAIN db.evals
    BY <1>11 DEF PassingEvidence, EvalsOf
  <2>2. \A i \in 1..(n + 1) : i = n + 1 \/ i \in 1..n
    BY <1>8
  <2>3. db'.declines \subseteq DOMAIN db'.evals /\ \A i \in 1..n : db.decisions[i].ev \in DOMAIN db.evals
    BY <1>1, <1>7, <1>8 DEF TypeOK
  <2>4. row.ev = w.ev
    OBVIOUS
  <2> HIDE DEF row, n, w, pub
  <2>5. \A i \in DOMAIN db'.decisions : db'.decisions[i].ev \in DOMAIN db'.evals
    BY <1>7, <1>8, <2>1, <2>2, <2>3, <2>4
  <2>6. TypeOK'
    BY <1>7, <2>3, <2>5 DEF TypeOK
  <2> QED BY <1>1, <2>6, ObservedTyped DEF Grounded
<1>13. PointerChain'
  <2>1. /\ \A i \in 1..n : db.decisions[i].prev = (IF i = 1 THEN None ELSE db.decisions[i - 1].rel)
        /\ n > 0 => db.current = db.decisions[n].rel
        /\ n = 0 => db.current = None
    BY DEF ChannelInv, ChannelIsGoverned, PointerChain
  <2>2. ASSUME NEW i \in 1..(n + 1)
        PROVE  db'.decisions[i].prev = (IF i = 1 THEN None ELSE db'.decisions[i - 1].rel)
    <3>1. CASE i = n + 1
      <4>1. db'.decisions[i].prev = db.current
        BY <1>2, <1>8, <3>1
      <4>2. CASE n = 0
        BY <2>1, <3>1, <4>1, <4>2
      <4>3. CASE n > 0
        <5>1. i - 1 = n /\ n \in 1..n /\ i # 1
          BY <1>8, <3>1, <4>3
        <5> QED BY <1>8, <2>1, <4>1, <4>3, <5>1
      <4>4. n \in Nat
        BY <1>8
      <4> QED BY <4>2, <4>3, <4>4
    <3>2. CASE i \in 1..n
      <4>1. i = 1 \/ i - 1 \in 1..n
        BY <1>8, <3>2
      <4>2. /\ db'.decisions[i] = db.decisions[i]
            /\ i # 1 => db'.decisions[i - 1] = db.decisions[i - 1]
            /\ db.decisions[i].prev = (IF i = 1 THEN None ELSE db.decisions[i - 1].rel)
        BY <1>8, <2>1, <3>2, <4>1
      <4> HIDE DEF n, row, w
      <4> QED BY <4>2
    <3>3. n \in Nat
      BY <1>8
    <3> HIDE DEF n, row, w
    <3> QED BY <3>1, <3>2, <3>3
  <2>3. db'.current = db'.decisions[n + 1].rel /\ db'.prior = db'.decisions[n + 1].prev
    <3>1. row.rel = w.rel /\ row.prev = w.snap.current
      OBVIOUS
    <3> HIDE DEF n, row, pub
    <3> QED BY <1>2, <1>7, <1>8, <3>1
  <2>4. n \in Nat /\ Len(db'.decisions) = n + 1
    BY <1>8
  <2> HIDE DEF n, row, w
  <2>5. \A i \in 1..(n + 1) :
          db'.decisions[i].prev = (IF i = 1 THEN None ELSE db'.decisions[i - 1].rel)
    BY <2>2
  <2>6. n + 1 > 0 /\ n + 1 # 0
    BY <2>4
  <2> QED BY <2>3, <2>4, <2>5, <2>6 DEF PointerChain
<1>14. EvidenceDecidedOnce'
  <2>1. \A i \in 1..n : db.decisions[i].ev \notin db.declines
    BY <1>8 DEF ChannelInv, ChannelIsGoverned, EvidenceDecidedOnce
  <2>2. \A i \in 1..(n + 1) : i = n + 1 \/ i \in 1..n
    BY <1>8
  <2>3. row.ev = w.ev
    OBVIOUS
  <2> HIDE DEF row, n, w, pub
  <2> QED BY <1>7, <1>8, <1>11, <2>1, <2>2, <2>3 DEF EvidenceDecidedOnce
<1>15. EvidenceLineage'
  <2>1. ASSUME NEW i \in 1..n
        PROVE  /\ PassingEvidence(db, db.decisions[i].ev, db.decisions[i].rel)
               /\ Contents[db.decisions[i].rel] \subseteq db.certified
               /\ \E j \in 1..i : /\ db'.decisions[j].action = "promoted"
                                  /\ db'.decisions[j].ev = db.decisions[i].ev
    <3>1. PICK j \in 1..i : /\ db.decisions[j].action = "promoted"
                            /\ db.decisions[j].ev = db.decisions[i].ev
      BY <1>8 DEF ChannelInv, ChannelIsGoverned, EvidenceLineage
    <3>2. j \in 1..n
      BY <1>8
    <3> QED BY <1>8, <3>1, <3>2 DEF ChannelInv, ChannelIsGoverned, EvidenceLineage
  <2>2. \A e, r : PassingEvidence(db, e, r) => PassingEvidence(db', e, r)
    BY <1>7 DEF PassingEvidence, EvalsOf
  <2>3. ASSUME NEW i \in DOMAIN db'.decisions
        PROVE  /\ PassingEvidence(db', db'.decisions[i].ev, db'.decisions[i].rel)
               /\ Contents[db'.decisions[i].rel] \subseteq db'.certified
               /\ \E j \in 1..i : /\ db'.decisions[j].action = "promoted"
                                  /\ db'.decisions[j].ev = db'.decisions[i].ev
    <3>1. CASE i = n + 1
      <4>1. db'.decisions[i].ev = w.ev /\ db'.decisions[i].rel = w.rel
        BY <1>8, <3>1
      <4> HIDE DEF row, n
      <4>2. /\ PassingEvidence(db, w.ev, w.rel) /\ Contents[w.rel] \subseteq db'.certified
            /\ \E j \in 1..i : db'.decisions[j].action = "promoted" /\ db'.decisions[j].ev = w.ev
        BY <1>7, <1>11, <3>1
      <4> HIDE DEF w
      <4> QED BY <2>2, <4>1, <4>2
    <3>2. CASE i \in 1..n
      <4> HIDE DEF row, n
      <4>1. db'.decisions[i] = db.decisions[i] /\ db'.certified = db.certified
        BY <1>7, <1>8, <3>2
      <4> QED BY <2>1, <2>2, <3>2, <4>1
    <3>3. n \in Nat /\ i \in 1..(n + 1)
      BY <1>8
    <3>4. i = n + 1 \/ i \in 1..n
      BY <3>3
    <3> HIDE DEF n, row, w
    <3> QED BY <3>1, <3>2, <3>4, Zenon
  <2> QED BY <2>3 DEF EvidenceLineage
<1>16. CatalogFollowsChannel'
  <2>1. \A r \in Releases : db.pub[r] = "active" <=> r = w.snap.current
    BY <1>2 DEF ChannelInv, ChannelIsGoverned, CatalogFollowsChannel
  <2>2. \A r \in Releases : pub[r] = "active" <=> r = w.rel
    <3>1. w.rel # w.snap.current
      BY DEF ChannelInv, Sound, Admitted, MayPromote, MayRollback
    <3> QED BY <1>1, <2>1, <3>1, PublicationsFollow
  <2> QED BY <1>7, <2>2 DEF CatalogFollowsChannel
<1> QED BY <1>10, <1>12, <1>13, <1>14, <1>15, <1>16 DEF ChannelInv, ChannelIsGoverned

LEMMA CommitStep ==
  ASSUME ChannelAssumption, ChannelInv, NEW t \in Txns, Commit(t)
  PROVE  ChannelInv'
<1>1. txn[t] # Idle /\ Serializable(txn[t]) /\ txn' = Observe(t) /\ history' = history
  BY DEF Commit
<1>2. txn[t].op \in Ops
  BY <1>1, TransactionFields DEF ChannelInv
<1>3. CASE txn[t].op = "evaluate"
  <2>1. PICK passed \in BOOLEAN : db' = Evaluated(txn[t].snap, txn[t], passed)
    BY <1>3 DEF Commit
  <2> QED BY <1>1, <1>3, <2>1, EvaluateCommit
<1>4. CASE txn[t].op = "decline"
  <2>1. db' = [db EXCEPT !.declines = @ \union {txn[t].ev}]
    BY <1>4 DEF Commit
  <2> QED BY <1>1, <1>4, <2>1, DeclineCommit
<1>5. CASE txn[t].op = "promote"
  <2>1. db' = SwapChannel(txn[t].snap, "promoted", txn[t].rel, txn[t].ev)
    BY <1>5 DEF Commit
  <2> QED BY <1>1, <1>5, <2>1, SwapCommit
<1>6. CASE txn[t].op = "rollback"
  <2>1. db' = SwapChannel(txn[t].snap, "rolled_back", txn[t].rel, txn[t].ev)
    BY <1>6 DEF Commit
  <2> QED BY <1>1, <1>6, <2>1, SwapCommit
<1> QED BY <1>2, <1>3, <1>4, <1>5, <1>6 DEF Ops

(* However evaluations, declines, promotions and rollbacks race, each on   *)
(* the snapshot it began with, the decisions form one chain that the       *)
(* pointer and the catalog follow, no evidence is both relied on and       *)
(* declined, and every release the channel pointed at rests on evidence    *)
(* that passed and that a promotion relied on (ReleaseGovernanceService).  *)
THEOREM ReleasesAreGoverned == ChannelAssumption => (Spec => []ChannelIsGoverned)
<1> SUFFICES ASSUME ChannelAssumption PROVE Spec => []ChannelIsGoverned
  OBVIOUS
<1>1. Init => ChannelInv
  BY ChannelInit
<1>2. ChannelInv /\ [Next]_vars => ChannelInv'
  <2> SUFFICES ASSUME ChannelInv, [Next]_vars PROVE ChannelInv'
    OBVIOUS
  <2>1. Grounded
    BY DEF ChannelInv
  <2>2. CASE RunFinishes
    <3>1. history' \in [Releases -> 0..MaxHistory]
      <4>1. db.current \in Releases
        BY <2>1, <2>2, DatabaseFields DEF RunFinishes, Grounded, TypeOK
      <4> QED BY <2>1, <2>2, <4>1 DEF RunFinishes, Grounded, ChannelAssumption
    <3> QED BY <2>1, <2>2, <3>1, QuietStep DEF RunFinishes, Grounded
  <2>3. ASSUME NEW t \in Txns, Abort(t) PROVE ChannelInv'
    BY <2>1, <2>3, QuietStep DEF Abort, Grounded
  <2>4. CASE UNCHANGED vars
    BY <2>1, <2>4, QuietStep DEF vars, Grounded
  <2> QED BY <2>2, <2>3, <2>4, BeginStep, CommitStep DEF Next
<1>3. ChannelInv => ChannelIsGoverned
  BY DEF ChannelInv
<1> QED BY <1>1, <1>2, <1>3, PTL DEF Spec

-----------------------------------------------------------------------------
(* The attention queue (AttentionQueue) of any principal, for any runs,    *)
(* Plugins and groups of approvals.  A failed run never moves again, so an *)
(* acknowledgement cannot come to hide anything else.                      *)
CONSTANTS QueueRuns, Reviewers, Plugins, Semantics, PerRun, Named, Global, Admin, Owner, MaxVersion

VARIABLES queueRun, version, plugin, evals, live, resolved, queueShown, reviewed

Queue == INSTANCE AttentionQueue WITH Runs <- QueueRuns, run <- queueRun, shown <- queueShown

EvalRecords == [passed : BOOLEAN, decided : BOOLEAN]

(* What an item on a shelf looks like.                                     *)
Shelved(i) == i.shelf \in {"decide", "degraded"} /\ i.id[1] \in Queue!ItemKinds

QueueTyped ==
  /\ queueRun \in [QueueRuns -> Queue!RunStates] /\ version \in [QueueRuns -> 0 .. MaxVersion]
  /\ plugin \in [Plugins -> {"enabled", "degraded", "disabled"}]
  /\ evals \in Seq(EvalRecords) /\ live \in BOOLEAN
  /\ resolved \subseteq {<<"stalled_run", {r}>> : r \in QueueRuns}
  /\ queueShown = [h \in Reviewers |-> queueShown[h]]
  /\ \A h \in Reviewers : \A i \in queueShown[h] : Shelved(i)

QueueInv == QueueTyped /\ Queue!OnlyFailuresAreResolved /\ Queue!DecidedAsReviewed

(* An instance counts as this module does.                                 *)
LEMMA QueueCounts == ASSUME NEW S PROVE Queue!Cardinality(S) = Cardinality(S)
BY Zenon DEF Queue!Cardinality, Cardinality

(* The kinds of items, one by one.                                         *)
LEMMA ItemsAre ==
  ASSUME NEW i \in Queue!Items
  PROVE  \/ /\ i.id[1] \in {"execution_approval", "safety_stop"} /\ i.id[2] \in Queue!ApprovalGroups
            /\ i.shelf \in {"decide", "degraded"} /\ i.state = "awaiting_approval"
         \/ \E r \in Queue!Awaiting \ Named :
              i = Queue!Item("unresolved", {<<r, version[r]>>}, "degraded", "awaiting_approval")
         \/ i = Queue!Item("release_promotion", {Len(evals)}, "decide", "passed")
         \/ \E r \in QueueRuns : /\ queueRun[r] \in Queue!Stopped
                                 /\ i = Queue!Item(Queue!KindOf(queueRun[r]), {r}, "degraded", queueRun[r])
                                 /\ ~Queue!Acknowledged(i)
         \/ \E p \in Plugins : /\ plugin[p] # "enabled"
                               /\ i = Queue!Item("plugin_health", {p}, "degraded", plugin[p])
<1>1. CASE i \in Queue!ApprovalItems
  <2>1. PICK g \in Queue!ApprovalGroups :
          i = IF Queue!AdminRequired(g) THEN Queue!Item("safety_stop", g, "degraded", "awaiting_approval")
                                        ELSE Queue!Item("execution_approval", g, "decide", "awaiting_approval")
    BY <1>1 DEF Queue!ApprovalItems
  <2> QED
    BY <2>1 DEF Queue!Item
<1>2. CASE i \in Queue!UnresolvedApprovalItems
  BY <1>2 DEF Queue!UnresolvedApprovalItems
<1>3. CASE i \in Queue!ReleaseItems
  BY <1>3 DEF Queue!ReleaseItems
<1>4. CASE i \in Queue!DegradedRunItems
  BY <1>4 DEF Queue!DegradedRunItems
<1>5. CASE i \in Queue!DegradedPluginItems
  BY <1>5 DEF Queue!DegradedPluginItems
<1> QED
  BY <1>1, <1>2, <1>3, <1>4, <1>5 DEF Queue!Items

LEMMA ItemsAreShelved ==
  ASSUME NEW i \in Queue!Items
  PROVE  Shelved(i)
<1> USE DEF Shelved, Queue!ItemKinds, Queue!Item
<1>1. CASE i.id[1] \in {"execution_approval", "safety_stop"} /\ i.shelf \in {"decide", "degraded"}
  BY <1>1
<1>2. ASSUME NEW r \in QueueRuns, i = Queue!Item(Queue!KindOf(queueRun[r]), {r}, "degraded", queueRun[r])
      PROVE  Shelved(i)
  <2>1. Queue!KindOf(queueRun[r]) \in {"budget_stop", "plugin_health", "stalled_run"}
    BY DEF Queue!KindOf
  <2> QED
    BY <1>2, <2>1
<1>3. ASSUME NEW m, NEW t, \/ i = Queue!Item("unresolved", m, "degraded", t)
                           \/ i = Queue!Item("plugin_health", m, "degraded", t)
                           \/ i = Queue!Item("release_promotion", m, "decide", t)
      PROVE  Shelved(i)
  BY <1>3
<1> HIDE DEF Shelved, Queue!ItemKinds, Queue!Item
<1> QED
  BY <1>1, <1>2, <1>3, ItemsAre

(* What a reviewer may acknowledge is a run that failed.                   *)
LEMMA ResolvableFailed ==
  ASSUME QueueTyped, NEW i \in Queue!Items, Queue!Resolvable(i)
  PROVE  \E r \in QueueRuns : queueRun[r] = "failed" /\ i.id = <<"stalled_run", {r}>>
<1>1. i.state = "failed"
  BY DEF Queue!Resolvable
<1>2. PICK r \in QueueRuns : i = Queue!Item(Queue!KindOf(queueRun[r]), {r}, "degraded", queueRun[r])
  <2>1. \A p \in Plugins : plugin[p] # "failed"
    BY DEF QueueTyped
  <2>2. \A p \in Plugins : i # Queue!Item("plugin_health", {p}, "degraded", plugin[p])
    BY <1>1, <2>1 DEF Queue!Item
  <2>3. i # Queue!Item("release_promotion", {Len(evals)}, "decide", "passed")
    BY <1>1 DEF Queue!Item
  <2>4. \A m : i # Queue!Item("unresolved", m, "degraded", "awaiting_approval")
    BY <1>1 DEF Queue!Item
  <2> QED
    BY <1>1, <2>2, <2>3, <2>4, ItemsAre
<1> QED
  BY <1>1, <1>2 DEF Queue!Item, Queue!KindOf

(* The runs of a group await approval, in the version the group names.     *)
LEMMA GroupsAwait ==
  ASSUME NEW g \in Queue!ApprovalGroups, NEW m \in g
  PROVE  m[1] \in Queue!Awaiting \cap Named /\ m = <<m[1], version[m[1]]>>
BY DEF Queue!ApprovalGroups, Queue!Membership

-----------------------------------------------------------------------------
LEMMA QueueStarts ==
  ASSUME Queue!QueueAssumption, Queue!Init
  PROVE  QueueInv
<1>1. evals \in Seq(EvalRecords) /\ live \in BOOLEAN
  <2>1. evals = << >> /\ live = FALSE
    BY DEF Queue!Init
  <2>2. evals \in Seq(EvalRecords)
    BY <2>1, SMT
  <2>3. live \in BOOLEAN
    BY <2>1, Zenon
  <2> QED
    BY <2>2, <2>3
<1>2. queueRun \in [QueueRuns -> Queue!RunStates] /\ version \in [QueueRuns -> 0 .. MaxVersion]
  BY DEF Queue!QueueAssumption, Queue!Init, Queue!RunStates
<1>3. /\ queueShown = [h \in Reviewers |-> queueShown[h]]
      /\ \A h \in Reviewers : \A i \in queueShown[h] : Shelved(i)
  BY DEF Queue!Init
<1>4. plugin \in [Plugins -> {"enabled", "degraded", "disabled"}] /\ resolved = {} /\ reviewed = {}
  BY DEF Queue!Init
<1> QED
  BY <1>1, <1>2, <1>3, <1>4 DEF QueueInv, QueueTyped, Queue!OnlyFailuresAreResolved, Queue!DecidedAsReviewed

LEMMA RunMoves ==
  ASSUME Queue!QueueAssumption, QueueInv, NEW r \in QueueRuns, NEW to \in Queue!RunStates,
         Queue!MoveRun(r, to)
  PROVE  QueueInv'
<1>1. QueueTyped'
  BY DEF QueueInv, QueueTyped, Queue!MoveRun, Queue!QueueAssumption, Shelved, Queue!ItemKinds
<1>2. queueRun[r] # "failed"
  BY DEF Queue!MoveRun, Queue!Steps
<1>3. Queue!OnlyFailuresAreResolved'
  BY <1>2 DEF QueueInv, QueueTyped, Queue!OnlyFailuresAreResolved, Queue!MoveRun
<1>4. Queue!DecidedAsReviewed'
  BY DEF QueueInv, Queue!DecidedAsReviewed, Queue!MoveRun
<1> QED
  BY <1>1, <1>3, <1>4 DEF QueueInv

LEMMA OthersMove ==
  ASSUME QueueInv,
         \/ \E p \in Plugins, to \in {"enabled", "degraded", "disabled"} : Queue!MovePlugin(p, to)
         \/ \E b \in BOOLEAN : Queue!EvaluateRelease(b) \/ Queue!DecideRelease(b)
         \/ \E h \in Reviewers : Queue!List(h)
         \/ UNCHANGED Queue!vars
  PROVE  QueueInv'
<1>1. Queue!OnlyFailuresAreResolved' /\ Queue!DecidedAsReviewed'
  BY DEF QueueInv, Queue!OnlyFailuresAreResolved, Queue!DecidedAsReviewed, Queue!MovePlugin,
         Queue!EvaluateRelease, Queue!DecideRelease, Queue!List, Queue!vars
<1>2. QueueTyped'
  <2>1. ASSUME NEW p \in Plugins, NEW to \in {"enabled", "degraded", "disabled"}, Queue!MovePlugin(p, to)
        PROVE  QueueTyped'
    BY <2>1 DEF QueueInv, QueueTyped, Shelved, Queue!MovePlugin
  <2>2. ASSUME NEW b \in BOOLEAN, Queue!EvaluateRelease(b)
        PROVE  QueueTyped'
    <3>1. evals' \in Seq(EvalRecords)
      BY <2>2 DEF QueueInv, QueueTyped, Queue!EvaluateRelease, EvalRecords
    <3> QED
      BY <2>2, <3>1 DEF QueueInv, QueueTyped, Shelved, Queue!EvaluateRelease
  <2>3. ASSUME NEW b \in BOOLEAN, Queue!DecideRelease(b)
        PROVE  QueueTyped'
    <3>1. evals # << >> /\ evals \in Seq(EvalRecords)
      BY <2>3 DEF QueueInv, QueueTyped, Queue!DecideRelease, Queue!ReleaseItems
    <3>2. evals' \in Seq(EvalRecords)
      <4> DEFINE n == Len(evals)
      <4>1. n \in 1 .. Len(evals) /\ evals[n] \in EvalRecords
        BY <3>1
      <4>2. [evals[n] EXCEPT !.decided = TRUE] \in EvalRecords
        BY <4>1 DEF EvalRecords
      <4>3. evals' = [evals EXCEPT ![n].decided = TRUE]
        BY <2>3 DEF Queue!DecideRelease
      <4> QED
        BY <3>1, <4>1, <4>2, <4>3
    <3> QED
      BY <2>3, <3>2 DEF QueueInv, QueueTyped, Shelved, Queue!DecideRelease
  <2>4. ASSUME NEW h \in Reviewers, Queue!List(h)
        PROVE  QueueTyped'
    <3>1. queueShown' = [queueShown EXCEPT ![h] = Queue!Items]
      BY <2>4 DEF Queue!List
    <3>2. \A k \in Reviewers : \A i \in queueShown'[k] : Shelved(i)
      BY <3>1, ItemsAreShelved DEF QueueInv, QueueTyped
    <3> QED
      BY <2>4, <3>1, <3>2 DEF QueueInv, QueueTyped, Shelved, Queue!List
  <2>5. CASE UNCHANGED Queue!vars
    BY <2>5 DEF QueueInv, QueueTyped, Shelved, Queue!vars
  <2> QED
    BY <2>1, <2>2, <2>3, <2>4, <2>5
<1> QED
  BY <1>1, <1>2 DEF QueueInv

LEMMA ReviewersAct ==
  ASSUME QueueInv, NEW h \in Reviewers,
         Queue!ResolveItem(h) \/ \E to \in {"queued", "ended"} : Queue!DecideGroup(h, to)
  PROVE  QueueInv'
<1>1. CASE Queue!ResolveItem(h)
  <2>1. PICK i \in Queue!Items : Queue!Resolvable(i) /\ resolved' = resolved \cup {i.id}
    BY <1>1 DEF Queue!ResolveItem
  <2>2. PICK r \in QueueRuns : queueRun[r] = "failed" /\ i.id = <<"stalled_run", {r}>>
    BY <2>1, ResolvableFailed DEF QueueInv
  <2>3. QueueTyped'
    BY <1>1, <2>1, <2>2 DEF QueueInv, QueueTyped, Shelved, Queue!ResolveItem
  <2>4. Queue!OnlyFailuresAreResolved'
    BY <1>1, <2>1, <2>2 DEF QueueInv, Queue!OnlyFailuresAreResolved, Queue!ResolveItem
  <2>5. Queue!DecidedAsReviewed'
    BY <1>1 DEF QueueInv, Queue!DecidedAsReviewed, Queue!ResolveItem
  <2> QED
    BY <2>3, <2>4, <2>5 DEF QueueInv
<1>2. ASSUME NEW to \in {"queued", "ended"}, Queue!DecideGroup(h, to)
      PROVE  QueueInv'
  <2>1. PICK i \in queueShown[h] :
          /\ i.id[2] \in Queue!ApprovalGroups
          /\ queueRun' = [r \in QueueRuns |-> IF r \in {m[1] : m \in i.id[2]} THEN to ELSE queueRun[r]]
          /\ reviewed' = reviewed \cup {[run |-> r, version |-> version[r], shown |-> i.id[2]] :
                                          r \in {m[1] : m \in i.id[2]}}
    BY <1>2 DEF Queue!DecideGroup
  <2>2. \A m \in i.id[2] : m = <<m[1], version[m[1]]>> /\ queueRun[m[1]] = "awaiting_approval"
    BY <2>1, GroupsAwait DEF Queue!Awaiting
  <2>3. QueueTyped'
    <3>1. queueRun' \in [QueueRuns -> Queue!RunStates]
      BY <2>1 DEF QueueInv, QueueTyped, Queue!RunStates
    <3> QED
      BY <1>2, <3>1 DEF QueueInv, QueueTyped, Shelved, Queue!DecideGroup
  <2>4. Queue!OnlyFailuresAreResolved'
    BY <1>2, <2>1, <2>2 DEF QueueInv, Queue!OnlyFailuresAreResolved, Queue!DecideGroup
  <2>5. Queue!DecidedAsReviewed'
    <3>1. \A r \in {m[1] : m \in i.id[2]} : <<r, version[r]>> \in i.id[2]
      BY <2>2
    <3>2. ASSUME NEW d \in reviewed' PROVE <<d.run, d.version>> \in d.shown
      <4>1. CASE d \in reviewed
        BY <4>1 DEF QueueInv, Queue!DecidedAsReviewed
      <4>2. CASE d \notin reviewed
        <5>1. PICK r \in {m[1] : m \in i.id[2]} : d = [run |-> r, version |-> version[r], shown |-> i.id[2]]
          BY <2>1, <4>2
        <5> QED
          BY <3>1, <5>1
      <4> QED
        BY <4>1, <4>2
    <3> QED
      BY <3>2 DEF Queue!DecidedAsReviewed
  <2> QED
    BY <2>3, <2>4, <2>5 DEF QueueInv
<1> QED
  BY <1>1, <1>2

LEMMA QueueSteps ==
  ASSUME Queue!QueueAssumption, QueueInv, [Queue!Next]_(Queue!vars)
  PROVE  QueueInv'
BY RunMoves, OthersMove, ReviewersAct DEF Queue!Next

-----------------------------------------------------------------------------
(* Every matter is on the queue once.                                      *)

(* The group a named run is in is the one of its meaning.                  *)
GroupOf(r) == {Queue!Membership(q) : q \in {x \in Queue!Awaiting \cap Named : Queue!SemanticKey(x) = Queue!SemanticKey(r)}}

ApprovalItemOf(r) ==
  IF Queue!AdminRequired(GroupOf(r)) THEN Queue!Item("safety_stop", GroupOf(r), "degraded", "awaiting_approval")
                                     ELSE Queue!Item("execution_approval", GroupOf(r), "decide", "awaiting_approval")

LEMMA GroupsAreDisjoint ==
  ASSUME NEW g \in Queue!ApprovalGroups, NEW r, NEW v, <<r, v>> \in g
  PROVE  r \in Queue!Awaiting \cap Named /\ g = GroupOf(r)
<1>1. PICK p \in Queue!Awaiting \cap Named : g = GroupOf(p)
  BY DEF Queue!ApprovalGroups, GroupOf
<1>2. r \in Queue!Awaiting \cap Named /\ Queue!SemanticKey(r) = Queue!SemanticKey(p)
  BY <1>1 DEF GroupOf, Queue!Membership
<1> QED
  BY <1>1, <1>2 DEF GroupOf

(* A run that waits for approval is in one item, in the group of its       *)
(* meaning or, without a safe subject, in one of its own.                  *)
LEMMA HeldAwaiting ==
  ASSUME Queue!QueueAssumption, QueueTyped, NEW r \in QueueRuns, NEW i \in Queue!Items, Queue!Holds(i, r),
         i.id[1] \in {"execution_approval", "safety_stop", "unresolved"}
  PROVE  /\ queueRun[r] = "awaiting_approval"
         /\ i = IF r \in Named THEN ApprovalItemOf(r)
                ELSE Queue!Item("unresolved", {<<r, version[r]>>}, "degraded", "awaiting_approval")
<1>1. PICK v \in 0 .. MaxVersion : <<r, v>> \in i.id[2]
  BY DEF Queue!Holds
<1>2. \A k, m, s, t : LET j == Queue!Item(k, m, s, t) IN j.id[1] = k /\ j.id[2] = m
  BY DEF Queue!Item
<1>3. CASE i \in Queue!ApprovalItems
  <2>1. PICK g \in Queue!ApprovalGroups :
          i = IF Queue!AdminRequired(g) THEN Queue!Item("safety_stop", g, "degraded", "awaiting_approval")
                                        ELSE Queue!Item("execution_approval", g, "decide", "awaiting_approval")
    BY <1>3 DEF Queue!ApprovalItems
  <2>2. <<r, v>> \in g
    BY <1>1, <1>2, <2>1
  <2>3. r \in Queue!Awaiting \cap Named /\ g = GroupOf(r)
    BY <2>2, GroupsAreDisjoint
  <2> QED
    BY <2>1, <2>3 DEF ApprovalItemOf, Queue!Awaiting
<1>4. CASE i \in Queue!UnresolvedApprovalItems
  <2>1. PICK q \in Queue!Awaiting \ Named :
          i = Queue!Item("unresolved", {<<q, version[q]>>}, "degraded", "awaiting_approval")
    BY <1>4 DEF Queue!UnresolvedApprovalItems
  <2>2. <<r, v>> = <<q, version[q]>>
    BY <1>1, <1>2, <2>1
  <2> QED
    BY <2>1, <2>2 DEF Queue!Awaiting
<1>5. CASE i \in Queue!ReleaseItems
  BY <1>2, <1>5 DEF Queue!ReleaseItems
<1>6. CASE i \in Queue!DegradedRunItems
  <2>1. PICK q \in QueueRuns : i = Queue!Item(Queue!KindOf(queueRun[q]), {q}, "degraded", queueRun[q])
    BY <1>6 DEF Queue!DegradedRunItems
  <2>2. i.id[1] \in {"budget_stop", "plugin_health", "stalled_run"}
    BY <1>2, <2>1 DEF Queue!KindOf
  <2> QED
    BY <2>2
<1>7. CASE i \in Queue!DegradedPluginItems
  <2>1. PICK p \in Plugins : i = Queue!Item("plugin_health", {p}, "degraded", plugin[p])
    BY <1>7 DEF Queue!DegradedPluginItems
  <2> QED
    BY <1>2, <2>1
<1> QED
  BY <1>3, <1>4, <1>5, <1>6, <1>7 DEF Queue!Items

LEMMA AwaitingIsHeld ==
  ASSUME Queue!QueueAssumption, QueueTyped, NEW r \in QueueRuns, queueRun[r] = "awaiting_approval"
  PROVE  LET i == IF r \in Named THEN ApprovalItemOf(r)
                  ELSE Queue!Item("unresolved", {<<r, version[r]>>}, "degraded", "awaiting_approval")
         IN i \in Queue!Items /\ Queue!Holds(i, r)
<1>1. r \in Queue!Awaiting /\ version[r] \in 0 .. MaxVersion
  BY DEF Queue!Awaiting, QueueTyped
<1>2. CASE r \in Named
  <2>1. GroupOf(r) \in Queue!ApprovalGroups
    BY <1>1, <1>2 DEF GroupOf, Queue!ApprovalGroups
  <2>2. <<r, version[r]>> \in GroupOf(r)
    BY <1>1, <1>2 DEF GroupOf, Queue!Membership
  <2>3. ApprovalItemOf(r) \in Queue!ApprovalItems
    BY <2>1 DEF ApprovalItemOf, Queue!ApprovalItems
  <2>4. Queue!Holds(ApprovalItemOf(r), r)
    BY <1>1, <2>2 DEF ApprovalItemOf, Queue!Holds, Queue!Item
  <2> QED
    BY <1>2, <2>3, <2>4 DEF Queue!Items
<1>3. CASE r \notin Named
  <2> DEFINE i == Queue!Item("unresolved", {<<r, version[r]>>}, "degraded", "awaiting_approval")
  <2>1. i \in Queue!Items
    BY <1>1, <1>3 DEF Queue!UnresolvedApprovalItems, Queue!Items
  <2>2. Queue!Holds(i, r)
    BY <1>1 DEF Queue!Holds, Queue!Item
  <2> QED
    BY <1>3, <2>1, <2>2
<1> QED
  BY <1>2, <1>3

(* A stopped run is in one item, unless it failed and was acknowledged.    *)
LEMMA HeldStopped ==
  ASSUME Queue!QueueAssumption, QueueTyped, NEW r \in QueueRuns, NEW i \in Queue!Items, Queue!Holds(i, r),
         i.id[1] \notin {"execution_approval", "safety_stop", "unresolved"}
  PROVE  /\ queueRun[r] \in Queue!Stopped
         /\ i = Queue!Item(Queue!KindOf(queueRun[r]), {r}, "degraded", queueRun[r])
         /\ ~Queue!Acknowledged(i)
<1>1. r \in i.id[2] /\ i.id[1] \in {"budget_stop", "stalled_run", "plugin_health"}
  BY DEF Queue!Holds
<1>2. \A k, m, s, t : LET j == Queue!Item(k, m, s, t) IN j.id[1] = k /\ j.id[2] = m
  BY DEF Queue!Item
<1>3. CASE \E p \in Plugins : i = Queue!Item("plugin_health", {p}, "degraded", plugin[p])
  BY <1>1, <1>2, <1>3 DEF Queue!QueueAssumption
<1>4. CASE i = Queue!Item("release_promotion", {Len(evals)}, "decide", "passed")
  BY <1>1, <1>2, <1>4
<1>5. CASE \E q \in QueueRuns : /\ queueRun[q] \in Queue!Stopped
                                /\ i = Queue!Item(Queue!KindOf(queueRun[q]), {q}, "degraded", queueRun[q])
                                /\ ~Queue!Acknowledged(i)
  <2>1. PICK q \in QueueRuns : /\ queueRun[q] \in Queue!Stopped
                               /\ i = Queue!Item(Queue!KindOf(queueRun[q]), {q}, "degraded", queueRun[q])
                               /\ ~Queue!Acknowledged(i)
    BY <1>5
  <2>2. i.id[2] = {q}
    BY <1>2, <2>1
  <2>3. q = r
    BY <1>1, <2>2
  <2> QED
    BY <2>1, <2>3
<1>6. CASE \E q \in Queue!Awaiting \ Named :
             i = Queue!Item("unresolved", {<<q, version[q]>>}, "degraded", "awaiting_approval")
  BY <1>1, <1>2, <1>6
<1> QED
  BY <1>1, <1>3, <1>4, <1>5, <1>6, ItemsAre

LEMMA StoppedIsHeld ==
  ASSUME QueueTyped, NEW r \in QueueRuns, queueRun[r] \in Queue!Stopped,
         ~(queueRun[r] = "failed" /\ <<"stalled_run", {r}>> \in resolved)
  PROVE  LET i == Queue!Item(Queue!KindOf(queueRun[r]), {r}, "degraded", queueRun[r])
         IN i \in Queue!Items /\ Queue!Holds(i, r)
<1> DEFINE i == Queue!Item(Queue!KindOf(queueRun[r]), {r}, "degraded", queueRun[r])
<1>1. /\ i.id = <<Queue!KindOf(queueRun[r]), {r}>> /\ i.state = queueRun[r]
      /\ i.id[1] = Queue!KindOf(queueRun[r]) /\ i.id[2] = {r}
  BY DEF Queue!Item
<1>2. Queue!KindOf(queueRun[r]) \in {"budget_stop", "plugin_health", "stalled_run"}
  BY DEF Queue!KindOf
<1>3. ~Queue!Acknowledged(i)
  BY <1>1 DEF Queue!Acknowledged, Queue!KindOf
<1>4. i \in Queue!DegradedRunItems
  BY <1>3 DEF Queue!DegradedRunItems
<1>5. Queue!Holds(i, r)
  BY <1>1, <1>2 DEF Queue!Holds
<1>6. i \in Queue!Items
  BY <1>4 DEF Queue!Items
<1> QED
  BY <1>5, <1>6

(* Every matter is in exactly one item.                                    *)
LEMMA HeldOnce ==
  ASSUME Queue!QueueAssumption, QueueTyped
  PROVE  Queue!NothingIsHidden
<1> DEFINE held(r) == {i \in Queue!Items : Queue!Holds(i, r)}
           open(r) == \/ queueRun[r] = "awaiting_approval" \/ queueRun[r] \in Queue!Stopped \ {"failed"}
                      \/ queueRun[r] = "failed" /\ <<"stalled_run", {r}>> \notin resolved
<1>1. ASSUME NEW r \in QueueRuns, open(r)
      PROVE  \E x : held(r) = {x}
  <2>1. CASE queueRun[r] = "awaiting_approval"
    <3> DEFINE x == IF r \in Named THEN ApprovalItemOf(r)
                    ELSE Queue!Item("unresolved", {<<r, version[r]>>}, "degraded", "awaiting_approval")
    <3>1. x \in held(r)
      BY <2>1, AwaitingIsHeld
    <3>2. ASSUME NEW i \in held(r) PROVE i = x
      <4>1. queueRun[r] \notin Queue!Stopped
        BY <2>1 DEF Queue!Stopped
      <4>2. i.id[1] \in {"execution_approval", "safety_stop", "unresolved"}
        BY <3>2, <4>1, HeldStopped
      <4> QED
        BY <3>2, <4>2, HeldAwaiting
    <3> HIDE DEF x
    <3> QED
      BY <3>1, <3>2
  <2>2. CASE queueRun[r] # "awaiting_approval"
    <3> DEFINE x == Queue!Item(Queue!KindOf(queueRun[r]), {r}, "degraded", queueRun[r])
    <3>1. x \in held(r)
      BY <1>1, <2>2, StoppedIsHeld DEF Queue!Stopped
    <3>2. ASSUME NEW i \in held(r) PROVE i = x
      <4>1. i.id[1] \notin {"execution_approval", "safety_stop", "unresolved"}
        BY <2>2, <3>2, HeldAwaiting
      <4> QED
        BY <3>2, <4>1, HeldStopped
    <3> HIDE DEF x
    <3> QED
      BY <3>1, <3>2
  <2> QED
    BY <2>1, <2>2
<1>2. ASSUME NEW r \in QueueRuns, ~open(r)
      PROVE  held(r) = {}
  <2>1. ASSUME NEW i \in held(r) PROVE FALSE
    <3>1. i.id[1] \notin {"execution_approval", "safety_stop", "unresolved"}
      BY <1>2, <2>1, HeldAwaiting
    <3>2. /\ queueRun[r] \in Queue!Stopped /\ ~Queue!Acknowledged(i)
          /\ i = Queue!Item(Queue!KindOf(queueRun[r]), {r}, "degraded", queueRun[r])
      BY <2>1, <3>1, HeldStopped
    <3>3. queueRun[r] = "failed" /\ <<"stalled_run", {r}>> \in resolved
      BY <1>2, <3>2
    <3> QED
      BY <3>2, <3>3 DEF Queue!Acknowledged, Queue!Item, Queue!KindOf
  <2> QED
    BY <2>1
<1>3. \A r \in QueueRuns : Cardinality(held(r)) = IF open(r) THEN 1 ELSE 0
  <2> HIDE DEF held, open
  <2> TAKE r \in QueueRuns
  <2>1. CASE open(r)
    <3>1. PICK x : held(r) = {x}
      BY <1>1, <2>1
    <3>2. Cardinality({x}) = 1
      BY FS_Singleton
    <3> QED
      BY <2>1, <3>1, <3>2
  <2>2. CASE ~open(r)
    BY <1>2, <2>2, FS_EmptySet
  <2> QED
    BY <2>1, <2>2
<1> QED
  BY <1>3, QueueCounts DEF Queue!NothingIsHidden

(* Every matter that waits for a human is on the queue exactly once,       *)
(* whatever its scope and subject; what is acknowledged is a failed run;   *)
(* and every run a group decision covers was shown to the reviewer in the  *)
(* generation that is decided (AttentionService.list, resolveItem,         *)
(* approveRunGroup, rejectRunGroup).                                       *)
THEOREM QueueHidesNothing ==
  Queue!QueueAssumption =>
    (Queue!Spec => [](Queue!TypeOK /\ Queue!NothingIsHidden /\ Queue!OnlyFailuresAreResolved
                      /\ Queue!DecidedAsReviewed))
<1> SUFFICES ASSUME Queue!QueueAssumption
             PROVE  Queue!Spec => [](Queue!TypeOK /\ Queue!NothingIsHidden
                                     /\ Queue!OnlyFailuresAreResolved /\ Queue!DecidedAsReviewed)
  OBVIOUS
<1>1. Queue!Init => QueueInv
  BY QueueStarts
<1>2. QueueInv /\ [Queue!Next]_(Queue!vars) => QueueInv'
  BY QueueSteps
<1>3. QueueInv => Queue!TypeOK /\ Queue!NothingIsHidden /\ Queue!OnlyFailuresAreResolved
                  /\ Queue!DecidedAsReviewed
  <2>1. QueueInv => Queue!TypeOK
    <3>1. QueueInv => \A i \in DOMAIN evals : evals[i] \in EvalRecords
      BY DEF QueueInv, QueueTyped
    <3> QED
      BY <3>1 DEF QueueInv, QueueTyped, Shelved, EvalRecords, Queue!TypeOK
  <2> QED
    BY <2>1, HeldOnce DEF QueueInv
<1> QED
  BY <1>1, <1>2, <1>3, PTL DEF Queue!Spec

-----------------------------------------------------------------------------
(* The registry that releases are made of (Registry), for any versions,    *)
(* editions and concurrent requests.  What a request has read may be stale *)
(* when it writes; what it read of frozen versions is not, and that is all *)
(* its pins and digests need.                                              *)
CONSTANTS Versions, FamilyOf, Editions, Requests, MaxStage, Candidates
VARIABLES stored, imports, releases, request

Registry == INSTANCE Registry WITH version <- stored

PinSets == UNION {[D -> Registry!Manifests] : D \in SUBSET Versions}

Rows == [manifest : Registry!Manifests, pins : PinSets,
         lifecycle : {"experimental", "candidate", "evaluated", "certified", "deprecated"}]

Absent == Registry!NoVersion

(* Pins whose digest is not experimental are those of their targets.       *)
PinsHold(vs, p) ==
  /\ p \in PinSets
  /\ \A d \in DOMAIN p : /\ vs[d] # Absent
                         /\ p[d].lifecycle = "candidate" => vs[d].manifest = p[d]

(* A release holds frozen versions, by their digests, with what they need. *)
ReleaseHolds(vs, rel) ==
  \A v \in DOMAIN rel : /\ v \in Versions /\ vs[v] # Absent /\ vs[v].lifecycle # "experimental"
                        /\ rel[v] = vs[v].manifest /\ rel[v].deps \subseteq DOMAIN rel

(* A row froze with its manifest, and has the pins its manifest declares.  *)
RowHolds(vs, v) ==
  vs[v] # Absent => /\ vs[v].lifecycle = "experimental" <=> vs[v].manifest.lifecycle = "experimental"
                    /\ vs[v].manifest.deps \subseteq DOMAIN vs[v].pins
                    /\ PinsHold(vs, vs[v].pins)

TableHolds(vs) == vs \in [Versions -> {Absent} \cup Rows] /\ \A v \in Versions : RowHolds(vs, v)

(* What a request has read.                                                *)
RequestHolds(vs, q) ==
  /\ q.op = "import" => /\ q.version \in Versions /\ q.manifest \in Registry!Manifests
                        /\ DOMAIN q.pins = q.manifest.deps /\ PinsHold(vs, q.pins)
                        /\ q.seen \in {"new", "same", "changed"}
                        /\ q.seen # "new" => vs[q.version] # Absent
  /\ q.op = "release" => ReleaseHolds(vs, q.digests)

ImportsHold(vs) == \A i \in imports : i.version \in Versions /\ vs[i.version] # Absent
                                      /\ i.digest \in Registry!Manifests

RegistryInv ==
  /\ TableHolds(stored)
  /\ request = [r \in Requests |-> request[r]]
  /\ \A r \in Requests : RequestHolds(stored, request[r])
  /\ \A rel \in releases : ReleaseHolds(stored, rel)
  /\ ImportsHold(stored)

(* A step keeps versions, and of the frozen ones everything but the stage. *)
Kept(vs, ws) ==
  \A v \in Versions : vs[v] # Absent =>
    /\ ws[v] # Absent
    /\ vs[v].lifecycle # "experimental" =>
         /\ ws[v].lifecycle # "experimental" /\ ws[v].manifest = vs[v].manifest
         /\ \A d \in DOMAIN vs[v].pins : d \in DOMAIN ws[v].pins /\ ws[v].pins[d] = vs[v].pins[d]

LEMMA RowIsThere == ASSUME NEW row \in Rows PROVE row # Absent
BY DEF Rows, Absent, Registry!NoVersion

LEMMA PinsStay ==
  ASSUME NEW vs, TableHolds(vs), NEW ws, Kept(vs, ws), NEW p, PinsHold(vs, p)
  PROVE  PinsHold(ws, p)
<1>1. ASSUME NEW d \in DOMAIN p
      PROVE  ws[d] # Absent /\ (p[d].lifecycle = "candidate" => ws[d].manifest = p[d])
  <2>1. d \in Versions /\ vs[d] # Absent
    BY <1>1 DEF PinsHold, PinSets
  <2>2. ASSUME p[d].lifecycle = "candidate" PROVE ws[d].manifest = p[d]
    <3>1. vs[d].manifest = p[d]
      BY <1>1, <2>2 DEF PinsHold
    <3>2. vs[d].lifecycle # "experimental"
      BY <2>1, <2>2, <3>1 DEF TableHolds, RowHolds
    <3> QED
      BY <2>1, <3>1, <3>2 DEF Kept
  <2> QED
    BY <2>1, <2>2 DEF Kept
<1> QED
  BY <1>1 DEF PinsHold

LEMMA ReleasesStay ==
  ASSUME NEW vs, NEW ws, Kept(vs, ws), NEW rel, ReleaseHolds(vs, rel)
  PROVE  ReleaseHolds(ws, rel)
BY DEF ReleaseHolds, Kept

LEMMA RequestsStay ==
  ASSUME NEW vs, TableHolds(vs), NEW ws, Kept(vs, ws), NEW q, RequestHolds(vs, q)
  PROVE  RequestHolds(ws, q)
<1>1. ASSUME q.op = "import"
      PROVE  PinsHold(ws, q.pins) /\ (vs[q.version] # Absent => ws[q.version] # Absent)
  <2>1. PinsHold(vs, q.pins) /\ q.version \in Versions
    BY <1>1 DEF RequestHolds
  <2> QED
    BY <2>1, PinsStay DEF Kept
<1>2. ASSUME q.op = "release"
      PROVE  ReleaseHolds(ws, q.digests)
  BY <1>2, ReleasesStay DEF RequestHolds
<1> QED
  BY <1>1, <1>2 DEF RequestHolds

(* One row changes: the table holds if the row does and the rest is kept.  *)
LEMMA RowChanges ==
  ASSUME NEW vs, TableHolds(vs), NEW v \in Versions, NEW row \in Rows,
         NEW ws, ws = [vs EXCEPT ![v] = row], Kept(vs, ws),
         row.lifecycle = "experimental" <=> row.manifest.lifecycle = "experimental",
         row.manifest.deps \subseteq DOMAIN row.pins, PinsHold(ws, row.pins)
  PROVE  TableHolds(ws)
<1>1. ws \in [Versions -> {Absent} \cup Rows]
  BY DEF TableHolds
<1>2. ASSUME NEW u \in Versions PROVE RowHolds(ws, u)
  <2>1. CASE u = v
    <3>1. ws[u] = row
      BY <2>1 DEF TableHolds
    <3> QED
      BY <3>1 DEF RowHolds
  <2>2. CASE u # v
    <3>1. ws[u] = vs[u] /\ RowHolds(vs, u)
      BY <2>2 DEF TableHolds
    <3>2. ASSUME vs[u] # Absent PROVE PinsHold(ws, vs[u].pins)
      <4>1. PinsHold(vs, vs[u].pins)
        BY <3>1, <3>2 DEF RowHolds
      <4> QED
        BY <4>1, PinsStay
    <3> QED
      BY <3>1, <3>2 DEF RowHolds
  <2> QED
    BY <2>1, <2>2
<1> QED
  BY <1>1, <1>2 DEF TableHolds

LEMMA RegistryStarts ==
  ASSUME Registry!Init
  PROVE  RegistryInv
<1>1. TableHolds(stored)
  BY DEF Registry!Init, TableHolds, RowHolds, Absent
<1>2. request = [r \in Requests |-> request[r]] /\ \A r \in Requests : RequestHolds(stored, request[r])
  BY DEF Registry!Init, Registry!Idle, RequestHolds
<1>3. ImportsHold(stored) /\ releases = {}
  BY DEF Registry!Init, ImportsHold
<1> QED
  BY <1>1, <1>2, <1>3 DEF RegistryInv

(* If the rows are kept, so is what was read of them and what holds them.  *)
LEMMA OnlyTableMoves ==
  ASSUME RegistryInv, Kept(stored, stored')
  PROVE  /\ \A r \in Requests : RequestHolds(stored', request[r])
         /\ \A rel \in releases : ReleaseHolds(stored', rel)
         /\ \A i \in imports : i.version \in Versions /\ stored'[i.version] # Absent
                               /\ i.digest \in Registry!Manifests
<1>1. TableHolds(stored)
  BY DEF RegistryInv
<1>2. \A r \in Requests : RequestHolds(stored', request[r])
  <2> TAKE r \in Requests
  <2>1. RequestHolds(stored, request[r])
    BY DEF RegistryInv
  <2> QED
    BY <1>1, <2>1, RequestsStay
<1>3. \A rel \in releases : ReleaseHolds(stored', rel)
  BY ReleasesStay DEF RegistryInv
<1>4. \A i \in imports : i.version \in Versions /\ stored'[i.version] # Absent /\ i.digest \in Registry!Manifests
  BY DEF RegistryInv, ImportsHold, Kept
<1> QED
  BY <1>2, <1>3, <1>4

LEMMA NothingIsKept == ASSUME NEW vs PROVE Kept(vs, vs)
BY DEF Kept

(* Reading pins and digests of the present rows.                           *)
LEMMA ImportReads ==
  ASSUME RegistryInv, NEW r \in Requests, NEW v \in Versions, NEW m \in Registry!Manifests, NEW c,
         Registry!ReadImport(r, v, m, c)
  PROVE  RegistryInv' /\ stored' = stored
<1> DEFINE q == [op |-> "import", version |-> v, manifest |-> m, candidate |-> c,
                 seen |-> IF stored[v] = Registry!NoVersion THEN "new"
                          ELSE IF stored[v].manifest = m THEN "same" ELSE "changed",
                 pins |-> [d \in m.deps |-> stored[d].manifest]]
<1>1. request' = [request EXCEPT ![r] = q] /\ m.deps \subseteq Registry!Stored
      /\ UNCHANGED <<stored, imports, releases>>
  BY DEF Registry!ReadImport
<1>2. PinsHold(stored, q.pins)
  <2>1. \A d \in m.deps : d \in Versions /\ stored[d] # Absent /\ stored[d] \in Rows
    BY <1>1 DEF Registry!Stored, Absent, RegistryInv, TableHolds
  <2>2. \A d \in m.deps : stored[d].manifest \in Registry!Manifests
    BY <2>1 DEF Rows
  <2>3. q.pins \in [m.deps -> Registry!Manifests] /\ m.deps \in SUBSET Versions
    BY <2>1, <2>2
  <2>4. q.pins \in PinSets
    BY <2>3 DEF PinSets
  <2> QED
    BY <2>1, <2>4 DEF PinsHold
<1>3. RequestHolds(stored, q)
  BY <1>2 DEF RequestHolds, Absent
<1> HIDE DEF q
<1>4. request' = [s \in Requests |-> request'[s]] /\ \A s \in Requests : RequestHolds(stored, request'[s])
  BY <1>1, <1>3 DEF RegistryInv
<1> QED
  BY <1>1, <1>4 DEF RegistryInv, ImportsHold

LEMMA ReleaseReads ==
  ASSUME RegistryInv, NEW r \in Requests, NEW set \in SUBSET Versions, Registry!ReadRelease(r, set)
  PROVE  RegistryInv' /\ stored' = stored
<1> DEFINE q == [op |-> "release", digests |-> [v \in set |-> stored[v].manifest]]
<1>1. request' = [request EXCEPT ![r] = q] /\ UNCHANGED <<stored, imports, releases>>
  BY DEF Registry!ReadRelease
<1>2. ReleaseHolds(stored, [v \in set |-> stored[v].manifest])
  <2>1. \A v \in set : v \in Versions /\ stored[v] # Absent /\ stored[v].lifecycle # "experimental"
    BY DEF Registry!ReadRelease, Registry!Stored, Registry!Releasable, Absent
  <2>2. \A v \in set : stored[v].manifest.deps \subseteq set
    BY DEF Registry!ReadRelease, Registry!Closed
  <2> QED
    BY <2>1, <2>2 DEF ReleaseHolds
<1>3. RequestHolds(stored, q)
  BY <1>2 DEF RequestHolds
<1> HIDE DEF q
<1>4. request' = [s \in Requests |-> request'[s]] /\ \A s \in Requests : RequestHolds(stored, request'[s])
  BY <1>1, <1>3 DEF RegistryInv
<1> QED
  BY <1>1, <1>4 DEF RegistryInv, ImportsHold

LEMMA ReleaseWrites ==
  ASSUME RegistryInv, NEW r \in Requests, Registry!WriteRelease(r)
  PROVE  RegistryInv' /\ stored' = stored
<1>1. ReleaseHolds(stored, request[r].digests)
  BY DEF RegistryInv, RequestHolds, Registry!WriteRelease
<1>2. /\ request' = [request EXCEPT ![r] = Registry!Idle]
      /\ releases' = releases \cup {request[r].digests} /\ UNCHANGED <<stored, imports>>
  BY DEF Registry!WriteRelease
<1>3. RequestHolds(stored, Registry!Idle)
  BY DEF RequestHolds, Registry!Idle
<1>4. request' = [s \in Requests |-> request'[s]] /\ \A s \in Requests : RequestHolds(stored, request'[s])
  BY <1>2, <1>3 DEF RegistryInv
<1>5. \A rel \in releases' : ReleaseHolds(stored, rel)
  BY <1>1, <1>2 DEF RegistryInv
<1> QED
  BY <1>2, <1>4, <1>5 DEF RegistryInv, ImportsHold

LEMMA StageAdvances ==
  ASSUME Registry!StageAssumption, RegistryInv, NEW v \in Versions, Registry!Advance(v)
  PROVE  RegistryInv' /\ Kept(stored, stored')
<1>1. stored[v] # Absent /\ stored[v].lifecycle # "experimental" /\ TableHolds(stored)
  BY DEF Registry!Advance, Registry!Stored, Registry!Frozen, Absent, RegistryInv
<1>2. PICK n \in 2 .. (MaxStage - 1) : stored' = [stored EXCEPT ![v].lifecycle = Registry!Lifecycles[n + 1]]
  BY DEF Registry!Advance
<1> DEFINE row == [stored[v] EXCEPT !.lifecycle = Registry!Lifecycles[n + 1]]
<1>3. Registry!Lifecycles[n + 1] \in {"evaluated", "certified", "deprecated"}
  <2>1. n \in {2, 3, 4}
    BY <1>2 DEF Registry!StageAssumption
  <2> QED
    BY <2>1 DEF Registry!Lifecycles
<1>4. stored[v] \in Rows
  BY <1>1 DEF TableHolds
<1>5. /\ row \in Rows /\ row.manifest = stored[v].manifest /\ row.pins = stored[v].pins
      /\ row.lifecycle # "experimental"
  BY <1>3, <1>4 DEF Rows
<1>6. stored' = [stored EXCEPT ![v] = row]
  BY <1>2
<1> HIDE DEF row
<1>7. Kept(stored, stored')
  <2>1. row # Absent
    BY <1>5, RowIsThere
  <2> QED
    BY <1>1, <1>5, <1>6, <2>1 DEF Kept, TableHolds
<1>8. TableHolds(stored')
  <2>1. RowHolds(stored, v)
    BY <1>1 DEF TableHolds
  <2>2. PinsHold(stored', row.pins)
    BY <1>1, <1>5, <1>7, <2>1, PinsStay DEF RowHolds
  <2> QED
    BY <1>1, <1>5, <1>6, <1>7, <2>1, <2>2, RowChanges DEF RowHolds
<1>9. UNCHANGED <<imports, releases, request>>
  BY DEF Registry!Advance
<1> QED
  BY <1>7, <1>8, <1>9, OnlyTableMoves DEF RegistryInv, ImportsHold

(* Pins stay typed when missing ones are added.                            *)
LEMMA MergedPins ==
  ASSUME NEW a \in PinSets, NEW b \in PinSets, NEW p, p = Registry!WithMissing(a, b)
  PROVE  /\ p \in PinSets /\ DOMAIN p = DOMAIN a \cup DOMAIN b
         /\ \A d \in DOMAIN a : p[d] = a[d]
         /\ \A d \in DOMAIN b \ DOMAIN a : p[d] = b[d]
<1>1. PICK D \in SUBSET Versions : a \in [D -> Registry!Manifests]
  BY DEF PinSets
<1>2. PICK E \in SUBSET Versions : b \in [E -> Registry!Manifests]
  BY DEF PinSets
<1>3. p = [d \in D \cup E |-> IF d \in D THEN a[d] ELSE b[d]]
  BY <1>1, <1>2 DEF Registry!WithMissing
<1>4. p \in [D \cup E -> Registry!Manifests]
  BY <1>1, <1>2, <1>3
<1>5. p \in PinSets
  BY <1>4 DEF PinSets
<1> QED
  BY <1>1, <1>2, <1>3, <1>5

(* An import that is not refused writes a row of which nothing frozen is   *)
(* lost: the unique key and the trigger stop the others.                   *)
LEMMA ImportRow ==
  ASSUME RegistryInv, NEW r \in Requests, Registry!WriteImport(r), ~(UNCHANGED <<stored, imports>>)
  PROVE  \E row \in Rows : /\ stored' = [stored EXCEPT ![request[r].version] = row]
                           /\ row.lifecycle = "experimental" <=> row.manifest.lifecycle = "experimental"
                           /\ row.manifest.deps \subseteq DOMAIN row.pins
                           /\ PinsHold(stored, row.pins)
                           /\ Kept(stored, stored')
<1> DEFINE q == request[r]
           v == request[r].version
<1>1. /\ v \in Versions /\ q.manifest \in Registry!Manifests /\ DOMAIN q.pins = q.manifest.deps
      /\ PinsHold(stored, q.pins) /\ q.seen \in {"new", "same", "changed"}
      /\ q.seen # "new" => stored[v] # Absent
  BY DEF RegistryInv, RequestHolds, Registry!WriteImport
<1>2. /\ q.seen = "new" => stored[v] = Absent
      /\ q.seen = "changed" => stored[v].lifecycle = "experimental"
  BY DEF Registry!WriteImport, Registry!Refused, Registry!Frozen, Absent
<1>3. stored' = IF q.seen = "same" THEN [stored EXCEPT ![v].pins = Registry!WithMissing(@, q.pins)]
                ELSE [stored EXCEPT ![v] = [manifest |-> q.manifest, lifecycle |-> q.manifest.lifecycle, pins |-> q.pins]]
  BY DEF Registry!WriteImport
<1>4. TableHolds(stored) /\ q.pins \in PinSets
  BY <1>1 DEF RegistryInv, PinsHold
<1>5. CASE q.seen = "same"
  <2> DEFINE old == stored[v].pins
             pins == Registry!WithMissing(old, q.pins)
             row == [stored[v] EXCEPT !.pins = pins]
  <2>1. stored[v] \in Rows /\ RowHolds(stored, v) /\ stored[v] # Absent
    BY <1>1, <1>4, <1>5 DEF TableHolds
  <2>2. PinsHold(stored, old) /\ old \in PinSets
    BY <2>1 DEF RowHolds, PinsHold
  <2>3. pins = Registry!WithMissing(old, q.pins)
    OBVIOUS
  <2> HIDE DEF pins, old
  <2>4. /\ DOMAIN pins = DOMAIN old \cup DOMAIN q.pins
        /\ \A d \in DOMAIN old : pins[d] = old[d]
        /\ \A d \in DOMAIN q.pins \ DOMAIN old : pins[d] = q.pins[d]
    BY <1>4, <2>2, <2>3, MergedPins
  <2>5. pins \in PinSets
    BY <1>4, <2>2, <2>3, MergedPins
  <2>6. PinsHold(stored, pins)
    <3>1. ASSUME NEW d \in DOMAIN pins
          PROVE  stored[d] # Absent /\ (pins[d].lifecycle = "candidate" => stored[d].manifest = pins[d])
      <4>1. CASE d \in DOMAIN old
        <5>1. pins[d] = old[d]
          BY <2>4, <4>1
        <5> QED
          BY <2>2, <4>1, <5>1 DEF PinsHold
      <4>2. CASE d \notin DOMAIN old
        <5>1. pins[d] = q.pins[d] /\ d \in DOMAIN q.pins
          BY <2>4, <3>1, <4>2
        <5> QED
          BY <1>1, <5>1 DEF PinsHold
      <4> QED
        BY <4>1, <4>2
    <3> QED
      BY <2>5, <3>1 DEF PinsHold
  <2>7. /\ row \in Rows /\ row.manifest = stored[v].manifest /\ row.pins = pins
        /\ row.lifecycle = stored[v].lifecycle
    BY <2>1, <2>5 DEF Rows
  <2>8. stored' = [stored EXCEPT ![v] = row]
    BY <1>3, <1>5 DEF pins, old
  <2> HIDE DEF row
  <2>9. Kept(stored, stored')
    <3>1. row # Absent
      BY <2>7, RowIsThere
    <3>2. \A d \in DOMAIN stored[v].pins : d \in DOMAIN row.pins /\ row.pins[d] = stored[v].pins[d]
      BY <2>4, <2>7 DEF old
    <3> QED
      BY <1>1, <1>4, <2>7, <2>8, <3>1, <3>2 DEF Kept, TableHolds
  <2>10. row.manifest.deps \subseteq DOMAIN row.pins
    BY <2>1, <2>4, <2>7 DEF RowHolds, old
  <2>11. row.lifecycle = "experimental" <=> row.manifest.lifecycle = "experimental"
    BY <2>1, <2>7 DEF RowHolds
  <2> QED
    BY <2>6, <2>7, <2>8, <2>9, <2>10, <2>11
<1>6. CASE q.seen # "same"
  <2> DEFINE row == [manifest |-> q.manifest, lifecycle |-> q.manifest.lifecycle, pins |-> q.pins]
  <2>1. q.manifest.lifecycle \in {"experimental", "candidate"}
    BY <1>1 DEF Registry!Manifests
  <2>2. row \in Rows
    BY <1>1, <1>4, <2>1 DEF Rows
  <2>3. stored' = [stored EXCEPT ![v] = row]
    BY <1>3, <1>6
  <2>4. row.manifest = q.manifest /\ row.lifecycle = q.manifest.lifecycle /\ row.pins = q.pins
    OBVIOUS
  <2> HIDE DEF row
  <2>5. Kept(stored, stored')
    <3>1. row # Absent
      BY <2>2, RowIsThere
    <3>2. stored[v] # Absent => stored[v].lifecycle = "experimental"
      BY <1>1, <1>2, <1>6
    <3> QED
      BY <1>1, <1>4, <2>3, <3>1, <3>2 DEF Kept, TableHolds
  <2> QED
    BY <1>1, <2>2, <2>3, <2>4, <2>5
<1> QED
  BY <1>5, <1>6

LEMMA ImportWrites ==
  ASSUME RegistryInv, NEW r \in Requests, Registry!WriteImport(r)
  PROVE  RegistryInv' /\ Kept(stored, stored') /\ Registry!LineageIsImmutable
<1> DEFINE q == request[r]
           entry == [version |-> q.version, digest |-> q.manifest, candidate |-> q.candidate]
<1>1. request' = [request EXCEPT ![r] = Registry!Idle] /\ UNCHANGED releases
  BY DEF Registry!WriteImport
<1>2. CASE UNCHANGED <<stored, imports>>
  <2>1. Registry!LineageIsImmutable
    BY <1>2 DEF Registry!LineageIsImmutable
  <2>2. RequestHolds(stored, Registry!Idle)
    BY DEF RequestHolds, Registry!Idle
  <2>3. request' = [s \in Requests |-> request'[s]] /\ \A s \in Requests : RequestHolds(stored', request'[s])
    BY <1>1, <1>2, <2>2 DEF RegistryInv
  <2>4. Kept(stored, stored')
    BY <1>2, NothingIsKept
  <2> QED
    BY <1>1, <1>2, <2>1, <2>3, <2>4 DEF RegistryInv, ImportsHold
<1>3. CASE ~(UNCHANGED <<stored, imports>>)
  <2>1. PICK row \in Rows : /\ stored' = [stored EXCEPT ![q.version] = row]
                            /\ row.lifecycle = "experimental" <=> row.manifest.lifecycle = "experimental"
                            /\ row.manifest.deps \subseteq DOMAIN row.pins
                            /\ PinsHold(stored, row.pins)
                            /\ Kept(stored, stored')
    BY <1>3, ImportRow
  <2>2. q.version \in Versions /\ q.manifest \in Registry!Manifests /\ TableHolds(stored)
    BY DEF RegistryInv, RequestHolds, Registry!WriteImport
  <2>3. TableHolds(stored')
    <3>1. PinsHold(stored', row.pins)
      BY <2>1, <2>2, PinsStay
    <3> QED
      BY <2>1, <2>2, <3>1, RowChanges
  <2>4. /\ ~Registry!Bound(q)
        /\ imports' = IF q.candidate = None /\ Registry!ImportsOf(q) # {} THEN imports
                      ELSE (imports \ Registry!ImportsOf(q)) \cup {entry}
    BY <1>3 DEF Registry!WriteImport
  <2>5. ImportsHold(stored)'
    <3>1. stored'[q.version] # Absent
      BY <2>1, <2>2, RowIsThere DEF TableHolds
    <3>2. \A i \in imports : i.version \in Versions /\ stored'[i.version] # Absent /\ i.digest \in Registry!Manifests
      BY <2>1, OnlyTableMoves
    <3>3. \A i \in imports' : i.version \in Versions /\ stored'[i.version] # Absent /\ i.digest \in Registry!Manifests
      BY <2>2, <2>4, <3>1, <3>2
    <3> QED
      BY <3>3 DEF ImportsHold
  <2>6. Registry!LineageIsImmutable
    <3>1. ASSUME NEW i \in imports, i \notin imports'
          PROVE  /\ entry \in imports' /\ entry.version = i.version /\ entry.digest = i.digest
                 /\ i.candidate # None => entry.candidate = i.candidate
      <4>1. i \in Registry!ImportsOf(q) /\ q.candidate # None
        BY <2>4, <3>1
      <4>2. i.candidate # None => i.candidate = q.candidate
        BY <2>4, <4>1 DEF Registry!Bound
      <4> QED
        BY <2>4, <4>1, <4>2 DEF Registry!ImportsOf
    <3> HIDE DEF entry
    <3> QED
      BY <3>1 DEF Registry!LineageIsImmutable
  <2>7. request' = [s \in Requests |-> request'[s]] /\ \A s \in Requests : RequestHolds(stored', request'[s])
    <3>1. RequestHolds(stored', Registry!Idle)
      BY DEF RequestHolds, Registry!Idle
    <3> QED
      BY <1>1, <2>1, <3>1, OnlyTableMoves DEF RegistryInv
  <2>8. \A rel \in releases' : ReleaseHolds(stored', rel)
    BY <1>1, <2>1, OnlyTableMoves
  <2> QED
    BY <2>1, <2>3, <2>5, <2>6, <2>7, <2>8 DEF RegistryInv
<1> QED
  BY <1>2, <1>3

LEMMA RegistrySteps ==
  ASSUME Registry!StageAssumption, RegistryInv, [Registry!Next]_(Registry!vars)
  PROVE  RegistryInv' /\ Kept(stored, stored') /\ Registry!LineageIsImmutable
<1>1. ASSUME NEW r \in Requests, Registry!WriteImport(r)
      PROVE  RegistryInv' /\ Kept(stored, stored') /\ Registry!LineageIsImmutable
  BY <1>1, ImportWrites
<1>2. ASSUME \/ \E r \in Requests :
                  \/ \E v \in Versions, m \in Registry!Manifests, c \in Candidates \cup {None} :
                       Registry!ReadImport(r, v, m, c)
                  \/ Registry!WriteRelease(r)
                  \/ \E set \in SUBSET Versions : Registry!ReadRelease(r, set)
             \/ \E v \in Versions : Registry!Advance(v)
      PROVE  RegistryInv' /\ Kept(stored, stored') /\ Registry!LineageIsImmutable
  <2>1. imports' = imports
    BY <1>2 DEF Registry!ReadImport, Registry!WriteRelease, Registry!ReadRelease, Registry!Advance
  <2>2. Registry!LineageIsImmutable
    BY <2>1 DEF Registry!LineageIsImmutable
  <2>3. RegistryInv' /\ Kept(stored, stored')
    BY <1>2, ImportReads, ReleaseReads, ReleaseWrites, StageAdvances, NothingIsKept
  <2> QED
    BY <2>2, <2>3
<1>3. CASE UNCHANGED Registry!vars
  <2>1. UNCHANGED <<stored, imports, releases, request>>
    BY <1>3 DEF Registry!vars
  <2>2. RegistryInv'
    BY <2>1 DEF RegistryInv, ImportsHold
  <2> QED
    BY <2>1, <2>2, NothingIsKept DEF Registry!LineageIsImmutable
<1> QED
  BY <1>1, <1>2, <1>3 DEF Registry!Next

(* What the invariant says of the present, and what is kept of a step.     *)
LEMMA RegistryMeans ==
  ASSUME RegistryInv
  PROVE  Registry!TypeOK /\ Registry!ReleaseIsExact /\ Registry!StalePinWasExperimental
<1>1. ASSUME NEW v \in Registry!Stored
      PROVE  /\ stored[v].manifest \in Registry!Manifests /\ stored[v].manifest.deps \subseteq DOMAIN stored[v].pins
             /\ PinsHold(stored, stored[v].pins)
  <2>1. v \in Versions /\ stored[v] # Absent /\ stored[v] \in Rows /\ RowHolds(stored, v)
    BY DEF RegistryInv, TableHolds, Registry!Stored, Absent
  <2> QED
    BY <2>1 DEF Rows, RowHolds
<1>2. Registry!TypeOK
  BY <1>1 DEF Registry!TypeOK, RegistryInv, ImportsHold, Registry!Stored, Absent
<1>3. Registry!ReleaseIsExact
  BY DEF Registry!ReleaseIsExact, RegistryInv, ReleaseHolds
<1>4. Registry!StalePinWasExperimental
  <2> SUFFICES ASSUME NEW v \in Registry!Stored, NEW d \in Registry!Mismatched(v)
               PROVE  stored[v].pins[d].lifecycle = "experimental"
    BY DEF Registry!StalePinWasExperimental
  <2>1. d \in DOMAIN stored[v].pins /\ stored[v].pins[d] # stored[d].manifest
    BY <1>1 DEF Registry!Mismatched
  <2>2. stored[v].pins[d].lifecycle # "candidate" /\ stored[v].pins[d] \in Registry!Manifests
    BY <1>1, <2>1 DEF PinsHold, PinSets
  <2> QED
    BY <2>2 DEF Registry!Manifests
<1> QED
  BY <1>2, <1>3, <1>4

LEMMA KeptIsFrozen ==
  ASSUME Kept(stored, stored')
  PROVE  Registry!FrozenIsImmutable
BY DEF Kept, Registry!FrozenIsImmutable, Registry!Stored, Registry!Frozen, Absent

(* Frozen versions keep their manifest and pins, the lineage of an import  *)
(* stays, releases name the digests of what is stored and everything it    *)
(* needs, and only pins of experimental versions go stale, however imports *)
(* and releases overlap (importResource, createRelease, the trigger        *)
(* "Frozen resource definition is immutable").                             *)
THEOREM RegistryIsImmutable ==
  Registry!StageAssumption =>
    (Registry!Spec => /\ [](Registry!TypeOK /\ Registry!ReleaseIsExact /\ Registry!StalePinWasExperimental)
                      /\ [][Registry!FrozenIsImmutable /\ Registry!LineageIsImmutable]_(Registry!vars))
<1> SUFFICES ASSUME Registry!StageAssumption
             PROVE  Registry!Spec =>
                      /\ [](Registry!TypeOK /\ Registry!ReleaseIsExact /\ Registry!StalePinWasExperimental)
                      /\ [][Registry!FrozenIsImmutable /\ Registry!LineageIsImmutable]_(Registry!vars)
  OBVIOUS
<1>1. Registry!Init => RegistryInv
  BY RegistryStarts
<1>2. RegistryInv /\ [Registry!Next]_(Registry!vars)
        => RegistryInv' /\ [Registry!FrozenIsImmutable /\ Registry!LineageIsImmutable]_(Registry!vars)
  BY RegistrySteps, KeptIsFrozen
<1>3. RegistryInv => Registry!TypeOK /\ Registry!ReleaseIsExact /\ Registry!StalePinWasExperimental
  BY RegistryMeans
<1> QED
  BY <1>1, <1>2, <1>3, PTL DEF Registry!Spec

-----------------------------------------------------------------------------
(* One import at a time closes no cycle: what it checked still holds when  *)
(* it writes.                                                              *)

SoleImport ==
  \A r \in Requests : request[r].op = "import" =>
    Registry!AcyclicWith(request[r].version, request[r].manifest.deps)

CycleInv == Registry!NoCycle /\ SoleImport

(* A step that leaves the manifests alone leaves the graph alone.          *)
LEMMA GraphStays ==
  ASSUME \A v \in Versions : /\ stored'[v] = Absent <=> stored[v] = Absent
                             /\ stored[v] # Absent => stored'[v].manifest = stored[v].manifest
  PROVE  Registry!Graph' = Registry!Graph /\ Registry!Stored' = Registry!Stored
<1>1. Registry!Stored' = Registry!Stored
  BY DEF Registry!Stored, Absent
<1>2. \A v \in Registry!Stored : stored'[v].manifest.deps = stored[v].manifest.deps
  BY DEF Registry!Stored, Absent
<1> QED
  BY <1>1, <1>2 DEF Registry!Graph

LEMMA CycleKept ==
  ASSUME CycleInv, Registry!Graph' = Registry!Graph, Registry!Stored' = Registry!Stored,
         \A r \in Requests : request'[r].op = "import" =>
           \/ request'[r] = request[r]
           \/ Registry!AcyclicWith(request'[r].version, request'[r].manifest.deps)
  PROVE  CycleInv'
<1>1. Registry!NoCycle'
  BY DEF CycleInv, Registry!NoCycle
<1>2. ASSUME NEW r \in Requests, NEW q, q = request'[r], q.op = "import"
      PROVE  Registry!AcyclicWith(q.version, q.manifest.deps)'
  <2>1. Registry!AcyclicWith(q.version, q.manifest.deps)
    BY <1>2 DEF CycleInv, SoleImport
  <2> QED
    BY <2>1 DEF Registry!AcyclicWith
<1>3. SoleImport'
  BY <1>2 DEF SoleImport
<1> QED
  BY <1>1, <1>3 DEF CycleInv

LEMMA CycleSteps ==
  ASSUME Registry!StageAssumption, RegistryInv, CycleInv, \A r, s \in Requests : r = s,
         [Registry!Next]_(Registry!vars)
  PROVE  CycleInv'
<1>0. TableHolds(stored) /\ request = [r \in Requests |-> request[r]]
  BY DEF RegistryInv
<1>1. ASSUME UNCHANGED stored PROVE Registry!Graph' = Registry!Graph /\ Registry!Stored' = Registry!Stored
  BY <1>1, GraphStays
<1>2. ASSUME NEW r \in Requests, NEW v \in Versions, NEW m \in Registry!Manifests, NEW c,
             Registry!ReadImport(r, v, m, c)
      PROVE  CycleInv'
  <2>1. /\ Registry!AcyclicWith(v, m.deps) /\ UNCHANGED stored
        /\ request'[r].version = v /\ request'[r].manifest = m
    BY <1>0, <1>2 DEF Registry!ReadImport
  <2>2. \A s \in Requests : s = r
    OBVIOUS
  <2> QED
    BY <1>1, <2>1, <2>2, CycleKept
<1>3. ASSUME NEW r \in Requests,
             Registry!WriteRelease(r) \/ \E set \in SUBSET Versions : Registry!ReadRelease(r, set)
      PROVE  CycleInv'
  <2>1. request'[r].op # "import" /\ UNCHANGED stored
    BY <1>0, <1>3 DEF Registry!WriteRelease, Registry!ReadRelease, Registry!Idle
  <2> QED
    BY <1>1, <2>1, CycleKept
<1>4. ASSUME NEW v \in Versions, Registry!Advance(v) PROVE CycleInv'
  <2>1. stored[v] # Absent /\ stored[v] \in Rows /\ UNCHANGED request
    BY <1>0, <1>4 DEF Registry!Advance, Registry!Stored, Absent, TableHolds
  <2>2. PICK n \in 2 .. (MaxStage - 1) : stored' = [stored EXCEPT ![v].lifecycle = Registry!Lifecycles[n + 1]]
    BY <1>4 DEF Registry!Advance
  <2> DEFINE row == [stored[v] EXCEPT !.lifecycle = Registry!Lifecycles[n + 1]]
  <2>3. row.manifest = stored[v].manifest /\ "manifest" \in DOMAIN row
    BY <2>1 DEF Rows
  <2>4. row # Absent
    BY <2>3 DEF Absent, Registry!NoVersion
  <2>5. stored'[v] = row /\ \A u \in Versions : u # v => stored'[u] = stored[u]
    BY <1>0, <2>2 DEF TableHolds
  <2> HIDE DEF row
  <2>6. Registry!Graph' = Registry!Graph /\ Registry!Stored' = Registry!Stored
    BY <2>1, <2>3, <2>4, <2>5, GraphStays
  <2> QED
    BY <2>1, <2>6, CycleKept
<1>5. ASSUME NEW r \in Requests, Registry!WriteImport(r) PROVE CycleInv'
  <2> DEFINE q == request[r]
             v == request[r].version
  <2>1. /\ q.op = "import" /\ \A s \in Requests : request'[s] = Registry!Idle
        /\ Registry!AcyclicWith(v, q.manifest.deps)
        /\ v \in Versions /\ (q.seen # "new" => stored[v] # Absent)
    BY <1>0, <1>5 DEF Registry!WriteImport, CycleInv, SoleImport, RegistryInv, RequestHolds
  <2>2. \A s \in Requests : request'[s].op # "import"
    BY <2>1 DEF Registry!Idle
  <2>3. CASE UNCHANGED stored
    BY <1>1, <2>2, <2>3, CycleKept
  <2>4. CASE q.seen = "same" /\ ~UNCHANGED stored
    <3> DEFINE row == [stored[v] EXCEPT !.pins = Registry!WithMissing(@, q.pins)]
    <3>1. stored[v] \in Rows /\ stored[v] # Absent
      BY <1>0, <2>1, <2>4 DEF TableHolds
    <3>2. row.manifest = stored[v].manifest /\ "manifest" \in DOMAIN row
      BY <3>1 DEF Rows
    <3>3. row # Absent
      BY <3>2 DEF Absent, Registry!NoVersion
    <3>4. stored' = [stored EXCEPT ![v] = row]
      BY <1>5, <2>4 DEF Registry!WriteImport
    <3> HIDE DEF row
    <3>5. stored'[v] = row /\ \A u \in Versions : u # v => stored'[u] = stored[u]
      BY <1>0, <2>1, <3>4 DEF TableHolds
    <3>6. Registry!Graph' = Registry!Graph /\ Registry!Stored' = Registry!Stored
      BY <3>1, <3>2, <3>3, <3>5, GraphStays
    <3> QED
      BY <2>2, <3>6, CycleKept
  <2>5. CASE q.seen # "same" /\ ~UNCHANGED stored
    <3> DEFINE row == [manifest |-> q.manifest, lifecycle |-> q.manifest.lifecycle, pins |-> q.pins]
    <3>1. stored' = [stored EXCEPT ![v] = row]
      BY <1>5, <2>5 DEF Registry!WriteImport
    <3>2. row.manifest = q.manifest /\ "manifest" \in DOMAIN row
      OBVIOUS
    <3>3. row # Absent
      BY <3>2 DEF Absent, Registry!NoVersion
    <3> HIDE DEF row, q, v
    <3>4. stored'[v] = row /\ \A u \in Versions : u # v => stored'[u] = stored[u]
      BY <1>0, <2>1, <3>1 DEF TableHolds
    <3>5. Registry!Stored' = Registry!Stored \cup {v}
      BY <2>1, <3>3, <3>4 DEF Registry!Stored, Absent
    <3>6. Registry!Graph' = [Registry!Graph EXCEPT ![v] = q.manifest.deps]
      BY <2>1, <3>2, <3>4, <3>5 DEF Registry!Graph
    <3>7. Registry!NoCycle'
      BY <2>1, <3>5, <3>6 DEF Registry!NoCycle, Registry!AcyclicWith
    <3>8. SoleImport'
      BY <2>2 DEF SoleImport
    <3> QED
      BY <3>7, <3>8 DEF CycleInv
  <2> QED
    BY <2>3, <2>4, <2>5
<1>6. CASE UNCHANGED Registry!vars
  <2>1. UNCHANGED <<stored, request>>
    BY <1>6 DEF Registry!vars
  <2> QED
    BY <1>1, <2>1, CycleKept
<1> QED
  BY <1>2, <1>3, <1>4, <1>5, <1>6 DEF Registry!Next

(* Imports that no other one overtakes close no cycle of pins, however     *)
(* releases and lifecycles move between a check and its write              *)
(* (assertAcyclicExactPins, importResource).                               *)
THEOREM OneImporterClosesNoCycle ==
  Registry!StageAssumption /\ (\A r, s \in Requests : r = s) => (Registry!Spec => []Registry!NoCycle)
<1> SUFFICES ASSUME Registry!StageAssumption, \A r, s \in Requests : r = s
             PROVE  Registry!Spec => []Registry!NoCycle
  OBVIOUS
<1>1. Registry!Init => RegistryInv /\ CycleInv
  <2>1. Registry!Init => Registry!NoCycle /\ SoleImport
    BY DEF Registry!Init, Registry!NoCycle, Registry!Stored, SoleImport, Registry!Idle
  <2> QED
    BY <2>1, RegistryStarts DEF CycleInv
<1>2. RegistryInv /\ CycleInv /\ [Registry!Next]_(Registry!vars) => RegistryInv' /\ CycleInv'
  BY RegistrySteps, CycleSteps
<1>3. CycleInv => Registry!NoCycle
  BY DEF CycleInv
<1> QED
  BY <1>1, <1>2, <1>3, PTL DEF Registry!Spec

-----------------------------------------------------------------------------
(* The evaluator of a release (ReleaseContract).                           *)

CONSTANTS Held, Missing, Subject, MinRatio, MinSamples, MaxLatency, MaxPins, Samples
VARIABLES pins, held, pending, closure, phase, checks, values, verdict, certifies

Contract == INSTANCE ReleaseContract WITH Resources <- Held

(* A set of numbers that is not empty has a smallest one.                  *)
LEMMA SmallestOf ==
  ASSUME NEW T, T \subseteq Nat, T # {}
  PROVE  \E x \in T : \A y \in T : x <= y
<1>1. IsWellFoundedOn(OpToRel(<, Nat), Nat)
  BY NatLessThanWellFounded
<1>2. PICK x \in T : \A y \in T : ~(<<y, x>> \in OpToRel(<, Nat))
  BY <1>1, WFMin, Zenon
<1>3. \A y \in T : ~(y < x)
  BY <1>2 DEF OpToRel
<1> QED
  BY <1>3

(* Cardinality and finiteness mean the same in the instance.               *)
LEMMA SameSize ==
  ASSUME NEW S
  PROVE  Contract!Cardinality(S) = Cardinality(S) /\ (Contract!IsFiniteSet(S) <=> IsFiniteSet(S))
BY Zenon DEF Contract!Cardinality, Cardinality, Contract!IsFiniteSet, IsFiniteSet

(* The places of a history whose value is at most x.                       *)
UpToValue(vs, x) == {i \in DOMAIN vs : vs[i] <= x}

LEMMA PlacesAreFinite ==
  ASSUME NEW vs \in Seq(Nat), NEW S \in SUBSET (DOMAIN vs)
  PROVE  /\ IsFiniteSet(S) /\ Cardinality(S) \in Nat /\ Cardinality(S) <= Len(vs)
         /\ Cardinality(DOMAIN vs) = Len(vs)
<1>1. DOMAIN vs = 1..Len(vs) /\ Len(vs) \in Nat
  OBVIOUS
<1>2. IsFiniteSet(1..Len(vs)) /\ Cardinality(1..Len(vs)) = Len(vs)
  <2>1. IsFiniteSet(1..Len(vs)) /\ Cardinality(1..Len(vs)) = (IF 1 > Len(vs) THEN 0 ELSE Len(vs) - 1 + 1)
    BY <1>1, FS_Interval
  <2> QED
    BY <1>1, <2>1
<1> QED
  BY <1>1, <1>2, FS_Subset, FS_CardinalityType

(* The value that the fewest exceed is exceeded by none.                   *)
LEMMA LargestValue ==
  ASSUME NEW vs \in Seq(Nat), NEW S \in SUBSET (DOMAIN vs), S # {}
  PROVE  \E m \in S : \A i \in S : vs[i] <= vs[m]
<1> DEFINE Above(m) == {i \in S : vs[i] > vs[m]}
           Counts == {Cardinality(Above(m)) : m \in S}
<1>1. \A m \in S : Above(m) \in SUBSET (DOMAIN vs) /\ IsFiniteSet(Above(m)) /\ Cardinality(Above(m)) \in Nat
  BY PlacesAreFinite
<1>2. Counts \subseteq Nat /\ Counts # {}
  BY <1>1
<1>3. PICK c \in Counts : \A d \in Counts : c <= d
  BY <1>2, SmallestOf
<1>4. PICK m \in S : c = Cardinality(Above(m))
  BY <1>3
<1>5. ASSUME NEW i \in S, vs[i] > vs[m] PROVE FALSE
  <2>1. vs[i] \in Nat /\ vs[m] \in Nat /\ \A j \in S : vs[j] \in Nat
    OBVIOUS
  <2>2. Above(i) \subseteq Above(m) /\ i \in Above(m) /\ i \notin Above(i)
    BY <1>5, <2>1
  <2>3. Cardinality(Above(i)) < Cardinality(Above(m))
    <3>1. Above(i) # Above(m)
      BY <2>2
    <3> HIDE DEF Above
    <3>2. Cardinality(Above(i)) <= Cardinality(Above(m))
      BY <1>1, <2>2, FS_Subset
    <3>3. Cardinality(Above(i)) # Cardinality(Above(m))
      BY <1>1, <2>2, <3>1, FS_Subset
    <3> QED
      BY <1>1, <3>2, <3>3
  <2>4. Cardinality(Above(i)) \in Counts
    OBVIOUS
  <2> HIDE DEF Above, Counts
  <2> QED
    BY <1>1, <1>3, <1>4, <2>3, <2>4
<1>6. \A i \in S : vs[i] \in Nat /\ vs[m] \in Nat
  OBVIOUS
<1> QED
  BY <1>5, <1>6

(* The rank of the percentile is a place of the history, with 95 of 100    *)
(* values at most there.                                                   *)
LEMMA RankOf ==
  ASSUME NEW n \in Nat \ {0}
  PROVE  /\ Contract!Rank95(n) \in Nat /\ Contract!Rank95(n) < n
         /\ 100 * (Contract!Rank95(n) + 1) >= 95 * n
<1> DEFINE q == (95 * n + 99) \div 100
<1>1. q \in Nat /\ 100 * q <= 95 * n + 99 /\ 100 * q >= 95 * n
  OBVIOUS
<1>2. Contract!Rank95(n) = IF q - 1 < 0 THEN 0 ELSE q - 1
  BY DEF Contract!Rank95
<1> HIDE DEF q
<1>3. q >= 1 /\ q <= n
  BY <1>1
<1> QED
  BY <1>1, <1>2, <1>3

(* There is a percentile: the smallest value that enough values reach.     *)
LEMMA PercentileOf ==
  ASSUME NEW vs \in Seq(Nat), Len(vs) # 0
  PROVE  /\ Contract!Percentile95(vs) \in Nat
         /\ Cardinality(UpToValue(vs, Contract!Percentile95(vs))) > Contract!Rank95(Len(vs))
<1> DEFINE k == Contract!Rank95(Len(vs))
           Vals == {vs[i] : i \in DOMAIN vs}
           Enough == {v \in Vals : Cardinality(UpToValue(vs, v)) > k}
<1>1. Len(vs) \in Nat \ {0} /\ DOMAIN vs = 1..Len(vs) /\ Vals \subseteq Nat
  OBVIOUS
<1>2. k \in Nat /\ k < Len(vs)
  BY <1>1, RankOf
<1> HIDE DEF k
<1>3. Enough # {}
  <2>1. DOMAIN vs # {}
    BY <1>1
  <2>2. PICK m \in DOMAIN vs : \A i \in DOMAIN vs : vs[i] <= vs[m]
    BY <2>1, LargestValue
  <2>3. UpToValue(vs, vs[m]) = DOMAIN vs
    BY <2>2 DEF UpToValue
  <2>4. Cardinality(UpToValue(vs, vs[m])) = Len(vs)
    BY <2>3, PlacesAreFinite
  <2> QED
    BY <1>2, <2>2, <2>4
<1>4. PICK v \in Enough : \A w \in Enough : v <= w
  <2>1. Enough \subseteq Nat
    BY <1>1
  <2> QED
    BY <1>3, <2>1, SmallestOf
<1>5. Cardinality({i \in DOMAIN vs : vs[i] < v}) <= k
  <2> DEFINE B == {i \in DOMAIN vs : vs[i] < v}
  <2> SUFFICES ASSUME ~(Cardinality(B) <= k) PROVE FALSE
    OBVIOUS
  <2>1. B \in SUBSET (DOMAIN vs) /\ Cardinality(B) \in Nat
    BY PlacesAreFinite
  <2>2. B # {}
    <3>1. Cardinality({}) = 0
      BY FS_EmptySet
    <3> HIDE DEF B
    <3>2. B = {} => Cardinality(B) = 0
      BY <3>1
    <3> QED
      BY <1>2, <3>2
  <2>3. PICK m \in B : \A i \in B : vs[i] <= vs[m]
    BY <2>1, <2>2, LargestValue
  <2>4. UpToValue(vs, vs[m]) = B
    <3>1. m \in DOMAIN vs /\ vs[m] < v /\ v \in Nat /\ \A i \in DOMAIN vs : vs[i] \in Nat
      BY <1>1, <2>3
    <3>2. \A i \in DOMAIN vs : vs[i] <= vs[m] => vs[i] < v
      BY <3>1
    <3> QED
      BY <2>3, <3>2 DEF UpToValue
  <2>5. vs[m] \in Enough
    <3>1. vs[m] \in Vals
      BY <2>3
    <3>2. Cardinality(UpToValue(vs, vs[m])) > k
      <4> HIDE DEF B
      <4> QED
        BY <1>2, <2>1, <2>4
    <3> QED
      BY <3>1, <3>2
  <2>6. vs[m] < v /\ v \in Nat /\ vs[m] \in Nat
    BY <1>1, <2>3
  <2> QED
    BY <1>4, <2>5, <2>6
<1>6. \E x \in Vals : /\ Contract!Cardinality({i \in DOMAIN vs : vs[i] < x}) <= k
                      /\ Contract!Cardinality({i \in DOMAIN vs : vs[i] <= x}) > k
  <2>1. /\ Contract!Cardinality({i \in DOMAIN vs : vs[i] < v}) <= k
        /\ Contract!Cardinality({i \in DOMAIN vs : vs[i] <= v}) > k
    BY <1>4, <1>5, SameSize DEF UpToValue
  <2> QED
    BY <1>4, <2>1
<1>7. Contract!Percentile95(vs) =
        CHOOSE x \in Vals : /\ Contract!Cardinality({i \in DOMAIN vs : vs[i] < x}) <= k
                            /\ Contract!Cardinality({i \in DOMAIN vs : vs[i] <= x}) > k
  BY Zenon DEF Contract!Percentile95, k
<1> HIDE DEF Vals
<1>8. Contract!Percentile95(vs) \in Vals
      /\ Contract!Cardinality({i \in DOMAIN vs : vs[i] <= Contract!Percentile95(vs)}) > k
  BY <1>6, <1>7
<1>9. Cardinality(UpToValue(vs, Contract!Percentile95(vs))) > k
  BY <1>8, SameSize DEF UpToValue
<1> QED
  BY <1>1, <1>8, <1>9 DEF k

(* A history whose gate did not fail is fast enough in 95 of 100 samples.  *)
LEMMA GateIsFast ==
  ASSUME Contract!ContractAssumption, NEW vs \in Seq(Nat), Len(vs) >= MinSamples,
         Contract!HistoryGate(vs) # "failed"
  PROVE  100 * Cardinality(UpToValue(vs, MaxLatency)) >= 95 * Len(vs)
<1>1. Len(vs) \in Nat \ {0} /\ MaxLatency \in Nat
  BY DEF Contract!ContractAssumption
<1>2. Contract!Percentile95(vs) <= MaxLatency
  BY <1>1 DEF Contract!HistoryGate, Contract!ContractAssumption
<1> DEFINE P == UpToValue(vs, Contract!Percentile95(vs))
           M == UpToValue(vs, MaxLatency)
<1>3. P \subseteq M
  <2>1. Contract!Percentile95(vs) \in Nat /\ \A i \in DOMAIN vs : vs[i] \in Nat
    BY <1>1, PercentileOf
  <2> QED
    BY <1>1, <1>2, <2>1 DEF UpToValue
<1>4. P \in SUBSET (DOMAIN vs) /\ M \in SUBSET (DOMAIN vs)
  BY DEF UpToValue
<1> HIDE DEF P, M
<1>5. IsFiniteSet(M) /\ Cardinality(M) \in Nat /\ Cardinality(P) \in Nat
  BY <1>4, PlacesAreFinite
<1>6. Cardinality(P) <= Cardinality(M)
  BY <1>3, <1>5, FS_Subset
<1>7. Cardinality(P) > Contract!Rank95(Len(vs))
  BY <1>1, PercentileOf DEF P
<1>8. /\ Contract!Rank95(Len(vs)) \in Nat
      /\ 100 * (Contract!Rank95(Len(vs)) + 1) >= 95 * Len(vs)
  BY <1>1, RankOf
<1>9. 100 * Cardinality(M) >= 95 * Len(vs)
  BY <1>1, <1>5, <1>6, <1>7, <1>8
<1> QED
  BY <1>9 DEF M

-----------------------------------------------------------------------------
Queued == {pending[i] : i \in DOMAIN pending}
Known == Held \union {Missing}

ContractTyped ==
  /\ pins \in [Held -> Seq(Known)]
  /\ held \subseteq Held /\ closure \subseteq Held
  /\ pending \in Seq(Held)
  /\ phase \in {"closing", "complete", "incomplete", "done"}

(* What the search has met is pinned by the subject, and what it has left  *)
(* behind pins only what it has met; a search that was cut short certifies *)
(* nothing.                                                                *)
ContractInv ==
  /\ ContractTyped
  /\ \A S \in SUBSET Known : Contract!PinClosed(S) => closure \subseteq S
  /\ phase = "closing" =>
       /\ \A S \in SUBSET Known : Contract!PinClosed(S) => Queued \subseteq S
       /\ Subject \in closure \cup Queued /\ closure \cup Queued \subseteq held
       /\ \A r \in closure : Contract!Pinned(r) \subseteq closure \cup Queued
  /\ phase = "complete" => Contract!PinClosed(closure) /\ closure \subseteq held
  /\ phase # "done" => verdict = "none" /\ certifies = {}
  /\ verdict = "passed" =>
       /\ certifies = closure /\ Contract!PinClosed(closure) /\ closure \subseteq held
       /\ Contract!PassedIsMeasured
  /\ verdict # "passed" => certifies = {}

LEMMA ContractInit == Contract!ContractAssumption /\ Contract!Init => ContractInv
<1> SUFFICES ASSUME Contract!ContractAssumption, Contract!Init PROVE ContractInv
  OBVIOUS
<1>1. /\ held \subseteq Held /\ closure = {} /\ verdict = "none" /\ certifies = {}
      /\ pending = (IF Subject \in held THEN <<Subject>> ELSE <<>>)
      /\ phase = (IF Subject \in held THEN "closing" ELSE "incomplete")
  BY DEF Contract!Init
<1>2. pins \in [Held -> Seq(Known)]
  <2>1. IsFiniteSet(Known) /\ Cardinality(Known) \in Nat
    BY FS_AddElement, FS_CardinalityType, SameSize DEF Contract!ContractAssumption, Known
  <2>2. Contract!Orders(Known) \subseteq Seq(Known)
    <3> SUFFICES ASSUME NEW n \in 0..Cardinality(Known), NEW s \in [1..n -> Known] PROVE s \in Seq(Known)
      BY SameSize DEF Contract!Orders
    <3>1. n \in Nat
      BY <2>1
    <3> QED
      BY <3>1
  <2> QED
    BY <2>2 DEF Contract!Init, Known
<1>3. pending \in Seq(Held) /\ (phase = "closing" => Queued = {Subject})
  <2>1. <<Subject>> \in Seq(Held) /\ <<>> \in Seq(Held)
    BY DEF Contract!ContractAssumption
  <2>2. pending = <<Subject>> => Queued = {Subject}
    BY DEF Queued
  <2> QED
    BY <1>1, <2>1, <2>2
<1>4. ContractTyped
  BY <1>1, <1>2, <1>3 DEF ContractTyped
<1> QED
  BY <1>1, <1>3, <1>4 DEF ContractInv, Contract!PinClosed

LEMMA ContractNext ==
  ASSUME Contract!ContractAssumption, ContractInv, [Contract!Next]_(Contract!vars)
  PROVE  ContractInv'
<1>1. ContractTyped
  BY DEF ContractInv
<1>2. CASE Contract!Visit
  <2> DEFINE r == Head(pending)
  <2>1. /\ phase = "closing" /\ pending # <<>>
        /\ UNCHANGED <<pins, held, checks, values, verdict, certifies>>
        /\ IF r \in closure
           THEN pending' = Tail(pending) /\ UNCHANGED <<closure, phase>>
           ELSE /\ closure' = closure \union {r}
                /\ IF \A i \in DOMAIN pins[r] : pins[r][i] \in held
                   THEN pending' = Tail(pending) \o pins[r] /\ UNCHANGED phase
                   ELSE pending' = <<>> /\ phase' = "incomplete"
    BY <1>2 DEF Contract!Visit, Contract!Resolved
  <2>2. /\ \A S \in SUBSET Known : Contract!PinClosed(S) => closure \subseteq S /\ Queued \subseteq S
        /\ Subject \in closure \cup Queued /\ closure \cup Queued \subseteq held
        /\ \A s \in closure : Contract!Pinned(s) \subseteq closure \cup Queued
        /\ verdict = "none" /\ certifies = {}
    BY <2>1 DEF ContractInv
  <2>3. /\ pending \in Seq(Held) /\ r \in Held /\ Tail(pending) \in Seq(Held) /\ r \in Queued
        /\ Queued = {r} \cup {Tail(pending)[i] : i \in DOMAIN Tail(pending)}
    <3>1. pending \in Seq(Held) /\ Len(pending) \in Nat \ {0}
      BY <1>1, <2>1 DEF ContractTyped
    <3>2. /\ r \in Held /\ r = pending[1] /\ Tail(pending) \in Seq(Held)
          /\ Len(Tail(pending)) = Len(pending) - 1
          /\ \A i \in 1..(Len(pending) - 1) : Tail(pending)[i] = pending[i + 1]
      BY <3>1
    <3>3. \A i \in 1..Len(pending) : i = 1 \/ (i - 1 \in 1..(Len(pending) - 1) /\ i - 1 + 1 = i)
      BY <3>1
    <3>4. \A i \in 1..(Len(pending) - 1) : i + 1 \in 1..Len(pending)
      BY <3>1
    <3>5. DOMAIN Tail(pending) = 1..(Len(pending) - 1) /\ DOMAIN pending = 1..Len(pending)
      BY <3>1, <3>2
    <3>6. Queued \subseteq {r} \cup {Tail(pending)[i] : i \in DOMAIN Tail(pending)}
      <4> DEFINE u == Tail(pending)
      <4> SUFFICES ASSUME NEW i \in DOMAIN pending
                   PROVE  pending[i] = r \/ \E j \in DOMAIN u : pending[i] = u[j]
        BY DEF Queued
      <4>1. CASE i = 1
        BY <3>2, <4>1
      <4>2. CASE i - 1 \in 1..(Len(pending) - 1) /\ i - 1 + 1 = i
        <5>1. i - 1 \in DOMAIN u /\ u[i - 1] = pending[i]
          BY <3>2, <3>5, <4>2
        <5> HIDE DEF u
        <5> QED
          BY <5>1
      <4> QED
        BY <3>3, <3>5, <4>1, <4>2
    <3>7. 1 \in DOMAIN pending
      BY <3>1
    <3>8. {r} \cup {Tail(pending)[i] : i \in DOMAIN Tail(pending)} \subseteq Queued
      BY <3>2, <3>4, <3>5, <3>7 DEF Queued
    <3>9. Queued = {r} \cup {Tail(pending)[i] : i \in DOMAIN Tail(pending)}
      BY <3>6, <3>8, Zenon
    <3>10. r \in Queued
      BY <3>9, Zenon
    <3> QED
      BY <3>1, <3>2, <3>9, <3>10, Zenon
  <2>4. pins[r] \in Seq(Known) /\ Contract!Pinned(r) = {pins[r][i] : i \in DOMAIN pins[r]}
    BY <1>1, <2>3 DEF ContractTyped, Contract!Pinned
  <2>5. /\ \A S : Contract!PinClosed(S)' <=> Contract!PinClosed(S)
        /\ \A s : Contract!Pinned(s)' = Contract!Pinned(s)
    BY <2>1 DEF Contract!PinClosed, Contract!Pinned
  <2>6. closure' \subseteq Held /\ \A S \in SUBSET Known : Contract!PinClosed(S) => closure' \subseteq S
    BY <1>1, <2>1, <2>2, <2>3 DEF ContractTyped
  <2> DEFINE Rest == {Tail(pending)[i] : i \in DOMAIN Tail(pending)}
  <2>7. CASE r \in closure
    <3>1. Queued' = Rest /\ Queued = {r} \cup Rest
      BY <2>1, <2>3, <2>7 DEF Queued
    <3>2. closure' = closure /\ closure \cup Queued' = closure \cup Queued /\ Queued' \subseteq Queued
      BY <2>1, <2>7, <3>1
    <3>3. ContractTyped'
      BY <1>1, <2>1, <2>3, <2>7 DEF ContractTyped
    <3> QED
      BY <2>1, <2>2, <2>5, <2>6, <2>7, <3>2, <3>3 DEF ContractInv
  <2>8. CASE r \notin closure /\ \A i \in DOMAIN pins[r] : pins[r][i] \in held
    <3>1. closure' = closure \union {r} /\ pending' = Tail(pending) \o pins[r] /\ phase' = "closing"
      BY <2>1, <2>8
    <3>2. pins[r] \in Seq(Held)
      <4>1. \A i \in DOMAIN pins[r] : pins[r][i] \in Held
        BY <1>1, <2>8 DEF ContractTyped
      <4> QED
        BY <2>4, <4>1
    <3>3. pending' \in Seq(Held)
      BY <2>3, <3>1, <3>2
    <3>4. Queued' = Rest \cup Contract!Pinned(r)
      <4> DEFINE s == Tail(pending)
                 u == pins[r]
      <4>1. s \in Seq(Held) /\ u \in Seq(Held)
        BY <2>3, <3>2
      <4> HIDE DEF s, u
      <4>2. \A i \in DOMAIN (s \o u) : \/ i \in DOMAIN s /\ (s \o u)[i] = s[i]
                                       \/ i - Len(s) \in DOMAIN u /\ (s \o u)[i] = u[i - Len(s)]
        <5> SUFFICES ASSUME NEW i \in DOMAIN (s \o u)
                     PROVE  \/ i \in DOMAIN s /\ (s \o u)[i] = s[i]
                            \/ i - Len(s) \in DOMAIN u /\ (s \o u)[i] = u[i - Len(s)]
          OBVIOUS
        <5>1. /\ Len(s) \in Nat /\ Len(u) \in Nat
              /\ DOMAIN s = 1..Len(s) /\ DOMAIN u = 1..Len(u)
              /\ i \in 1..(Len(s) + Len(u))
          BY <4>1
        <5>2. CASE i <= Len(s)
          BY <4>1, <5>1, <5>2
        <5>3. CASE ~(i <= Len(s))
          BY <4>1, <5>1, <5>3
        <5> QED
          BY <5>2, <5>3
      <4>3. \A i \in DOMAIN s : i \in DOMAIN (s \o u) /\ (s \o u)[i] = s[i]
        BY <4>1
      <4>4. \A i \in DOMAIN u : i + Len(s) \in DOMAIN (s \o u) /\ (s \o u)[i + Len(s)] = u[i]
        BY <4>1
      <4>5. {(s \o u)[i] : i \in DOMAIN (s \o u)} = {s[i] : i \in DOMAIN s} \cup {u[i] : i \in DOMAIN u}
        <5>1. \A i \in DOMAIN (s \o u) : (s \o u)[i] \in {s[j] : j \in DOMAIN s} \cup {u[j] : j \in DOMAIN u}
          BY <4>2
        <5>2. \A i \in DOMAIN s : s[i] \in {(s \o u)[j] : j \in DOMAIN (s \o u)}
          BY <4>3
        <5>3. \A i \in DOMAIN u : u[i] \in {(s \o u)[j] : j \in DOMAIN (s \o u)}
          BY <4>4
        <5> QED
          BY <5>1, <5>2, <5>3, Zenon
      <4> QED
        BY <2>4, <3>1, <4>5 DEF Queued, s, u
    <3>5. Queued = {r} \cup Rest
      BY <2>3
    <3>6. \A S \in SUBSET Known : Contract!PinClosed(S) => Queued' \subseteq S
      <4> SUFFICES ASSUME NEW S \in SUBSET Known, Contract!PinClosed(S) PROVE Queued' \subseteq S
        OBVIOUS
      <4>1. Queued \subseteq S /\ r \in S \cap Held
        BY <2>2, <2>3
      <4>2. Contract!Pinned(r) \subseteq S
        BY <4>1 DEF Contract!PinClosed
      <4> QED
        BY <3>4, <3>5, <4>1, <4>2
    <3>7. closure' \cup Queued' = closure \cup Queued \cup Contract!Pinned(r)
      BY <3>1, <3>4, <3>5
    <3>8. Contract!Pinned(r) \subseteq held
      BY <2>4, <2>8
    <3>9. ContractTyped'
      BY <1>1, <2>1, <2>6, <3>1, <3>3 DEF ContractTyped
    <3>10. \A s \in closure' : Contract!Pinned(s) \subseteq closure' \cup Queued'
      BY <2>2, <3>1, <3>7
    <3> QED
      BY <2>1, <2>2, <2>5, <2>6, <3>1, <3>6, <3>7, <3>8, <3>9, <3>10 DEF ContractInv
  <2>9. CASE r \notin closure /\ ~(\A i \in DOMAIN pins[r] : pins[r][i] \in held)
    <3>1. pending' = <<>> /\ phase' = "incomplete"
      BY <2>1, <2>9
    <3>2. ContractTyped'
      BY <1>1, <2>1, <2>6, <3>1 DEF ContractTyped
    <3> QED
      BY <2>1, <2>2, <2>5, <2>6, <3>1, <3>2 DEF ContractInv
  <2> QED
    BY <2>7, <2>8, <2>9
<1>3. CASE Contract!Closed
  <2>1. /\ phase = "closing" /\ pending = <<>> /\ phase' = "complete"
        /\ UNCHANGED <<pins, held, pending, closure, checks, values, verdict, certifies>>
    BY <1>3 DEF Contract!Closed
  <2>2. Queued = {}
    BY <2>1 DEF Queued
  <2>3. Contract!PinClosed(closure) /\ closure \subseteq held
    BY <2>1, <2>2 DEF ContractInv, Contract!PinClosed
  <2>4. \A S : Contract!PinClosed(S)' <=> Contract!PinClosed(S)
    BY <2>1 DEF Contract!PinClosed, Contract!Pinned
  <2>5. Contract!PinClosed(closure)'
    BY <2>1, <2>3 DEF Contract!PinClosed, Contract!Pinned
  <2>6. ContractTyped'
    BY <1>1, <2>1 DEF ContractTyped
  <2> QED
    BY <2>1, <2>3, <2>4, <2>5, <2>6 DEF ContractInv
<1>4. CASE Contract!Evaluate
  <2>1. /\ phase \in {"complete", "incomplete"} /\ values' \in Samples /\ phase' = "done"
        /\ verdict' = (IF Contract!Passed(phase = "complete") THEN "passed" ELSE "failed")
        /\ certifies' = (IF Contract!Passed(phase = "complete") THEN closure ELSE {})
        /\ UNCHANGED <<pins, held, pending, closure>>
    BY <1>4 DEF Contract!Evaluate
  <2>2. \A S : Contract!PinClosed(S)' <=> Contract!PinClosed(S)
    BY <2>1 DEF Contract!PinClosed, Contract!Pinned
  <2>3. ContractTyped'
    BY <1>1, <2>1 DEF ContractTyped
  <2>4. ASSUME verdict' = "passed"
        PROVE  /\ certifies' = closure' /\ Contract!PinClosed(closure)' /\ closure' \subseteq held'
               /\ Contract!PassedIsMeasured'
    <3>1. Contract!Passed(phase = "complete")
      BY <2>1, <2>4
    <3>2. phase = "complete"
      BY <3>1 DEF Contract!Passed
    <3>3. Contract!PinClosed(closure)' /\ closure' \subseteq held'
      BY <2>1, <3>2 DEF ContractInv, Contract!PinClosed, Contract!Pinned
    <3>4. \A k \in Contract!Kinds : Len(checks'[k]) > 0
      BY <3>1 DEF Contract!Passed, Contract!RatioGate, Contract!ActionGate, Contract!Kinds
    <3>5. \A k \in Contract!Kinds : checks'[k] # <<>>
      BY <3>4
    <3>6. values' \in Seq(Nat) /\ Contract!HistoryGate(values') # "failed"
      BY <2>1, <3>1 DEF Contract!Passed, Contract!ContractAssumption
    <3>7. Len(values') >= MinSamples =>
            100 * Cardinality({i \in DOMAIN values' : values'[i] <= MaxLatency}) >= 95 * Len(values')
      BY <3>6, GateIsFast DEF UpToValue
    <3>8. Contract!PassedIsMeasured'
      BY <3>5, <3>7, SameSize DEF Contract!PassedIsMeasured
    <3> QED
      BY <2>1, <3>1, <3>3, <3>8
  <2>5. verdict' # "passed" => certifies' = {}
    BY <2>1
  <2>6. \A S \in SUBSET Known : Contract!PinClosed(S)' => closure' \subseteq S
    BY <2>1, <2>2 DEF ContractInv
  <2> QED
    BY <2>1, <2>3, <2>4, <2>5, <2>6 DEF ContractInv
<1>5. CASE UNCHANGED Contract!vars
  <2>1. UNCHANGED <<pins, held, pending, closure, phase, checks, values, verdict, certifies>>
    BY <1>5 DEF Contract!vars
  <2>2. /\ \A S : Contract!PinClosed(S)' <=> Contract!PinClosed(S)
        /\ \A s : Contract!Pinned(s)' = Contract!Pinned(s)
        /\ Contract!PinClosed(closure)' <=> Contract!PinClosed(closure)
    BY <2>1 DEF Contract!PinClosed, Contract!Pinned
  <2>3. ContractTyped' /\ Queued' = Queued
    BY <1>1, <2>1 DEF ContractTyped, Queued
  <2>4. Contract!PassedIsMeasured' <=> Contract!PassedIsMeasured
    BY <2>1 DEF Contract!PassedIsMeasured
  <2> QED
    BY <2>1, <2>2, <2>3, <2>4 DEF ContractInv
<1> QED
  BY <1>2, <1>3, <1>4, <1>5 DEF Contract!Next

(* The evaluator certifies what the subject transitively pins, all of it   *)
(* and nothing else, and only when the release holds every pin, for any    *)
(* resources, pins and cycles of pins; and it passes only on evidence of   *)
(* every contract gate and on a history in which at most five of a hundred *)
(* samples are above the latency threshold, whatever its length.           *)
(* (resolveDependencyClosure, contractGate, historyGate, percentile95.)    *)
THEOREM PassedReleasesAreClosed ==
  Contract!ContractAssumption =>
    (Contract!Spec => [](Contract!CertifiesClosure /\ Contract!PassedIsMeasured))
<1> SUFFICES ASSUME Contract!ContractAssumption
             PROVE  Contract!Spec => [](Contract!CertifiesClosure /\ Contract!PassedIsMeasured)
  OBVIOUS
<1>1. Contract!Init => ContractInv
  BY ContractInit
<1>2. ContractInv /\ [Contract!Next]_(Contract!vars) => ContractInv'
  BY ContractNext
<1>3. ContractInv => Contract!CertifiesClosure /\ Contract!PassedIsMeasured
  <2> SUFFICES ASSUME ContractInv PROVE Contract!CertifiesClosure /\ Contract!PassedIsMeasured
    OBVIOUS
  <2>1. Contract!PassedIsMeasured
    BY DEF ContractInv, Contract!PassedIsMeasured
  <2>2. ASSUME verdict = "passed"
        PROVE  certifies = Contract!Reachable /\ Contract!Reachable \subseteq held
    <3>1. /\ certifies = closure /\ Contract!PinClosed(closure) /\ closure \subseteq held
          /\ \A S \in SUBSET Known : Contract!PinClosed(S) => closure \subseteq S
          /\ closure \in SUBSET Known
      BY <2>2 DEF ContractInv, ContractTyped, Known
    <3>2. closure \subseteq Contract!Reachable
      BY <3>1 DEF Contract!Reachable, Known
    <3>3. Contract!Reachable \subseteq closure
      BY <3>1 DEF Contract!Reachable, Known
    <3> QED
      BY <3>1, <3>2, <3>3
  <2> QED
    BY <2>1, <2>2 DEF Contract!CertifiesClosure
<1> QED
  BY <1>1, <1>2, <1>3, PTL DEF Contract!Spec
=============================================================================
