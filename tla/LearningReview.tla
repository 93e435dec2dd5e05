--------------------------- MODULE LearningReview ---------------------------
(***************************************************************************)
(* Learning records of AutomationLearningService and the way Attention     *)
(* groups them for one human decision.  Observations are recorded, memory  *)
(* and improvement candidates are staged from them, a reviewer is shown a  *)
(* group of equal candidates and decides it (or one candidate) in a        *)
(* serializable transaction under an advisory lock of the decision key.    *)
(***************************************************************************)
EXTENDS Naturals, FiniteSets

CONSTANTS
  Candidates,   \* MemoryCandidate or ImprovementCandidate rows (one kind per instance)
  Reviewers,
  Content,      \* Content[c]: namespace and value, or title, target and change
  Source,       \* Source[c]: "run", "legacy" (a run without project and entrypoint), "none"
  Hidden,       \* candidates with a quarantined creator: not listed by Attention
  GroupLimit,   \* MAX_GROUPED_LEARNING_DECISIONS
  MaxAttempts,  \* SERIALIZABLE_TRANSACTION_ATTEMPTS
  MaxReviews,   \* bound on review requests
  Nil

ReviewAssumption ==
  /\ GroupLimit \in Nat \ {0} /\ MaxAttempts \in Nat \ {0} /\ MaxReviews \in Nat
  /\ Source \in [Candidates -> {"run", "legacy", "none"}] /\ Hidden \subseteq Candidates

VARIABLES
  observed,  \* candidates whose observation, or succeeded source run, is recorded
  state,     \* candidate rows: absent, pending, accepted, rejected
  basis,     \* basis[c]: the group a decision of c was taken for (decisionGroupKey)
  shown,     \* shown[h]: the group Attention last showed the reviewer
  review,    \* the transaction of a reviewer
  answer,    \* the last response
  reviews

vars == <<observed, state, basis, shown, review, answer, reviews>>

Verdicts == {"accepted", "rejected"}

TypeOK ==
  /\ observed \subseteq Candidates /\ reviews \in 0 .. MaxReviews
  /\ state \in [Candidates -> Verdicts \cup {"absent", "pending"}]
  /\ basis \in [Candidates -> SUBSET Candidates]
  /\ shown \in [Reviewers -> SUBSET Candidates]
  /\ \A h \in Reviewers : review[h] = Nil \/
       /\ review[h].of \in Candidates /\ review[h].group \subseteq Candidates
       /\ review[h].verdict \in Verdicts /\ review[h].attempt \in 1 .. MaxAttempts
       /\ review[h].view \in [Candidates -> Verdicts \cup {"absent", "pending"}]
  /\ answer \in [Reviewers -> {"none", "decided", "repeated", "already", "changed", "limit", "conflict"}]

Init ==
  /\ observed = {} /\ reviews = 0
  /\ state = [c \in Candidates |-> "absent"]
  /\ basis = [c \in Candidates |-> {}]
  /\ shown = [h \in Reviewers |-> {}]
  /\ review = [h \in Reviewers |-> Nil]
  /\ answer = [h \in Reviewers |-> "none"]

-----------------------------------------------------------------------------
(* The decision key hashes the project and entrypoint of the source run,   *)
(* null when there is none; the database query tells no run from a run     *)
(* without them.                                                           *)
DecisionKey(c) == <<Content[c], IF Source[c] = "run" THEN "run" ELSE "null">>

QueryKey(c) == <<Content[c], Source[c]>>

(* groupedStagedMemoryCandidates, groupedImprovementCandidates.            *)
AttentionGroup(c) ==
  {d \in Candidates \ Hidden : state[d] = "pending" /\ DecisionKey(d) = DecisionKey(c)}

CreateObservation(c) ==
  /\ c \notin observed
  /\ observed' = observed \cup {c}
  /\ UNCHANGED <<state, basis, shown, review, answer, reviews>>

(* createImprovementCandidate, createMemoryCandidate. *)
CreateCandidate(c) ==
  /\ c \in observed /\ state[c] = "absent"
  /\ state' = [state EXCEPT ![c] = "pending"]
  /\ UNCHANGED <<observed, basis, shown, review, answer, reviews>>

ShowAttention(h, c) ==
  /\ state[c] = "pending" /\ c \notin Hidden
  /\ shown' = [shown EXCEPT ![h] = AttentionGroup(c)]
  /\ UNCHANGED <<observed, state, basis, review, answer, reviews>>

(* The first read of the transaction: all its reads see this snapshot. A   *)
(* group of {} is a request without decisionGroupKey.                      *)
BeginReview(h, c, group, verdict) ==
  /\ review[h] = Nil /\ reviews < MaxReviews /\ state[c] # "absent"
  /\ review' = [review EXCEPT ![h] = [of |-> c, group |-> group, verdict |-> verdict, view |-> state, attempt |-> 1]]
  /\ reviews' = reviews + 1 /\ answer' = [answer EXCEPT ![h] = "none"]
  /\ UNCHANGED <<observed, state, basis, shown>>

Answer(h, text) ==
  /\ answer' = [answer EXCEPT ![h] = text] /\ review' = [review EXCEPT ![h] = Nil]
  /\ UNCHANGED <<observed, shown, reviews>>

(* The pending rows the decision will update, as the transaction sees them. *)
Members(r) ==
  IF r.group = {} THEN {r.of}
  ELSE {d \in Candidates : r.view[d] = "pending" /\ QueryKey(d) = QueryKey(r.of)}

(* expectedRequestCount and learningDecisionGroupKey over the exact ids.   *)
GroupMatches(r) == r.group # {} => Members(r) = r.group

MutantConflicts(r) == FALSE

(* A row that was changed after the snapshot aborts the update (40001).    *)
Conflicts(r) == \E c \in Members(r) : state[c] # r.view[c]

RefuseDecided(h) ==
  LET r == review[h] IN
  /\ r # Nil /\ r.view[r.of] # "pending"
  /\ Answer(h, IF r.view[r.of] = r.verdict THEN "repeated" ELSE "already")
  /\ UNCHANGED <<state, basis>>

RefuseGroup(h) ==
  LET r == review[h] IN
  /\ r # Nil /\ r.view[r.of] = "pending"
  /\ \/ Cardinality(Members(r)) > GroupLimit /\ Answer(h, "limit")
     \/ Cardinality(Members(r)) <= GroupLimit /\ ~GroupMatches(r) /\ Answer(h, "changed")
  /\ UNCHANGED <<state, basis>>

Acceptable(r) ==
  r.view[r.of] = "pending" /\ Cardinality(Members(r)) <= GroupLimit /\ GroupMatches(r)

(* retrySerializableTransaction: a fresh snapshot, up to MaxAttempts.  The *)
(* database may also abort a transaction that has no conflict.             *)
Retry(h) ==
  LET r == review[h] IN
  /\ r # Nil /\ Acceptable(r)
  /\ \/ /\ r.attempt < MaxAttempts
        /\ review' = [review EXCEPT ![h].view = state, ![h].attempt = @ + 1]
        /\ UNCHANGED <<observed, state, basis, shown, answer, reviews>>
     \/ r.attempt = MaxAttempts /\ Answer(h, "conflict") /\ UNCHANGED <<state, basis>>

Decide(h) ==
  LET r == review[h] IN
  /\ r # Nil /\ Acceptable(r) /\ ~Conflicts(r)
  /\ state' = [c \in Candidates |-> IF c \in Members(r) THEN r.verdict ELSE state[c]]
  /\ basis' = [c \in Candidates |-> IF c \in Members(r) THEN (IF r.group = {} THEN {c} ELSE r.group) ELSE basis[c]]
  /\ Answer(h, "decided")

Next ==
  \/ \E c \in Candidates : CreateObservation(c) \/ CreateCandidate(c)
  \/ \E h \in Reviewers :
       \/ \E c \in Candidates :
            \/ ShowAttention(h, c)
            \/ \E group \in {{}, shown[h]}, verdict \in Verdicts : BeginReview(h, c, group, verdict)
       \/ RefuseDecided(h) \/ RefuseGroup(h) \/ Retry(h) \/ Decide(h)

Spec == Init /\ [][Next]_vars

-----------------------------------------------------------------------------
(* Properties.                                                             *)

(* A group decision covers exactly the candidates a reviewer was shown:    *)
(* one staged after Attention was read, or decided by someone else before  *)
(* the commit, is never decided along with it (reviewMemoryCandidate and   *)
(* reviewImprovementCandidate, the group key over exact member ids).       *)
OnlyShownAreDecided ==
  \A c \in Candidates : state[c] \in Verdicts =>
    c \in basis[c] /\ \A d \in basis[c] : state[d] = state[c]

(* The first decision stands: two reviewers who decide overlapping groups  *)
(* at once never overwrite each other (Serializable, state = PENDING in    *)
(* updateMany).                                                            *)
FirstDecisionStands == \A c \in Candidates : state[c] \in Verdicts => state'[c] = state[c]

=============================================================================
