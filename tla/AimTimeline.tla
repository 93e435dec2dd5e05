----------------------------- MODULE AimTimeline -----------------------------
(***************************************************************************)
(* The AIM program projection (packages/runtime/src/aim: stateAt,          *)
(* evaluatePartEvidence, deriveVisualState).  A manifest holds dated       *)
(* histories; stateAt derives what is shown for any selected time.  People *)
(* edit the manifest by appending records; each edit is validated.         *)
(* One part, one gate criterion, one required metric, one agent and one    *)
(* workstream stand for all of them; progress is counted in 1/240.         *)
(***************************************************************************)
EXTENDS Naturals, Sequences, FiniteSets, FiniteSetsExt

CONSTANTS
  MaxTime,       \* the timeline is 0 .. MaxTime; up to 5 the fractions below are exact
  Evidence,      \* evidence items
  SourceOf,      \* SourceOf[e]: the source of an item
  Sources,
  ItemSla, SourceSla, DefaultSla,  \* freshness limits; 0 when an item or a source has none
  PartRefs,      \* evidence the part itself names
  CriterionRefs, \* evidence its required gate criterion names
  AgentRefs,     \* certification evidence of the agent that covers the part
  Stages,        \* the lifecycle stages of the status records
  Refs,          \* the evidence that appended records name
  FirstAt,       \* the dates of the first result and the first observation
  MaxRecords     \* bound on the records added to the first manifest

TimelineAssumption ==
  /\ MaxTime \in Nat \ {0} /\ DefaultSla \in Nat \ {0} /\ MaxRecords \in Nat
  /\ SourceOf \in [Evidence -> Sources] /\ ItemSla \in [Evidence -> Nat] /\ SourceSla \in [Sources -> Nat]
  /\ Stages \subseteq 1..5 /\ Refs \subseteq SUBSET Evidence
  /\ PartRefs \cup CriterionRefs \cup AgentRefs \subseteq Evidence
  /\ FirstAt \subseteq 0..MaxTime

VARIABLES
  observed,     \* observed[e]: when the item was observed; MaxTime + 1 while it is not in the manifest
  source,       \* source[s]: [at, conflicting]
  status,       \* statusHistory of the part: [at, lifecycle, readiness, refs, from]
  result,       \* resultHistory of the criterion: [at, state, refs]
  metric        \* observation times of the required metric

vars == <<observed, source, status, result, metric>>

Times      == 0 .. MaxTime
Lifecycles == <<"planned", "poc", "pilot", "production", "retired">>
Undeclared == MaxTime + 1
Named      == PartRefs \cup CriterionRefs \cup AgentRefs
Added      == Len(status) + Len(result) + Len(metric) - 3
              + Cardinality({e \in Evidence \ Named : observed[e] # Undeclared})

(* A valid manifest: every history has a record, and every named evidence  *)
(* item is declared.                                                       *)
Init ==
  /\ observed \in {f \in [Evidence -> 0..Undeclared] : \A e \in Evidence : (f[e] = Undeclared) <=> (e \notin Named)}
  /\ source \in [Sources -> [at : {0, MaxTime - 1}, conflicting : BOOLEAN]]
  /\ \E t \in Times, l \in Stages, ready \in {"conditional", "go"}, s \in Sources :
       status = <<[at |-> t, lifecycle |-> l, readiness |-> ready, refs |-> {}, from |-> s]>>
  /\ \E t \in FirstAt, state \in {"unsatisfied", "satisfied"} :
       result = <<[at |-> t, state |-> state, refs |-> {}]>>
  /\ \E t \in FirstAt : metric = <<[at |-> t]>>

-----------------------------------------------------------------------------
(* Editing.  requireStrictlyIncreasing and requireReferences.              *)

Later(history, t) == \A i \in DOMAIN history : history[i].at < t
Declared(refs) == \A e \in refs : observed[e] # Undeclared

Edit == Added < MaxRecords

AddEvidence(e, t) ==
  /\ Edit /\ observed[e] = Undeclared
  /\ observed' = [observed EXCEPT ![e] = t]
  /\ UNCHANGED <<source, status, result, metric>>

AddStatus(t, l, ready, refs, s) ==
  /\ Edit /\ Later(status, t) /\ Declared(refs)
  /\ status' = Append(status, [at |-> t, lifecycle |-> l, readiness |-> ready, refs |-> refs, from |-> s])
  /\ UNCHANGED <<observed, source, result, metric>>

AddResult(t, state, refs) ==
  /\ Edit /\ Later(result, t) /\ Declared(refs)
  /\ result' = Append(result, [at |-> t, state |-> state, refs |-> refs])
  /\ UNCHANGED <<observed, source, status, metric>>

AddObservation(t) ==
  /\ Edit /\ Later(metric, t)
  /\ metric' = Append(metric, [at |-> t])
  /\ UNCHANGED <<observed, source, status, result>>

Next ==
  \E t \in Times :
    \/ \E e \in Evidence : AddEvidence(e, t)
    \/ \E l \in Stages, ready \in {"conditional", "go"}, refs \in Refs, s \in Sources :
         AddStatus(t, l, ready, refs, s)
    \/ \E state \in {"unsatisfied", "satisfied"}, refs \in Refs : AddResult(t, state, refs)
    \/ AddObservation(t)

Spec == Init /\ [][Next]_vars

-----------------------------------------------------------------------------
(* The state of a history and of evidence at time t.                       *)

UpTo(history, t) == {i \in DOMAIN history : history[i].at <= t}

(* latestAt: the index of the record in force, 0 when there is none.       *)
LatestAt(history, t) == IF UpTo(history, t) = {} THEN 0 ELSE Max(UpTo(history, t))

Age(at, t) == IF t > at THEN t - at ELSE 0
FirstOf(own, fallback) == IF own # 0 THEN own ELSE fallback

MutantFresh(e, t) ==
  observed[e] <= t /\ Age(observed[e], t) <= FirstOf(ItemSla[e], FirstOf(SourceSla[SourceOf[e]], DefaultSla)) + 1

(* isEvidenceFresh *)
Fresh(e, t) ==
  observed[e] <= t /\ Age(observed[e], t) <= FirstOf(ItemSla[e], FirstOf(SourceSla[SourceOf[e]], DefaultSla))

Stale(s, t) == Age(source[s].at, t) > FirstOf(SourceSla[s], DefaultSla)

(* evaluatePartEvidence: everything the part, its status, the criterion    *)
(* and the result in force name is required.                               *)
RefsInForce(history, t) == LET i == LatestAt(history, t) IN IF i = 0 THEN {} ELSE history[i].refs
Required(t) == PartRefs \cup CriterionRefs \cup RefsInForce(status, t) \cup RefsInForce(result, t)

Gate(t) ==
  LET i == LatestAt(status, t)
      j == LatestAt(result, t)
      go == i # 0 /\ status[i].readiness = "go"
  IN      IF i # 0 /\ source[status[i].from].conflicting THEN "source_conflict"
          ELSE IF i # 0 /\ Stale(status[i].from, t) THEN "source_stale"
          ELSE IF (go /\ Required(t) = {}) \/ \E e \in Required(t) : observed[e] > t THEN "evidence_missing"
          ELSE IF \E e \in Required(t) : ~Fresh(e, t) THEN "evidence_stale"
          ELSE IF UpTo(metric, t) = {} THEN "metrics_missing"
          ELSE IF j = 0 \/ result[j].state # "satisfied" THEN "criteria_unsatisfied"
          ELSE IF ~go THEN "not_applicable" ELSE "satisfied"

(* deriveVisualState *)
Treatment(t) ==
  LET i == LatestAt(status, t) IN
  IF i = 0 THEN "neutral_gray"
  ELSE IF status[i].readiness = "conditional" THEN "amber_blue"
  ELSE IF Gate(t) = "satisfied" THEN "green_confirmation" ELSE "evidence_warning"

Lifecycle(t) == LET i == LatestAt(status, t) IN IF i = 0 THEN 1 ELSE status[i].lifecycle

(* A certified agent counts while its sources and its evidence are usable. *)
Certified(t) ==
  /\ AgentRefs # {}
  /\ \A e \in AgentRefs : observed[e] # Undeclared /\ ~source[SourceOf[e]].conflicting /\ Fresh(e, t)

(* workstreamStates: every source is observed, fresh and not conflicting.  *)
WorkstreamShown(t) ==
  \A s \in Sources : ~source[s].conflicting /\ source[s].at <= t /\ ~Stale(s, t)

View(t) ==
  [lifecycle |-> Lifecycles[Lifecycle(t)], gate |-> Gate(t), treatment |-> Treatment(t),
   certified |-> Certified(t), workstream |-> WorkstreamShown(t),
   evidence |-> {e \in Evidence : Fresh(e, t)}, metric |-> LatestAt(metric, t),
   criterion |-> IF LatestAt(result, t) = 0 THEN "unknown" ELSE result[LatestAt(result, t)].state]

(* How far a stage has come, in 1/60: interpolated up to the next record.  *)
Fraction(i, t) ==
  IF i = Len(status) THEN (IF status[i].lifecycle = 2 THEN 30 ELSE 51)
  ELSE (60 * (t - status[i].at)) \div (status[i + 1].at - status[i].at)

(* lifecycleProgress: a proof of concept fills three quarters, a pilot the *)
(* rest.                                                                   *)
Progress(t) ==
  LET i == LatestAt(status, t) IN
  IF Lifecycle(t) = 1 THEN 0
  ELSE IF Lifecycle(t) \in {4, 5} THEN 240
  ELSE IF Lifecycle(t) = 2 THEN 3 * Fraction(i, t) ELSE 180 + Fraction(i, t)

-----------------------------------------------------------------------------
(* What the manifest holds of a date.                                      *)
At(history, d) == {history[i] : i \in {j \in DOMAIN history : history[j].at = d}}
Dated(d) ==
  [status |-> At(status, d), result |-> At(result, d), metric |-> At(metric, d),
   evidence |-> {e \in Evidence : observed[e] = d}]

(* A record changes nothing that is shown for a time before its own date:  *)
(* the projection of a past date is what was known then, in every part of  *)
(* the view except the interpolated progress.  (stateAt, latestAt,         *)
(* isEvidenceFresh, evaluatePartEvidence.)                                 *)
HistoryIsStable ==
  \A t \in Times : (\A d \in 0..t : Dated(d)' = Dated(d)) => View(t)' = View(t)

(* A part is confirmed green only while the evidence it names and that of  *)
(* its criterion is within its limit (its own, else that of its source,    *)
(* else the default), on a satisfied result that no later record up to the *)
(* date withdraws, and under the status record in force, whose source is   *)
(* neither conflicting nor older than its limit.  (evaluatePartEvidence,   *)
(* isEvidenceFresh, deriveVisualState.)                                    *)
GreenIsCurrent ==
  \A t \in Times : Treatment(t) = "green_confirmation" =>
    /\ \E e \in Evidence : observed[e] \in 0..t
    /\ \A e \in PartRefs \cup CriterionRefs :
         /\ observed[e] \in 0..t
         /\ ItemSla[e] # 0 => t <= observed[e] + ItemSla[e]
         /\ ItemSla[e] = 0 /\ SourceSla[SourceOf[e]] # 0 => t <= observed[e] + SourceSla[SourceOf[e]]
         /\ ItemSla[e] = 0 /\ SourceSla[SourceOf[e]] = 0 => t <= observed[e] + DefaultSla
    /\ \E i \in DOMAIN result :
         /\ result[i].at <= t /\ result[i].state = "satisfied"
         /\ \A j \in DOMAIN result : j > i => result[j].at > t
    /\ \E i \in DOMAIN status :
         /\ status[i].at <= t /\ \A j \in DOMAIN status : j > i => status[j].at > t
         /\ LET s == status[i].from IN
            /\ ~source[s].conflicting
            /\ SourceSla[s] # 0 => t <= source[s].at + SourceSla[s]
            /\ SourceSla[s] = 0 => t <= source[s].at + DefaultSla

(* While every record moves the part to a later stage its progress never   *)
(* falls back as time goes on, at stage changes and between them.  (A      *)
(* record that repeats the stage, for its readiness, starts it again.      *)
(* lifecycleProgress.)                                                     *)
ProgressNeverFallsBack ==
  (\A i \in 2..Len(status) : status[i].lifecycle > status[i - 1].lifecycle) =>
    \A t \in 1..MaxTime : Progress(t - 1) <= Progress(t)
=============================================================================
