-------------------------- MODULE AimManifestProofs --------------------------
(***************************************************************************)
(* What an accepted AIM manifest guarantees, for any number of groups,     *)
(* parts, anchors, agents, milestones and edits; and what the projection   *)
(* of its dated histories shows, the search for cycles finds, and roadmap  *)
(* versions are ordered by, for any timeline, limits, records,             *)
(* capabilities and versions.                                              *)
(***************************************************************************)
EXTENDS AimManifest, Sequences, FiniteSetTheorems, FunctionTheorems, NaturalsInduction, WellFoundedInduction, TLAPS

(* The projection of dated histories, as a component of its own.           *)
CONSTANTS MaxTime, Evidence, SourceOf, Sources, ItemSla, SourceSla, DefaultSla, PartRefs,
          CriterionRefs, AgentRefs, Stages, Refs, FirstAt, MaxRecords
VARIABLES observed, source, status, result, metric
Aim == INSTANCE AimTimeline

(* The search for cycles of dependencies, likewise.                        *)
CONSTANT N
VARIABLES deps, next, stack, visiting, visited, answer, issues
Check == INSTANCE DependencyCheck

(* The order of roadmap versions, likewise.                                *)
CONSTANTS Cores, MaxNumber, Names, MaxParts, NoPrerelease
VARIABLES left, right, third
Roadmap == INSTANCE RoadmapProgram WITH None <- NoPrerelease

(* The inductive invariant: a manifest that counts as accepted passes      *)
(* every check, since any edit withdraws the acceptance.                   *)
AcceptedIsValid == accepted => Valid

-----------------------------------------------------------------------------
(* The first manifest passes every check.                                  *)
LEMMA InitIsValid == Init => AcceptedIsValid
<1> SUFFICES ASSUME Init PROVE Valid
  BY DEF AcceptedIsValid
<1>1. AnyGroup \in Groups
  BY SomeGroup DEF AnyGroup
<1>2. PICK anchorOf \in [Parts -> Anchors] :
        /\ \A p, q \in Parts : anchorOf[p] = anchorOf[q] => p = q
        /\ part = [p \in Parts |-> [anchor |-> anchorOf[p], owner |-> AnyGroup,
                                    groups |-> {AnyGroup}, agents |-> Agents]]
        /\ owned = [g \in Groups |-> IF g = AnyGroup THEN {anchorOf[p] : p \in Parts} ELSE {}]
  BY DEF Init
<1>3. /\ kind = [g \in Groups |-> "primary"]
      /\ agent = [a \in Agents |-> [groups |-> {AnyGroup}, parts |-> Parts]]
      /\ affects = [m \in Milestones |-> Parts]
      /\ work = [owner |-> AnyGroup, parts |-> Parts, milestones |-> Milestones]
  BY DEF Init
<1>4. Parts # {}
  BY SomePart
<1>5. UniqueAnchors
  BY <1>2 DEF UniqueAnchors
<1>6. WorkstreamValid
  BY <1>1, <1>2, <1>3, <1>4 DEF WorkstreamValid, Known
<1>7. \A g \in Groups : GroupValid(g)
  BY <1>1, <1>2, <1>3 DEF GroupValid, Known
<1>8. \A a \in Agents : AgentValid(a)
  BY <1>1, <1>2, <1>3, <1>4 DEF AgentValid, Known
<1>9. \A p \in Parts : PartValid(p)
  BY <1>1, <1>2, <1>3 DEF PartValid, Known, Owners
<1>10. \A m \in Milestones : MilestoneValid(m)
  BY <1>3, <1>4 DEF MilestoneValid, Known
<1> QED
  BY <1>5, <1>6, <1>7, <1>8, <1>9, <1>10 DEF Valid

(* Steps keep it: an edit withdraws the acceptance, accepting checks.      *)
LEMMA NextIsValid == AcceptedIsValid /\ [Next]_vars => AcceptedIsValid'
<1> SUFFICES ASSUME AcceptedIsValid, [Next]_vars PROVE AcceptedIsValid'
  OBVIOUS
<1>1. CASE Edit
  BY <1>1 DEF Edit, AcceptedIsValid
<1>2. CASE Accept
  BY <1>2 DEF Accept, AcceptedIsValid, Valid, UniqueAnchors, WorkstreamValid, GroupValid,
              AgentValid, PartValid, MilestoneValid, Known, Owners
<1>3. CASE UNCHANGED vars
  BY <1>3 DEF vars, AcceptedIsValid, Valid, UniqueAnchors, WorkstreamValid, GroupValid,
              AgentValid, PartValid, MilestoneValid, Known, Owners
<1> QED
  BY <1>1, <1>2, <1>3 DEF Next, EditGroup, EditPart, EditAgent, EditPlan

(* A manifest counts as accepted only while it passes every check.         *)
THEOREM AcceptedManifestIsValid == Spec => []AcceptedIsValid
BY InitIsValid, NextIsValid, PTL DEF Spec

-----------------------------------------------------------------------------
(* Coverage reads the same from both ends in every accepted manifest.      *)
THEOREM AcceptedCoverageAgrees == Spec => []CoverageAgrees
<1>1. AcceptedIsValid => CoverageAgrees
  <2> SUFFICES ASSUME Valid PROVE CoverageAgrees
    BY DEF AcceptedIsValid, CoverageAgrees
  <2>1. \A p \in Parts, a \in Agents : (a \in part[p].agents) <=> (p \in agent[a].parts)
    BY DEF Valid, PartValid, AgentValid, Known
  <2>2. \A p \in Parts : part[p].agents \subseteq Agents
    BY DEF Valid, PartValid, Known
  <2>3. \A p \in Parts : part[p].agents = {a \in Agents : p \in agent[a].parts}
    BY <2>1, <2>2
  <2>4. \A p \in Parts : \A a \in part[p].agents : part[p].owner \in agent[a].groups
    BY <2>1, <2>2 DEF Valid, AgentValid
  <2>5. \A a \in Agents : \A g \in agent[a].groups : \E p \in Parts :
          a \in part[p].agents /\ g \in part[p].groups
    BY <2>1 DEF Valid, AgentValid
  <2> QED
    BY <2>3, <2>4, <2>5 DEF CoverageAgrees
<1> QED
  BY <1>1, AcceptedManifestIsValid, PTL

(* Every milestone of an accepted workstream affects a part whose hardware *)
(* the workstream's group owns.                                            *)
THEOREM AcceptedWorkstreamsStayHome == Spec => []WorkstreamsStayHome
<1>1. AcceptedIsValid => WorkstreamsStayHome
  <2> SUFFICES ASSUME Valid, NEW m \in work.milestones
               PROVE  \E p \in affects[m] \cap work.parts : part[p].anchor \in owned[work.owner]
    BY DEF AcceptedIsValid, WorkstreamsStayHome
  <2>1. m \in Milestones /\ work.parts \subseteq Parts /\ work.owner \in Groups
    BY DEF Valid, WorkstreamValid, Known
  <2>2. PICK p \in affects[m] \cap work.parts : TRUE
    BY <2>1 DEF Valid, WorkstreamValid
  <2>3. p \in Parts /\ part[p].owner = work.owner
    BY <2>1, <2>2 DEF Valid, WorkstreamValid
  <2>4. part[p].anchor \in owned[work.owner]
    BY <2>1, <2>3 DEF Valid, PartValid
  <2> QED
    BY <2>2, <2>4
<1> QED
  BY <1>1, AcceptedManifestIsValid, PTL

-----------------------------------------------------------------------------
(* Hardware has one owner in every accepted manifest.                      *)
THEOREM AcceptedHardwareHasOneOwner == Spec => []HardwareHasOneOwner
<1>1. AcceptedIsValid => HardwareHasOneOwner
  <2> SUFFICES ASSUME Valid PROVE HardwareHasOneOwner
    BY DEF AcceptedIsValid, HardwareHasOneOwner
  <2>1. \A g \in Groups : \A x \in owned[g] : \E p \in Parts : part[p].anchor = x /\ part[p].owner = g
    BY DEF Valid, GroupValid
  <2>2. \A p \in Parts : part[p].owner \in Groups /\ part[p].anchor \in owned[part[p].owner]
    BY DEF Valid, PartValid, Known
  <2>3. \A p, q \in Parts : part[p].anchor = part[q].anchor => p = q
    BY DEF Valid, UniqueAnchors
  <2>4. UNION {owned[g] : g \in Groups} = {part[p].anchor : p \in Parts}
    BY <2>1, <2>2
  <2>5. \A g, h \in Groups : g # h => owned[g] \cap owned[h] = {}
    BY <2>1, <2>3
  <2>6. ASSUME NEW g \in Groups
        PROVE  Cardinality(owned[g]) = Cardinality({p \in Parts : part[p].owner = g})
    <3> DEFINE Own == {p \in Parts : part[p].owner = g}
               F == [p \in Own |-> part[p].anchor]
    <3>1. IsFiniteSet(Own)
      BY PartsFinite, FS_Subset
    <3>2. F \in Bijection(Own, owned[g])
      <4>1. F \in [Own -> owned[g]]
        BY <2>2
      <4>2. \A p, q \in Own : F[p] = F[q] => p = q
        BY <2>3
      <4>3. \A x \in owned[g] : \E p \in Own : F[p] = x
        BY <2>1
      <4> QED
        BY <4>1, <4>2, <4>3, Fun_IsBij
    <3>3. Cardinality(Own) = Cardinality(owned[g])
      <4> HIDE DEF Own, F
      <4>1. ExistsBijection(Own, owned[g])
        BY <3>2 DEF ExistsBijection
      <4> QED
        BY <3>1, <4>1, FS_Bijection
    <3> QED
      BY <3>3
  <2> QED
    BY <2>4, <2>5, <2>6 DEF HardwareHasOneOwner
<1> QED
  BY <1>1, AcceptedManifestIsValid, PTL

-----------------------------------------------------------------------------
(* Whatever edits led to a manifest that programManifestSchema accepts, of *)
(* any number of groups, parts, agents and milestones, its sections agree. *)
THEOREM AcceptedManifestAgrees == Spec => []ManifestAgrees
BY AcceptedHardwareHasOneOwner, AcceptedCoverageAgrees, AcceptedWorkstreamsStayHome, PTL
   DEF ManifestAgrees

-----------------------------------------------------------------------------
(* The projection of dated histories (AimTimeline).                        *)

StatusRecord == [at : Aim!Times, lifecycle : Stages, readiness : {"conditional", "go"},
                 refs : SUBSET Evidence, from : Sources]
ResultRecord == [at : Aim!Times, state : {"unsatisfied", "satisfied"}, refs : SUBSET Evidence]
MetricRecord == [at : Aim!Times]

Rising(history) == \A i, j \in DOMAIN history : i < j => history[i].at < history[j].at

(* What an edit keeps: records are well formed and dates of the status     *)
(* rise.                                                                   *)
TimelineInv ==
  /\ observed \in [Evidence -> 0..Aim!Undeclared]
  /\ source \in [Sources -> [at : Int, conflicting : BOOLEAN]]
  /\ status \in Seq(StatusRecord) /\ Rising(status)
  /\ result \in Seq(ResultRecord)
  /\ metric \in Seq(MetricRecord)

(* A record appended to a rising history leaves it rising.                 *)
LEMMA AppendRises ==
  ASSUME NEW S, NEW h \in Seq(S), NEW r \in S, Rising(h), Aim!Later(h, r.at)
  PROVE  Append(h, r) \in Seq(S) /\ Rising(Append(h, r))
<1>1. DOMAIN h = 1..Len(h) /\ Len(h) \in Nat /\ DOMAIN Append(h, r) = 1..(Len(h) + 1)
  OBVIOUS
<1>2. \A i \in 1..Len(h) : Append(h, r)[i] = h[i]
  OBVIOUS
<1>3. Append(h, r)[Len(h) + 1] = r
  OBVIOUS
<1> QED
  BY <1>1, <1>2, <1>3 DEF Rising, Aim!Later

LEMMA TimelineInit == Aim!TimelineAssumption /\ Aim!Init => TimelineInv
<1> SUFFICES ASSUME Aim!TimelineAssumption, Aim!Init PROVE TimelineInv
  OBVIOUS
<1>1. observed \in [Evidence -> 0..Aim!Undeclared]
  BY DEF Aim!Init
<1>2. source \in [Sources -> [at : Int, conflicting : BOOLEAN]]
  <2>1. MaxTime - 1 \in Int
    BY DEF Aim!TimelineAssumption
  <2>2. source \in [Sources -> [at : {0, MaxTime - 1}, conflicting : BOOLEAN]]
    BY DEF Aim!Init
  <2> QED
    BY <2>1, <2>2
<1>3. status \in Seq(StatusRecord) /\ Rising(status)
  <2>1. PICK t \in Aim!Times, l \in Stages, ready \in {"conditional", "go"}, s \in Sources :
          status = <<[at |-> t, lifecycle |-> l, readiness |-> ready, refs |-> {}, from |-> s]>>
    BY DEF Aim!Init
  <2>2. [at |-> t, lifecycle |-> l, readiness |-> ready, refs |-> {}, from |-> s] \in StatusRecord
    BY DEF StatusRecord
  <2> QED
    BY <2>1, <2>2 DEF Rising
<1>4. result \in Seq(ResultRecord)
  <2>1. PICK t \in FirstAt, state \in {"unsatisfied", "satisfied"} :
          result = <<[at |-> t, state |-> state, refs |-> {}]>>
    BY DEF Aim!Init
  <2>2. t \in Aim!Times
    BY DEF Aim!TimelineAssumption, Aim!Times
  <2>3. [at |-> t, state |-> state, refs |-> {}] \in ResultRecord
    BY <2>2 DEF ResultRecord
  <2> QED
    BY <2>1, <2>3
<1>5. metric \in Seq(MetricRecord)
  <2>1. PICK t \in FirstAt : metric = <<[at |-> t]>>
    BY DEF Aim!Init
  <2>2. t \in Aim!Times
    BY DEF Aim!TimelineAssumption, Aim!Times
  <2>3. [at |-> t] \in MetricRecord
    BY <2>2 DEF MetricRecord
  <2> QED
    BY <2>1, <2>3
<1> QED
  BY <1>1, <1>2, <1>3, <1>4, <1>5 DEF TimelineInv

LEMMA TimelineNext ==
  ASSUME Aim!TimelineAssumption, TimelineInv, [Aim!Next]_(Aim!vars)
  PROVE  TimelineInv'
<1>1. ASSUME NEW t \in Aim!Times, NEW e \in Evidence, Aim!AddEvidence(e, t) PROVE TimelineInv'
  <2>1. t \in 0..Aim!Undeclared
    BY DEF Aim!TimelineAssumption, Aim!Times, Aim!Undeclared
  <2>2. observed' \in [Evidence -> 0..Aim!Undeclared]
    BY <1>1, <2>1 DEF Aim!AddEvidence, TimelineInv
  <2>3. UNCHANGED <<source, status, result, metric>>
    BY <1>1 DEF Aim!AddEvidence
  <2> QED
    BY <2>2, <2>3 DEF TimelineInv, Rising, Aim!Undeclared
<1>2. ASSUME NEW t \in Aim!Times, NEW l \in Stages, NEW ready \in {"conditional", "go"},
             NEW refs \in Refs, NEW s \in Sources, Aim!AddStatus(t, l, ready, refs, s)
      PROVE  TimelineInv'
  <2> DEFINE r == [at |-> t, lifecycle |-> l, readiness |-> ready, refs |-> refs, from |-> s]
  <2>1. refs \in SUBSET Evidence
    BY DEF Aim!TimelineAssumption
  <2>2. r \in StatusRecord /\ r.at = t
    BY <2>1 DEF StatusRecord
  <2>3. status' = Append(status, r) /\ Aim!Later(status, t)
    BY <1>2 DEF Aim!AddStatus
  <2>4. status' \in Seq(StatusRecord) /\ Rising(status')
    <3> HIDE DEF r
    <3>1. status \in Seq(StatusRecord) /\ Rising(status)
      BY DEF TimelineInv
    <3> QED
      BY <2>2, <2>3, <3>1, AppendRises
  <2>5. UNCHANGED <<observed, source, result, metric>>
    BY <1>2 DEF Aim!AddStatus
  <2> QED
    BY <2>4, <2>5 DEF TimelineInv, Rising, Aim!Undeclared
<1>3. ASSUME NEW t \in Aim!Times, NEW state \in {"unsatisfied", "satisfied"}, NEW refs \in Refs,
             Aim!AddResult(t, state, refs)
      PROVE  TimelineInv'
  <2> DEFINE r == [at |-> t, state |-> state, refs |-> refs]
  <2>1. refs \in SUBSET Evidence
    BY DEF Aim!TimelineAssumption
  <2>2. r \in ResultRecord
    BY <2>1 DEF ResultRecord
  <2>3. result' = Append(result, r)
    BY <1>3 DEF Aim!AddResult
  <2>4. result' \in Seq(ResultRecord)
    <3> HIDE DEF r
    <3> QED
      BY <2>2, <2>3 DEF TimelineInv
  <2>5. UNCHANGED <<observed, source, status, metric>>
    BY <1>3 DEF Aim!AddResult
  <2> QED
    BY <2>4, <2>5 DEF TimelineInv, Rising, Aim!Undeclared
<1>4. ASSUME NEW t \in Aim!Times, Aim!AddObservation(t) PROVE TimelineInv'
  <2>1. [at |-> t] \in MetricRecord
    BY DEF MetricRecord
  <2>2. metric' = Append(metric, [at |-> t])
    BY <1>4 DEF Aim!AddObservation
  <2>3. metric' \in Seq(MetricRecord)
    BY <2>1, <2>2 DEF TimelineInv
  <2>4. UNCHANGED <<observed, source, status, result>>
    BY <1>4 DEF Aim!AddObservation
  <2> QED
    BY <2>3, <2>4 DEF TimelineInv, Rising, Aim!Undeclared
<1>5. CASE UNCHANGED Aim!vars
  BY <1>5 DEF Aim!vars, TimelineInv, Rising, Aim!Undeclared
<1> QED
  BY <1>1, <1>2, <1>3, <1>4, <1>5 DEF Aim!Next

(* Every history of an edited manifest is well formed and dated in order.  *)
LEMMA HistoriesRise == Aim!TimelineAssumption => (Aim!Spec => []TimelineInv)
<1> SUFFICES ASSUME Aim!TimelineAssumption PROVE Aim!Spec => []TimelineInv
  OBVIOUS
<1>1. Aim!Init => TimelineInv
  BY TimelineInit
<1>2. TimelineInv /\ [Aim!Next]_(Aim!vars) => TimelineInv'
  BY TimelineNext
<1> QED
  BY <1>1, <1>2, PTL DEF Aim!Spec

-----------------------------------------------------------------------------
(* The record in force.                                                    *)

(* A bounded set of numbers that is not empty has a largest one: the       *)
(* distances to the bound have a smallest one.                             *)
LEMMA MaxOf ==
  ASSUME NEW T, T \subseteq Int, T # {}, NEW b \in Int, \A x \in T : x <= b
  PROVE  Aim!Max(T) \in T /\ \A y \in T : y <= Aim!Max(T)
<1> DEFINE D == {b - x : x \in T}
<1>1. D \subseteq Nat /\ D # {}
  <2>1. \A x \in T : b - x \in Nat
    OBVIOUS
  <2> QED
    BY <2>1
<1>2. PICK d \in D : \A e \in D : ~(<<e, d>> \in OpToRel(<, Nat))
  <2>1. IsWellFoundedOn(OpToRel(<, Nat), Nat)
    BY NatLessThanWellFounded
  <2> QED
    BY <1>1, <2>1, WFMin, Zenon
<1>3. \A e \in D : ~(e < d)
  BY <1>1, <1>2 DEF OpToRel
<1>4. PICK x \in T : d = b - x
  BY <1>2
<1>5. \A y \in T : x >= y
  <2> TAKE y \in T
  <2>1. b - y \in D
    OBVIOUS
  <2>2. ~(b - y < b - x)
    BY <1>3, <1>4, <2>1
  <2>3. x \in Int /\ y \in Int
    BY <1>4
  <2> QED
    BY <2>2, <2>3
<1>6. Aim!Max(T) \in T /\ \A y \in T : Aim!Max(T) >= y
  BY <1>4, <1>5 DEF Aim!Max
<1> QED
  BY <1>6

(* The record in force at t is dated at most t, the next ones later.       *)
LEMMA InForce ==
  ASSUME NEW S, NEW h \in Seq(S), NEW t \in Int
  PROVE  /\ Aim!LatestAt(h, t) \in 0..Len(h)
         /\ (Aim!LatestAt(h, t) = 0) <=> (Aim!UpTo(h, t) = {})
         /\ Aim!LatestAt(h, t) # 0 => /\ Aim!LatestAt(h, t) \in DOMAIN h
                                      /\ h[Aim!LatestAt(h, t)].at <= t
         /\ \A j \in DOMAIN h : h[j].at <= t => j <= Aim!LatestAt(h, t)
<1> DEFINE U == Aim!UpTo(h, t)
<1>1. DOMAIN h = 1..Len(h) /\ Len(h) \in Nat
  OBVIOUS
<1>2. U \subseteq 1..Len(h) /\ \A j \in DOMAIN h : j \in U <=> h[j].at <= t
  BY <1>1 DEF Aim!UpTo
<1>3. CASE U = {}
  <2>1. Aim!LatestAt(h, t) = 0
    BY <1>3 DEF Aim!LatestAt
  <2> QED
    BY <1>1, <1>2, <1>3, <2>1
<1>4. CASE U # {}
  <2>1. Aim!LatestAt(h, t) = Aim!Max(U)
    BY <1>4 DEF Aim!LatestAt
  <2>2. U \subseteq Int /\ \A x \in U : x <= Len(h)
    BY <1>1, <1>2
  <2> HIDE DEF U
  <2>3. Aim!Max(U) \in U /\ \A y \in U : y <= Aim!Max(U)
    <3>1. Len(h) \in Int
      BY <1>1
    <3> QED
      BY <1>4, <2>2, <3>1, MaxOf, Zenon
  <2>4. Aim!Max(U) \in 1..Len(h)
    BY <1>2, <2>3
  <2>5. \A j \in DOMAIN h : h[j].at <= t => j <= Aim!Max(U)
    BY <1>2, <2>3
  <2>6. Aim!Max(U) \in DOMAIN h /\ h[Aim!Max(U)].at <= t
    BY <1>1, <1>2, <2>3, <2>4
  <2>7. Aim!Max(U) # 0 /\ Aim!Max(U) \in 0..Len(h)
    BY <1>1, <2>4
  <2>8. U = Aim!UpTo(h, t)
    BY DEF U
  <2> QED
    BY <1>4, <2>1, <2>5, <2>6, <2>7, <2>8
<1> QED
  BY <1>3, <1>4

(* Nothing is used beyond its limit.                                       *)
LEMMA WithinLimit ==
  ASSUME NEW at \in Int, NEW t \in Nat, NEW own \in Nat, NEW fallback \in Nat,
         Aim!Age(at, t) <= Aim!FirstOf(own, fallback)
  PROVE  /\ own # 0 => t <= at + own
         /\ own = 0 => t <= at + fallback
BY DEF Aim!Age, Aim!FirstOf

(* The limit of an item comes before that of its source, and that before   *)
(* the default.                                                            *)
InItsLimit(e, t) ==
  /\ observed[e] \in 0..t
  /\ ItemSla[e] # 0 => t <= observed[e] + ItemSla[e]
  /\ ItemSla[e] = 0 /\ SourceSla[SourceOf[e]] # 0 => t <= observed[e] + SourceSla[SourceOf[e]]
  /\ ItemSla[e] = 0 /\ SourceSla[SourceOf[e]] = 0 => t <= observed[e] + DefaultSla

(* Only evidence within its limit is fresh.                                *)
LEMMA FreshIsRecent ==
  ASSUME Aim!TimelineAssumption, TimelineInv, NEW e \in Evidence, NEW t \in Aim!Times, Aim!Fresh(e, t)
  PROVE  InItsLimit(e, t)
<1> DEFINE fallback == Aim!FirstOf(SourceSla[SourceOf[e]], DefaultSla)
<1>1. /\ t \in Nat /\ observed[e] \in Nat /\ ItemSla[e] \in Nat
      /\ SourceSla[SourceOf[e]] \in Nat /\ DefaultSla \in Nat
  BY DEF TimelineInv, Aim!Undeclared, Aim!Times, Aim!TimelineAssumption
<1>2. observed[e] <= t /\ Aim!Age(observed[e], t) <= Aim!FirstOf(ItemSla[e], fallback)
  BY DEF Aim!Fresh
<1>3. /\ fallback \in Nat
      /\ SourceSla[SourceOf[e]] # 0 => fallback = SourceSla[SourceOf[e]]
      /\ SourceSla[SourceOf[e]] = 0 => fallback = DefaultSla
  BY <1>1 DEF Aim!FirstOf
<1> HIDE DEF fallback
<1>4. /\ ItemSla[e] # 0 => t <= observed[e] + ItemSla[e]
      /\ ItemSla[e] = 0 => t <= observed[e] + fallback
  BY <1>1, <1>2, <1>3, WithinLimit
<1>5. observed[e] \in 0..t
  BY <1>1, <1>2
<1> QED
  BY <1>3, <1>4, <1>5 DEF InItsLimit

(* A gate is satisfied only on evidence that is there and fresh, a         *)
(* satisfied result in force and a status source that is current.          *)
LEMMA SatisfiedGate ==
  ASSUME NEW t, Aim!Gate(t) = "satisfied"
  PROVE  /\ Aim!Required(t) # {} /\ \A e \in Aim!Required(t) : Aim!Fresh(e, t)
         /\ Aim!LatestAt(status, t) # 0 /\ ~source[status[Aim!LatestAt(status, t)].from].conflicting
         /\ ~Aim!Stale(status[Aim!LatestAt(status, t)].from, t)
         /\ Aim!LatestAt(result, t) # 0 /\ result[Aim!LatestAt(result, t)].state = "satisfied"
<1> DEFINE i == Aim!LatestAt(status, t)
           j == Aim!LatestAt(result, t)
           go == i # 0 /\ status[i].readiness = "go"
           need == Aim!Required(t)
<1>1. Aim!Gate(t) =
          IF i # 0 /\ source[status[i].from].conflicting THEN "source_conflict"
          ELSE IF i # 0 /\ Aim!Stale(status[i].from, t) THEN "source_stale"
          ELSE IF (go /\ need = {}) \/ \E e \in need : observed[e] > t THEN "evidence_missing"
          ELSE IF \E e \in need : ~Aim!Fresh(e, t) THEN "evidence_stale"
          ELSE IF Aim!UpTo(metric, t) = {} THEN "metrics_missing"
          ELSE IF j = 0 \/ result[j].state # "satisfied" THEN "criteria_unsatisfied"
          ELSE IF ~go THEN "not_applicable" ELSE "satisfied"
  BY DEF Aim!Gate
<1> HIDE DEF i, j, need
<1>2. ~(i # 0 /\ source[status[i].from].conflicting) /\ ~(i # 0 /\ Aim!Stale(status[i].from, t))
  BY <1>1
<1>3. ~(go /\ need = {}) /\ \A e \in need : Aim!Fresh(e, t)
  BY <1>1
<1>4. j # 0 /\ result[j].state = "satisfied"
  BY <1>1
<1>5. go
  BY <1>1
<1> QED
  BY <1>2, <1>3, <1>4, <1>5 DEF i, j, need

(* What is required is evidence.                                           *)
LEMMA RequiredIsEvidence ==
  ASSUME Aim!TimelineAssumption, TimelineInv, NEW t \in Int
  PROVE  Aim!Required(t) \subseteq Evidence
<1>1. PartRefs \cup CriterionRefs \subseteq Evidence
  BY DEF Aim!TimelineAssumption
<1>2. Aim!RefsInForce(status, t) \subseteq Evidence
  <2>1. status \in Seq(StatusRecord)
    BY DEF TimelineInv
  <2>2. Aim!LatestAt(status, t) # 0 => Aim!LatestAt(status, t) \in DOMAIN status
    BY <2>1, InForce
  <2>3. \A i \in DOMAIN status : status[i] \in StatusRecord
    BY <2>1
  <2> QED
    BY <2>2, <2>3 DEF Aim!RefsInForce, StatusRecord
<1>3. Aim!RefsInForce(result, t) \subseteq Evidence
  <2>1. result \in Seq(ResultRecord)
    BY DEF TimelineInv
  <2>2. Aim!LatestAt(result, t) # 0 => Aim!LatestAt(result, t) \in DOMAIN result
    BY <2>1, InForce
  <2>3. \A i \in DOMAIN result : result[i] \in ResultRecord
    BY <2>1
  <2> QED
    BY <2>2, <2>3 DEF Aim!RefsInForce, ResultRecord
<1> QED
  BY <1>1, <1>2, <1>3 DEF Aim!Required

(* A part is confirmed green only while the evidence it names and that of  *)
(* its criterion is within its limit (its own, else that of its source,    *)
(* else the default), on a satisfied criterion not withdrawn since, and    *)
(* under a status in force whose source is neither conflicting nor too     *)
(* old, whatever was appended to the histories and in which order.         *)
(* (evaluatePartEvidence, isEvidenceFresh, deriveVisualState.)             *)
THEOREM GreenPartsAreCurrent == Aim!TimelineAssumption => (Aim!Spec => []Aim!GreenIsCurrent)
<1> SUFFICES ASSUME Aim!TimelineAssumption PROVE Aim!Spec => []Aim!GreenIsCurrent
  OBVIOUS
<1>1. TimelineInv => Aim!GreenIsCurrent
  <2> SUFFICES ASSUME TimelineInv, NEW t \in Aim!Times, Aim!Treatment(t) = "green_confirmation"
               PROVE  /\ \E e \in Evidence : observed[e] \in 0..t
                      /\ \A e \in PartRefs \cup CriterionRefs : InItsLimit(e, t)
                      /\ \E i \in DOMAIN result :
                           /\ result[i].at <= t /\ result[i].state = "satisfied"
                           /\ \A j \in DOMAIN result : j > i => result[j].at > t
                      /\ \E i \in DOMAIN status :
                           /\ status[i].at <= t /\ \A j \in DOMAIN status : j > i => status[j].at > t
                           /\ ~source[status[i].from].conflicting
                           /\ SourceSla[status[i].from] # 0 =>
                                t <= source[status[i].from].at + SourceSla[status[i].from]
                           /\ SourceSla[status[i].from] = 0 =>
                                t <= source[status[i].from].at + DefaultSla
    BY DEF Aim!GreenIsCurrent, InItsLimit
  <2>1. Aim!Gate(t) = "satisfied" /\ t \in Nat /\ t \in Int
    BY DEF Aim!Treatment, Aim!Times
  <2>2. Aim!Required(t) # {} /\ \A e \in Aim!Required(t) : e \in Evidence /\ Aim!Fresh(e, t)
    BY <2>1, SatisfiedGate, RequiredIsEvidence
  <2>3. \A e \in Aim!Required(t) : InItsLimit(e, t)
    BY <2>2, FreshIsRecent
  <2>4. PartRefs \cup CriterionRefs \subseteq Aim!Required(t)
    BY DEF Aim!Required
  <2>5. \E i \in DOMAIN result :
          /\ result[i].at <= t /\ result[i].state = "satisfied"
          /\ \A j \in DOMAIN result : j > i => result[j].at > t
    <3> DEFINE i == Aim!LatestAt(result, t)
    <3>1. result \in Seq(ResultRecord)
      BY DEF TimelineInv
    <3>2. i # 0 /\ result[i].state = "satisfied"
      BY <2>1, SatisfiedGate
    <3>3. i \in DOMAIN result /\ result[i].at <= t /\ i \in Int
          /\ \A j \in DOMAIN result : result[j].at <= t => j <= i
      BY <2>1, <3>1, <3>2, InForce
    <3>4. \A j \in DOMAIN result : j \in Int /\ result[j].at \in Int
      <4>1. \A j \in DOMAIN result : j \in Int /\ result[j] \in ResultRecord
        BY <3>1
      <4> QED
        BY <4>1 DEF ResultRecord, Aim!Times
    <3> HIDE DEF i
    <3>5. \A j \in DOMAIN result : j > i => result[j].at > t
      BY <2>1, <3>3, <3>4
    <3> QED
      BY <3>2, <3>3, <3>5
  <2>6. \E i \in DOMAIN status :
          /\ status[i].at <= t /\ \A j \in DOMAIN status : j > i => status[j].at > t
          /\ ~source[status[i].from].conflicting
          /\ SourceSla[status[i].from] # 0 => t <= source[status[i].from].at + SourceSla[status[i].from]
          /\ SourceSla[status[i].from] = 0 => t <= source[status[i].from].at + DefaultSla
    <3> DEFINE i == Aim!LatestAt(status, t)
    <3>1. status \in Seq(StatusRecord)
      BY DEF TimelineInv
    <3>2. i # 0 /\ ~source[status[i].from].conflicting /\ ~Aim!Stale(status[i].from, t)
      BY <2>1, SatisfiedGate
    <3>3. i \in DOMAIN status /\ status[i].at <= t /\ i \in Int
          /\ \A j \in DOMAIN status : status[j].at <= t => j <= i
      BY <2>1, <3>1, <3>2, InForce
    <3>4. \A j \in DOMAIN status : j \in Int /\ status[j].at \in Int /\ status[j].from \in Sources
      <4>1. \A j \in DOMAIN status : j \in Int /\ status[j] \in StatusRecord
        BY <3>1
      <4> QED
        BY <4>1 DEF StatusRecord, Aim!Times
    <3> HIDE DEF i
    <3>5. \A j \in DOMAIN status : j > i => status[j].at > t
      BY <2>1, <3>3, <3>4
    <3>6. PICK s \in Sources : s = status[i].from
      BY <3>3, <3>4
    <3>7. source[s].at \in Int /\ SourceSla[s] \in Nat /\ DefaultSla \in Nat
      BY DEF TimelineInv, Aim!TimelineAssumption
    <3>8. Aim!Age(source[s].at, t) <= Aim!FirstOf(SourceSla[s], DefaultSla)
      <4>1. Aim!Age(source[s].at, t) \in Int /\ Aim!FirstOf(SourceSla[s], DefaultSla) \in Int
        BY <2>1, <3>7 DEF Aim!Age, Aim!FirstOf
      <4> QED
        BY <3>2, <3>6, <4>1 DEF Aim!Stale
    <3>9. /\ SourceSla[s] # 0 => t <= source[s].at + SourceSla[s]
          /\ SourceSla[s] = 0 => t <= source[s].at + DefaultSla
      BY <2>1, <3>7, <3>8, WithinLimit
    <3> QED
      BY <3>2, <3>3, <3>5, <3>6, <3>9
  <2>7. \E e \in Evidence : observed[e] \in 0..t
    BY <2>2, <2>3 DEF InItsLimit
  <2>8. \A e \in PartRefs \cup CriterionRefs : InItsLimit(e, t)
    BY <2>3, <2>4
  <2> QED
    BY <2>5, <2>6, <2>7, <2>8
<1>2. Aim!Spec => []TimelineInv
  BY HistoriesRise
<1> QED
  BY <1>1, <1>2, PTL

-----------------------------------------------------------------------------
(* A record of a later date leaves the past as it is.                      *)

(* Two histories with the same records up to t.                            *)
SamePast(h, k, t) == Aim!UpTo(k, t) = Aim!UpTo(h, t) /\ \A i \in Aim!UpTo(h, t) : k[i] = h[i]

(* Evidence changes only from one time after t to another.                 *)
SameEvidence(t) == \A e \in Evidence : observed'[e] = observed[e] \/ (observed[e] > t /\ observed'[e] > t)

LEMMA LaterKeepsPast ==
  ASSUME NEW S, NEW h \in Seq(S), NEW r \in S, r.at \in Int, NEW t \in Int, r.at > t
  PROVE  SamePast(h, Append(h, r), t)
<1>1. DOMAIN h = 1..Len(h) /\ Len(h) \in Nat /\ DOMAIN Append(h, r) = 1..(Len(h) + 1)
  OBVIOUS
<1>2. \A i \in 1..Len(h) : Append(h, r)[i] = h[i]
  OBVIOUS
<1>3. Append(h, r)[Len(h) + 1] = r
  OBVIOUS
<1> QED
  BY <1>1, <1>2, <1>3 DEF SamePast, Aim!UpTo

(* So the record in force is the same.                                     *)
LEMMA SameInForce ==
  ASSUME NEW S, NEW h \in Seq(S), NEW k, NEW t \in Int, SamePast(h, k, t)
  PROVE  /\ Aim!LatestAt(k, t) = Aim!LatestAt(h, t)
         /\ Aim!LatestAt(h, t) # 0 => k[Aim!LatestAt(h, t)] = h[Aim!LatestAt(h, t)]
<1>1. Aim!LatestAt(k, t) = Aim!LatestAt(h, t)
  BY DEF SamePast, Aim!LatestAt
<1>2. Aim!LatestAt(h, t) # 0 => Aim!LatestAt(h, t) \in Aim!UpTo(h, t)
  BY InForce DEF Aim!UpTo
<1> QED
  BY <1>1, <1>2 DEF SamePast

(* What is shown at t depends on nothing else.                             *)
LEMMA SameView ==
  ASSUME Aim!TimelineAssumption, TimelineInv, NEW t \in Aim!Times,
         SamePast(status, status', t), SamePast(result, result', t), SamePast(metric, metric', t),
         SameEvidence(t), source' = source,
         \A e \in Evidence : observed'[e] \in 0..Aim!Undeclared
  PROVE  Aim!View(t)' = Aim!View(t)
<1> DEFINE i == Aim!LatestAt(status, t)
           j == Aim!LatestAt(result, t)
<1>1. t \in Int /\ t \in 0..MaxTime /\ MaxTime \in Nat
  BY DEF Aim!Times, Aim!TimelineAssumption
<1>2. /\ Aim!LatestAt(status', t) = i
      /\ i # 0 => status'[i] = status[i]
  BY <1>1, SameInForce DEF TimelineInv
<1>3. /\ Aim!LatestAt(result', t) = j
      /\ j # 0 => result'[j] = result[j]
  BY <1>1, SameInForce DEF TimelineInv
<1>4. Aim!LatestAt(metric', t) = Aim!LatestAt(metric, t) /\ Aim!UpTo(metric', t) = Aim!UpTo(metric, t)
  BY <1>1, SameInForce DEF TimelineInv, SamePast
<1>5. \A e \in Evidence : observed[e] \in Int /\ observed'[e] \in Int
  BY DEF TimelineInv, Aim!Undeclared, Aim!TimelineAssumption
<1>6. \A e \in Evidence : (observed'[e] > t) <=> (observed[e] > t)
  BY <1>1, <1>5 DEF SameEvidence
<1>7. \A e \in Evidence : Aim!Fresh(e, t)' <=> Aim!Fresh(e, t)
  BY <1>1, <1>5 DEF SameEvidence, Aim!Fresh
<1>8. \A s : Aim!Stale(s, t)' <=> Aim!Stale(s, t)
  BY DEF Aim!Stale
<1>9. Aim!Required(t)' = Aim!Required(t) /\ Aim!Required(t) \subseteq Evidence
  <2>1. Aim!RefsInForce(status', t) = Aim!RefsInForce(status, t)
    BY <1>2 DEF Aim!RefsInForce
  <2>2. Aim!RefsInForce(result', t) = Aim!RefsInForce(result, t)
    BY <1>3 DEF Aim!RefsInForce
  <2> QED
    BY <1>1, <2>1, <2>2, RequiredIsEvidence DEF Aim!Required
<1>10. Aim!Gate(t)' = Aim!Gate(t)
  <2> DEFINE need == Aim!Required(t)
  <2>1. (i # 0 => /\ status'[i].readiness = status[i].readiness
                  /\ status'[i].from = status[i].from)
        /\ (j # 0 => result'[j].state = result[j].state)
    BY <1>2, <1>3
  <2>2. /\ (\E e \in need : observed'[e] > t) <=> (\E e \in need : observed[e] > t)
        /\ (\E e \in need : ~Aim!Fresh(e, t)') <=> (\E e \in need : ~Aim!Fresh(e, t))
    BY <1>6, <1>7, <1>9
  <2> HIDE DEF i, j, need
  <2> QED
    BY <1>2, <1>3, <1>4, <1>8, <1>9, <2>1, <2>2 DEF Aim!Gate, i, j, need
<1>11. Aim!Treatment(t)' = Aim!Treatment(t) /\ Aim!Lifecycle(t)' = Aim!Lifecycle(t)
  BY <1>2, <1>10 DEF Aim!Treatment, Aim!Lifecycle
<1>12. Aim!Certified(t)' = Aim!Certified(t)
  <2>1. AgentRefs \subseteq Evidence
    BY DEF Aim!TimelineAssumption
  <2>2. \A e \in Evidence : Aim!Fresh(e, t) => observed[e] # Aim!Undeclared /\ observed'[e] # Aim!Undeclared
    BY <1>1, <1>5, <1>7 DEF Aim!Fresh, Aim!Undeclared
  <2> QED
    BY <1>7, <2>1, <2>2 DEF Aim!Certified, Aim!Undeclared
<1>13. Aim!WorkstreamShown(t)' = Aim!WorkstreamShown(t)
  BY <1>8 DEF Aim!WorkstreamShown
<1>14. {e \in Evidence : Aim!Fresh(e, t)}' = {e \in Evidence : Aim!Fresh(e, t)}
  BY <1>7
<1> QED
  BY <1>3, <1>4, <1>10, <1>11, <1>12, <1>13, <1>14 DEF Aim!View

(* A record shows at its own date, where there was none.                   *)
LEMMA RecordShows ==
  ASSUME NEW S, NEW h \in Seq(S), NEW r \in S, r.at \in Int, Aim!Later(h, r.at),
         \A j \in DOMAIN h : h[j].at \in Int
  PROVE  Aim!At(Append(h, r), r.at) # Aim!At(h, r.at)
<1>1. Len(h) + 1 \in DOMAIN Append(h, r) /\ Append(h, r)[Len(h) + 1] = r
  OBVIOUS
<1>2. r \in Aim!At(Append(h, r), r.at)
  BY <1>1 DEF Aim!At
<1>3. Aim!At(h, r.at) = {}
  BY DEF Aim!At, Aim!Later
<1> QED
  BY <1>2, <1>3

(* The dates of the histories.                                             *)
LEMMA Dates ==
  ASSUME TimelineInv
  PROVE  /\ \A i \in DOMAIN status : status[i].at \in Int
         /\ \A i \in DOMAIN result : result[i].at \in Int
         /\ \A i \in DOMAIN metric : metric[i].at \in Int
<1>1. /\ \A i \in DOMAIN status : status[i] \in StatusRecord
      /\ \A i \in DOMAIN result : result[i] \in ResultRecord
      /\ \A i \in DOMAIN metric : metric[i] \in MetricRecord
  BY DEF TimelineInv
<1>2. Aim!Times \subseteq Int
  BY DEF Aim!Times
<1> QED
  BY <1>1, <1>2 DEF StatusRecord, ResultRecord, MetricRecord

(* A step that adds nothing of a date up to t leaves the view at t.        *)
LEMMA EditKeepsView ==
  ASSUME Aim!TimelineAssumption, TimelineInv, TimelineInv', Aim!Next, NEW t \in Aim!Times,
         \A d \in 0..t : Aim!Dated(d)' = Aim!Dated(d)
  PROVE  Aim!View(t)' = Aim!View(t)
<1>1. \A d \in 0..t : /\ Aim!At(status', d) = Aim!At(status, d)
                      /\ Aim!At(result', d) = Aim!At(result, d)
                      /\ Aim!At(metric', d) = Aim!At(metric, d)
                      /\ {e \in Evidence : observed'[e] = d} = {e \in Evidence : observed[e] = d}
  BY DEF Aim!Dated
<1>2. t \in Int /\ Aim!Times \subseteq Nat /\ t < Aim!Undeclared /\ Aim!Undeclared \in Nat
  BY DEF Aim!Times, Aim!Undeclared, Aim!TimelineAssumption
<1>3. \A e \in Evidence : observed'[e] \in 0..Aim!Undeclared
  BY DEF TimelineInv, Aim!Undeclared
<1>4. SamePast(status, status, t) /\ SamePast(result, result, t) /\ SamePast(metric, metric, t)
  BY DEF SamePast
<1>5. observed' = observed => SameEvidence(t)
  BY DEF SameEvidence
<1>6. ASSUME NEW d \in Aim!Times, NEW e \in Evidence, Aim!AddEvidence(e, d) PROVE Aim!View(t)' = Aim!View(t)
  <2>1. /\ observed[e] = Aim!Undeclared /\ observed' = [observed EXCEPT ![e] = d]
        /\ UNCHANGED <<source, status, result, metric>>
    BY <1>6 DEF Aim!AddEvidence
  <2>2. observed'[e] = d /\ \A x \in Evidence : x # e => observed'[x] = observed[x]
    BY <2>1 DEF TimelineInv
  <2>3. d > t
    <3> SUFFICES ASSUME ~(d > t) PROVE FALSE
      OBVIOUS
    <3>1. d \in 0..t
      BY <1>2
    <3>2. e \in {x \in Evidence : observed'[x] = d}
      BY <2>2
    <3>3. observed[e] = d
      BY <1>1, <3>1, <3>2
    <3> QED
      BY <1>2, <2>1, <3>1, <3>3
  <2>4. SameEvidence(t)
    BY <1>2, <2>1, <2>2, <2>3 DEF SameEvidence
  <2> QED
    BY <1>3, <1>4, <2>1, <2>4, SameView
<1>7. ASSUME NEW d \in Aim!Times, NEW l \in Stages, NEW ready \in {"conditional", "go"},
             NEW refs \in Refs, NEW s \in Sources, Aim!AddStatus(d, l, ready, refs, s)
      PROVE  Aim!View(t)' = Aim!View(t)
  <2> DEFINE r == [at |-> d, lifecycle |-> l, readiness |-> ready, refs |-> refs, from |-> s]
  <2>1. /\ status' = Append(status, r) /\ Aim!Later(status, d)
        /\ UNCHANGED <<observed, source, result, metric>>
    BY <1>7 DEF Aim!AddStatus
  <2>2. r \in StatusRecord /\ r.at = d /\ d \in Int
    BY <1>2 DEF StatusRecord, Aim!TimelineAssumption
  <2>3. status \in Seq(StatusRecord)
    BY DEF TimelineInv
  <2> HIDE DEF r
  <2>4. Aim!At(status', d) # Aim!At(status, d)
    BY <2>1, <2>2, <2>3, RecordShows, Dates
  <2>5. d > t
    BY <1>1, <1>2, <2>4
  <2>6. SamePast(status, status', t)
    BY <1>2, <2>1, <2>2, <2>3, <2>5, LaterKeepsPast
  <2> QED
    BY <1>3, <1>4, <1>5, <2>1, <2>6, SameView
<1>8. ASSUME NEW d \in Aim!Times, NEW state \in {"unsatisfied", "satisfied"}, NEW refs \in Refs,
             Aim!AddResult(d, state, refs)
      PROVE  Aim!View(t)' = Aim!View(t)
  <2> DEFINE r == [at |-> d, state |-> state, refs |-> refs]
  <2>1. /\ result' = Append(result, r) /\ Aim!Later(result, d)
        /\ UNCHANGED <<observed, source, status, metric>>
    BY <1>8 DEF Aim!AddResult
  <2>2. r \in ResultRecord /\ r.at = d /\ d \in Int
    BY <1>2 DEF ResultRecord, Aim!TimelineAssumption
  <2>3. result \in Seq(ResultRecord)
    BY DEF TimelineInv
  <2> HIDE DEF r
  <2>4. Aim!At(result', d) # Aim!At(result, d)
    BY <2>1, <2>2, <2>3, RecordShows, Dates
  <2>5. d > t
    BY <1>1, <1>2, <2>4
  <2>6. SamePast(result, result', t)
    BY <1>2, <2>1, <2>2, <2>3, <2>5, LaterKeepsPast
  <2> QED
    BY <1>3, <1>4, <1>5, <2>1, <2>6, SameView
<1>9. ASSUME NEW d \in Aim!Times, Aim!AddObservation(d) PROVE Aim!View(t)' = Aim!View(t)
  <2> DEFINE r == [at |-> d]
  <2>1. /\ metric' = Append(metric, r) /\ Aim!Later(metric, d)
        /\ UNCHANGED <<observed, source, status, result>>
    BY <1>9 DEF Aim!AddObservation
  <2>2. r \in MetricRecord /\ r.at = d /\ d \in Int
    BY <1>2 DEF MetricRecord
  <2>3. metric \in Seq(MetricRecord)
    BY DEF TimelineInv
  <2> HIDE DEF r
  <2>4. Aim!At(metric', d) # Aim!At(metric, d)
    BY <2>1, <2>2, <2>3, RecordShows, Dates
  <2>5. d > t
    BY <1>1, <1>2, <2>4
  <2>6. SamePast(metric, metric', t)
    BY <1>2, <2>1, <2>2, <2>3, <2>5, LaterKeepsPast
  <2> QED
    BY <1>3, <1>4, <1>5, <2>1, <2>6, SameView
<1> QED
  BY <1>6, <1>7, <1>8, <1>9 DEF Aim!Next

(* A record changes nothing that is shown for a time before its own date,  *)
(* in every part of the view except the interpolated progress.  (stateAt,  *)
(* latestAt, isEvidenceFresh, evaluatePartEvidence.)                       *)
THEOREM TheShownPastStays ==
  Aim!TimelineAssumption => (Aim!Spec => [][Aim!HistoryIsStable]_(Aim!vars))
<1> SUFFICES ASSUME Aim!TimelineAssumption PROVE Aim!Spec => [][Aim!HistoryIsStable]_(Aim!vars)
  OBVIOUS
<1>1. TimelineInv /\ TimelineInv' /\ [Aim!Next]_(Aim!vars) => [Aim!HistoryIsStable]_(Aim!vars)
  BY EditKeepsView DEF Aim!HistoryIsStable
<1>2. Aim!Spec => []TimelineInv
  BY HistoriesRise
<1>3. Aim!Spec => [][Aim!Next]_(Aim!vars)
  BY DEF Aim!Spec
<1> QED
  BY <1>1, <1>2, <1>3, PTL

-----------------------------------------------------------------------------
(* Progress.                                                               *)

(* A quotient of naturals grows with what is divided.                      *)
LEMMA QuotientGrows ==
  ASSUME NEW a \in Nat, NEW b \in Nat, a <= b, NEW d \in Nat \ {0}
  PROVE  a \div d \in Nat /\ b \div d \in Nat /\ a \div d <= b \div d
OBVIOUS

(* Sixty parts of a whole are sixty.                                       *)
LEMMA WholeIsSixty ==
  ASSUME NEW d \in Nat \ {0}
  PROVE  (60 * d) \div d = 60
OBVIOUS

(* How far the record in force has come at t: between none and sixty       *)
(* parts, and further at a later time as long as it is in force.           *)
LEMMA FractionGrows ==
  ASSUME Aim!TimelineAssumption, TimelineInv, NEW i \in DOMAIN status,
         NEW s \in Int, NEW t \in Int, status[i].at <= s, s <= t,
         i < Len(status) => t <= status[i + 1].at
  PROVE  /\ Aim!Fraction(i, s) \in 0..60
         /\ Aim!Fraction(i, t) \in 0..60
         /\ Aim!Fraction(i, s) <= Aim!Fraction(i, t)
<1>1. DOMAIN status = 1..Len(status) /\ Len(status) \in Nat /\ i \in 1..Len(status)
  BY DEF TimelineInv
<1>2. CASE i = Len(status)
  BY <1>2 DEF Aim!Fraction
<1>3. CASE i < Len(status)
  <2>1. i + 1 \in DOMAIN status /\ i < i + 1
    BY <1>1, <1>3
  <2> DEFINE a == s - status[i].at
             b == t - status[i].at
             d == status[i + 1].at - status[i].at
  <2>2. status[i].at \in Int /\ status[i + 1].at \in Int /\ status[i].at < status[i + 1].at
    BY <2>1, Dates DEF TimelineInv, Rising
  <2>3. a \in Nat /\ b \in Nat /\ d \in Nat \ {0} /\ a <= b /\ b <= d
    <3>1. \A u, w \in Int : u <= s /\ s <= t /\ t <= w /\ u < w =>
            s - u \in Nat /\ t - u \in Nat /\ w - u \in Nat \ {0} /\ s - u <= t - u /\ t - u <= w - u
      OBVIOUS
    <3> QED
      BY <1>3, <2>2, <3>1
  <2>4. Aim!Fraction(i, s) = (60 * a) \div d /\ Aim!Fraction(i, t) = (60 * b) \div d
    BY <1>1, <1>3 DEF Aim!Fraction
  <2> HIDE DEF a, b, d
  <2>5. 60 * a \in Nat /\ 60 * b \in Nat /\ 60 * d \in Nat /\ 60 * a <= 60 * b /\ 60 * b <= 60 * d
    BY <2>3
  <2>6. (60 * a) \div d \in Nat /\ (60 * b) \div d \in Nat /\ (60 * a) \div d <= (60 * b) \div d
    BY <2>3, <2>5, QuotientGrows
  <2>7. (60 * b) \div d <= 60
    BY <2>3, <2>5, QuotientGrows, WholeIsSixty
  <2> DEFINE x == (60 * a) \div d
             y == (60 * b) \div d
  <2>8. x \in Nat /\ y \in Nat /\ x <= y /\ y <= 60 /\ Aim!Fraction(i, s) = x /\ Aim!Fraction(i, t) = y
    BY <2>4, <2>6, <2>7
  <2> HIDE DEF x, y
  <2> QED
    BY <2>8
<1> QED
  BY <1>1, <1>2, <1>3

(* Progress by stage and share: a later stage is never behind.             *)
Share(l, f) ==
  IF l = 1 THEN 0 ELSE IF l \in {4, 5} THEN 240 ELSE IF l = 2 THEN 3 * f ELSE 180 + f

LEMMA ShareGrows ==
  ASSUME NEW l \in 1..5, NEW m \in 1..5, NEW f, NEW g,
         l # 1 => f \in 0..60, m # 1 => g \in 0..60,
         l = 1 \/ l < m \/ (l = m /\ f <= g)
  PROVE  Share(l, f) <= Share(m, g)
<1>1. CASE l = 1
  BY <1>1 DEF Share
<1>2. CASE l # 1 /\ l = m
  BY <1>2 DEF Share
<1>3. CASE l # 1 /\ l < m
  <2>1. m # 1 /\ f \in 0..60 /\ g \in 0..60
    BY <1>3
  <2>2. CASE l = 2
    BY <1>3, <2>1, <2>2 DEF Share
  <2>3. CASE l # 2
    BY <1>3, <2>1, <2>3 DEF Share
  <2> QED
    BY <2>2, <2>3
<1> QED
  BY <1>1, <1>2, <1>3

(* While every record moves the part to a later stage its progress never   *)
(* falls back as time goes on, at stage changes and between them: at most  *)
(* one record comes into force from one date to the next, since the dates  *)
(* rise.  (lifecycleProgress.)                                             *)
THEOREM ProgressOnlyGrows == Aim!TimelineAssumption => (Aim!Spec => []Aim!ProgressNeverFallsBack)
<1> SUFFICES ASSUME Aim!TimelineAssumption PROVE Aim!Spec => []Aim!ProgressNeverFallsBack
  OBVIOUS
<1>1. TimelineInv => Aim!ProgressNeverFallsBack
  <2> SUFFICES ASSUME TimelineInv, NEW t \in 1..MaxTime,
                      \A n \in 2..Len(status) : status[n].lifecycle > status[n - 1].lifecycle
               PROVE  Aim!Progress(t - 1) <= Aim!Progress(t)
    BY DEF Aim!ProgressNeverFallsBack
  <2> DEFINE s == t - 1
             i == Aim!LatestAt(status, s)
             k == Aim!LatestAt(status, t)
  <2>1. s \in Int /\ t \in Int /\ s = t - 1
    BY DEF Aim!TimelineAssumption
  <2>2. Len(status) \in Nat /\ DOMAIN status = 1..Len(status) /\ status \in Seq(StatusRecord)
    BY DEF TimelineInv
  <2>3. \A n \in 1..Len(status) : status[n].at \in Int /\ status[n].lifecycle \in 1..5
    <3>1. \A n \in 1..Len(status) : status[n] \in StatusRecord
      BY <2>2
    <3> QED
      BY <2>2, <3>1, Dates DEF StatusRecord, Aim!TimelineAssumption
  <2>4. /\ i \in 0..Len(status) /\ (i # 0 => status[i].at <= s)
        /\ \A n \in 1..Len(status) : status[n].at <= s => n <= i
    BY <2>1, <2>2, InForce
  <2>5. /\ k \in 0..Len(status) /\ (k # 0 => status[k].at <= t)
        /\ \A n \in 1..Len(status) : status[n].at <= t => n <= k
    BY <2>1, <2>2, InForce
  <2>6. /\ Aim!Lifecycle(s) = (IF i = 0 THEN 1 ELSE status[i].lifecycle)
        /\ Aim!Lifecycle(t) = (IF k = 0 THEN 1 ELSE status[k].lifecycle)
    BY DEF Aim!Lifecycle
  <2>7. /\ Aim!Progress(s) = Share(Aim!Lifecycle(s), Aim!Fraction(i, s))
        /\ Aim!Progress(t) = Share(Aim!Lifecycle(t), Aim!Fraction(k, t))
    BY DEF Aim!Progress, Share
  <2> HIDE DEF s, i, k
  <2>8. \A m, n \in 1..Len(status) : m < n => status[m].at < status[n].at
    BY <2>2 DEF TimelineInv, Rising
  <2>9. i <= k
    <3>1. CASE i = 0
      BY <2>5, <3>1
    <3>2. CASE i # 0
      <4>1. i \in 1..Len(status) /\ status[i].at <= s
        BY <2>2, <2>4, <3>2
      <4>2. status[i].at <= t
        BY <2>1, <2>3, <4>1
      <4> QED
        BY <2>5, <4>1, <4>2
    <3> QED
      BY <3>1, <3>2
  <2>10. k = i \/ k = i + 1
    <3> SUFFICES ASSUME i + 1 < k PROVE FALSE
      BY <2>2, <2>4, <2>5, <2>9
    <3>1. i + 1 \in 1..Len(status) /\ k \in 1..Len(status)
      BY <2>2, <2>4, <2>5
    <3>2. status[i + 1].at < status[k].at /\ status[k].at <= t
      BY <2>5, <2>8, <3>1
    <3>3. status[i + 1].at \in Int /\ status[k].at \in Int
      BY <2>3, <3>1
    <3>4. status[i + 1].at <= s
      BY <2>1, <3>2, <3>3
    <3>5. i + 1 <= i
      BY <2>4, <3>1, <3>4
    <3> QED
      BY <2>2, <2>4, <3>5
  <2>11. ASSUME NEW n \in {i, k}, n # 0, NEW x \in {s, t}, status[n].at <= x, n = i => (x = s \/ k = i)
         PROVE  n \in DOMAIN status /\ (n < Len(status) => x <= status[n + 1].at)
    <3>1. n \in DOMAIN status /\ n \in Nat
      BY <2>2, <2>4, <2>5, <2>11
    <3>2. ASSUME n < Len(status) PROVE x <= status[n + 1].at
      <4>1. n + 1 \in 1..Len(status) /\ status[n + 1].at \in Int
        BY <2>2, <2>3, <3>1, <3>2
      <4>2. CASE n = k
        <5>1. ~(status[n + 1].at <= t)
          BY <2>5, <3>1, <4>1, <4>2
        <5> QED
          BY <2>1, <2>11, <4>1, <5>1
      <4>3. CASE n = i /\ x = s
        <5>1. ~(status[n + 1].at <= s)
          BY <2>4, <3>1, <4>1, <4>3
        <5> QED
          BY <2>1, <4>1, <4>3, <5>1
      <4> QED
        BY <2>11, <4>2, <4>3
    <3> QED
      BY <3>1, <3>2
  <2>12. i # 0 => Aim!Fraction(i, s) \in 0..60
    <3> SUFFICES ASSUME i # 0 PROVE Aim!Fraction(i, s) \in 0..60
      OBVIOUS
    <3>1. i \in DOMAIN status /\ status[i].at <= s /\ (i < Len(status) => s <= status[i + 1].at) /\ s <= s
      BY <2>1, <2>4, <2>11
    <3> QED
      BY <2>1, <3>1, FractionGrows
  <2>13. k # 0 => Aim!Fraction(k, t) \in 0..60
    <3> SUFFICES ASSUME k # 0 PROVE Aim!Fraction(k, t) \in 0..60
      OBVIOUS
    <3>1. k = i => t = s \/ k = i
      OBVIOUS
    <3>2. k \in DOMAIN status /\ status[k].at <= t /\ (k < Len(status) => t <= status[k + 1].at) /\ t <= t
      BY <2>1, <2>5, <2>11, <3>1
    <3> QED
      BY <2>1, <3>2, FractionGrows
  <2>14. i # 0 /\ k = i => Aim!Fraction(i, s) <= Aim!Fraction(k, t)
    <3> SUFFICES ASSUME i # 0, k = i PROVE Aim!Fraction(i, s) <= Aim!Fraction(i, t)
      OBVIOUS
    <3>1. status[i].at <= s /\ status[i].at <= t /\ s <= t
      BY <2>1, <2>4, <2>5
    <3>2. i \in DOMAIN status /\ (i < Len(status) => t <= status[i + 1].at)
      BY <2>11, <3>1
    <3> QED
      BY <2>1, <3>1, <3>2, FractionGrows
  <2>15. i # 0 /\ k = i + 1 => status[i].lifecycle < status[k].lifecycle
    <3> SUFFICES ASSUME i # 0, k = i + 1 PROVE status[i].lifecycle < status[k].lifecycle
      OBVIOUS
    <3>1. k \in 2..Len(status) /\ k - 1 = i /\ i \in 1..Len(status) /\ k \in 1..Len(status)
      BY <2>2, <2>4, <2>5
    <3>2. status[k].lifecycle > status[k - 1].lifecycle
      BY <3>1
    <3> QED
      BY <2>3, <3>1, <3>2
  <2>16. Aim!Lifecycle(s) \in 1..5 /\ Aim!Lifecycle(t) \in 1..5
    <3>1. (i # 0 => i \in 1..Len(status)) /\ (k # 0 => k \in 1..Len(status))
      BY <2>2, <2>4, <2>5
    <3> QED
      BY <2>3, <2>6, <3>1
  <2>17. /\ Aim!Lifecycle(s) # 1 => Aim!Fraction(i, s) \in 0..60
         /\ Aim!Lifecycle(t) # 1 => Aim!Fraction(k, t) \in 0..60
    BY <2>6, <2>12, <2>13
  <2>18. \/ Aim!Lifecycle(s) = 1
         \/ Aim!Lifecycle(s) < Aim!Lifecycle(t)
         \/ Aim!Lifecycle(s) = Aim!Lifecycle(t) /\ Aim!Fraction(i, s) <= Aim!Fraction(k, t)
    <3>1. CASE i = 0
      BY <2>6, <3>1
    <3>2. CASE i # 0 /\ k = i
      BY <2>6, <2>14, <3>2
    <3>3. CASE i # 0 /\ k = i + 1
      <4>1. k # 0
        BY <2>4, <3>3
      <4> QED
        BY <2>6, <2>15, <3>3, <4>1
    <3> QED
      BY <2>10, <3>1, <3>2, <3>3
  <2>19. Aim!Progress(s) <= Aim!Progress(t)
    BY <2>7, <2>16, <2>17, <2>18, ShareGrows
  <2> QED
    BY <2>19 DEF s
<1>2. Aim!Spec => []TimelineInv
  BY HistoriesRise
<1> QED
  BY <1>1, <1>2, PTL

-----------------------------------------------------------------------------
(* The search for cycles of dependencies (DependencyCheck).                *)

Clean == issues = {} /\ answer # "cycle"

(* The dependency that the visit in progress asked about.                  *)
Asked == IF stack = <<>> THEN next ELSE deps[Check!Top[1]][Check!Top[2] + 1]

SearchTyped ==
  /\ deps \in [Check!Ids -> Seq(Check!Ids)]
  /\ next \in 1..(N + 1)
  /\ stack \in Seq(Check!Ids \X Nat)
  /\ answer \in {"none", "cycle", "valid"}
  /\ visited \subseteq Check!Ids /\ issues \subseteq Check!Ids

(* The calls in progress are a path of the graph that starts at the        *)
(* capability of the outer loop; nothing on it is visited yet.             *)
CallsArePath ==
  /\ visiting = {stack[k][1] : k \in 1..Len(stack)}
  /\ visiting \cap visited = {}
  /\ \A j, k \in 1..Len(stack) : j # k => stack[j][1] # stack[k][1]
  /\ \A k \in 1..(Len(stack) - 1) :
       /\ stack[k][2] + 1 \in DOMAIN deps[stack[k][1]]
       /\ deps[stack[k][1]][stack[k][2] + 1] = stack[k + 1][1]
  /\ \A k \in 1..Len(stack) : stack[k][2] <= Len(deps[stack[k][1]])
  /\ stack # <<>> => stack[1][1] = next
  /\ stack # <<>> \/ answer # "none" => next \in Check!Ids
  /\ stack # <<>> /\ answer # "none" => Check!Top[2] + 1 \in DOMAIN deps[Check!Top[1]]

(* While no cycle was met what is visited depends on visited capabilities  *)
(* only and has no cycle.                                                  *)
VisitedIsAcyclic ==
  Clean =>
    /\ \A i \in visited : \A k \in DOMAIN deps[i] : deps[i][k] \in visited
    /\ \A C \in SUBSET visited : C # {} => \E i \in C : \A k \in DOMAIN deps[i] : deps[i][k] \notin C
    /\ \A k \in 1..Len(stack) : \A m \in 1..stack[k][2] : deps[stack[k][1]][m] \in visited
    /\ answer = "valid" => Asked \in visited
    /\ \A i \in 1..(next - 1) : i \in visited

SearchInv == SearchTyped /\ CallsArePath /\ VisitedIsAcyclic /\ (~Clean => Check!HasCycle)

LEMMA SearchInit == Check!NAssumption /\ Check!Init => SearchInv
<1> SUFFICES ASSUME Check!NAssumption, Check!Init PROVE SearchInv
  OBVIOUS
<1>1. /\ next = 1 /\ stack = <<>> /\ visiting = {} /\ visited = {} /\ answer = "none" /\ issues = {}
      /\ deps \in [Check!Ids -> Check!Lists]
  BY DEF Check!Init
<1>2. Check!Lists \subseteq Seq(Check!Ids)
  BY DEF Check!Lists
<1>3. SearchTyped
  BY <1>1, <1>2 DEF SearchTyped, Check!NAssumption
<1>4. CallsArePath
  BY <1>1 DEF CallsArePath
<1>5. VisitedIsAcyclic
  BY <1>1 DEF VisitedIsAcyclic
<1>6. Clean
  BY <1>1 DEF Clean
<1> QED
  BY <1>3, <1>4, <1>5, <1>6 DEF SearchInv

(* The last call in progress.                                              *)
LEMMA TopIs ==
  ASSUME Check!NAssumption, SearchInv, stack # <<>>
  PROVE  /\ Len(stack) \in Nat \ {0} /\ Check!Top = stack[Len(stack)]
         /\ Check!Top[1] \in Check!Ids /\ Check!Top[2] \in Nat
         /\ Check!Top[2] <= Len(deps[Check!Top[1]])
         /\ Check!Top[1] \in visiting
         /\ deps[Check!Top[1]] \in Seq(Check!Ids)
         /\ Check!Ids \subseteq Nat
<1>1. stack \in Seq(Check!Ids \X Nat)
  BY DEF SearchInv, SearchTyped
<1>2. Len(stack) \in Nat \ {0}
  BY <1>1
<1>3. stack[Len(stack)] \in Check!Ids \X Nat
  BY <1>1, <1>2
<1>4. Check!Top = stack[Len(stack)]
  BY DEF Check!Top
<1>5. /\ stack[Len(stack)][2] <= Len(deps[stack[Len(stack)][1]])
      /\ stack[Len(stack)][1] \in visiting
  BY <1>2 DEF SearchInv, CallsArePath
<1>6. Check!Ids \subseteq Nat
  BY DEF Check!Ids
<1>7. deps[stack[Len(stack)][1]] \in Seq(Check!Ids)
  BY <1>3 DEF SearchInv, SearchTyped
<1> QED
  BY <1>2, <1>3, <1>4, <1>5, <1>6, <1>7

(* visit(id) for the capability asked about: a cycle is reported only when *)
(* the calls in progress close one.                                        *)
LEMMA EnterKeeps ==
  ASSUME Check!NAssumption, SearchInv, answer = "none", NEW id \in Check!Ids, Check!Enter(id),
         stack = <<>> => id = next,
         stack # <<>> => /\ Check!Top[2] + 1 \in DOMAIN deps[Check!Top[1]]
                         /\ id = deps[Check!Top[1]][Check!Top[2] + 1],
         UNCHANGED <<deps, next, visited, issues>>
  PROVE  SearchInv'
<1> USE DEF Check!Ids
<1>1. SearchTyped /\ CallsArePath /\ VisitedIsAcyclic
  BY DEF SearchInv
<1>2. CASE id \in visiting
  <2>1. answer' = "cycle" /\ UNCHANGED <<stack, visiting>>
    BY <1>2 DEF Check!Enter
  <2>2. PICK j \in 1..Len(stack) : stack[j][1] = id
    BY <1>1, <1>2 DEF CallsArePath
  <2>3. stack \in Seq(Check!Ids \X Nat) /\ Len(stack) \in Nat /\ stack # <<>> /\ j \in Nat
    BY <1>1, <2>2 DEF SearchTyped
  <2> DEFINE C == {stack[k][1] : k \in j..Len(stack)}
  <2>4. C \in SUBSET Check!Ids /\ id \in C
    <3>1. \A k \in j..Len(stack) : k \in 1..Len(stack) /\ stack[k][1] \in Check!Ids
      BY <2>3
    <3> QED
      BY <2>2, <2>3, <3>1
  <2>5. \A i \in C : \E m \in DOMAIN deps[i] : deps[i][m] \in C
    <3> SUFFICES ASSUME NEW k \in j..Len(stack)
                 PROVE  \E m \in DOMAIN deps[stack[k][1]] : deps[stack[k][1]][m] \in C
      OBVIOUS
    <3>1. k \in 1..Len(stack) /\ k \in Nat
      BY <2>3
    <3>2. CASE k < Len(stack)
      <4>1. k \in 1..(Len(stack) - 1) /\ k + 1 \in j..Len(stack)
        BY <2>3, <3>1, <3>2
      <4>2. stack[k][2] + 1 \in DOMAIN deps[stack[k][1]] /\ deps[stack[k][1]][stack[k][2] + 1] = stack[k + 1][1]
        BY <1>1, <4>1 DEF CallsArePath
      <4>3. stack[k + 1][1] \in C
        BY <4>1
      <4> QED
        BY <4>2, <4>3
    <3>3. CASE k = Len(stack)
      <4>1. Check!Top = stack[k]
        BY <3>3 DEF Check!Top
      <4> QED
        BY <2>3, <2>4, <4>1
    <3> QED
      BY <2>3, <3>1, <3>2, <3>3
  <2>6. Check!HasCycle
    <3> HIDE DEF C
    <3> QED
      BY <2>4, <2>5 DEF Check!HasCycle
  <2>7. Check!HasCycle'
    BY <2>6 DEF Check!HasCycle
  <2>8. ~Clean'
    BY <2>1 DEF Clean
  <2>9. SearchTyped'
    BY <1>1, <2>1 DEF SearchTyped
  <2>10. CallsArePath'
    BY <1>1, <2>1, <2>3 DEF CallsArePath, Check!Top
  <2> QED
    BY <2>7, <2>8, <2>9, <2>10 DEF SearchInv, VisitedIsAcyclic
<1>3. CASE id \notin visiting /\ id \in visited
  <2>1. answer' = "valid" /\ UNCHANGED <<stack, visiting>>
    BY <1>3 DEF Check!Enter
  <2>2. SearchTyped'
    BY <1>1, <2>1 DEF SearchTyped
  <2>3. CallsArePath'
    BY <1>1, <2>1 DEF CallsArePath, Check!Top
  <2>4. Clean' = Clean
    BY <2>1 DEF Clean
  <2>5. Asked' = id
    BY <2>1 DEF Asked, Check!Top
  <2>6. VisitedIsAcyclic'
    BY <1>1, <1>3, <2>1, <2>4, <2>5 DEF VisitedIsAcyclic
  <2>7. ~Clean' => Check!HasCycle'
    BY <2>4 DEF SearchInv, Check!HasCycle
  <2> QED
    BY <2>2, <2>3, <2>6, <2>7 DEF SearchInv
<1>4. CASE id \notin visiting /\ id \notin visited
  <2>1. stack' = Append(stack, <<id, 0>>) /\ visiting' = visiting \cup {id} /\ answer' = "none"
    BY <1>4 DEF Check!Enter
  <2>2. stack \in Seq(Check!Ids \X Nat) /\ Len(stack) \in Nat /\ deps \in [Check!Ids -> Seq(Check!Ids)]
    BY <1>1 DEF SearchTyped
  <2>3. /\ stack' \in Seq(Check!Ids \X Nat) /\ Len(stack') = Len(stack) + 1
        /\ \A k \in 1..Len(stack) : stack'[k] = stack[k]
        /\ stack'[Len(stack) + 1] = <<id, 0>>
        /\ stack'[Len(stack) + 1][1] = id /\ stack'[Len(stack) + 1][2] = 0
        /\ stack' # <<>>
    BY <2>1, <2>2
  <2>4. SearchTyped'
    BY <1>1, <2>1, <2>3 DEF SearchTyped
  <2>5. \A k \in 1..Len(stack') : k \in 1..Len(stack) \/ k = Len(stack) + 1
    BY <2>2, <2>3
  <2>6. visiting' = {stack'[k][1] : k \in 1..Len(stack')}
    <3>1. \A k \in 1..Len(stack') : stack'[k][1] \in visiting'
      BY <1>1, <2>1, <2>3, <2>5 DEF CallsArePath
    <3>2. Len(stack) + 1 \in 1..Len(stack') /\ 1..Len(stack) \subseteq 1..Len(stack')
      BY <2>2, <2>3
    <3>3. \A i \in visiting' : \E k \in 1..Len(stack') : stack'[k][1] = i
      BY <1>1, <2>1, <2>3, <3>2 DEF CallsArePath
    <3> QED
      BY <3>1, <3>3
  <2>7. \A j, k \in 1..Len(stack') : j # k => stack'[j][1] # stack'[k][1]
    <3>1. \A j \in 1..Len(stack) : stack'[j][1] \in visiting
      BY <1>1, <2>3 DEF CallsArePath
    <3>2. \A j, k \in 1..Len(stack) : j # k => stack'[j][1] # stack'[k][1]
      <4>1. \A j, k \in 1..Len(stack) : j # k => stack[j][1] # stack[k][1]
        BY <1>1 DEF CallsArePath
      <4> QED
        BY <2>3, <4>1
    <3>3. \A j \in 1..Len(stack) : stack'[j][1] # stack'[Len(stack) + 1][1]
      BY <1>4, <2>3, <3>1
    <3> QED
      BY <2>5, <3>2, <3>3
  <2>8. ASSUME NEW k \in 1..(Len(stack') - 1)
        PROVE  /\ stack'[k][2] + 1 \in DOMAIN deps[stack'[k][1]]
               /\ deps[stack'[k][1]][stack'[k][2] + 1] = stack'[k + 1][1]
    <3>1. k \in 1..Len(stack) /\ stack'[k] = stack[k]
      BY <2>2, <2>3
    <3>2. CASE k < Len(stack)
      <4>1. k \in 1..(Len(stack) - 1) /\ k + 1 \in 1..Len(stack)
        BY <2>2, <3>1, <3>2
      <4>2. stack'[k + 1] = stack[k + 1]
        BY <2>3, <4>1
      <4> QED
        BY <1>1, <3>1, <4>1, <4>2 DEF CallsArePath
    <3>3. CASE k = Len(stack)
      <4>1. stack # <<>> /\ Check!Top = stack[k]
        BY <2>2, <3>1, <3>3 DEF Check!Top
      <4>2. stack'[k + 1] = <<id, 0>>
        BY <2>3, <3>3
      <4> QED
        BY <3>1, <4>1, <4>2
    <3> QED
      BY <2>2, <3>1, <3>2, <3>3
  <2>9. \A k \in 1..Len(stack') : stack'[k][2] <= Len(deps[stack'[k][1]])
    <3>1. stack'[Len(stack) + 1][2] <= Len(deps[stack'[Len(stack) + 1][1]])
      BY <2>2, <2>3
    <3>2. \A k \in 1..Len(stack) : stack'[k][2] <= Len(deps[stack'[k][1]])
      BY <1>1, <2>3 DEF CallsArePath
    <3> QED
      BY <2>5, <3>1, <3>2
  <2>10. stack'[1][1] = next /\ next \in Check!Ids
    <3>1. CASE stack = <<>>
      <4>1. Len(stack) + 1 = 1 /\ id = next
        BY <3>1
      <4> QED
        BY <2>3, <4>1
    <3>2. CASE stack # <<>>
      <4>1. 1 \in 1..Len(stack)
        BY <2>2, <3>2
      <4>2. stack'[1] = stack[1]
        BY <2>3, <4>1
      <4> QED
        BY <1>1, <3>2, <4>2 DEF CallsArePath
    <3> QED
      BY <3>1, <3>2
  <2>11. visiting' \cap visited = {}
    BY <1>1, <1>4, <2>1 DEF CallsArePath
  <2>12. CallsArePath'
    BY <2>1, <2>6, <2>7, <2>8, <2>9, <2>10, <2>11 DEF CallsArePath
  <2>13. Clean' = Clean
    BY <2>1 DEF Clean
  <2>14. VisitedIsAcyclic'
    <3> SUFFICES ASSUME Clean
                 PROVE  \A k \in 1..Len(stack') : \A m \in 1..stack'[k][2] : deps[stack'[k][1]][m] \in visited
      BY <1>1, <2>1, <2>13 DEF VisitedIsAcyclic
    <3>1. \A k \in 1..Len(stack) : \A m \in 1..stack'[k][2] : deps[stack'[k][1]][m] \in visited
      BY <1>1, <2>3 DEF VisitedIsAcyclic
    <3>2. \A m \in 1..stack'[Len(stack) + 1][2] : FALSE
      BY <2>3
    <3> QED
      BY <2>5, <3>1, <3>2
  <2>15. ~Clean' => Check!HasCycle'
    BY <2>13 DEF SearchInv, Check!HasCycle
  <2> QED
    BY <2>4, <2>12, <2>14, <2>15 DEF SearchInv
<1> QED
  BY <1>2, <1>3, <1>4

(* A visit that returns.                                                   *)
LEMMA ReturnKeeps ==
  ASSUME Check!NAssumption, SearchInv, stack # <<>>, NEW r \in {"cycle", "valid"}, Check!Return(r),
         \/ r = "cycle" /\ answer = "cycle"
         \/ r = "valid" /\ answer = "none" /\ Check!Top[2] = Len(deps[Check!Top[1]])
  PROVE  SearchInv'
<1> DEFINE n == Len(stack)
           x == Check!Top[1]
<1>1. SearchTyped /\ CallsArePath /\ VisitedIsAcyclic /\ (~Clean => Check!HasCycle)
  BY DEF SearchInv
<1>2. /\ n \in Nat \ {0} /\ x = stack[n][1] /\ x \in Check!Ids /\ x \in visiting
      /\ deps[x] \in Seq(Check!Ids) /\ Check!Ids \subseteq Nat /\ Check!Top = stack[n]
  BY TopIs
<1>3. /\ visiting' = visiting \ {x} /\ visited' = visited \cup {x}
      /\ stack' = SubSeq(stack, 1, n - 1) /\ answer' = r
      /\ UNCHANGED <<deps, next, issues>>
  BY DEF Check!Return, Check!Front
<1>4. stack \in Seq(Check!Ids \X Nat) /\ deps \in [Check!Ids -> Seq(Check!Ids)]
  BY <1>1 DEF SearchTyped
<1>5. /\ stack' \in Seq(Check!Ids \X Nat) /\ Len(stack') = n - 1
      /\ \A k \in 1..(n - 1) : stack'[k] = stack[k]
      /\ (stack' # <<>>) <=> (n > 1)
  <2>1. n - 1 \in Nat /\ n - 1 <= n
    BY <1>2
  <2>2. \A k \in 1..(n - 1) : k \in 1..n /\ stack[k] \in Check!Ids \X Nat
    BY <1>2, <1>4
  <2>3. stack' = [k \in 1..(n - 1) |-> stack[k]]
    BY <1>2, <1>3, <1>4
  <2>4. stack' \in Seq(Check!Ids \X Nat) /\ Len(stack') = n - 1
    BY <2>1, <2>2, <2>3
  <2>5. \A k \in 1..(n - 1) : stack'[k] = stack[k]
    BY <2>3
  <2>6. (stack' # <<>>) <=> (n > 1)
    BY <1>2, <2>4
  <2> QED
    BY <2>4, <2>5, <2>6
<1>6. \A k \in 1..(n - 1) : k \in 1..n /\ k # n
  BY <1>2
<1> HIDE DEF n, x
<1>7. SearchTyped'
  <2>1. visited' \subseteq Check!Ids /\ issues' \subseteq Check!Ids
    BY <1>1, <1>2, <1>3 DEF SearchTyped
  <2>2. deps' \in [Check!Ids -> Seq(Check!Ids)] /\ next' \in 1..(N + 1)
    BY <1>1, <1>3 DEF SearchTyped
  <2>3. answer' \in {"none", "cycle", "valid"}
    BY <1>3
  <2>4. stack' \in Seq(Check!Ids \X Nat)
    BY <1>5
  <2> QED
    BY <2>1, <2>2, <2>3, <2>4 DEF SearchTyped
<1>8. visiting' = {stack'[k][1] : k \in 1..Len(stack')}
  <2>0. /\ visiting = {stack[k][1] : k \in 1..n}
        /\ \A j, k \in 1..n : j # k => stack[j][1] # stack[k][1]
    BY <1>1 DEF CallsArePath, n
  <2>1. \A k \in 1..(n - 1) : stack[k][1] # x
    BY <1>2, <1>6, <2>0
  <2>2. \A k \in 1..(n - 1) : stack'[k][1] \in visiting'
    BY <1>3, <1>5, <1>6, <2>0, <2>1
  <2>3. \A i \in visiting' : \E k \in 1..(n - 1) : stack'[k][1] = i
    <3> TAKE i \in visiting'
    <3>1. PICK k \in 1..n : stack[k][1] = i
      BY <1>1, <1>3 DEF CallsArePath, n
    <3>2. k # n
      BY <1>2, <1>3, <3>1
    <3>3. k \in 1..(n - 1)
      BY <1>2, <3>1, <3>2
    <3> QED
      BY <1>5, <3>1, <3>3
  <2> QED
    BY <1>5, <2>2, <2>3
<1>9. visiting' \cap visited' = {}
  BY <1>1, <1>3 DEF CallsArePath
<1>10. \A j, k \in 1..Len(stack') : j # k => stack'[j][1] # stack'[k][1]
  <2>1. \A j, k \in 1..n : j # k => stack[j][1] # stack[k][1]
    BY <1>1 DEF CallsArePath, n
  <2> QED
    BY <1>5, <1>6, <2>1
<1>11. ASSUME NEW k \in 1..(Len(stack') - 1)
       PROVE  /\ stack'[k][2] + 1 \in DOMAIN deps[stack'[k][1]]
              /\ deps[stack'[k][1]][stack'[k][2] + 1] = stack'[k + 1][1]
  <2>1. k \in 1..(n - 1) /\ k + 1 \in 1..(n - 1)
    BY <1>2, <1>5
  <2>2. stack'[k] = stack[k] /\ stack'[k + 1] = stack[k + 1]
    BY <1>5, <2>1
  <2> QED
    BY <1>1, <2>1, <2>2 DEF CallsArePath, n
<1>12. \A k \in 1..Len(stack') : stack'[k][2] <= Len(deps[stack'[k][1]])
  BY <1>1, <1>5, <1>6 DEF CallsArePath, n
<1>13. next \in Check!Ids /\ stack[1][1] = next
  BY <1>1 DEF CallsArePath
<1>14. n > 1 => stack'[1][1] = next
  <2>1. n > 1 => 1 \in 1..(n - 1)
    BY <1>2
  <2> QED
    BY <1>5, <1>13, <2>1
<1>15. n > 1 => /\ Check!Top' = stack[n - 1]
                /\ stack[n - 1][2] + 1 \in DOMAIN deps[stack[n - 1][1]]
                /\ deps[stack[n - 1][1]][stack[n - 1][2] + 1] = x
  <2> SUFFICES ASSUME n > 1
               PROVE  /\ Check!Top' = stack[n - 1]
                      /\ stack[n - 1][2] + 1 \in DOMAIN deps[stack[n - 1][1]]
                      /\ deps[stack[n - 1][1]][stack[n - 1][2] + 1] = x
    OBVIOUS
  <2>1. n - 1 \in 1..(n - 1) /\ n - 1 + 1 = n
    BY <1>2
  <2>2. Check!Top' = stack[n - 1]
    BY <1>5, <2>1 DEF Check!Top
  <2>3. /\ stack[n - 1][2] + 1 \in DOMAIN deps[stack[n - 1][1]]
        /\ deps[stack[n - 1][1]][stack[n - 1][2] + 1] = stack[n - 1 + 1][1]
    BY <1>1, <2>1 DEF CallsArePath, n
  <2> QED
    BY <1>2, <2>1, <2>2, <2>3
<1>16. CallsArePath'
  BY <1>3, <1>5, <1>8, <1>9, <1>10, <1>11, <1>12, <1>13, <1>14, <1>15 DEF CallsArePath
<1>17. Asked' = x
  <2>1. CASE n > 1
    BY <1>3, <1>5, <1>15, <2>1 DEF Asked
  <2>2. CASE ~(n > 1)
    <3>1. n = 1 /\ stack' = <<>>
      BY <1>2, <1>5, <2>2
    <3> QED
      BY <1>2, <1>3, <1>13, <3>1 DEF Asked
  <2> QED
    BY <2>1, <2>2
<1>18. Clean' => Clean /\ r = "valid" /\ answer = "none"
  BY <1>3 DEF Clean
<1>19. VisitedIsAcyclic'
  <2> SUFFICES ASSUME Clean'
               PROVE  /\ \A i \in visited' : \A k \in DOMAIN deps[i] : deps[i][k] \in visited'
                      /\ \A C \in SUBSET visited' : C # {} => \E i \in C : \A k \in DOMAIN deps[i] : deps[i][k] \notin C
                      /\ \A k \in 1..Len(stack') : \A m \in 1..stack'[k][2] : deps[stack'[k][1]][m] \in visited'
                      /\ Asked' \in visited'
                      /\ \A i \in 1..(next - 1) : i \in visited'
    BY <1>3 DEF VisitedIsAcyclic
  <2>1. /\ \A i \in visited : \A k \in DOMAIN deps[i] : deps[i][k] \in visited
        /\ \A C \in SUBSET visited : C # {} => \E i \in C : \A k \in DOMAIN deps[i] : deps[i][k] \notin C
        /\ \A k \in 1..n : \A m \in 1..stack[k][2] : deps[stack[k][1]][m] \in visited
        /\ \A i \in 1..(next - 1) : i \in visited
    BY <1>1, <1>18 DEF VisitedIsAcyclic, n
  <2>2. \A k \in DOMAIN deps[x] : deps[x][k] \in visited
    <3>1. stack[n][2] = Len(deps[stack[n][1]]) /\ n \in 1..n /\ DOMAIN deps[x] = 1..Len(deps[x])
      BY <1>2, <1>18
    <3> QED
      BY <1>2, <2>1, <3>1
  <2>3. x \notin visited
    BY <1>1, <1>2 DEF CallsArePath
  <2>4. ASSUME NEW C \in SUBSET visited', C # {}
        PROVE  \E i \in C : \A k \in DOMAIN deps[i] : deps[i][k] \notin C
    <3>1. CASE C \ {x} = {}
      <4>1. x \in C /\ \A k \in DOMAIN deps[x] : deps[x][k] \notin C
        BY <2>2, <2>3, <2>4, <3>1
      <4> QED
        BY <4>1
    <3>2. CASE C \ {x} # {}
      <4>1. C \ {x} \in SUBSET visited
        BY <1>3
      <4>2. PICK i \in C \ {x} : \A k \in DOMAIN deps[i] : deps[i][k] \notin C \ {x}
        BY <2>1, <3>2, <4>1
      <4>3. \A k \in DOMAIN deps[i] : deps[i][k] # x
        BY <2>1, <2>3, <4>1, <4>2
      <4> QED
        BY <4>2, <4>3
    <3> QED
      BY <3>1, <3>2
  <2>5. \A k \in 1..Len(stack') : \A m \in 1..stack'[k][2] : deps[stack'[k][1]][m] \in visited'
    BY <1>3, <1>5, <1>6, <2>1
  <2> QED
    BY <1>3, <1>17, <2>1, <2>2, <2>4, <2>5
<1>20. ~Clean' => Check!HasCycle'
  <2>1. ~Clean' => ~Clean
    BY <1>3 DEF Clean
  <2> QED
    BY <1>1, <1>3, <2>1 DEF Check!HasCycle, Check!Ids
<1> QED
  BY <1>7, <1>16, <1>19, <1>20 DEF SearchInv

(* Back in the caller after a visit without a cycle.                       *)
LEMMA AdvanceKeeps ==
  ASSUME Check!NAssumption, SearchInv, Check!Advance
  PROVE  SearchInv'
<1> DEFINE n == Len(stack)
<1>1. SearchTyped /\ CallsArePath /\ VisitedIsAcyclic /\ (~Clean => Check!HasCycle)
  BY DEF SearchInv
<1>2. /\ stack # <<>> /\ answer = "valid" /\ answer' = "none"
      /\ stack' = [stack EXCEPT ![n] = <<Check!Top[1], Check!Top[2] + 1>>]
      /\ UNCHANGED <<deps, next, visiting, visited, issues>>
  BY DEF Check!Advance
<1>3. /\ n \in Nat \ {0} /\ Check!Top = stack[n]
      /\ stack[n][1] \in Check!Ids /\ stack[n][2] \in Nat
      /\ deps[stack[n][1]] \in Seq(Check!Ids)
  BY <1>2, TopIs
<1>4. stack \in Seq(Check!Ids \X Nat) /\ DOMAIN stack = 1..n
  BY <1>1 DEF SearchTyped
<1>6. /\ Len(stack') = n /\ stack' \in Seq(Check!Ids \X Nat)
      /\ \A k \in 1..n : stack'[k][1] = stack[k][1]
      /\ \A k \in 1..n : k # n => stack'[k] = stack[k]
      /\ stack'[n][2] = stack[n][2] + 1
      /\ stack' # <<>>
  <2>1. n \in 1..n
    BY <1>3
  <2>2. stack' = [stack EXCEPT ![n] = <<stack[n][1], stack[n][2] + 1>>]
    BY <1>2, <1>3
  <2>3. <<stack[n][1], stack[n][2] + 1>> \in Check!Ids \X Nat
    BY <1>3
  <2>4. /\ Len(stack') = n /\ stack' \in Seq(Check!Ids \X Nat)
        /\ \A k \in 1..n : k # n => stack'[k] = stack[k]
        /\ stack'[n] = <<stack[n][1], stack[n][2] + 1>>
    BY <1>4, <2>1, <2>2, <2>3
  <2>5. \A k \in 1..n : stack'[k][1] = stack[k][1]
    BY <2>4
  <2>6. stack' # <<>>
    BY <1>3, <2>4
  <2> QED
    BY <2>4, <2>5, <2>6
<1> HIDE DEF n
<1>7. SearchTyped'
  BY <1>1, <1>2, <1>6 DEF SearchTyped
<1>8. stack[n][2] + 1 \in DOMAIN deps[stack[n][1]]
  BY <1>1, <1>2, <1>3 DEF CallsArePath
<1>9. \A k \in 1..n : stack'[k][2] <= Len(deps[stack'[k][1]])
  <2>1. stack[n][2] + 1 <= Len(deps[stack[n][1]])
    BY <1>3, <1>8
  <2>2. \A k \in 1..n : stack[k][2] <= Len(deps[stack[k][1]])
    BY <1>1 DEF CallsArePath, n
  <2>3. stack'[n][2] <= Len(deps[stack'[n][1]])
    BY <1>3, <1>6, <2>1
  <2>4. ASSUME NEW k \in 1..n, k # n PROVE stack'[k][2] <= Len(deps[stack'[k][1]])
    BY <1>6, <2>2, <2>4
  <2> QED
    BY <2>3, <2>4
<1>10. ASSUME NEW k \in 1..(n - 1)
       PROVE  /\ stack'[k][2] + 1 \in DOMAIN deps[stack'[k][1]]
              /\ deps[stack'[k][1]][stack'[k][2] + 1] = stack'[k + 1][1]
  <2>1. k \in 1..n /\ k # n /\ k + 1 \in 1..n
    BY <1>3
  <2> QED
    BY <1>1, <1>6, <2>1 DEF CallsArePath, n
<1>11. stack'[1][1] = next /\ next \in Check!Ids
  <2>1. 1 \in 1..n
    BY <1>3
  <2> QED
    BY <1>1, <1>2, <1>6, <2>1 DEF CallsArePath
<1>12. visiting' = {stack'[k][1] : k \in 1..Len(stack')}
  <2>1. \A k \in 1..n : stack'[k][1] \in visiting
    BY <1>1, <1>6 DEF CallsArePath, n
  <2>2. \A i \in visiting : \E k \in 1..n : stack'[k][1] = i
    BY <1>1, <1>6 DEF CallsArePath, n
  <2> QED
    BY <1>2, <1>6, <2>1, <2>2
<1>13. \A j, k \in 1..Len(stack') : j # k => stack'[j][1] # stack'[k][1]
  BY <1>1, <1>6 DEF CallsArePath, n
<1>14. CallsArePath'
  BY <1>1, <1>2, <1>6, <1>9, <1>10, <1>11, <1>12, <1>13 DEF CallsArePath
<1>15. Clean' = Clean
  BY <1>2 DEF Clean
<1>16. VisitedIsAcyclic'
  <2> SUFFICES ASSUME Clean, NEW k \in 1..n, NEW m \in 1..stack'[k][2]
               PROVE  deps[stack'[k][1]][m] \in visited
    <3>1. Len(stack') = n /\ answer' = "none" /\ UNCHANGED <<deps, next, visited>>
      BY <1>2, <1>6
    <3> QED
      BY <1>1, <1>15, <3>1 DEF VisitedIsAcyclic
  <2>1. CASE k # n
    BY <1>1, <1>6, <2>1 DEF VisitedIsAcyclic, n
  <2>2. CASE k = n /\ m \in 1..stack[n][2]
    BY <1>1, <1>6, <2>2 DEF VisitedIsAcyclic, n
  <2>3. CASE k = n /\ m = stack[n][2] + 1
    <3>1. Asked \in visited /\ Asked = deps[stack[n][1]][stack[n][2] + 1]
      BY <1>1, <1>2, <1>3 DEF VisitedIsAcyclic, Asked
    <3> QED
      BY <1>6, <2>3, <3>1
  <2> QED
    BY <1>3, <1>6, <2>1, <2>2, <2>3
<1>17. ~Clean' => Check!HasCycle'
  BY <1>1, <1>2, <1>15 DEF Check!HasCycle, Check!Ids
<1> QED
  BY <1>7, <1>14, <1>16, <1>17 DEF SearchInv

LEMMA SearchNext ==
  ASSUME Check!NAssumption, SearchInv, [Check!Next]_(Check!vars)
  PROVE  SearchInv'
<1>1. SearchTyped /\ CallsArePath /\ VisitedIsAcyclic /\ (~Clean => Check!HasCycle)
  BY DEF SearchInv
<1>2. CASE Check!Root
  <2>1. /\ stack = <<>> /\ answer = "none" /\ next <= N /\ Check!Enter(next)
        /\ UNCHANGED <<deps, next, visited, issues>>
    BY <1>2 DEF Check!Root
  <2>2. next \in Check!Ids
    BY <1>1, <2>1 DEF SearchTyped, Check!Ids, Check!NAssumption
  <2> QED
    BY <2>1, <2>2, EnterKeeps
<1>3. CASE Check!Descend
  <2>1. /\ stack # <<>> /\ answer = "none" /\ Check!Top[2] < Len(deps[Check!Top[1]])
        /\ Check!Enter(deps[Check!Top[1]][Check!Top[2] + 1])
        /\ UNCHANGED <<deps, next, visited, issues>>
    BY <1>3 DEF Check!Descend
  <2>2. Check!Top[2] \in Nat /\ deps[Check!Top[1]] \in Seq(Check!Ids)
    BY <2>1, TopIs
  <2>3. Check!Top[2] + 1 \in DOMAIN deps[Check!Top[1]]
    BY <2>1, <2>2
  <2>4. deps[Check!Top[1]][Check!Top[2] + 1] \in Check!Ids
    BY <2>2, <2>3
  <2> QED
    BY <2>1, <2>3, <2>4, EnterKeeps
<1>4. CASE Check!AllDone
  <2>1. /\ stack # <<>> /\ answer = "none" /\ Check!Top[2] = Len(deps[Check!Top[1]])
        /\ Check!Return("valid")
    BY <1>4 DEF Check!AllDone
  <2> QED
    BY <2>1, ReturnKeeps
<1>5. CASE Check!ShortCircuit
  <2>1. stack # <<>> /\ answer = "cycle" /\ Check!Return("cycle")
    BY <1>5 DEF Check!ShortCircuit
  <2> QED
    BY <2>1, ReturnKeeps
<1>6. CASE Check!Advance
  BY <1>6, AdvanceKeeps
<1>7. CASE Check!Report
  <2>1. /\ stack = <<>> /\ answer # "none" /\ next' = next + 1 /\ answer' = "none"
        /\ issues' = issues \cup (IF answer = "cycle" THEN {next} ELSE {})
        /\ UNCHANGED <<deps, stack, visiting, visited>>
    BY <1>7 DEF Check!Report
  <2>2. next \in Check!Ids /\ next + 1 \in 1..(N + 1) /\ next \in Nat
    BY <1>1, <2>1 DEF SearchTyped, CallsArePath, Check!Ids, Check!NAssumption
  <2>3. SearchTyped'
    BY <1>1, <2>1, <2>2 DEF SearchTyped, Check!Ids
  <2>4. CallsArePath'
    BY <1>1, <2>1 DEF CallsArePath
  <2>5. Clean' = Clean
    <3>1. CASE answer = "cycle"
      BY <2>1, <3>1 DEF Clean
    <3>2. CASE answer # "cycle"
      BY <2>1, <3>2 DEF Clean
    <3> QED
      BY <3>1, <3>2
  <2>6. Clean => next \in visited
    BY <1>1, <2>1 DEF SearchTyped, VisitedIsAcyclic, Clean, Asked
  <2>7. VisitedIsAcyclic'
    <3>1. answer' # "valid"
      BY <2>1
    <3>2. Clean => \A i \in 1..(next' - 1) : i \in visited
      <4>1. Clean => \A i \in 1..(next - 1) : i \in visited
        BY <1>1 DEF VisitedIsAcyclic
      <4>2. \A i \in 1..(next' - 1) : i \in 1..(next - 1) \/ i = next
        BY <2>1, <2>2
      <4> QED
        BY <2>6, <4>1, <4>2
    <3>3. Clean => \A k \in 1..Len(stack) : \A m \in 1..stack[k][2] : deps[stack[k][1]][m] \in visited
      BY <1>1 DEF VisitedIsAcyclic
    <3> QED
      BY <1>1, <2>1, <2>5, <3>1, <3>2, <3>3 DEF VisitedIsAcyclic
  <2>8. ~Clean' => Check!HasCycle'
    BY <1>1, <2>1, <2>5 DEF Check!HasCycle, Check!Ids
  <2> QED
    BY <2>3, <2>4, <2>7, <2>8 DEF SearchInv
<1>8. CASE UNCHANGED Check!vars
  <2>1. UNCHANGED <<deps, next, stack, visiting, visited, answer, issues>>
    BY <1>8 DEF Check!vars
  <2>2. SearchTyped' /\ CallsArePath'
    BY <1>1, <2>1 DEF SearchTyped, CallsArePath, Check!Top
  <2>3. Clean' = Clean /\ Asked' = Asked
    BY <2>1 DEF Clean, Asked, Check!Top
  <2>4. VisitedIsAcyclic'
    BY <1>1, <2>1, <2>3 DEF VisitedIsAcyclic
  <2>5. ~Clean' => Check!HasCycle'
    BY <1>1, <2>1, <2>3 DEF Check!HasCycle, Check!Ids
  <2> QED
    BY <2>2, <2>4, <2>5 DEF SearchInv
<1> QED
  BY <1>2, <1>3, <1>4, <1>5, <1>6, <1>7, <1>8 DEF Check!Next

(* The search reports something exactly when the dependencies have a       *)
(* cycle, for any number of capabilities, in whatever order dependencies   *)
(* are listed, although it stops a capability at its first bad dependency  *)
(* and never visits one twice.  (requireAcyclicDependencies.)              *)
THEOREM CyclesAreFound == Check!NAssumption => (Check!Spec => []Check!FindsCycles)
<1> SUFFICES ASSUME Check!NAssumption PROVE Check!Spec => []Check!FindsCycles
  OBVIOUS
<1>1. Check!Init => SearchInv
  BY SearchInit
<1>2. SearchInv /\ [Check!Next]_(Check!vars) => SearchInv'
  BY SearchNext
<1>3. SearchInv => Check!FindsCycles
  <2> SUFFICES ASSUME SearchInv, next = N + 1 PROVE issues # {} <=> Check!HasCycle
    BY DEF Check!FindsCycles, Check!Done
  <2>1. next \notin Check!Ids
    BY DEF Check!Ids, Check!NAssumption
  <2>2. answer = "none"
    BY <2>1 DEF SearchInv, CallsArePath
  <2>3. issues # {} => Check!HasCycle
    BY DEF SearchInv, Clean
  <2>4. issues = {} => ~Check!HasCycle
    <3> SUFFICES ASSUME issues = {} PROVE ~Check!HasCycle
      OBVIOUS
    <3>1. Clean
      BY <2>2 DEF Clean
    <3>2. Check!Ids \subseteq visited
      <4>1. \A i \in 1..(next - 1) : i \in visited
        BY <3>1 DEF SearchInv, VisitedIsAcyclic
      <4>2. next - 1 = N
        BY DEF Check!NAssumption
      <4> QED
        BY <4>1, <4>2 DEF Check!Ids
    <3>3. \A C \in SUBSET visited : C # {} => \E i \in C : \A k \in DOMAIN deps[i] : deps[i][k] \notin C
      BY <3>1 DEF SearchInv, VisitedIsAcyclic
    <3> QED
      BY <3>2, <3>3 DEF Check!HasCycle
  <2> QED
    BY <2>3, <2>4
<1> QED
  BY <1>1, <1>2, <1>3, PTL DEF Check!Spec

-----------------------------------------------------------------------------
(* The order of roadmap versions (RoadmapProgram).                         *)

(* Some number of a set is the least.                                      *)
LEMMA LeastNumber ==
  ASSUME NEW T, T \subseteq Nat, T # {}
  PROVE  \E x \in T : \A y \in T : x <= y
<1>1. IsWellFoundedOn(OpToRel(<, Nat), Nat)
  BY NatLessThanWellFounded
<1>2. PICK x \in T : \A y \in T : ~(<<y, x>> \in OpToRel(<, Nat))
  BY <1>1, WFMin, Zenon
<1>3. \A y \in T : ~(y < x)
  BY <1>2 DEF OpToRel
<1> QED
  BY <1>3

(* a and b agree before their n-th item, and both have it.                 *)
DifferAt(n, a, b) ==
  /\ n \in 1..Len(a) /\ n \in 1..Len(b) /\ a[n] # b[n]
  /\ \A m \in 1..(n - 1) : a[m] = b[m]

LEMMA FirstDifferenceIs ==
  ASSUME NEW S, NEW a \in Seq(S), NEW b \in Seq(S)
  PROVE  \/ /\ Roadmap!FirstDifference(a, b) = 0
            /\ \A m \in 1..Len(a) : m <= Len(b) => a[m] = b[m]
         \/ /\ Roadmap!FirstDifference(a, b) \in Nat \ {0}
            /\ DifferAt(Roadmap!FirstDifference(a, b), a, b)
<1> DEFINE differ == {n \in 1..Len(a) : n <= Len(b) /\ a[n] # b[n]}
           n == CHOOSE n \in differ : \A m \in differ : n <= m
<1>1. Roadmap!FirstDifference(a, b) = IF differ = {} THEN 0 ELSE n
  BY DEF Roadmap!FirstDifference
<1>2. CASE differ = {}
  BY <1>1, <1>2
<1>3. CASE differ # {}
  <2>1. differ \subseteq Nat
    OBVIOUS
  <2>2. \E k \in differ : \A m \in differ : k <= m
    <3> HIDE DEF differ
    <3> QED
      BY <1>3, <2>1, LeastNumber
  <2>3. n \in differ /\ \A m \in differ : n <= m
    <3> HIDE DEF differ
    <3> QED
      BY <2>2
  <2>4. Roadmap!FirstDifference(a, b) = n
    BY <1>1, <1>3
  <2> HIDE DEF n
  <2>5. n \in Nat \ {0} /\ n \in 1..Len(a) /\ n \in 1..Len(b) /\ a[n] # b[n]
    BY <2>3
  <2>6. ASSUME NEW m \in 1..(n - 1) PROVE a[m] = b[m]
    <3>1. m \in 1..Len(a) /\ m <= Len(b) /\ m < n
      BY <2>5
    <3>2. m \notin differ
      BY <2>3, <2>5, <3>1
    <3> QED BY <3>1, <3>2
  <2> QED BY <2>4, <2>5, <2>6 DEF DifferAt
<1> QED BY <1>2, <1>3

(* There is one first difference, whichever way round.                     *)
LEMMA OneDifference ==
  ASSUME NEW S, NEW a \in Seq(S), NEW b \in Seq(S), NEW n \in Nat, DifferAt(n, a, b)
  PROVE  Roadmap!FirstDifference(a, b) = n /\ Roadmap!FirstDifference(b, a) = n
<1>1. ASSUME NEW c \in Seq(S), NEW d \in Seq(S), DifferAt(n, c, d)
      PROVE  Roadmap!FirstDifference(c, d) = n
  <2> DEFINE k == Roadmap!FirstDifference(c, d)
  <2>1. CASE k = 0 /\ \A m \in 1..Len(c) : m <= Len(d) => c[m] = d[m]
    <3> HIDE DEF k
    <3>1. n \in 1..Len(c) /\ n <= Len(d) /\ c[n] # d[n]
      BY <1>1 DEF DifferAt
    <3> QED BY <2>1, <3>1, Zenon
  <2>2. CASE k \in Nat \ {0} /\ DifferAt(k, c, d)
    <3> HIDE DEF k
    <3>1. ASSUME k < n PROVE FALSE
      <4>1. k \in 1..(n - 1)
        BY <2>2, <3>1
      <4> QED BY <1>1, <2>2, <4>1, Zenon DEF DifferAt
    <3>2. ASSUME n < k PROVE FALSE
      <4>1. n \in 1..(k - 1)
        <5>1. n >= 1
          BY <1>1 DEF DifferAt
        <5> QED BY <2>2, <3>2, <5>1
      <4> QED BY <1>1, <2>2, <4>1, Zenon DEF DifferAt
    <3>3. k = n
      BY <2>2, <3>1, <3>2
    <3> QED BY <3>3 DEF k
  <2> QED BY <2>1, <2>2, FirstDifferenceIs
<1>2. DifferAt(n, b, a)
  BY DEF DifferAt
<1> QED BY <1>1, <1>2

(* Two differences in a row: the earlier decides.                          *)
LEMMA EarlierDifference ==
  ASSUME NEW S, NEW a \in Seq(S), NEW b \in Seq(S), NEW c \in Seq(S), NEW k \in Nat, NEW n \in Nat,
         DifferAt(k, a, b), DifferAt(n, b, c)
  PROVE  /\ k < n => DifferAt(k, a, c) /\ c[k] = b[k]
         /\ n < k => DifferAt(n, a, c) /\ a[n] = b[n]
<1>1. Len(a) \in Nat /\ Len(b) \in Nat /\ Len(c) \in Nat
  OBVIOUS
<1>2. /\ k >= 1 /\ k <= Len(a) /\ k <= Len(b) /\ a[k] # b[k]
      /\ \A m \in 1..(k - 1) : a[m] = b[m]
  BY <1>1 DEF DifferAt
<1>3. /\ n >= 1 /\ n <= Len(b) /\ n <= Len(c) /\ b[n] # c[n]
      /\ \A m \in 1..(n - 1) : b[m] = c[m]
  BY <1>1 DEF DifferAt
<1>4. CASE k < n
  <2>1. k \in 1..(n - 1) /\ 1..(k - 1) \subseteq 1..(n - 1) /\ k <= Len(c)
    BY <1>1, <1>2, <1>3, <1>4
  <2>2. b[k] = c[k] /\ \A m \in 1..(k - 1) : a[m] = c[m]
    BY <1>2, <1>3, <2>1
  <2> QED BY <1>1, <1>2, <1>4, <2>1, <2>2 DEF DifferAt
<1>5. CASE n < k
  <2>1. n \in 1..(k - 1) /\ 1..(n - 1) \subseteq 1..(k - 1) /\ n <= Len(a)
    BY <1>1, <1>2, <1>3, <1>5
  <2>2. a[n] = b[n] /\ \A m \in 1..(n - 1) : a[m] = c[m]
    BY <1>2, <1>3, <2>1
  <2> QED BY <1>1, <1>3, <1>5, <2>1, <2>2 DEF DifferAt
<1> QED BY <1>4, <1>5

LEMMA SameDifference ==
  ASSUME NEW S, NEW a \in Seq(S), NEW b \in Seq(S), NEW c \in Seq(S), NEW k \in Nat,
         DifferAt(k, a, b), DifferAt(k, b, c)
  PROVE  /\ k \in 1..Len(a) /\ k \in 1..Len(b) /\ k \in 1..Len(c)
         /\ a[k] # c[k] => DifferAt(k, a, c)
<1>1. k \in 1..Len(a) /\ k \in 1..Len(b) /\ k \in 1..Len(c)
  BY DEF DifferAt
<1>2. \A m \in 1..(k - 1) : a[m] = c[m]
  BY DEF DifferAt
<1> QED BY <1>1, <1>2 DEF DifferAt

(* The order of identifiers: numbers before names.                         *)
Identifier == [numeric : BOOLEAN, value : Int]
IdBefore(x, y) ==
  \/ x.numeric /\ ~y.numeric
  \/ x.numeric = y.numeric /\ x.value < y.value

(* The order of prereleases: what a comparison below zero means.           *)
PreBefore(a, b) ==
  \/ \E n \in Nat : DifferAt(n, a, b) /\ IdBefore(a[n], b[n])
  \/ Len(a) < Len(b) /\ \A m \in 1..Len(a) : a[m] = b[m]

LEMMA PrereleasesCompare ==
  ASSUME NEW a \in Seq(Identifier), NEW b \in Seq(Identifier)
  PROVE  /\ Roadmap!ComparePrerelease(a, b) \in Int
         /\ Roadmap!ComparePrerelease(a, b) = 0 <=> a = b
         /\ Roadmap!ComparePrerelease(a, b) < 0 <=> PreBefore(a, b)
         /\ Roadmap!ComparePrerelease(a, b) > 0 <=> PreBefore(b, a)
<1> DEFINE n == Roadmap!FirstDifference(a, b)
           r == Roadmap!ComparePrerelease(a, b)
<1>1. r = IF n = 0 THEN Len(a) - Len(b)
          ELSE IF a[n].numeric # b[n].numeric THEN (IF a[n].numeric THEN -1 ELSE 1)
          ELSE a[n].value - b[n].value
  BY DEF Roadmap!ComparePrerelease
<1>2. CASE n = 0 /\ \A m \in 1..Len(a) : m <= Len(b) => a[m] = b[m]
  <2>1. r = Len(a) - Len(b) /\ Len(a) \in Nat /\ Len(b) \in Nat
    BY <1>1, <1>2
  <2>2. \A k \in Nat : ~DifferAt(k, a, b) /\ ~DifferAt(k, b, a)
    BY <1>2 DEF DifferAt
  <2> HIDE DEF n, r
  <2>3. a = b <=> Len(a) = Len(b)
    BY <1>2
  <2>4. PreBefore(a, b) <=> Len(a) < Len(b)
    BY <1>2, <2>1, <2>2 DEF PreBefore
  <2>5. PreBefore(b, a) <=> Len(b) < Len(a)
    BY <1>2, <2>1, <2>2 DEF PreBefore
  <2>6. /\ r \in Int /\ (r = 0 <=> a = b) /\ (r < 0 <=> PreBefore(a, b)) /\ (r > 0 <=> PreBefore(b, a))
    BY <2>1, <2>3, <2>4, <2>5
  <2> QED BY <2>6 DEF r
<1>3. CASE n \in Nat \ {0} /\ DifferAt(n, a, b)
  <2>1. /\ n \in 1..Len(a) /\ n \in 1..Len(b) /\ a[n] # b[n]
        /\ a[n] \in Identifier /\ b[n] \in Identifier
    BY <1>3 DEF DifferAt
  <2>2. r = IF a[n].numeric # b[n].numeric THEN (IF a[n].numeric THEN -1 ELSE 1)
            ELSE a[n].value - b[n].value
    BY <1>1, <1>3
  <2>3. \A k \in Nat : (DifferAt(k, a, b) => k = n) /\ (DifferAt(k, b, a) => k = n)
    <3>1. ASSUME NEW k \in Nat, DifferAt(k, a, b) PROVE k = n
      BY <3>1, OneDifference
    <3>2. ASSUME NEW k \in Nat, DifferAt(k, b, a) PROVE k = n
      BY <3>2, OneDifference
    <3> QED BY <3>1, <3>2
  <2>4. DifferAt(n, b, a)
    BY <1>3 DEF DifferAt
  <2> HIDE DEF n, r
  <2>5. PreBefore(a, b) <=> IdBefore(a[n], b[n])
    BY <1>3, <2>1, <2>3 DEF PreBefore
  <2>6. PreBefore(b, a) <=> IdBefore(b[n], a[n])
    BY <1>3, <2>1, <2>3, <2>4 DEF PreBefore
  <2>7. a # b
    BY <2>1
  <2>8. ASSUME NEW x \in Identifier, NEW y \in Identifier, x # y,
               r = IF x.numeric # y.numeric THEN (IF x.numeric THEN -1 ELSE 1) ELSE x.value - y.value
        PROVE  r \in Int /\ r # 0 /\ (r < 0 <=> IdBefore(x, y)) /\ (r > 0 <=> IdBefore(y, x))
    <3>1. /\ x = [numeric |-> x.numeric, value |-> x.value] /\ y = [numeric |-> y.numeric, value |-> y.value]
          /\ x.numeric \in BOOLEAN /\ y.numeric \in BOOLEAN /\ x.value \in Int /\ y.value \in Int
      BY DEF Identifier
    <3>2. CASE x.numeric # y.numeric
      <4>1. CASE x.numeric
        <5>1. r = -1
          BY <2>8, <3>2, <4>1
        <5>2. IdBefore(x, y) /\ ~IdBefore(y, x)
          BY <3>1, <3>2, <4>1, Zenon DEF IdBefore
        <5> QED BY <5>1, <5>2
      <4>2. CASE ~x.numeric
        <5>1. r = 1
          BY <2>8, <3>2, <4>2
        <5>2. IdBefore(y, x) /\ ~IdBefore(x, y)
          BY <3>1, <3>2, <4>2, Zenon DEF IdBefore
        <5> QED BY <5>1, <5>2
      <4> QED BY <4>1, <4>2
    <3>3. CASE x.numeric = y.numeric
      <4>1. x.value # y.value
        BY <2>8, <3>1, <3>3
      <4>2. r = x.value - y.value
        BY <2>8, <3>3
      <4>3. (IdBefore(x, y) <=> x.value < y.value) /\ (IdBefore(y, x) <=> y.value < x.value)
        BY <3>1, <3>3 DEF IdBefore
      <4> QED BY <3>1, <4>1, <4>2, <4>3
    <3> QED BY <3>2, <3>3
  <2>9. /\ r \in Int /\ (r = 0 <=> a = b) /\ (r < 0 <=> PreBefore(a, b)) /\ (r > 0 <=> PreBefore(b, a))
    BY <2>1, <2>2, <2>5, <2>6, <2>7, <2>8
  <2> QED BY <2>9 DEF r
<1> QED BY <1>2, <1>3, FirstDifferenceIs

LEMMA PrereleasesOrdered ==
  ASSUME NEW a \in Seq(Identifier), NEW b \in Seq(Identifier), NEW c \in Seq(Identifier),
         PreBefore(a, b), PreBefore(b, c)
  PROVE  PreBefore(a, c)
<1>0. /\ Len(a) \in Nat /\ Len(b) \in Nat /\ Len(c) \in Nat
      /\ \A i \in 1..Len(a) : a[i] \in Identifier
      /\ \A i \in 1..Len(b) : b[i] \in Identifier
      /\ \A i \in 1..Len(c) : c[i] \in Identifier
  OBVIOUS
<1>1. \A x, y, z \in Identifier : IdBefore(x, y) /\ IdBefore(y, z) => IdBefore(x, z)
  BY DEF Identifier, IdBefore
<1>2. \A x, y \in Identifier : IdBefore(x, y) => x # y
  BY DEF Identifier, IdBefore
<1>3. CASE Len(a) < Len(b) /\ \A m \in 1..Len(a) : a[m] = b[m]
  <2>1. CASE Len(b) < Len(c) /\ \A m \in 1..Len(b) : b[m] = c[m]
    BY <1>0, <1>3, <2>1 DEF PreBefore
  <2>2. ASSUME NEW n \in Nat, DifferAt(n, b, c), IdBefore(b[n], c[n]) PROVE PreBefore(a, c)
    <3>1. CASE n <= Len(a)
      <4>1. DifferAt(n, a, c) /\ a[n] = b[n]
        BY <1>0, <1>3, <2>2, <3>1 DEF DifferAt
      <4> QED BY <2>2, <4>1 DEF PreBefore
    <3>2. CASE n > Len(a)
      <4>1. Len(a) < Len(c) /\ \A m \in 1..Len(a) : a[m] = c[m]
        BY <1>0, <1>3, <2>2, <3>2 DEF DifferAt
      <4> QED BY <4>1 DEF PreBefore
    <3> QED BY <1>0, <3>1, <3>2
  <2> QED BY <2>1, <2>2 DEF PreBefore
<1>4. ASSUME NEW k \in Nat, DifferAt(k, a, b), IdBefore(a[k], b[k]) PROVE PreBefore(a, c)
  <2>1. CASE Len(b) < Len(c) /\ \A m \in 1..Len(b) : b[m] = c[m]
    <3>1. DifferAt(k, a, c) /\ c[k] = b[k]
      BY <1>0, <1>4, <2>1 DEF DifferAt
    <3> QED BY <1>4, <3>1 DEF PreBefore
  <2>2. ASSUME NEW n \in Nat, DifferAt(n, b, c), IdBefore(b[n], c[n]) PROVE PreBefore(a, c)
    <3>1. CASE k < n
      <4>1. DifferAt(k, a, c) /\ c[k] = b[k]
        BY <1>4, <2>2, <3>1, EarlierDifference
      <4> QED BY <1>4, <4>1 DEF PreBefore
    <3>2. CASE n < k
      <4>1. DifferAt(n, a, c) /\ a[n] = b[n]
        BY <1>4, <2>2, <3>2, EarlierDifference
      <4> QED BY <2>2, <4>1 DEF PreBefore
    <3>3. CASE n = k
      <4>1. k \in 1..Len(a) /\ k \in 1..Len(b) /\ k \in 1..Len(c)
        BY <1>4, <2>2, <3>3, SameDifference
      <4>2. IdBefore(a[k], c[k])
        BY <1>0, <1>1, <1>4, <2>2, <3>3, <4>1
      <4>3. a[k] # c[k]
        BY <1>0, <1>2, <4>1, <4>2
      <4>4. DifferAt(k, a, c)
        BY <1>4, <2>2, <3>3, <4>3, SameDifference
      <4> QED BY <4>2, <4>4 DEF PreBefore
    <3> QED BY <3>1, <3>2, <3>3
  <2> QED BY <2>1, <2>2 DEF PreBefore
<1> QED BY <1>3, <1>4 DEF PreBefore

(* Cores have three numbers.                                               *)
CoreBefore(a, b) == \E n \in Nat : DifferAt(n, a, b) /\ a[n] < b[n]

LEMMA CoresCompare ==
  ASSUME NEW a \in Seq(Nat), NEW b \in Seq(Nat), Len(a) = Len(b)
  PROVE  LET n == Roadmap!FirstDifference(a, b) IN
         /\ n = 0 <=> a = b
         /\ n # 0 => /\ a[n] - b[n] \in Int /\ a[n] - b[n] # 0
                     /\ a[n] - b[n] < 0 <=> CoreBefore(a, b)
                     /\ a[n] - b[n] > 0 <=> CoreBefore(b, a)
         /\ n = 0 => ~CoreBefore(a, b) /\ ~CoreBefore(b, a)
<1> DEFINE n == Roadmap!FirstDifference(a, b)
<1>1. CASE n = 0 /\ \A m \in 1..Len(a) : m <= Len(b) => a[m] = b[m]
  <2>1. a = b
    BY <1>1
  <2>2. \A k \in Nat : ~DifferAt(k, a, b) /\ ~DifferAt(k, b, a)
    BY <2>1 DEF DifferAt
  <2> QED BY <1>1, <2>1, <2>2 DEF CoreBefore
<1>2. CASE n \in Nat \ {0} /\ DifferAt(n, a, b)
  <2>1. a[n] # b[n] /\ a[n] \in Nat /\ b[n] \in Nat
    BY <1>2 DEF DifferAt
  <2>2. \A k \in Nat : (DifferAt(k, a, b) => k = n) /\ (DifferAt(k, b, a) => k = n)
    <3>1. ASSUME NEW k \in Nat, DifferAt(k, a, b) PROVE k = n
      BY <3>1, OneDifference
    <3>2. ASSUME NEW k \in Nat, DifferAt(k, b, a) PROVE k = n
      BY <3>2, OneDifference
    <3> QED BY <3>1, <3>2
  <2>3. DifferAt(n, b, a)
    BY <1>2 DEF DifferAt
  <2> HIDE DEF n
  <2>4. (CoreBefore(a, b) <=> a[n] < b[n]) /\ (CoreBefore(b, a) <=> b[n] < a[n])
    BY <1>2, <2>2, <2>3 DEF CoreBefore
  <2>5. /\ n # 0 /\ a # b /\ a[n] - b[n] \in Int /\ a[n] - b[n] # 0
        /\ a[n] - b[n] < 0 <=> CoreBefore(a, b)
        /\ a[n] - b[n] > 0 <=> CoreBefore(b, a)
    BY <1>2, <2>1, <2>4
  <2> QED BY <2>5 DEF n
<1> QED BY <1>1, <1>2, FirstDifferenceIs

LEMMA CoresOrdered ==
  ASSUME NEW a \in Seq(Nat), NEW b \in Seq(Nat), NEW c \in Seq(Nat),
         CoreBefore(a, b), CoreBefore(b, c)
  PROVE  CoreBefore(a, c)
<1>0. /\ \A i \in 1..Len(a) : a[i] \in Nat
      /\ \A i \in 1..Len(b) : b[i] \in Nat
      /\ \A i \in 1..Len(c) : c[i] \in Nat
  OBVIOUS
<1>1. PICK k \in Nat : DifferAt(k, a, b) /\ a[k] < b[k]
  BY DEF CoreBefore
<1>2. PICK n \in Nat : DifferAt(n, b, c) /\ b[n] < c[n]
  BY DEF CoreBefore
<1>3. CASE k < n
  <2>1. DifferAt(k, a, c) /\ c[k] = b[k]
    BY <1>1, <1>2, <1>3, EarlierDifference
  <2> QED BY <1>1, <2>1 DEF CoreBefore
<1>4. CASE n < k
  <2>1. DifferAt(n, a, c) /\ a[n] = b[n]
    BY <1>1, <1>2, <1>4, EarlierDifference
  <2> QED BY <1>2, <2>1 DEF CoreBefore
<1>5. CASE n = k
  <2>1. k \in 1..Len(a) /\ k \in 1..Len(b) /\ k \in 1..Len(c)
    BY <1>1, <1>2, <1>5, SameDifference
  <2>2. a[k] \in Nat /\ b[k] \in Nat /\ c[k] \in Nat
    BY <1>0, <2>1
  <2>3. a[k] < b[k] /\ b[k] < c[k]
    BY <1>1, <1>2, <1>5
  <2>4. a[k] < c[k]
    BY <2>2, <2>3
  <2>5. DifferAt(k, a, c)
    <3>1. a[k] # c[k]
      BY <2>2, <2>4
    <3> QED BY <1>1, <1>2, <1>5, <3>1, SameDifference
  <2> QED BY <2>4, <2>5 DEF CoreBefore
<1> QED BY <1>3, <1>4, <1>5

(* A version comes before another by its core, or else by its prerelease,  *)
(* where a release comes last.                                             *)
Version == [core : {x \in Seq(Nat) : Len(x) = 3}, pre : Seq(Identifier) \cup {NoPrerelease}]
Released(v) == v.pre = NoPrerelease
VersionBefore(a, b) ==
  \/ CoreBefore(a.core, b.core)
  \/ a.core = b.core /\ ~Released(a) /\ (Released(b) \/ PreBefore(a.pre, b.pre))

LEMMA VersionsCompare ==
  ASSUME NEW a \in Version, NEW b \in Version
  PROVE  /\ Roadmap!CompareRoadmapVersions(a, b) = 0 <=> a = b
         /\ Roadmap!CompareRoadmapVersions(a, b) < 0 <=> VersionBefore(a, b)
         /\ Roadmap!CompareRoadmapVersions(a, b) > 0 <=> VersionBefore(b, a)
<1> DEFINE n == Roadmap!FirstDifference(a.core, b.core)
           r == Roadmap!CompareRoadmapVersions(a, b)
<1>1. /\ a = [core |-> a.core, pre |-> a.pre] /\ b = [core |-> b.core, pre |-> b.pre]
      /\ a.core \in Seq(Nat) /\ b.core \in Seq(Nat) /\ Len(a.core) = Len(b.core)
      /\ a.pre # NoPrerelease => a.pre \in Seq(Identifier)
      /\ b.pre # NoPrerelease => b.pre \in Seq(Identifier)
  BY DEF Version
<1>2. r = IF n # 0 THEN a.core[n] - b.core[n]
          ELSE IF a.pre = NoPrerelease THEN (IF b.pre = NoPrerelease THEN 0 ELSE 1)
          ELSE IF b.pre = NoPrerelease THEN -1
          ELSE Roadmap!ComparePrerelease(a.pre, b.pre)
  BY DEF Roadmap!CompareRoadmapVersions
<1>3. /\ n = 0 <=> a.core = b.core
      /\ n # 0 => /\ a.core[n] - b.core[n] \in Int /\ a.core[n] - b.core[n] # 0
                  /\ a.core[n] - b.core[n] < 0 <=> CoreBefore(a.core, b.core)
                  /\ a.core[n] - b.core[n] > 0 <=> CoreBefore(b.core, a.core)
      /\ n = 0 => ~CoreBefore(a.core, b.core) /\ ~CoreBefore(b.core, a.core)
  BY <1>1, CoresCompare
<1> HIDE DEF n, r
<1>4. CASE n # 0
  <2>1. r = a.core[n] - b.core[n] /\ a.core # b.core
    BY <1>2, <1>3, <1>4
  <2>2. (r = 0 <=> a = b) /\ (r < 0 <=> VersionBefore(a, b)) /\ (r > 0 <=> VersionBefore(b, a))
    BY <1>1, <1>3, <1>4, <2>1 DEF VersionBefore
  <2> QED BY <2>2 DEF r
<1>5. CASE n = 0
  <2>1. a.core = b.core /\ ~CoreBefore(a.core, b.core) /\ ~CoreBefore(b.core, a.core)
    BY <1>3, <1>5
  <2>2. a = b <=> a.pre = b.pre
    BY <1>1, <2>1
  <2>3. CASE Released(a) \/ Released(b)
    <3>1. (r = 0 <=> a = b) /\ (r < 0 <=> VersionBefore(a, b)) /\ (r > 0 <=> VersionBefore(b, a))
      BY <1>2, <1>5, <2>1, <2>2, <2>3 DEF VersionBefore, Released
    <3> QED BY <3>1 DEF r
  <2>4. CASE ~Released(a) /\ ~Released(b)
    <3>1. r = Roadmap!ComparePrerelease(a.pre, b.pre) /\ a.pre \in Seq(Identifier) /\ b.pre \in Seq(Identifier)
      BY <1>1, <1>2, <1>5, <2>4 DEF Released
    <3>2. (r = 0 <=> a = b) /\ (r < 0 <=> PreBefore(a.pre, b.pre)) /\ (r > 0 <=> PreBefore(b.pre, a.pre))
      BY <2>2, <3>1, PrereleasesCompare
    <3>3. (VersionBefore(a, b) <=> PreBefore(a.pre, b.pre)) /\ (VersionBefore(b, a) <=> PreBefore(b.pre, a.pre))
      BY <2>1, <2>4 DEF VersionBefore
    <3> QED BY <3>2, <3>3 DEF r
  <2> QED BY <2>3, <2>4
<1> QED BY <1>4, <1>5

LEMMA VersionsOrdered ==
  ASSUME NEW a \in Version, NEW b \in Version, NEW c \in Version,
         VersionBefore(a, b), VersionBefore(b, c)
  PROVE  VersionBefore(a, c)
<1>1. /\ a.core \in Seq(Nat) /\ b.core \in Seq(Nat) /\ c.core \in Seq(Nat)
      /\ ~Released(a) => a.pre \in Seq(Identifier)
      /\ ~Released(b) => b.pre \in Seq(Identifier)
      /\ ~Released(c) => c.pre \in Seq(Identifier)
  BY DEF Version, Released
<1>2. CASE CoreBefore(a.core, b.core) /\ CoreBefore(b.core, c.core)
  BY <1>1, <1>2, CoresOrdered DEF VersionBefore
<1>3. CASE CoreBefore(a.core, b.core) /\ b.core = c.core
  BY <1>3 DEF VersionBefore
<1>4. CASE a.core = b.core /\ CoreBefore(b.core, c.core)
  BY <1>4 DEF VersionBefore
<1>5. CASE /\ a.core = b.core /\ ~Released(a) /\ (Released(b) \/ PreBefore(a.pre, b.pre))
           /\ b.core = c.core /\ ~Released(b) /\ (Released(c) \/ PreBefore(b.pre, c.pre))
  <2>1. Released(c) \/ PreBefore(a.pre, c.pre)
    BY <1>1, <1>5, PrereleasesOrdered
  <2> QED BY <1>5, <2>1 DEF VersionBefore
<1> QED BY <1>2, <1>3, <1>4, <1>5 DEF VersionBefore

(* The versions of the model are such versions.                            *)
LEMMA SemVersAreVersions ==
  ASSUME Roadmap!RoadmapAssumption
  PROVE  Roadmap!SemVers \subseteq Version
<1> USE DEF Roadmap!RoadmapAssumption
<1>1. Roadmap!Identifiers \subseteq Identifier
  <2>1. ASSUME NEW b \in BOOLEAN, NEW S, S \subseteq Int PROVE [numeric : {b}, value : S] \subseteq Identifier
    BY <2>1 DEF Identifier
  <2>2. [numeric : {TRUE}, value : 0..MaxNumber] \subseteq Identifier
    <3>1. 0..MaxNumber \subseteq Int
      OBVIOUS
    <3> QED BY <2>1, <3>1
  <2>3. [numeric : {FALSE}, value : Names] \subseteq Identifier
    BY <2>1
  <2> QED BY <2>2, <2>3 DEF Roadmap!Identifiers
<1>2. Roadmap!Prereleases \subseteq Seq(Identifier)
  <2> SUFFICES ASSUME NEW n \in 1..MaxParts, NEW p \in [1..n -> Roadmap!Identifiers]
               PROVE  p \in Seq(Identifier)
    BY DEF Roadmap!Prereleases
  <2>1. n \in Nat /\ p \in [1..n -> Identifier]
    BY <1>1
  <2> QED BY <2>1
<1>5. Cores \subseteq {x \in Seq(Nat) : Len(x) = 3}
  <2> SUFFICES ASSUME NEW c \in Cores PROVE c \in Seq(Nat) /\ Len(c) = 3
    OBVIOUS
  <2>1. PICK i \in Nat, j \in Nat, n \in Nat : c = <<i, j, n>>
    BY DEF Roadmap!RoadmapAssumption
  <2> QED BY <2>1
<1>6. Roadmap!Prereleases \cup {NoPrerelease} \subseteq Seq(Identifier) \cup {NoPrerelease}
  BY <1>2
<1>7. \A C, P, D, Q : C \subseteq D /\ P \subseteq Q => [core : C, pre : P] \subseteq [core : D, pre : Q]
  OBVIOUS
<1> HIDE DEF Roadmap!RoadmapAssumption
<1> QED BY <1>5, <1>6, <1>7 DEF Roadmap!SemVers, Version

(* compareRoadmapVersions is a total order on versions without leading     *)
(* zeros, with any core, prereleases of any length and any identifiers, so *)
(* the sort that picks the current version has one answer                  *)
(* (currentRoadmapVersions).                                               *)
THEOREM VersionsAreOrdered ==
  Roadmap!RoadmapAssumption => (Roadmap!Spec => []Roadmap!IsTotalOrder)
<1> SUFFICES ASSUME Roadmap!RoadmapAssumption PROVE Roadmap!Spec => []Roadmap!IsTotalOrder
  OBVIOUS
<1> DEFINE AreVersions == left \in Version /\ right \in Version /\ third \in Version
<1>1. Roadmap!Init => AreVersions
  BY SemVersAreVersions DEF Roadmap!Init
<1>2. AreVersions /\ [Roadmap!Next]_(Roadmap!vars) => AreVersions'
  BY DEF Roadmap!Next, Roadmap!vars
<1>3. AreVersions => Roadmap!IsTotalOrder
  BY VersionsCompare, VersionsOrdered DEF Roadmap!IsTotalOrder
<1> HIDE DEF AreVersions
<1> QED
  BY <1>1, <1>2, <1>3, PTL DEF Roadmap!Spec
=============================================================================
