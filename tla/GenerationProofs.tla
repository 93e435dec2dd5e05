-------------------------- MODULE GenerationProofs --------------------------
(***************************************************************************)
(* Specifications are confirmed section by section, keep the lineages of   *)
(* interpretations they rest on, and agents are generated exactly once and *)
(* within the dispatchers' permits, for any number of specifications,      *)
(* interpretations, editors, jobs, processes and stops; the page on which  *)
(* they are drafted attributes, decides and orders what it asks for; the   *)
(* requests that reach the backend are entitled; the seed that fills its   *)
(* database may be interrupted and repeated; and the screens show what     *)
(* their own requests changed.                                             *)
(***************************************************************************)
EXTENDS Integers, Generation, FiniteSetTheorems, WellFoundedInduction, TLAPS

-----------------------------------------------------------------------------
(* The inductive invariant, specifications first.                          *)

Origins == Interps \cup {None}
Statuses == {"draft", "ready", "generating", "generated"}
Confirmation == [section : Sections, revision : Nat, by : Origins]
SpecRow == [status : Statuses, revision : 1..MaxRevision, sections : SUBSET Sections,
            attached : Origins, confirmed : SUBSET Confirmation]
InterpRow == [kind : {"split", "prefill"}, parent : Origins, expired : BOOLEAN,
              offers : SUBSET Sections]
Question == [asked : {TRUE}, parent : Origins, for : Specs \cup {None}]
Edit == [open : {TRUE}, spec : Specs, section : Sections, by : Origins, seen : SpecRow]

DraftTyped ==
  /\ spec \in [Specs -> SpecRow \cup {NoSpec}]
  /\ interp \in [Interps -> InterpRow \cup {NoInterp, Deleted}]
  /\ asked \in [Interps -> Question \cup {NotAsked}]
  /\ editor \in [Editors -> Edit \cup {Closed}]
  /\ doomed \subseteq Interps

(* An editor's specification was there when it was read, and stays.        *)
EditsExist == \A e \in Editors : editor[e] \in Edit => spec[editor[e].spec] \in SpecRow

(* Every section a row has was confirmed no later than its revision.       *)
ConfirmedRow(x) ==
  \A n \in x.sections : \E c \in x.confirmed : c.section = n /\ c.revision <= x.revision
AllConfirmed == \A s \in Specs : spec[s] \in SpecRow => ConfirmedRow(spec[s])

(* Two specifications do not share an interpretation.                      *)
Unshared ==
  \A s, t \in Specs : /\ spec[s] \in SpecRow /\ spec[t] \in SpecRow
                      /\ spec[s].attached # None /\ spec[s].attached = spec[t].attached
                      => s = t

DraftInv == DraftTyped /\ EditsExist /\ AllConfirmed /\ Unshared

(* Specifications are never removed.                                       *)
SpecsStay == \A s \in Specs : spec[s] \in SpecRow => spec'[s] \in SpecRow

(* What has no row differs from what has one.                              *)
LEMMA NoRows ==
  /\ NoSpec \notin SpecRow /\ Closed \notin Edit
  /\ NoInterp \notin InterpRow /\ Deleted \notin InterpRow /\ NotAsked \notin Question
<1>1. DOMAIN NoSpec = {"status"} /\ DOMAIN Closed = {"open"} /\ DOMAIN NoInterp = {"kind"}
      /\ DOMAIN Deleted = {"kind"} /\ DOMAIN NotAsked = {"asked"}
  BY DEF NoSpec, Closed, NoInterp, Deleted, NotAsked
<1>2. NoSpec \in SpecRow => "revision" \in DOMAIN NoSpec
  BY DEF SpecRow
<1>3. Closed \in Edit => "spec" \in DOMAIN Closed
  BY DEF Edit
<1>4. NoInterp \in InterpRow => "parent" \in DOMAIN NoInterp
  BY DEF InterpRow
<1>5. Deleted \in InterpRow => "parent" \in DOMAIN Deleted
  BY DEF InterpRow
<1>6. NotAsked \in Question => "parent" \in DOMAIN NotAsked
  BY DEF Question
<1> QED BY <1>1, <1>2, <1>3, <1>4, <1>5, <1>6

(* At first nothing is specified.                                          *)
LEMMA DraftStart == DraftInit => DraftInv
BY NoRows DEF DraftInit, DraftInv, DraftTyped, EditsExist, AllConfirmed, Unshared

(* A step that leaves the specifications and the editors alone.            *)
LEMMA SpecsUntouched ==
  ASSUME DraftInv, DraftTyped', UNCHANGED <<spec, editor>>
  PROVE  DraftInv' /\ SpecsStay
BY DEF DraftInv, EditsExist, AllConfirmed, Unshared, SpecsStay

(* InterpretationService: asking, answering, expiry and cleanup.           *)
LEMMA InterpretationStep ==
  ASSUME DraftAssumption, DraftInv,
         \/ \E i \in Interps : Expire(i) \/ Delete(i) \/ Answer(i, "split") \/ Answer(i, "prefill")
         \/ \E i \in Interps, parent \in Interps \union {None}, for \in Specs \union {None} :
              Ask(i, parent, for)
         \/ Scan
  PROVE  DraftInv' /\ SpecsStay
<1>1. UNCHANGED <<spec, editor>>
  BY DEF Expire, Delete, Answer, Ask, Scan
<1>2. DraftTyped'
  <2>1. ASSUME NEW i \in Interps, Expire(i) PROVE DraftTyped'
    <3>1. interp[i] \in InterpRow
      BY <2>1 DEF Expire, Stored, DraftInv, DraftTyped
    <3>2. [interp[i] EXCEPT !.expired = TRUE] \in InterpRow
      BY <3>1 DEF InterpRow
    <3>3. interp' = [interp EXCEPT ![i] = [interp[i] EXCEPT !.expired = TRUE]]
      BY <2>1 DEF Expire, DraftInv, DraftTyped
    <3> QED BY <2>1, <3>2, <3>3 DEF Expire, DraftInv, DraftTyped
  <2>2. ASSUME NEW i \in Interps, Delete(i) PROVE DraftTyped'
    <3>1. interp' \in [Interps -> InterpRow \cup {NoInterp, Deleted}]
      BY <2>2 DEF Delete, DraftInv, DraftTyped
    <3>2. doomed' \subseteq Interps
      BY <2>2 DEF Delete, DraftInv, DraftTyped
    <3> QED BY <2>2, <3>1, <3>2 DEF Delete, DraftInv, DraftTyped
  <2>3. ASSUME NEW i \in Interps, NEW k \in {"split", "prefill"}, Answer(i, k) PROVE DraftTyped'
    <3> DEFINE x == [kind |-> k, parent |-> asked[i].parent, expired |-> FALSE,
                     offers |-> IF k = "split" THEN {}
                                ELSE IF asked[i].for = None THEN Sections
                                     ELSE Sections \ spec[asked[i].for].sections]
    <3>1. asked[i] \in Question
      BY <2>3 DEF Answer, DraftInv, DraftTyped
    <3>2. asked[i].parent \in Origins
      BY <3>1 DEF Question
    <3>3. x \in InterpRow
      BY <3>2 DEF InterpRow
    <3>4. interp' = interp \/ interp' = [interp EXCEPT ![i] = x]
      BY <2>3 DEF Answer
    <3>5. asked' = [asked EXCEPT ![i] = NotAsked] /\ UNCHANGED <<spec, editor, doomed>>
      BY <2>3 DEF Answer
    <3> HIDE DEF x
    <3> QED BY <3>3, <3>4, <3>5 DEF DraftInv, DraftTyped
  <2>4. ASSUME NEW i \in Interps, NEW parent \in Interps \union {None},
               NEW for \in Specs \union {None}, Ask(i, parent, for)
        PROVE  DraftTyped'
    <3>1. [asked |-> TRUE, parent |-> parent, for |-> for] \in Question
      BY DEF Question, Origins
    <3> QED BY <2>4, <3>1 DEF Ask, DraftInv, DraftTyped
  <2>5. ASSUME Scan PROVE DraftTyped'
    BY <2>5 DEF Scan, DraftInv, DraftTyped
  <2> QED BY <2>1, <2>2, <2>3, <2>4, <2>5
<1> QED BY <1>1, <1>2, SpecsUntouched

(* A step that writes the row of one specification: it must be confirmed   *)
(* and its interpretation not another's.                                   *)
LEMMA OneSpecWritten ==
  ASSUME DraftInv, NEW s \in Specs, NEW x \in SpecRow, spec' = [spec EXCEPT ![s] = x],
         editor' \in [Editors -> Edit \cup {Closed}],
         \A e \in Editors : editor'[e] \in {editor[e], Closed},
         UNCHANGED <<interp, asked, doomed>>, ConfirmedRow(x),
         \A t \in Specs : t # s /\ spec[t] \in SpecRow /\ x.attached # None
                            => spec[t].attached # x.attached
  PROVE  DraftInv' /\ SpecsStay
<1>1. spec' \in [Specs -> SpecRow \cup {NoSpec}] /\ spec'[s] = x
      /\ \A t \in Specs : t # s => spec'[t] = spec[t]
  BY DEF DraftInv, DraftTyped
<1>2. DraftTyped'
  BY <1>1 DEF DraftInv, DraftTyped
<1>3. EditsExist'
  <2> SUFFICES ASSUME NEW e \in Editors, editor'[e] \in Edit PROVE spec'[editor'[e].spec] \in SpecRow
    BY DEF EditsExist
  <2>1. editor'[e] = editor[e] /\ spec[editor[e].spec] \in SpecRow
    BY NoRows DEF DraftInv, EditsExist
  <2>2. editor[e].spec \in Specs
    BY <2>1 DEF Edit
  <2> QED BY <1>1, <2>1, <2>2
<1>4. AllConfirmed'
  BY <1>1 DEF DraftInv, AllConfirmed, ConfirmedRow
<1>5. Unshared'
  BY <1>1 DEF DraftInv, Unshared
<1>6. SpecsStay
  BY <1>1 DEF SpecsStay
<1> QED BY <1>2, <1>3, <1>4, <1>5, <1>6 DEF DraftInv

(* AttachedTo in terms of the rows.                                        *)
LEMMA AttachedRows ==
  ASSUME DraftAssumption, DraftTyped, NEW i \in Interps, NEW t \in Specs, spec[t] \in SpecRow
  PROVE  spec[t].attached = i <=> t \in AttachedTo(i)
BY NoRows DEF AttachedTo, Attached, DraftAssumption

(* create.                                                                 *)
LEMMA CreateStep ==
  ASSUME DraftAssumption, DraftInv, NEW s \in Specs, NEW base \in Specs \union {None},
         NEW i \in Interps \union {None}, Create(s, base, i)
  PROVE  DraftInv' /\ SpecsStay
<1> DEFINE has == Inherited(base) \union IF i = None THEN {"outcomes"} ELSE {}
           x == NewSpec(has, i)
<1>1. has \subseteq Sections
  <2>1. base # None => spec[base] \in SpecRow
    BY DEF Create, DraftInv, DraftTyped
  <2>2. Inherited(base) \subseteq Sections
    BY <2>1 DEF Inherited, SpecRow
  <2> QED BY <2>2 DEF DraftAssumption, SectionsAssumption
<1>2. spec' = [spec EXCEPT ![s] = x] /\ UNCHANGED <<interp, asked, editor, doomed>>
  BY DEF Create
<1> HIDE DEF has
<1>3. /\ x \in SpecRow /\ x.attached = i /\ x.sections = has /\ x.revision = 1
      /\ x.confirmed = {[section |-> n, revision |-> 1, by |-> None] : n \in has}
  <2>1. Status(has) \in Statuses
    BY DEF Status, Statuses
  <2>2. {[section |-> n, revision |-> 1, by |-> None] : n \in has} \in SUBSET Confirmation
    BY <1>1 DEF Confirmation, Origins
  <2>3. 1 \in 1..MaxRevision
    BY DEF DraftAssumption
  <2> QED BY <1>1, <2>1, <2>2, <2>3 DEF NewSpec, SpecRow, Origins
<1> HIDE DEF x
<1>4. ConfirmedRow(x)
  <2> SUFFICES ASSUME NEW n \in has
               PROVE  \E c \in x.confirmed : c.section = n /\ c.revision <= x.revision
    BY <1>3 DEF ConfirmedRow
  <2> DEFINE c == [section |-> n, revision |-> 1, by |-> None]
  <2>1. c \in x.confirmed /\ c.section = n /\ c.revision <= 1
    BY <1>3
  <2> HIDE DEF c
  <2> QED BY <1>3, <2>1
<1>5. \A t \in Specs : t # s /\ spec[t] \in SpecRow /\ x.attached # None => spec[t].attached # x.attached
  BY <1>3, AttachedRows DEF Create, Attachable, DraftInv
<1>6. \A e \in Editors : editor'[e] \in {editor[e], Closed}
  BY <1>2
<1>7. editor' \in [Editors -> Edit \cup {Closed}]
  BY <1>2 DEF DraftInv, DraftTyped
<1> QED BY <1>2, <1>3, <1>4, <1>5, <1>6, <1>7, OneSpecWritten

(* updateSection up to its update.                                         *)
LEMMA ReadStep ==
  ASSUME DraftAssumption, DraftInv, NEW e \in Editors, NEW s \in Specs, NEW n \in Sections,
         NEW i \in Interps \union {None}, NEW a \in Answers, ReadSection(e, s, n, i, a)
  PROVE  DraftInv' /\ SpecsStay
<1> DEFINE x == [open |-> TRUE, spec |-> s, section |-> n, by |-> i, seen |-> spec[s]]
<1>1. editor' = [editor EXCEPT ![e] = x] /\ UNCHANGED <<spec, interp, asked, doomed>>
  BY DEF ReadSection
<1>2. spec[s] \in SpecRow
  BY DEF ReadSection, DraftInv, DraftTyped
<1>3. x \in Edit /\ x.spec = s
  BY <1>2 DEF Edit, Origins
<1> HIDE DEF x
<1>4. DraftTyped'
  BY <1>1, <1>3 DEF DraftInv, DraftTyped
<1>5. EditsExist'
  BY <1>1, <1>2, <1>3 DEF DraftInv, DraftTyped, EditsExist
<1> QED BY <1>1, <1>4, <1>5 DEF DraftInv, AllConfirmed, Unshared, SpecsStay

(* Its update: what was confirmed before stays confirmed.                  *)
LEMMA SaveStep ==
  ASSUME DraftAssumption, DraftInv, NEW e \in Editors, SaveSection(e)
  PROVE  DraftInv' /\ SpecsStay
<1> DEFINE s == editor[e].spec
           seen == editor[e].seen
           n == editor[e].section
           i == editor[e].by
           connects == i # None /\ seen.attached = None
           c == [section |-> n, revision |-> spec[s].revision + 1, by |-> i]
           x == [status |-> IF seen.status = "ready" THEN "ready" ELSE Status(seen.sections \union {n}),
                 revision |-> spec[s].revision + 1,
                 sections |-> spec[s].sections \union {n},
                 attached |-> IF connects THEN i ELSE spec[s].attached,
                 confirmed |-> spec[s].confirmed \union {c}]
<1>1. /\ editor[e] \in Edit /\ editor' = [editor EXCEPT ![e] = Closed]
      /\ UNCHANGED <<interp, asked, doomed>>
  BY DEF SaveSection, DraftInv, DraftTyped
<1>2. s \in Specs /\ n \in Sections /\ i \in Origins /\ seen \in SpecRow
  BY <1>1 DEF Edit
<1>3. spec[s] \in SpecRow
  BY <1>1 DEF DraftInv, EditsExist
<1>4. /\ editor' \in [Editors -> Edit \cup {Closed}]
      /\ \A f \in Editors : editor'[f] \in {editor[f], Closed}
  BY <1>1 DEF DraftInv, DraftTyped
<1>5. CASE UNCHANGED spec
  BY <1>1, <1>4, <1>5, NoRows DEF DraftInv, DraftTyped, EditsExist, AllConfirmed, Unshared, SpecsStay
<1>6. CASE ~UNCHANGED spec
  <2>1. /\ spec' = [spec EXCEPT ![s] = x] /\ spec[s].revision < MaxRevision
        /\ i # None => ~(connects /\ AttachedTo(i) \ {s} # {})
    BY <1>2, <1>3, <1>6 DEF SaveSection, DraftInv, DraftTyped
  <2>2. /\ spec[s].revision \in 1..MaxRevision /\ spec[s].sections \subseteq Sections
        /\ spec[s].attached \in Origins /\ spec[s].confirmed \subseteq Confirmation
    BY <1>3 DEF SpecRow
  <2>3. c \in Confirmation /\ c.section = n /\ c.revision = spec[s].revision + 1
    BY <1>2, <2>2 DEF Confirmation
  <2>4. Status(seen.sections \union {n}) \in Statuses
    BY DEF Status, Statuses
  <2>5. spec[s].revision + 1 \in 1..MaxRevision
    BY <2>1, <2>2 DEF DraftAssumption
  <2> HIDE DEF c, s, n, i, seen
  <2>6. /\ x \in SpecRow /\ x.revision = spec[s].revision + 1
        /\ x.sections = spec[s].sections \union {n} /\ x.confirmed = spec[s].confirmed \union {c}
        /\ x.attached = IF connects THEN i ELSE spec[s].attached
    BY <1>2, <2>2, <2>3, <2>4, <2>5 DEF SpecRow, Statuses
  <2> HIDE DEF x, connects
  <2>7. ConfirmedRow(x)
    <3> SUFFICES ASSUME NEW m \in spec[s].sections \union {n}
                 PROVE  \E d \in x.confirmed : d.section = m /\ d.revision <= x.revision
      BY <2>6 DEF ConfirmedRow
    <3>1. CASE m = n
      BY <2>2, <2>3, <2>6, <3>1
    <3>2. CASE m # n
      <4>1. PICK d \in spec[s].confirmed : d.section = m /\ d.revision <= spec[s].revision
        BY <1>2, <1>3, <3>2 DEF DraftInv, AllConfirmed, ConfirmedRow
      <4>2. d.revision \in Nat
        BY <2>2 DEF Confirmation
      <4> QED BY <2>2, <2>6, <4>1, <4>2
    <3> QED BY <3>1, <3>2
  <2>8. \A t \in Specs : t # s /\ spec[t] \in SpecRow /\ x.attached # None => spec[t].attached # x.attached
    <3>1. CASE connects
      <4>1. i \in Interps /\ AttachedTo(i) \ {s} = {}
        BY <1>2, <2>1, <3>1 DEF connects, Origins
      <4> QED BY <2>6, <3>1, <4>1, AttachedRows DEF DraftInv
    <3>2. CASE ~connects
      BY <1>2, <1>3, <2>6, <3>2 DEF DraftInv, Unshared
    <3> QED BY <3>1, <3>2
  <2> QED BY <1>1, <1>2, <1>4, <2>1, <2>6, <2>7, <2>8, OneSpecWritten
<1> QED BY <1>5, <1>6

(* All steps of SpecDrafting.                                              *)
LEMMA DraftStep ==
  ASSUME DraftAssumption, DraftInv, DraftNext
  PROVE  DraftInv' /\ SpecsStay
<1>1. CASE \E s \in Specs, base \in Specs \union {None}, i \in Interps \union {None} : Create(s, base, i)
  BY <1>1, CreateStep
<1>2. CASE \E e \in Editors, s \in Specs, n \in Sections, i \in Interps \union {None}, a \in Answers :
             ReadSection(e, s, n, i, a)
  BY <1>2, ReadStep
<1>3. CASE \E e \in Editors : SaveSection(e)
  BY <1>3, SaveStep
<1> QED BY <1>1, <1>2, <1>3, InterpretationStep DEF DraftNext

-----------------------------------------------------------------------------
(* The jobs.                                                               *)

AgentRow == [status : {"draft", "generating", "ready", "failed", "shadow"}, manifest : Nat]
JobRow == [state : {"queued", "running", "succeeded", "failed"}, spec : Specs, revision : Nat,
           made : BOOLEAN, over : BOOLEAN]

JobTyped ==
  /\ agent \in [Specs -> AgentRow]
  /\ job \in [Jobs -> JobRow \cup {NoJob}]
  /\ \A j \in Jobs : job[j] \in JobRow => spec[job[j].spec] \in SpecRow

(* A job that is queued or running: one for an agent, which is generating  *)
(* only then, and then unless a job of it was written after it had ended.  *)
Going(j) == job[j] \in JobRow /\ job[j].state \in {"queued", "running"}
GoingFor(s) == \E j \in Jobs : Going(j) /\ job[j].spec = s
WrittenOver(s) == \E j \in Jobs : job[j] \in JobRow /\ job[j].spec = s /\ job[j].over
OneGoing == \A j, k \in Jobs : Going(j) /\ Going(k) /\ job[j].spec = job[k].spec => j = k
GeneratingIsGoing ==
  \A s \in Specs : /\ agent[s].status = "generating" => GoingFor(s)
                   /\ GoingFor(s) => agent[s].status = "generating" \/ WrittenOver(s)
OverHasEnded == \A j \in Jobs : Going(j) => ~job[j].over
Makes(j, s) ==
  /\ job[j] \in JobRow /\ job[j].spec = s /\ job[j].made /\ agent[s].manifest = job[j].revision
  /\ job[j].state = "succeeded" \/ job[j].over
ManifestIsMade ==
  \A s \in Specs : agent[s].status \in {"ready", "shadow"} => \E j \in Jobs : Makes(j, s)

JobInv == JobTyped /\ OneGoing /\ GeneratingIsGoing /\ OverHasEnded /\ ManifestIsMade

(* The transactions that have read a job.                                  *)
Readers == [by : Processes, job : Jobs, as : {"succeed", "fail"}]
EndingTyped == ending \subseteq Readers /\ \A t \in ending : job[t.job] \in JobRow

GenerationInv == DraftInv /\ JobInv /\ EndingTyped

(* What a step may do to a job: one that has ended stays ended.            *)
JobsStay ==
  \A j \in Jobs : job[j] \in JobRow =>
    /\ job'[j] \in JobRow /\ job'[j].spec = job[j].spec /\ job'[j].revision = job[j].revision
    /\ ~Going(j) => ~Going(j)'

(* A job that was not accepted is no row.                                  *)
LEMMA NoJobRow == NoJob \notin JobRow /\ NoJob.state = "none"
<1>1. DOMAIN NoJob = {"state"}
  BY DEF NoJob
<1>2. NoJob \in JobRow => "spec" \in DOMAIN NoJob
  BY DEF JobRow
<1> QED BY <1>1, <1>2 DEF NoJob

(* At first there are no jobs.                                             *)
LEMMA GenerationStart == Init => GenerationInv
<1> SUFFICES ASSUME Init PROVE JobInv /\ EndingTyped
  BY DraftStart DEF Init, GenerationInv
<1>1. [status |-> "draft", manifest |-> 0] \in AgentRow
  BY DEF AgentRow
<1>2. JobTyped
  BY <1>1, NoJobRow DEF Init, JobTyped
<1>3. \A j \in Jobs : ~Going(j)
  BY NoJobRow DEF Init, Going
<1>4. \A s \in Specs : agent[s].status = "draft"
  BY DEF Init
<1>5. EndingTyped
  BY DEF Init, EndingTyped
<1> QED
  BY <1>2, <1>3, <1>4, <1>5
  DEF JobInv, OneGoing, GoingFor, GeneratingIsGoing, OverHasEnded, ManifestIsMade

(* A step that keeps agents and jobs.                                      *)
LEMMA JobsUntouched ==
  ASSUME JobInv, SpecsStay, UNCHANGED <<agent, job>>
  PROVE  JobInv' /\ JobsStay
<1>1. JobTyped'
  BY DEF JobInv, JobTyped, SpecsStay, JobRow
<1>2. OneGoing' /\ OverHasEnded' /\ JobsStay
  BY DEF JobInv, Going, OneGoing, OverHasEnded, JobsStay
<1>3. GeneratingIsGoing'
  BY DEF JobInv, Going, GoingFor, WrittenOver, GeneratingIsGoing
<1>4. ManifestIsMade'
  BY DEF JobInv, Makes, ManifestIsMade
<1> QED BY <1>1, <1>2, <1>3, <1>4 DEF JobInv

(* A step that only moves the status of one specification's row.           *)
LEMMA StatusWritten ==
  ASSUME DraftInv, NEW s \in Specs, spec[s] \in SpecRow, NEW x \in Statuses,
         spec' = [spec EXCEPT ![s].status = x], UNCHANGED <<interp, asked, editor, doomed>>
  PROVE  DraftInv' /\ SpecsStay
<1> DEFINE y == [spec[s] EXCEPT !.status = x]
<1>1. /\ y \in SpecRow /\ y.sections = spec[s].sections /\ y.confirmed = spec[s].confirmed
      /\ y.revision = spec[s].revision /\ y.attached = spec[s].attached
  BY DEF SpecRow
<1>2. spec' = [spec EXCEPT ![s] = y]
  BY DEF DraftInv, DraftTyped
<1> HIDE DEF y
<1>3. ConfirmedRow(y)
  BY <1>1 DEF ConfirmedRow, DraftInv, AllConfirmed
<1>4. \A t \in Specs : t # s /\ spec[t] \in SpecRow /\ y.attached # None => spec[t].attached # y.attached
  BY <1>1 DEF DraftInv, Unshared
<1>5. editor' \in [Editors -> Edit \cup {Closed}] /\ \A e \in Editors : editor'[e] \in {editor[e], Closed}
  BY DEF DraftInv, DraftTyped
<1> QED BY <1>1, <1>2, <1>3, <1>4, <1>5, OneSpecWritten

(* accept: no job of the agent was under way.                              *)
LEMMA AcceptStep ==
  ASSUME DraftAssumption, DraftInv, JobInv, NEW p \in Processes, NEW j \in Jobs, NEW s \in Specs,
         Accept(p, j, s)
  PROVE  DraftInv' /\ JobInv' /\ JobsStay
<1> DEFINE x == [state |-> "queued", spec |-> s, revision |-> spec[s].revision,
                 made |-> FALSE, over |-> FALSE]
<1>1. /\ spec[s] \in SpecRow /\ job[j] = NoJob /\ agent[s].status = "draft"
      /\ spec' = [spec EXCEPT ![s].status = "generating"]
      /\ agent' = [agent EXCEPT ![s].status = "generating"] /\ job' = [job EXCEPT ![j] = x]
      /\ UNCHANGED <<interp, asked, editor, doomed>>
  BY DEF Accept, ReadyToGenerate, DraftInv, DraftTyped
<1>2. "generating" \in Statuses
  BY DEF Statuses
<1>3. DraftInv' /\ SpecsStay
  BY <1>1, <1>2, StatusWritten
<1>4. x \in JobRow /\ x.spec = s /\ x.state = "queued" /\ ~x.over
  BY <1>1 DEF SpecRow, JobRow
<1> HIDE DEF x
<1>5. /\ job' \in [Jobs -> JobRow \cup {NoJob}] /\ job'[j] = x
      /\ \A k \in Jobs : k # j => job'[k] = job[k]
  BY <1>1, <1>4 DEF JobInv, JobTyped
<1>6. /\ agent' \in [Specs -> AgentRow] /\ agent'[s].status = "generating"
      /\ \A t \in Specs : t # s => agent'[t] = agent[t]
  BY <1>1 DEF JobInv, JobTyped, AgentRow
<1>7. JobTyped'
  BY <1>1, <1>3, <1>4, <1>5, <1>6 DEF JobInv, JobTyped, SpecsStay, JobRow
<1>8. \A k \in Jobs : /\ k # j => (Going(k)' <=> Going(k))
                      /\ Going(k) => k # j /\ job[k].spec # s
  <2>1. \A k \in Jobs : k # j => (Going(k)' <=> Going(k))
    BY <1>5 DEF Going
  <2>2. \A k \in Jobs : Going(k) => k # j
    BY <1>1, NoJobRow DEF Going
  <2>3. \A k \in Jobs : Going(k) => job[k].spec # s
    BY <1>1, NoJobRow DEF Accept, ReadyToGenerate, ActiveJobs, Active, Going
  <2> QED BY <2>1, <2>2, <2>3
<1>9. Going(j)'
  BY <1>4, <1>5 DEF Going
<1>10. OneGoing' /\ OverHasEnded'
  BY <1>4, <1>5, <1>8 DEF JobInv, OneGoing, OverHasEnded
<1>11. GeneratingIsGoing'
  <2>1. agent'[s].status = "generating" /\ GoingFor(s)'
    BY <1>4, <1>5, <1>6, <1>9 DEF GoingFor
  <2>2. \A t \in Specs : t # s => (GoingFor(t)' <=> GoingFor(t))
    BY <1>4, <1>5, <1>8 DEF GoingFor
  <2>3. \A t \in Specs : WrittenOver(t) => WrittenOver(t)'
    BY <1>1, <1>5, NoJobRow DEF WrittenOver
  <2> QED BY <1>6, <2>1, <2>2, <2>3 DEF JobInv, GeneratingIsGoing
<1>12. ManifestIsMade'
  <2>1. \A t \in Specs, k \in Jobs : t # s /\ Makes(k, t) => Makes(k, t)'
    BY <1>1, <1>5, <1>6, NoJobRow DEF Makes
  <2> QED BY <1>6, <2>1 DEF JobInv, ManifestIsMade
<1>13. JobsStay
  BY <1>1, <1>5, <1>8, NoJobRow DEF JobsStay
<1> QED BY <1>3, <1>7, <1>10, <1>11, <1>12, <1>13 DEF JobInv

(* run claims a job: it stays under way.                                   *)
LEMMA ClaimStep ==
  ASSUME DraftInv, JobInv, NEW p \in Processes, NEW j \in Jobs, Claim(p, j)
  PROVE  DraftInv' /\ JobInv' /\ JobsStay
<1>1. UNCHANGED <<spec, interp, asked, editor, doomed, agent>>
  BY DEF Claim, draftVars
<1>2. DraftInv' /\ SpecsStay
  BY <1>1 DEF DraftInv, DraftTyped, EditsExist, AllConfirmed, Unshared, SpecsStay
<1>3. CASE UNCHANGED job
  BY <1>1, <1>2, <1>3, JobsUntouched
<1>4. CASE ~UNCHANGED job
  <2> DEFINE x == [job[j] EXCEPT !.state = "running"]
  <2>1. job[j].state = "queued" /\ job' = [job EXCEPT ![j] = x]
    BY <1>4 DEF Claim, JobInv, JobTyped
  <2>2. job[j] \in JobRow /\ Going(j)
    BY <2>1, NoJobRow DEF JobInv, JobTyped, Going
  <2>3. /\ x \in JobRow /\ x.state = "running" /\ x.spec = job[j].spec
        /\ x.revision = job[j].revision /\ x.made = job[j].made /\ x.over = job[j].over
    BY <2>2 DEF JobRow
  <2> HIDE DEF x
  <2>4. /\ job' \in [Jobs -> JobRow \cup {NoJob}] /\ job'[j] = x
        /\ \A k \in Jobs : k # j => job'[k] = job[k]
    BY <2>1, <2>3 DEF JobInv, JobTyped
  <2>5. \A k \in Jobs : Going(k)' <=> Going(k)
    BY <2>2, <2>3, <2>4 DEF Going
  <2>6. JobTyped'
    BY <1>1, <2>2, <2>3, <2>4 DEF JobInv, JobTyped
  <2>7. OneGoing' /\ OverHasEnded'
    BY <2>3, <2>4, <2>5 DEF JobInv, OneGoing, OverHasEnded
  <2>8. GeneratingIsGoing'
    <3>1. \A s \in Specs : GoingFor(s)' <=> GoingFor(s)
      BY <2>3, <2>4, <2>5 DEF GoingFor
    <3>2. \A s \in Specs : WrittenOver(s) => WrittenOver(s)'
      BY <2>2, <2>3, <2>4 DEF WrittenOver
    <3> QED BY <1>1, <3>1, <3>2 DEF JobInv, GeneratingIsGoing
  <2>9. ManifestIsMade'
    <3>1. \A s \in Specs, k \in Jobs : Makes(k, s) => Makes(k, s)'
      BY <1>1, <2>1, <2>2, <2>3, <2>4 DEF Makes
    <3> QED BY <1>1, <3>1 DEF JobInv, ManifestIsMade
  <2>10. JobsStay
    BY <2>2, <2>3, <2>4, <2>5 DEF JobsStay
  <2> QED BY <1>2, <2>6, <2>7, <2>8, <2>9, <2>10 DEF JobInv
<1> QED BY <1>3, <1>4

(* A job ends, or is written again after it has ended: its agent does not  *)
(* wait for it.                                                            *)
LEMMA JobEnds ==
  ASSUME JobInv, SpecsStay, NEW j \in Jobs, job[j] \in JobRow, NEW x \in JobRow, NEW a \in AgentRow,
         x.spec = job[j].spec, x.revision = job[j].revision, x.state \in {"succeeded", "failed"},
         job[j].made => x.made, x.over <=> job[j].over \/ ~Going(j), a.status # "generating",
         \/ x.state = "succeeded" /\ x.made /\ a.manifest = x.revision
         \/ a.status \in {"ready", "shadow"} => a = agent[job[j].spec],
         job' = [job EXCEPT ![j] = x], agent' = [agent EXCEPT ![job[j].spec] = a]
  PROVE  JobInv' /\ JobsStay
<1>1. PICK s \in Specs : s = job[j].spec
  BY DEF JobRow
<1>2. /\ job' \in [Jobs -> JobRow \cup {NoJob}] /\ job'[j] = x
      /\ \A k \in Jobs : k # j => job'[k] = job[k]
  BY DEF JobInv, JobTyped
<1>3. agent' \in [Specs -> AgentRow] /\ agent'[s] = a /\ \A t \in Specs : t # s => agent'[t] = agent[t]
  BY <1>1 DEF JobInv, JobTyped
<1>4. JobTyped'
  BY <1>1, <1>2, <1>3 DEF JobInv, JobTyped, SpecsStay, JobRow
<1>5. \A k \in Jobs : Going(k)' <=> Going(k) /\ k # j
  BY <1>2 DEF Going
<1>6. OneGoing' /\ OverHasEnded'
  BY <1>2, <1>5 DEF JobInv, OneGoing, OverHasEnded
<1>7. GeneratingIsGoing'
  <2>1. GoingFor(s)' => WrittenOver(s)'
    <3>1. CASE Going(j)
      BY <1>1, <1>2, <1>5, <3>1 DEF JobInv, OneGoing, GoingFor
    <3>2. CASE ~Going(j)
      BY <1>1, <1>2, <3>2 DEF WrittenOver
    <3> QED BY <3>1, <3>2
  <2>2. \A t \in Specs : t # s => (GoingFor(t)' <=> GoingFor(t))
    BY <1>1, <1>2, <1>5 DEF GoingFor
  <2>3. \A t \in Specs : WrittenOver(t) => WrittenOver(t)'
    BY <1>2 DEF WrittenOver
  <2> SUFFICES ASSUME NEW t \in Specs
               PROVE  /\ agent'[t].status = "generating" => GoingFor(t)'
                      /\ GoingFor(t)' => agent'[t].status = "generating" \/ WrittenOver(t)'
    BY DEF GeneratingIsGoing
  <2>4. CASE t = s
    BY <1>3, <2>1, <2>4 DEF GoingFor, WrittenOver
  <2>5. CASE t # s
    <3>1. agent'[t] = agent[t] /\ (GoingFor(t)' <=> GoingFor(t)) /\ (WrittenOver(t) => WrittenOver(t)')
      BY <1>3, <2>2, <2>3, <2>5
    <3> QED BY <3>1 DEF JobInv, GeneratingIsGoing
  <2> QED BY <2>4, <2>5
<1>8. ManifestIsMade'
  <2>1. ASSUME NEW t \in Specs, t # s, NEW k \in Jobs, Makes(k, t) PROVE Makes(k, t)'
    BY <1>1, <1>2, <1>3, <2>1 DEF Makes
  <2>2. CASE x.state = "succeeded" /\ x.made /\ a.manifest = x.revision
    <3>1. Makes(j, s)'
      BY <1>1, <1>2, <1>3, <2>2 DEF Makes
    <3> SUFFICES ASSUME NEW t \in Specs, agent'[t].status \in {"ready", "shadow"}
                 PROVE  \E k \in Jobs : Makes(k, t)'
      BY DEF ManifestIsMade
    <3>2. CASE t = s
      BY <3>1, <3>2 DEF Makes
    <3>3. CASE t # s
      <4>1. PICK k \in Jobs : Makes(k, t)
        BY <1>3, <3>3 DEF JobInv, ManifestIsMade
      <4> QED BY <2>1, <3>3, <4>1
    <3> QED BY <3>2, <3>3
  <2>3. CASE a.status \in {"ready", "shadow"} => a = agent[s]
    <3> SUFFICES ASSUME NEW t \in Specs, agent'[t].status \in {"ready", "shadow"}
                 PROVE  \E k \in Jobs : Makes(k, t)'
      BY DEF ManifestIsMade
    <3>1. agent'[t] = agent[t]
      BY <1>3, <2>3
    <3>2. PICK k \in Jobs : Makes(k, t)
      BY <3>1 DEF JobInv, ManifestIsMade
    <3>3. CASE k # j
      BY <1>2, <3>1, <3>2, <3>3 DEF Makes
    <3>4. CASE k = j
      <4>1. ~Going(j)
        BY <3>2, <3>4 DEF Makes, JobInv, OverHasEnded, Going
      <4> QED BY <1>2, <3>1, <3>2, <3>4, <4>1 DEF Makes
    <3> QED BY <3>3, <3>4
  <2> QED BY <1>1, <2>2, <2>3
<1>9. JobsStay
  BY <1>2, <1>5 DEF JobsStay
<1> QED BY <1>4, <1>6, <1>7, <1>8, <1>9 DEF JobInv

(* The row that succeed and fail write.                                    *)
LEMMA EndedRow ==
  ASSUME NEW j \in Jobs, job[j] \in JobRow, NEW state \in {"succeeded", "failed"}, NEW made \in BOOLEAN
  PROVE  /\ Ended(j, state, made) \in JobRow /\ Ended(j, state, made).state = state
         /\ Ended(j, state, made).spec = job[j].spec /\ Ended(j, state, made).revision = job[j].revision
         /\ Ended(j, state, made).made = (job[j].made \/ made)
         /\ Ended(j, state, made).over = (job[j].over \/ ~Going(j))
<1>1. (job[j].made \/ made) \in BOOLEAN /\ (job[j].over \/ job[j].state \notin Active) \in BOOLEAN
  OBVIOUS
<1>2. Ended(j, state, made) = [job[j] EXCEPT !.state = state, !.made = job[j].made \/ made,
                                             !.over = job[j].over \/ job[j].state \notin Active]
  BY DEF Ended
<1>3. job[j].state \notin Active <=> ~Going(j)
  BY DEF Active, Going
<1> DEFINE m == job[j].made \/ made
           o == job[j].over \/ job[j].state \notin Active
           r == [job[j] EXCEPT !.state = state, !.made = m, !.over = o]
<1>4. m \in BOOLEAN /\ o \in BOOLEAN
  BY <1>1
<1>5. o = (job[j].over \/ ~Going(j)) /\ m = (job[j].made \/ made)
  BY <1>3
<1>6. Ended(j, state, made) = r
  BY <1>2
<1> HIDE DEF m, o
<1>7. /\ r \in JobRow /\ r.state = state /\ r.spec = job[j].spec /\ r.revision = job[j].revision
      /\ r.made = m /\ r.over = o
  BY <1>4 DEF JobRow
<1> HIDE DEF r
<1> QED BY <1>5, <1>6, <1>7

(* succeed, after it has read the job.                                     *)
LEMMA SucceedStep ==
  ASSUME DraftInv, JobInv, EndingTyped, NEW p \in Processes, NEW j \in Jobs, EndSucceed(p, j)
  PROVE  DraftInv' /\ JobInv' /\ JobsStay
<1> DEFINE x == Ended(j, "succeeded", TRUE)
           a == [status |-> "ready", manifest |-> job[j].revision]
<1>1. job[j] \in JobRow
  BY DEF EndSucceed, Reader, EndingTyped
<1>2. /\ job' = [job EXCEPT ![j] = x] /\ agent' = [agent EXCEPT ![job[j].spec] = a]
      /\ spec' = [spec EXCEPT ![job[j].spec].status = "generated"]
      /\ UNCHANGED <<interp, asked, editor, doomed>>
  BY DEF EndSucceed
<1>3. job[j].spec \in Specs /\ spec[job[j].spec] \in SpecRow /\ "generated" \in Statuses
  BY <1>1 DEF JobRow, Statuses, JobInv, JobTyped
<1>4. DraftInv' /\ SpecsStay
  BY <1>2, <1>3, StatusWritten
<1>5. /\ x \in JobRow /\ x.spec = job[j].spec /\ x.state = "succeeded" /\ x.revision = job[j].revision
      /\ x.made = (job[j].made \/ TRUE) /\ x.over = (job[j].over \/ ~Going(j))
  BY <1>1, EndedRow
<1>6. a \in AgentRow /\ a.status = "ready" /\ a.manifest = job[j].revision
  BY <1>1 DEF JobRow, AgentRow
<1> HIDE DEF x, a
<1> QED BY <1>1, <1>2, <1>4, <1>5, <1>6, JobEnds

(* fail, by the runner or by a process that boots, after it has read it.   *)
LEMMA FailStep ==
  ASSUME DraftInv, JobInv, NEW j \in Jobs, job[j] \in JobRow, Fail(j),
         UNCHANGED <<interp, asked, editor, doomed>>
  PROVE  DraftInv' /\ JobInv' /\ JobsStay
<1> DEFINE s == job[j].spec
           x == Ended(j, "failed", FALSE)
           a == [agent[s] EXCEPT !.status = IF @ = "generating" THEN "failed" ELSE @]
           to == IF spec[s].status = "generating" THEN "ready" ELSE spec[s].status
<1>1. s \in Specs /\ spec[s] \in SpecRow /\ agent[s] \in AgentRow
  BY DEF JobRow, JobInv, JobTyped
<1>2. /\ job' = [job EXCEPT ![j] = x] /\ agent' = [agent EXCEPT ![s] = a]
      /\ spec' = [spec EXCEPT ![s].status = to]
  BY <1>1 DEF Fail, JobInv, JobTyped, DraftInv, DraftTyped
<1>3. to \in Statuses
  BY <1>1 DEF Statuses, SpecRow
<1>4. /\ x \in JobRow /\ x.spec = s /\ x.state = "failed" /\ x.revision = job[j].revision
      /\ x.made = (job[j].made \/ FALSE) /\ x.over = (job[j].over \/ ~Going(j))
  BY EndedRow
<1>5. /\ a \in AgentRow /\ a.status # "generating"
      /\ a.status \in {"ready", "shadow"} => a = agent[s]
  BY <1>1 DEF AgentRow
<1> HIDE DEF x, a, to
<1>6. DraftInv' /\ SpecsStay
  BY <1>1, <1>2, <1>3, StatusWritten
<1> QED BY <1>2, <1>4, <1>5, <1>6, JobEnds

(* DeploymentService: a failed agent is a draft again, a ready one goes to *)
(* the shadow with the manifest it has.                                    *)
LEMMA DeploymentStep ==
  ASSUME DraftInv, JobInv, NEW s \in Specs, Recover(s) \/ ShadowDeploy(s)
  PROVE  DraftInv' /\ JobInv' /\ JobsStay
<1> DEFINE to == IF agent[s].status = "failed" THEN "draft" ELSE "shadow"
           a == [agent[s] EXCEPT !.status = to]
<1>1. /\ agent[s].status \in {"failed", "ready"} /\ agent' = [agent EXCEPT ![s] = a]
      /\ UNCHANGED <<spec, interp, asked, editor, doomed, job>>
  BY DEF Recover, ShadowDeploy, draftVars, JobInv, JobTyped
<1>2. /\ a \in AgentRow /\ a.manifest = agent[s].manifest /\ a.status \in {"draft", "shadow"}
      /\ a.status = "shadow" => agent[s].status = "ready"
  BY <1>1 DEF JobInv, JobTyped, AgentRow
<1> HIDE DEF a
<1>3. DraftInv' /\ SpecsStay
  BY <1>1 DEF DraftInv, DraftTyped, EditsExist, AllConfirmed, Unshared, SpecsStay
<1>4. agent' \in [Specs -> AgentRow] /\ agent'[s] = a /\ \A t \in Specs : t # s => agent'[t] = agent[t]
  BY <1>1, <1>2 DEF JobInv, JobTyped
<1>5. JobTyped' /\ OneGoing' /\ OverHasEnded' /\ JobsStay
  BY <1>1, <1>4 DEF JobInv, JobTyped, OneGoing, OverHasEnded, Going, JobsStay
<1>6. GeneratingIsGoing'
  BY <1>1, <1>2, <1>4 DEF JobInv, GeneratingIsGoing, Going, GoingFor, WrittenOver
<1>7. ManifestIsMade'
  BY <1>1, <1>2, <1>4 DEF JobInv, ManifestIsMade, Makes
<1> QED BY <1>3, <1>5, <1>6, <1>7 DEF JobInv

(* A transaction reads a job that is under way; the others stay or end.    *)
LEMMA EndingStep ==
  ASSUME JobInv, EndingTyped, JobsStay, [Next]_vars
  PROVE  EndingTyped'
<1>1. ASSUME ending' \subseteq ending PROVE EndingTyped'
  BY <1>1 DEF EndingTyped, JobsStay, Readers
<1>2. ASSUME NEW p \in Processes, NEW j \in Jobs, NEW as \in {"succeed", "fail"}, job[j] \in JobRow,
             ending' \subseteq ending \union {Reader(p, j, as)}
      PROVE  EndingTyped'
  <2>1. Reader(p, j, as) \in Readers /\ Reader(p, j, as).job = j
    BY DEF Readers, Reader
  <2>2. \A t \in Readers : job[t.job] \in JobRow => job'[t.job] \in JobRow
    BY DEF JobsStay, Readers
  <2> QED BY <1>2, <2>1, <2>2 DEF EndingTyped
<1>3. \A j \in Jobs : job[j].state \in Active => job[j] \in JobRow
  BY NoJobRow DEF Active, JobInv, JobTyped
<1>4. ASSUME NEW p \in Processes, NEW j \in Jobs, BeginSucceed(p, j) PROVE EndingTyped'
  <2>1. \/ ending' \subseteq ending
        \/ StillRunning(j) /\ ending' = ending \union {Reader(p, j, "succeed")}
    BY <1>4 DEF BeginSucceed
  <2>2. StillRunning(j) => job[j].state \in Active
    BY DEF StillRunning, Active
  <2> QED BY <1>1, <1>2, <1>3, <2>1, <2>2
<1>5. ASSUME NEW p \in Processes, NEW j \in Jobs, BeginError(p, j) \/ BeginReap(p, j) PROVE EndingTyped'
  <2>1. \/ ending' \subseteq ending
        \/ job[j].state \in Active /\ ending' \subseteq ending \union {Reader(p, j, "fail")}
    BY <1>5 DEF BeginError, BeginReap
  <2> QED BY <1>1, <1>2, <1>3, <2>1
<1>6. ASSUME NEW p \in Processes, NEW j \in Jobs, EndSucceed(p, j) \/ EndError(p, j) \/ EndReap(p, j)
      PROVE  ending' \subseteq ending
  BY <1>6 DEF EndSucceed, EndError, EndReap
<1>7. ASSUME NEW p \in Processes, Crash(p) \/ Boot(p) \/ Resume(p) \/ (\E j \in Jobs : Claim(p, j))
                                 \/ (\E j \in Jobs, s \in Specs : Accept(p, j, s))
      PROVE  ending' \subseteq ending
  BY <1>7 DEF Crash, Boot, Resume, Claim, Accept
<1>8. ASSUME (DraftNext /\ UNCHANGED genVars) \/ UNCHANGED vars
             \/ \E s \in Specs : Recover(s) \/ ShadowDeploy(s)
      PROVE  ending' \subseteq ending
  BY <1>8 DEF Recover, ShadowDeploy, vars, genVars
<1> QED BY <1>1, <1>4, <1>5, <1>6, <1>7, <1>8 DEF Next, Work

(* Every step keeps the invariant, and jobs that have ended end.           *)
LEMMA GenerationStep ==
  ASSUME DraftAssumption, GenerationInv, [Next]_vars
  PROVE  GenerationInv' /\ JobsStay
<1>0. DraftInv /\ JobInv /\ EndingTyped
  BY DEF GenerationInv
<1>1. DraftInv' /\ JobInv' /\ JobsStay
  <2>1. CASE DraftNext /\ UNCHANGED genVars
    BY <1>0, <2>1, DraftStep, JobsUntouched DEF genVars
  <2>2. CASE \E p \in Processes, j \in Jobs, s \in Specs : Accept(p, j, s)
    BY <1>0, <2>2, AcceptStep
  <2>3. CASE \E p \in Processes, j \in Jobs : Claim(p, j)
    BY <1>0, <2>3, ClaimStep
  <2>4. CASE \E p \in Processes, j \in Jobs : EndSucceed(p, j)
    BY <1>0, <2>4, SucceedStep
  <2>5. ASSUME NEW p \in Processes, NEW j \in Jobs, EndError(p, j) \/ EndReap(p, j)
        PROVE  DraftInv' /\ JobInv' /\ JobsStay
    <3>1. job[j] \in JobRow /\ Fail(j) /\ UNCHANGED <<interp, asked, editor, doomed>>
      BY <1>0, <2>5 DEF EndError, EndReap, Reader, EndingTyped
    <3> QED BY <1>0, <3>1, FailStep
  <2>6. CASE \E s \in Specs : Recover(s) \/ ShadowDeploy(s)
    BY <1>0, <2>6, DeploymentStep
  <2>7. CASE UNCHANGED <<draftVars, agent, job>>
    <3>1. DraftInv' /\ SpecsStay
      BY <1>0, <2>7 DEF draftVars, DraftInv, DraftTyped, EditsExist, AllConfirmed, Unshared, SpecsStay
    <3> QED BY <1>0, <2>7, <3>1, JobsUntouched
  <2>8. ASSUME NEW p \in Processes,
               \/ Crash(p) \/ Boot(p) \/ Resume(p)
               \/ \E j \in Jobs : BeginSucceed(p, j) \/ BeginError(p, j) \/ BeginReap(p, j)
        PROVE  UNCHANGED <<draftVars, agent, job>>
    BY <2>8 DEF Crash, Boot, Resume, BeginSucceed, BeginError, BeginReap
  <2>9. UNCHANGED vars => UNCHANGED <<draftVars, agent, job>>
    BY DEF vars, genVars
  <2> QED BY <2>1, <2>2, <2>3, <2>4, <2>5, <2>6, <2>7, <2>8, <2>9 DEF Next, Work
<1> QED BY <1>0, <1>1, EndingStep DEF GenerationInv

(* The invariant says what the runs check.                                 *)
LEMMA GenerationMeans ==
  ASSUME DraftAssumption, GenerationInv
  PROVE  TypeOK /\ SectionsConfirmed /\ OneSpecPerInterpretation /\ GeneratingHasJob /\ ManifestOfSucceeded
<1>1. \A s \in Specs : spec[s] # NoSpec => spec[s] \in SpecRow
  BY DEF GenerationInv, DraftInv, DraftTyped
<1>2. TypeOK
  <2>1. \A s \in Specs : spec[s] # NoSpec => spec[s].sections \subseteq Sections /\ spec[s].revision \in 1..MaxRevision
    BY <1>1 DEF SpecRow
  <2>2. \A i \in Interps : Stored(i) => interp[i].parent \in Interps \union {None}
    BY DEF Stored, GenerationInv, DraftInv, DraftTyped, InterpRow, Origins
  <2> QED BY <2>1, <2>2 DEF TypeOK, GenerationInv, DraftInv, DraftTyped
<1>3. SectionsConfirmed
  BY <1>1 DEF SectionsConfirmed, GenerationInv, DraftInv, AllConfirmed, ConfirmedRow
<1>4. OneSpecPerInterpretation
  <2> SUFFICES ASSUME NEW i \in Interps PROVE Cardinality(AttachedTo(i)) <= 1
    BY DEF OneSpecPerInterpretation
  <2>1. \A s, t \in AttachedTo(i) : s = t
    BY <1>1 DEF AttachedTo, Attached, DraftAssumption, GenerationInv, DraftInv, Unshared
  <2>2. CASE AttachedTo(i) = {}
    BY <2>2, FS_EmptySet
  <2>3. CASE AttachedTo(i) # {}
    <3>1. PICK s : AttachedTo(i) = {s}
      BY <2>1, <2>3
    <3>2. Cardinality(AttachedTo(i)) = 1
      BY <3>1, FS_Singleton
    <3> QED BY <3>2
  <2> QED BY <2>2, <2>3
<1>5. \A s \in Specs, j \in Jobs : j \in ActiveJobs(s) <=> Going(j) /\ job[j].spec = s
  BY NoJobRow DEF ActiveJobs, Active, Going, GenerationInv, JobInv, JobTyped
<1>6. GeneratingHasJob
  <2> SUFFICES ASSUME NEW s \in Specs
               PROVE  /\ Cardinality(ActiveJobs(s)) <= 1
                      /\ agent[s].status = "generating" => ActiveJobs(s) # {}
                      /\ ActiveJobs(s) # {} => agent[s].status = "generating" \/ Overtaken(s)
    BY DEF GeneratingHasJob
  <2>0. ActiveJobs(s) \subseteq Jobs
    BY DEF ActiveJobs
  <2>1. \A j, k \in ActiveJobs(s) : j = k
    BY <1>5, <2>0 DEF GenerationInv, JobInv, OneGoing
  <2>2. /\ agent[s].status = "generating" => ActiveJobs(s) # {}
        /\ ActiveJobs(s) # {} => agent[s].status = "generating" \/ Overtaken(s)
    <3>1. ActiveJobs(s) # {} <=> GoingFor(s)
      BY <1>5, <2>0 DEF GoingFor
    <3>2. WrittenOver(s) => Overtaken(s)
      BY NoJobRow DEF WrittenOver, Overtaken
    <3> QED BY <3>1, <3>2 DEF GenerationInv, JobInv, GeneratingIsGoing
  <2>3. CASE ActiveJobs(s) = {}
    BY <2>2, <2>3, FS_EmptySet
  <2>4. CASE ActiveJobs(s) # {}
    <3>1. PICK j : ActiveJobs(s) = {j}
      BY <2>1, <2>4
    <3>2. Cardinality(ActiveJobs(s)) = 1
      BY <3>1, FS_Singleton
    <3> QED BY <2>2, <3>2
  <2> QED BY <2>3, <2>4
<1>7. ManifestOfSucceeded
  BY NoJobRow DEF ManifestOfSucceeded, GenerationInv, JobInv, ManifestIsMade, Makes
<1> QED BY <1>2, <1>3, <1>4, <1>6, <1>7

(* The processes' dispatchers.                                             *)
Dispatcher == [phase : {"up", "down", "boot"}, reap : SUBSET Jobs, waiting : Seq(Jobs),
               granted : SUBSET Jobs, running : SUBSET Jobs]
Held(d) == d.granted \union d.running

(* A job has one place in a dispatcher.                                    *)
Scheduled(d) == d.granted \union d.running \union {d.waiting[n] : n \in 1..Len(d.waiting)}
Once(d) ==
  /\ d.granted \intersect d.running = {}
  /\ \A n \in 1..Len(d.waiting) :
       /\ d.waiting[n] \notin d.granted \union d.running
       /\ \A m \in 1..Len(d.waiting) : d.waiting[m] = d.waiting[n] => m = n

(* While no process has stopped one runner has each job, and the only      *)
(* transaction that may end it is the runner's.                            *)
Runs(d) ==
  /\ d \in Dispatcher /\ d.phase = "up" /\ Once(d)
  /\ \A j \in Scheduled(d) : job[j] \in JobRow
  /\ \A j \in d.running : job[j].state = "running"
Quiet ==
  /\ proc \in [Processes -> Dispatcher]
  /\ \A p \in Processes : Runs(proc[p])
  /\ \A p, q \in Processes : \A j \in proc[p].running \intersect proc[q].running : p = q
  /\ \A t \in ending : t.job \in proc[t.by].running
  /\ \A t, u \in ending : t.job = u.job => t = u
QuietInv == crashes \in Nat /\ (crashes = 0 => Quiet)

LEMMA QuietStart == Init => QuietInv
<1> SUFFICES ASSUME Init PROVE QuietInv
  OBVIOUS
<1>1. Up \in Dispatcher /\ Up.phase = "up" /\ Up.running = {} /\ Scheduled(Up) = {} /\ Once(Up)
  <2>1. <<>> \in Seq(Jobs) /\ Len(<<>>) = 0
    OBVIOUS
  <2> QED BY <2>1 DEF Up, Dispatcher, Scheduled, Once
<1> QED BY <1>1 DEF Init, QuietInv, Quiet, Runs

(* What the semaphore does to a dispatcher.                                *)
LEMMA EnqueueIs ==
  ASSUME NEW d \in Dispatcher, NEW j \in Jobs, Once(d), j \notin Scheduled(d)
  PROVE  /\ Enqueue(d, j) \in Dispatcher /\ Enqueue(d, j).running = d.running
         /\ Enqueue(d, j).phase = d.phase /\ Once(Enqueue(d, j))
         /\ Scheduled(Enqueue(d, j)) \subseteq Scheduled(d) \union {j}
<1> DEFINE x == [d EXCEPT !.granted = @ \union {j}]
           y == [d EXCEPT !.waiting = Append(@, j)]
<1>1. Enqueue(d, j) \in {x, y}
  BY DEF Enqueue
<1>2. /\ x \in Dispatcher /\ x.running = d.running /\ x.phase = d.phase
      /\ x.granted = d.granted \union {j} /\ x.waiting = d.waiting
  BY DEF Dispatcher
<1>3. /\ y \in Dispatcher /\ y.running = d.running /\ y.phase = d.phase
      /\ y.granted = d.granted /\ y.waiting = Append(d.waiting, j)
  <2>1. d.waiting \in Seq(Jobs) /\ Append(d.waiting, j) \in Seq(Jobs)
    BY DEF Dispatcher
  <2> QED BY <2>1 DEF Dispatcher
<1> HIDE DEF x, y
<1>4. Once(x) /\ Scheduled(x) \subseteq Scheduled(d) \union {j}
  BY <1>2 DEF Once, Scheduled
<1>5. Once(y) /\ Scheduled(y) \subseteq Scheduled(d) \union {j}
  <2>1. /\ Len(d.waiting) \in Nat /\ Len(y.waiting) = Len(d.waiting) + 1
        /\ \A n \in 1..Len(d.waiting) : y.waiting[n] = d.waiting[n]
        /\ y.waiting[Len(d.waiting) + 1] = j
    BY <1>3 DEF Dispatcher
  <2>2. \A n \in 1..Len(y.waiting) : n \in 1..Len(d.waiting) \/ n = Len(d.waiting) + 1
    BY <2>1
  <2>3. \A n \in 1..Len(d.waiting) : d.waiting[n] # j
    BY DEF Scheduled
  <2>4. j \notin d.granted \union d.running
    BY DEF Scheduled
  <2>5. Once(y)
    BY <1>3, <2>1, <2>2, <2>3, <2>4 DEF Once
  <2>6. Scheduled(y) \subseteq Scheduled(d) \union {j}
    BY <1>3, <2>1, <2>2 DEF Scheduled
  <2> QED BY <2>5, <2>6
<1> QED BY <1>1, <1>2, <1>3, <1>4, <1>5

LEMMA ReleaseIs ==
  ASSUME NEW d \in Dispatcher, NEW j \in Jobs, Once(d)
  PROVE  /\ Release(d, j) \in Dispatcher /\ Release(d, j).running = d.running \ {j}
         /\ Release(d, j).phase = d.phase /\ Once(Release(d, j))
         /\ Scheduled(Release(d, j)) \subseteq Scheduled(d)
<1> DEFINE free == [d EXCEPT !.granted = @ \ {j}, !.running = @ \ {j}]
           next == [free EXCEPT !.granted = @ \union {Head(free.waiting)}, !.waiting = Tail(@)]
<1>1. /\ free \in Dispatcher /\ free.running = d.running \ {j} /\ free.phase = d.phase
      /\ free.granted = d.granted \ {j} /\ free.waiting = d.waiting
  BY DEF Dispatcher
<1>2. Release(d, j) = IF free.waiting = <<>> THEN free ELSE next
  BY DEF Release
<1> HIDE DEF free
<1>3. Once(free) /\ Scheduled(free) \subseteq Scheduled(d)
  BY <1>1 DEF Once, Scheduled
<1>4. ASSUME free.waiting # <<>>
      PROVE  /\ next \in Dispatcher /\ next.running = free.running /\ next.phase = free.phase
             /\ Once(next) /\ Scheduled(next) \subseteq Scheduled(free)
  <2> DEFINE w == free.waiting
  <2>1. w \in Seq(Jobs) /\ w # <<>>
    BY <1>1, <1>4 DEF Dispatcher
  <2> HIDE DEF w
  <2>2. /\ Head(w) \in Jobs /\ Tail(w) \in Seq(Jobs) /\ Head(w) = w[1] /\ Len(w) \in Nat /\ Len(w) # 0
        /\ Len(Tail(w)) = Len(w) - 1 /\ \A n \in 1..(Len(w) - 1) : Tail(w)[n] = w[n + 1]
    BY <2>1
  <2>3. /\ next \in Dispatcher /\ next.running = free.running /\ next.phase = free.phase
        /\ next.granted = free.granted \union {w[1]} /\ next.waiting = Tail(w)
    BY <1>1, <2>2 DEF Dispatcher, w
  <2> HIDE DEF next
  <2>4. \A n \in 1..Len(Tail(w)) : n + 1 \in 1..Len(w) /\ n + 1 # 1 /\ Tail(w)[n] = w[n + 1]
    BY <2>2
  <2>5. 1 \in 1..Len(w)
    BY <2>2
  <2>6. /\ free.granted \intersect free.running = {}
        /\ \A n \in 1..Len(w) : w[n] \notin free.granted \union free.running
        /\ \A n, m \in 1..Len(w) : w[m] = w[n] => m = n
    BY <1>3 DEF Once, w
  <2>7. \A n \in 1..Len(Tail(w)) : Tail(w)[n] \notin next.granted \union next.running
    BY <2>3, <2>4, <2>5, <2>6
  <2>8. ASSUME NEW n \in 1..Len(Tail(w)), NEW m \in 1..Len(Tail(w)), Tail(w)[m] = Tail(w)[n] PROVE m = n
    <3>1. m + 1 = n + 1
      BY <2>4, <2>6, <2>8
    <3> QED BY <2>2, <3>1
  <2>9. next.granted \intersect next.running = {}
    BY <2>3, <2>5, <2>6
  <2>10. Once(next)
    BY <2>3, <2>7, <2>8, <2>9 DEF Once
  <2>11. Scheduled(next) \subseteq Scheduled(free)
    BY <2>3, <2>4, <2>5 DEF Scheduled, w
  <2> QED BY <2>3, <2>10, <2>11
<1> HIDE DEF next
<1> QED BY <1>1, <1>2, <1>3, <1>4

(* A dispatcher that runs no more than before.                             *)
LEMMA QuietStays ==
  ASSUME Quiet, NEW p \in Processes, NEW d \in Dispatcher, proc' = [proc EXCEPT ![p] = d],
         d.phase = "up", Once(d), d.running \subseteq proc[p].running,
         ending' \subseteq ending, \A t \in ending' : t.by = p => t.job \in d.running,
         \A k \in Scheduled(d) : job'[k] \in JobRow,
         \A k \in Jobs : job[k] \in JobRow => job'[k] \in JobRow,
         \A q \in Processes : \A k \in proc'[q].running : job'[k].state = "running",
         ending \subseteq Readers
  PROVE  Quiet'
<1>1. /\ proc' \in [Processes -> Dispatcher] /\ proc'[p] = d
      /\ \A q \in Processes : q # p => proc'[q] = proc[q]
  BY DEF Quiet
<1>2. \A q \in Processes : proc'[q].running \subseteq proc[q].running
  BY <1>1
<1>3. \A t \in ending' : t.job \in proc'[t.by].running
  BY <1>1 DEF Quiet, Readers
<1>4. ASSUME NEW q \in Processes PROVE Runs(proc[q])'
  <2>1. CASE q = p
    BY <1>1, <2>1 DEF Runs, Once, Scheduled
  <2>2. CASE q # p
    <3>1. proc[q] \in Dispatcher /\ Runs(proc[q]) /\ proc'[q] = proc[q]
      BY <1>1, <2>2 DEF Quiet
    <3>2. Scheduled(proc[q]) \subseteq Jobs
      BY <3>1 DEF Dispatcher, Scheduled
    <3> QED BY <3>1, <3>2 DEF Runs, Once, Scheduled
  <2> QED BY <2>1, <2>2
<1> QED BY <1>1, <1>2, <1>3, <1>4 DEF Quiet

(* A job that a runner ends, or finds ended.                               *)
LEMMA QuietEnds ==
  ASSUME Quiet, EndingTyped, NEW p \in Processes, NEW j \in Held(proc[p]), ending' \subseteq ending,
         \A t \in ending' : t.job # j, proc' = [proc EXCEPT ![p] = Release(proc[p], j)],
         \A k \in Jobs : job[k] \in JobRow => job'[k] \in JobRow,
         j \in proc[p].running \/ UNCHANGED job, \A k \in Jobs : k # j => job'[k] = job[k]
  PROVE  Quiet'
<1> DEFINE d == Release(proc[p], j)
<1>1. proc[p] \in Dispatcher /\ Runs(proc[p])
  BY DEF Quiet
<1>2. j \in Jobs /\ Scheduled(proc[p]) \subseteq Jobs
  BY <1>1 DEF Held, Dispatcher, Scheduled
<1>3. /\ d \in Dispatcher /\ d.running = proc[p].running \ {j} /\ d.phase = "up"
      /\ Once(d) /\ Scheduled(d) \subseteq Scheduled(proc[p])
  BY <1>1, <1>2, ReleaseIs DEF Runs
<1>4. proc' = [proc EXCEPT ![p] = d]
  OBVIOUS
<1> HIDE DEF d
<1>5. \A t \in ending' : t.by = p => t.job \in d.running
  BY <1>3 DEF Quiet
<1>6. ASSUME NEW q \in Processes, NEW k \in proc'[q].running PROVE job'[k].state = "running"
  <2>1. proc'[q] = IF q = p THEN d ELSE proc[q]
    BY <1>4 DEF Quiet
  <2>2. k \in proc[q].running /\ (q = p => k # j)
    BY <1>3, <1>6, <2>1
  <2>3. k \in Jobs /\ job[k].state = "running"
    BY <2>2 DEF Quiet, Runs, Dispatcher
  <2>4. j \in proc[p].running => k # j
    BY <2>2 DEF Quiet
  <2> QED BY <2>3, <2>4
<1>7. \A k \in Scheduled(d) : job'[k] \in JobRow
  BY <1>1, <1>2, <1>3 DEF Runs
<1>8. ending \subseteq Readers
  BY DEF EndingTyped
<1> QED BY <1>3, <1>4, <1>5, <1>6, <1>7, <1>8, QuietStays

(* Every step.                                                             *)
LEMMA QuietStep ==
  ASSUME GenerationInv, GenerationInv', JobsStay, QuietInv, [Next]_vars
  PROVE  QuietInv'
<1>0. JobInv /\ EndingTyped /\ ending \subseteq Readers /\ ending' \subseteq Readers
  BY DEF GenerationInv, EndingTyped
<1>1. ASSUME NEW p \in Processes, Crash(p) PROVE QuietInv'
  BY <1>1 DEF Crash, QuietInv
<1>2. CASE UNCHANGED <<job, proc, ending, crashes>>
  BY <1>2 DEF QuietInv, Quiet, Runs
<1>3. ASSUME UNCHANGED crashes, Quiet => Quiet' PROVE QuietInv'
  BY <1>3 DEF QuietInv
<1>4. ASSUME NEW p \in Processes, Boot(p) \/ Resume(p) \/ \E j \in Jobs : BeginReap(p, j) \/ EndReap(p, j)
      PROVE  QuietInv'
  <2>1. UNCHANGED crashes /\ proc[p].phase # "up"
    BY <1>4 DEF Boot, Resume, BeginReap, EndReap
  <2> QED BY <1>3, <2>1 DEF Quiet, Runs
<1>5. ASSUME NEW p \in Processes, NEW j \in Jobs, NEW s \in Specs, Accept(p, j, s) PROVE QuietInv'
  <2> SUFFICES ASSUME Quiet PROVE Quiet'
    BY <1>3, <1>5 DEF Accept
  <2> DEFINE d == Enqueue(proc[p], j)
  <2>1. /\ proc' = [proc EXCEPT ![p] = d] /\ UNCHANGED ending /\ job[j] = NoJob
        /\ \A k \in Jobs : k # j => job'[k] = job[k]
        /\ \A k \in Jobs : job[k] \in JobRow => job'[k] \in JobRow
    BY <1>0, <1>5 DEF Accept, JobInv, JobTyped, JobsStay
  <2>2. job'[j] \in JobRow
    <3>1. job'[j] # NoJob
      <4>1. job'[j].state = "queued"
        BY <1>0, <1>5 DEF Accept, JobInv, JobTyped
      <4> QED BY <4>1, NoJobRow
    <3> QED BY <3>1 DEF GenerationInv, JobInv, JobTyped
  <2>3. proc[p] \in Dispatcher /\ Runs(proc[p]) /\ j \notin Scheduled(proc[p]) /\ Scheduled(proc[p]) \subseteq Jobs
    BY <2>1, NoJobRow DEF Quiet, Runs, Scheduled, Dispatcher
  <2>4. /\ d \in Dispatcher /\ d.running = proc[p].running /\ d.phase = "up"
        /\ Once(d) /\ Scheduled(d) \subseteq Scheduled(proc[p]) \union {j}
    BY <2>3, EnqueueIs DEF Runs
  <2> HIDE DEF d
  <2>5. ASSUME NEW q \in Processes, NEW k \in proc'[q].running PROVE job'[k].state = "running"
    <3>1. k \in proc[q].running /\ k \in Jobs
      BY <2>1, <2>4, <2>5 DEF Quiet, Dispatcher
    <3>2. job[k].state = "running"
      BY <3>1 DEF Quiet, Runs
    <3> QED BY <2>1, <3>1, <3>2, NoJobRow
  <2>6. \A k \in Scheduled(d) : job'[k] \in JobRow
    BY <2>1, <2>2, <2>3, <2>4 DEF Runs
  <2>7. \A t \in ending' : t.by = p => t.job \in d.running
    BY <2>1, <2>4 DEF Quiet
  <2> QED BY <1>0, <2>1, <2>4, <2>5, <2>6, <2>7, QuietStays
<1>6. ASSUME NEW p \in Processes, NEW j \in Jobs, Claim(p, j) PROVE QuietInv'
  <2> SUFFICES ASSUME Quiet PROVE Quiet'
    BY <1>3, <1>6 DEF Claim
  <2>0. /\ UNCHANGED ending /\ j \in proc[p].granted /\ proc[p] \in Dispatcher /\ Runs(proc[p])
        /\ j \notin proc[p].running
    BY <1>6 DEF Claim, Quiet, Runs, Once
  <2>1. CASE job[j].state = "queued"
    <3> DEFINE d == [proc[p] EXCEPT !.granted = @ \ {j}, !.running = @ \union {j}]
    <3>1. proc' = [proc EXCEPT ![p] = d] /\ job' = [job EXCEPT ![j].state = "running"]
      BY <1>6, <2>1 DEF Claim, Quiet
    <3>2. /\ d \in Dispatcher /\ d.running = proc[p].running \union {j} /\ d.phase = "up"
          /\ d.granted = proc[p].granted \ {j} /\ d.waiting = proc[p].waiting
      BY <2>0 DEF Runs, Dispatcher
    <3> HIDE DEF d
    <3>3. /\ proc' \in [Processes -> Dispatcher] /\ proc'[p] = d
          /\ \A q \in Processes : q # p => proc'[q] = proc[q]
      BY <3>1, <3>2 DEF Quiet
    <3>4. job[j] \in JobRow
      BY <1>0, <2>1, NoJobRow DEF JobInv, JobTyped
    <3>5. job'[j].state = "running" /\ \A k \in Jobs : k # j => job'[k] = job[k]
      BY <1>0, <3>1, <3>4 DEF JobInv, JobTyped, JobRow
    <3>6. \A q \in Processes : /\ j \notin proc[q].running /\ proc[q] \in Dispatcher /\ Runs(proc[q])
                              /\ Scheduled(proc[q]) \subseteq Jobs
      BY <2>1 DEF Quiet, Runs, Dispatcher, Scheduled
    <3>7. Once(d) /\ Scheduled(d) \subseteq Scheduled(proc[p])
      BY <2>0, <3>2 DEF Runs, Once, Scheduled
    <3>8. \A k \in Jobs : job[k] \in JobRow => job'[k] \in JobRow
      BY DEF JobsStay
    <3>9. ASSUME NEW q \in Processes PROVE Runs(proc[q])'
      <4>1. proc'[q] \in Dispatcher /\ proc'[q].phase = "up" /\ Once(proc'[q])
        BY <3>2, <3>3, <3>6, <3>7 DEF Runs
      <4>2. Scheduled(proc'[q]) \subseteq Scheduled(proc[q])
        BY <3>3, <3>7
      <4>3. \A k \in Scheduled(proc'[q]) : job'[k] \in JobRow
        BY <3>6, <3>8, <4>2 DEF Runs
      <4>4. \A k \in proc'[q].running : job'[k].state = "running"
        BY <3>2, <3>3, <3>5, <3>6 DEF Runs, Dispatcher
      <4> QED BY <4>1, <4>3, <4>4 DEF Runs, Once, Scheduled
    <3>10. \A q, r \in Processes : \A k \in proc'[q].running \intersect proc'[r].running : q = r
      BY <3>2, <3>3, <3>6 DEF Quiet
    <3>11. \A t \in ending : t.job \in proc'[t.by].running
      BY <1>0, <3>2, <3>3 DEF Quiet, Readers
    <3> QED BY <2>0, <3>3, <3>9, <3>10, <3>11 DEF Quiet
  <2>2. CASE job[j].state # "queued"
    <3>1. proc' = [proc EXCEPT ![p] = Release(proc[p], j)] /\ UNCHANGED job
      BY <1>6, <2>2 DEF Claim
    <3> DEFINE d == Release(proc[p], j)
    <3>0. Once(proc[p]) /\ proc[p].phase = "up" /\ proc' = [proc EXCEPT ![p] = d]
      BY <2>0, <3>1 DEF Runs
    <3>2. /\ d \in Dispatcher /\ d.running = proc[p].running \ {j} /\ d.phase = proc[p].phase
          /\ Once(d) /\ Scheduled(d) \subseteq Scheduled(proc[p])
      BY <2>0, <3>0, ReleaseIs
    <3> HIDE DEF d
    <3>6. d.running = proc[p].running /\ d.phase = "up"
      BY <2>0, <3>0, <3>2
    <3>3. \A k \in Scheduled(d) : job'[k] \in JobRow
      BY <2>0, <3>1, <3>2 DEF Runs
    <3>4. \A q \in Processes : \A k \in proc'[q].running : job'[k].state = "running"
      BY <3>0, <3>1, <3>6 DEF Quiet, Runs
    <3>5. \A t \in ending' : t.by = p => t.job \in d.running
      BY <2>0, <3>6 DEF Quiet
    <3>7. \A k \in Jobs : job[k] \in JobRow => job'[k] \in JobRow
      BY <3>1
    <3> QED BY <1>0, <2>0, <3>0, <3>2, <3>3, <3>4, <3>5, <3>6, <3>7, QuietStays
  <2> QED BY <2>1, <2>2
<1>7. ASSUME NEW p \in Processes, NEW j \in Jobs, NEW as \in {"succeed", "fail"}, Quiet,
             UNCHANGED <<job, proc>>, j \in proc[p].running,
             ending' = {t \in ending : t.job # j} \union {Reader(p, j, as)}
      PROVE  Quiet'
  <2> DEFINE r == Reader(p, j, as)
  <2>0. r.by = p /\ r.job = j
    BY DEF Reader
  <2> HIDE DEF r
  <2>3. \A t \in ending' : t = r \/ (t \in ending /\ t.job # j)
    BY <1>7 DEF r
  <2>1. \A t \in ending' : t.job \in proc[t.by].running
    BY <1>7, <2>0, <2>3 DEF Quiet
  <2>2. \A t, u \in ending' : t.job = u.job => t = u
    BY <1>7, <2>0, <2>3 DEF Quiet
  <2> QED BY <1>7, <2>1, <2>2 DEF Quiet, Runs
<1>8. ASSUME Quiet, NEW p \in Processes, NEW j \in proc[p].running
      PROVE  \A t \in ending : t.job = j => t = Reader(p, j, "succeed") \/ t = Reader(p, j, "fail")
  BY <1>0, <1>8 DEF Quiet, Readers, Reader
<1>9. ASSUME NEW p \in Processes, NEW j \in Jobs, BeginSucceed(p, j) \/ BeginError(p, j) PROVE QuietInv'
  <2> SUFFICES ASSUME Quiet PROVE Quiet'
    BY <1>3, <1>9 DEF BeginSucceed, BeginError
  <2>1. UNCHANGED job /\ j \in proc[p].running /\ job[j].state = "running"
    BY <1>9 DEF BeginSucceed, BeginError, Quiet, Runs
  <2>2. UNCHANGED proc
    BY <1>9, <2>1 DEF BeginSucceed, BeginError, StillRunning, Active
  <2>3. CASE BeginSucceed(p, j)
    <3>1. \A t \in ending : t.job # j
      BY <1>8, <2>1, <2>3 DEF BeginSucceed, Reader
    <3>2. ending' = {t \in ending : t.job # j} \union {Reader(p, j, "succeed")}
      BY <2>1, <2>3, <3>1 DEF BeginSucceed, StillRunning
    <3> QED BY <1>7, <2>1, <2>2, <3>2
  <2>4. CASE BeginError(p, j)
    <3>1. ending' = (ending \ {Reader(p, j, "succeed")}) \union {Reader(p, j, "fail")}
      BY <2>1, <2>4 DEF BeginError, Active
    <3>2. \A t \in ending : t.job = j => t = Reader(p, j, "succeed")
      BY <1>8, <2>1, <2>4 DEF BeginError
    <3>3. ending \ {Reader(p, j, "succeed")} = {t \in ending : t.job # j}
      BY <3>2 DEF Reader
    <3> QED BY <1>7, <2>1, <2>2, <3>1, <3>3
  <2> QED BY <1>9, <2>3, <2>4
<1>10. ASSUME NEW p \in Processes, NEW j \in Jobs, EndSucceed(p, j) \/ EndError(p, j) PROVE QuietInv'
  <2> SUFFICES ASSUME Quiet PROVE Quiet'
    BY <1>3, <1>10 DEF EndSucceed, EndError
  <2>1. PICK t \in ending : t.job = j /\ ending' = ending \ {t}
    BY <1>10 DEF EndSucceed, EndError, Reader
  <2>2. \A u \in ending' : u.job # j
    BY <2>1 DEF Quiet
  <2>3. j \in proc[p].running /\ proc' = [proc EXCEPT ![p] = Release(proc[p], j)]
    BY <1>10 DEF EndSucceed, EndError
  <2>4. \A k \in Jobs : k # j => job'[k] = job[k]
    BY <1>0, <1>10 DEF EndSucceed, EndError, Fail, JobInv, JobTyped
  <2>5. \A k \in Jobs : job[k] \in JobRow => job'[k] \in JobRow
    BY DEF JobsStay
  <2>6. j \in Held(proc[p])
    BY <2>3 DEF Held
  <2> QED BY <1>0, <2>1, <2>2, <2>3, <2>4, <2>5, <2>6, QuietEnds
<1>11. ASSUME NEW s \in Specs, Recover(s) \/ ShadowDeploy(s) PROVE UNCHANGED <<job, proc, ending, crashes>>
  BY <1>11 DEF Recover, ShadowDeploy
<1>12. UNCHANGED vars \/ UNCHANGED genVars => UNCHANGED <<job, proc, ending, crashes>>
  BY DEF vars, genVars
<1> QED BY <1>1, <1>2, <1>4, <1>5, <1>6, <1>9, <1>10, <1>11, <1>12 DEF Next, Work

(* A job that has ended is written by what read it before.                 *)
LEMMA OutcomeStep ==
  ASSUME GenerationInv, QuietInv, JobsStay, GenerationInv', [Next]_vars
  PROVE  OutcomeIsFinal
<1> SUFFICES ASSUME NEW j \in Jobs, job[j].state \in {"succeeded", "failed"}
             PROVE  /\ job'[j].state \in {"succeeded", "failed"}
                    /\ job'[j].spec = job[j].spec /\ job'[j].revision = job[j].revision
                    /\ Deciding(j)' \subseteq Deciding(j)
                    /\ job'[j] # job[j] => Deciding(j)' # Deciding(j) /\ crashes > 0
  BY DEF OutcomeIsFinal
<1>0. JobInv /\ EndingTyped
  BY DEF GenerationInv
<1>1. job[j] \in JobRow /\ ~Going(j)
  BY <1>0, NoJobRow DEF JobInv, JobTyped, Going
<1>2. /\ job'[j] \in JobRow /\ ~Going(j)'
      /\ job'[j].spec = job[j].spec /\ job'[j].revision = job[j].revision
  BY <1>1 DEF JobsStay
<1>3. job'[j].state \in {"succeeded", "failed"}
  BY <1>2 DEF Going, JobRow
<1>4. \A t \in ending' \ ending : t.job # j
  <2>1. ASSUME NEW p \in Processes, NEW k \in Jobs, BeginSucceed(p, k) \/ BeginError(p, k) \/ BeginReap(p, k)
        PROVE  \A t \in ending' \ ending : t.job # j
    <3>1. \/ ending' \subseteq ending
          \/ /\ job[k].state \in {"queued", "running"}
             /\ ending' \subseteq ending \union {Reader(p, k, "succeed"), Reader(p, k, "fail")}
      BY <2>1 DEF BeginSucceed, BeginError, BeginReap, StillRunning, Active
    <3> QED BY <3>1 DEF Reader
  <2>2. ASSUME NEW p \in Processes, NEW k \in Jobs, EndSucceed(p, k) \/ EndError(p, k) \/ EndReap(p, k)
        PROVE  ending' \subseteq ending
    BY <2>2 DEF EndSucceed, EndError, EndReap
  <2>3. ASSUME NEW p \in Processes, Crash(p) \/ Boot(p) \/ Resume(p) \/ (\E k \in Jobs : Claim(p, k))
                                   \/ (\E k \in Jobs, s \in Specs : Accept(p, k, s))
        PROVE  ending' \subseteq ending
    BY <2>3 DEF Crash, Boot, Resume, Claim, Accept
  <2>4. ASSUME (DraftNext /\ UNCHANGED genVars) \/ UNCHANGED vars
               \/ \E s \in Specs : Recover(s) \/ ShadowDeploy(s)
        PROVE  ending' \subseteq ending
    BY <2>4 DEF Recover, ShadowDeploy, vars, genVars
  <2> QED BY <2>1, <2>2, <2>3, <2>4 DEF Next, Work
<1>5. Deciding(j)' \subseteq Deciding(j)
  BY <1>4 DEF Deciding
<1>6. ASSUME job'[j] # job[j] PROVE Deciding(j)' # Deciding(j) /\ crashes > 0
  <2>1. ASSUME NEW p \in Processes, NEW k \in Jobs, Claim(p, k) \/ \E s \in Specs : Accept(p, k, s)
        PROVE  FALSE
    BY <1>0, <1>6, <2>1, NoJobRow DEF Claim, Accept, JobInv, JobTyped
  <2>2. ASSUME UNCHANGED job PROVE FALSE
    BY <1>6, <2>2
  <2>3. PICK p \in Processes, k \in Jobs : EndSucceed(p, k) \/ EndError(p, k) \/ EndReap(p, k)
    <3>1. ASSUME NEW p \in Processes,
                 \/ Crash(p) \/ Boot(p) \/ Resume(p)
                 \/ \E k \in Jobs : BeginSucceed(p, k) \/ BeginError(p, k) \/ BeginReap(p, k)
          PROVE  UNCHANGED job
      BY <3>1 DEF Crash, Boot, Resume, BeginSucceed, BeginError, BeginReap
    <3>2. ASSUME (DraftNext /\ UNCHANGED genVars) \/ UNCHANGED vars
                 \/ \E s \in Specs : Recover(s) \/ ShadowDeploy(s)
          PROVE  UNCHANGED job
      BY <3>2 DEF Recover, ShadowDeploy, vars, genVars
    <3> QED BY <2>1, <2>2, <3>1, <3>2 DEF Next, Work
  <2>4. k = j
    BY <1>0, <1>6, <2>3 DEF EndSucceed, EndError, EndReap, Fail, JobInv, JobTyped
  <2>5. PICK t \in ending : t.job = j /\ ending' = ending \ {t}
    BY <2>3, <2>4 DEF EndSucceed, EndError, EndReap, Reader
  <2>6. Deciding(j)' # Deciding(j)
    BY <2>5 DEF Deciding
  <2>7. crashes # 0
    <3> SUFFICES ASSUME Quiet PROVE FALSE
      BY DEF QuietInv
    <3>1. t.by \in Processes
      BY <1>0 DEF EndingTyped, Readers
    <3>2. j \in proc[t.by].running
      BY <2>5 DEF Quiet
    <3> QED BY <3>1, <3>2 DEF Quiet, Runs
  <2> QED BY <2>6, <2>7 DEF QuietInv
<1> QED BY <1>2, <1>3, <1>5, <1>6

(* Sections stay confirmed and interpretations unshared while editors race *)
(* with jobs; an agent that is generating has one job under way, the       *)
(* manifest of a generated one was made by a job of it, and a job that has *)
(* ended is written again only by a transaction that had read it before,   *)
(* once, and not at all while no process has stopped (SpecService,         *)
(* GenerationService, GenerationDispatcher, DeploymentService).            *)
THEOREM AgentsAreGeneratedOnce ==
  DraftAssumption => (Spec => GenerationIsExact)
<1> SUFFICES ASSUME DraftAssumption PROVE Spec => GenerationIsExact
  OBVIOUS
<1>1. Init => GenerationInv /\ QuietInv
  BY GenerationStart, QuietStart
<1>2. GenerationInv /\ QuietInv /\ [Next]_vars
        => GenerationInv' /\ QuietInv' /\ [OutcomeIsFinal]_vars
  BY GenerationStep, QuietStep, OutcomeStep
<1>3. GenerationInv => /\ TypeOK /\ SectionsConfirmed /\ OneSpecPerInterpretation
                       /\ GeneratingHasJob /\ ManifestOfSucceeded
  BY GenerationMeans
<1> QED BY <1>1, <1>2, <1>3, PTL DEF Spec, GenerationIsExact

-----------------------------------------------------------------------------
(* Recursion over numbers, of which the ancestors of an interpretation and *)
(* the queue of a booting process are made.                                *)

(* Every non-empty set of numbers has a smallest element.                  *)
LEMMA SmallestOf ==
  ASSUME NEW T, T \subseteq Nat, T # {}
  PROVE  \E x \in T : \A y \in T : x <= y
<1>1. IsWellFoundedOn(OpToRel(<, Nat), Nat)
  BY NatLessThanWellFounded
<1>2. PICK x \in T : \A y \in T : ~(<<y, x>> \in OpToRel(<, Nat))
  BY <1>1, WFMin, Zenon
<1>3. \A y \in T : ~(y < x)
  BY <1>2 DEF OpToRel
<1> QED
  BY <1>3

(* What holds of zero and of each successor holds of all.                  *)
LEMMA Induction ==
  ASSUME NEW P, NEW N \in Nat, 0 \in P,
         \A n \in 1..N : n - 1 \in P => n \in P
  PROVE  0..N \subseteq P
<1> DEFINE T == {n \in 0..N : n \notin P}
<1> SUFFICES ASSUME T # {} PROVE FALSE
  OBVIOUS
<1>1. T \subseteq Nat
  OBVIOUS
<1>2. PICK m \in T : \A n \in T : m <= n
  <2> HIDE DEF T
  <2> QED BY <1>1, SmallestOf
<1>3. m \in 1..N /\ m - 1 \in 0..N /\ m - 1 \notin T
  BY <1>2
<1> QED BY <1>2, <1>3

(* A function that is defined by recursion exists.                         *)
Recurs(f, S, base, N, step) ==
  f \in [0..N -> S] /\ f[0] = base /\ \A n \in 1..N : f[n] = step[<<n, f[n - 1]>>]

LEMMA RecursionExists ==
  ASSUME NEW S, NEW base \in S, NEW N \in Nat, NEW step \in [(1..N) \X S -> S]
  PROVE  \E f : Recurs(f, S, base, N, step)
<1> DEFINE Rec(f, m) == /\ f \in [0..m -> S]
                        /\ f[0] = base /\ \A n \in 1..m : f[n] = step[<<n, f[n - 1]>>]
           P == {m \in 0..N : \E f : Rec(f, m)}
<1>1. 0 \in P
  <2> DEFINE f == [n \in 0..0 |-> base]
  <2>1. f \in [0..0 -> S] /\ f[0] = base /\ \A n \in 1..0 : f[n] = step[<<n, f[n - 1]>>]
    OBVIOUS
  <2> HIDE DEF f
  <2> QED BY <2>1
<1>2. ASSUME NEW m \in 1..N, m - 1 \in P PROVE m \in P
  <2>1. PICK f : Rec(f, m - 1)
    BY <1>2
  <2> DEFINE g == [n \in 0..m |-> IF n = m THEN step[<<m, f[m - 1]>>] ELSE f[n]]
  <2>2. m - 1 \in 0..(m - 1) /\ f[m - 1] \in S
    BY <2>1
  <2>3. g \in [0..m -> S] /\ g[0] = base
    BY <2>1, <2>2
  <2>4. ASSUME NEW n \in 1..m PROVE g[n] = step[<<n, g[n - 1]>>]
    <3>1. n - 1 \in 0..m /\ n - 1 # m /\ g[n - 1] = f[n - 1]
      OBVIOUS
    <3>2. CASE n = m
      BY <3>1, <3>2
    <3>3. CASE n # m
      <4>1. n \in 1..(m - 1) /\ n \in 0..m
        BY <3>3
      <4> QED BY <2>1, <3>1, <3>3, <4>1
    <3> QED BY <3>2, <3>3
  <2> HIDE DEF g
  <2> QED BY <2>3, <2>4
<1> HIDE DEF P
<1>3. N \in P
  BY <1>1, <1>2, Induction
<1> QED BY <1>3 DEF P, Recurs

-----------------------------------------------------------------------------
(* The lineage of an interpretation: its generations of ancestors.         *)

Ancestry(i, up) ==
  /\ up[0] = {i}
  /\ \A n \in 1..Cardinality(Interps) : up[n] = up[n - 1] \cup {Parent(j) : j \in up[n - 1]}
  /\ \A n \in 0..Cardinality(Interps) : up[n] \subseteq Origins
  /\ Lineage(i) = up[Cardinality(Interps)] \ {None}

LEMMA LineageIs ==
  ASSUME IsFiniteSet(Interps)
  PROVE  DraftTyped => \A i \in Interps : \E up : Ancestry(i, up)
<1> SUFFICES ASSUME DraftTyped, NEW i \in Interps PROVE \E up : Ancestry(i, up)
  OBVIOUS
<1> DEFINE C == Cardinality(Interps)
           Body(up) == up = [n \in 0..C |-> IF n = 0 THEN {i}
                                            ELSE up[n - 1] \union {Parent(j) : j \in up[n - 1]}]
           step == [z \in (1..C) \X SUBSET Origins |-> z[2] \union {Parent(j) : j \in z[2]}]
<1>1. C \in Nat
  BY FS_CardinalityType
<1>2. \A j \in Origins : Parent(j) \in Origins
  BY NoRows DEF Parent, Stored, Origins, DraftTyped, InterpRow
<1>3. \A n \in 1..C, x \in SUBSET Origins :
        step[<<n, x>>] = x \union {Parent(j) : j \in x} /\ step[<<n, x>>] \in SUBSET Origins
  BY <1>2
<1>4. \E up : Body(up)
  <2> DEFINE base == {i}
             S == SUBSET Origins
  <2>1. base \in S /\ step \in [(1..C) \X S -> S]
    BY <1>2 DEF Origins
  <2> HIDE DEF C, step
  <2>2. PICK f : Recurs(f, S, base, C, step)
    <3> HIDE DEF base, S
    <3> QED BY <1>1, <2>1, RecursionExists
  <2>3. ASSUME NEW n \in 0..C
        PROVE  f[n] = IF n = 0 THEN {i} ELSE f[n - 1] \union {Parent(j) : j \in f[n - 1]}
    <3>1. CASE n # 0
      <4>1. n \in 1..C /\ n - 1 \in 0..C
        BY <1>1, <3>1
      <4>2. f[n - 1] \in SUBSET Origins /\ f[n] = step[<<n, f[n - 1]>>]
        BY <2>2, <4>1 DEF Recurs
      <4>3. step[<<n, f[n - 1]>>] = f[n - 1] \union {Parent(j) : j \in f[n - 1]}
        BY <1>3, <4>1, <4>2
      <4> QED BY <3>1, <4>2, <4>3
    <3> QED BY <2>2, <3>1 DEF Recurs
  <2>4. Body(f)
    BY <2>2, <2>3 DEF Recurs
  <2> QED BY <2>4
<1> DEFINE up == CHOOSE u : Body(u)
<1>5. Body(up)
  BY <1>4, Zenon
<1>6. Lineage(i) = up[C] \ {None}
  BY DEF Lineage
<1> HIDE DEF up, C
<1>7. up[0] = {i} /\ \A n \in 1..C : up[n] = up[n - 1] \union {Parent(j) : j \in up[n - 1]}
  BY <1>1, <1>5
<1>8. \A n \in 0..C : up[n] \subseteq Origins
  <2> DEFINE P == {n \in 0..C : up[n] \subseteq Origins}
  <2>1. 0 \in P
    BY <1>1, <1>7 DEF Origins
  <2>2. ASSUME NEW n \in 1..C, n - 1 \in P PROVE n \in P
    <3>1. n \in 0..C /\ up[n] = up[n - 1] \union {Parent(j) : j \in up[n - 1]}
      BY <1>1, <1>7
    <3> QED BY <1>2, <2>2, <3>1
  <2> HIDE DEF P
  <2>3. 0..C \subseteq P
    BY <1>1, <2>1, <2>2, Induction
  <2> QED BY <2>3 DEF P
<1> QED BY <1>6, <1>7, <1>8 DEF Ancestry, C

(* The parent of a stored interpretation is stored, and an interpretation  *)
(* that is being computed is new.                                          *)
Kin ==
  \A i \in Interps :
    /\ Stored(i) /\ interp[i].parent # None => Stored(interp[i].parent)
    /\ asked[i] # NotAsked => interp[i] = NoInterp

(* What a specification rests on is stored.                                *)
Uses(x, i) == x.attached = i \/ \E c \in x.confirmed : c.by = i
UsedStay == \A s \in Specs : spec[s] \in SpecRow => \A i \in Interps : Uses(spec[s], i) => Stored(i)

LineageInv == Kin /\ UsedStay

(* Interpretations keep their parents, and what is deleted stays so.       *)
InterpsStay ==
  \A i \in Interps :
    /\ Stored(i) => interp'[i] = Deleted \/ (Stored(i)' /\ interp'[i].parent = interp[i].parent)
    /\ interp[i] = Deleted => interp'[i] = Deleted

LEMMA StoredRows ==
  ASSUME DraftTyped, NEW i \in Interps
  PROVE  /\ Stored(i) <=> interp[i] \in InterpRow
         /\ Stored(i) => interp[i].parent \in Origins
BY NoRows DEF Stored, DraftTyped, InterpRow

(* InterpretationService: what is in use is not deleted, nor a parent.     *)
LEMMA InterpretationLineage ==
  ASSUME DraftAssumption, DraftInv, LineageInv,
         \/ \E i \in Interps : Expire(i) \/ Delete(i) \/ Answer(i, "split") \/ Answer(i, "prefill")
         \/ \E i \in Interps, parent \in Interps \union {None}, for \in Specs \union {None} :
              Ask(i, parent, for)
         \/ Scan
  PROVE  LineageInv' /\ InterpsStay
<1>0. DraftTyped /\ DraftTyped'
  BY InterpretationStep DEF DraftInv
<1> USE DEF LineageInv
<1>1. ASSUME NEW i \in Interps, NEW x, interp' = [interp EXCEPT ![i] = x], x \in InterpRow,
             Stored(i) => x.parent = interp[i].parent,
             interp[i] # Deleted, x.parent # None => Stored(x.parent) /\ x.parent \in Interps,
             UNCHANGED spec, \A j \in Interps : asked'[j] # NotAsked => asked[j] # NotAsked /\ j # i
      PROVE  LineageInv' /\ InterpsStay
  <2>1. interp'[i] = x /\ \A j \in Interps : j # i => interp'[j] = interp[j]
    BY <1>0, <1>1 DEF DraftTyped
  <2>2. Stored(i)' /\ \A j \in Interps : j # i => (Stored(j)' <=> Stored(j))
    BY <1>1, <2>1, NoRows DEF Stored
  <2>3. Kin'
    BY <1>0, <1>1, <2>1, <2>2, StoredRows DEF Kin, Origins
  <2>4. UsedStay'
    BY <1>1, <2>2 DEF UsedStay
  <2>5. InterpsStay
    BY <1>1, <2>1, <2>2 DEF InterpsStay
  <2> QED BY <2>3, <2>4, <2>5
<1>2. ASSUME UNCHANGED <<spec, interp>>, Kin' PROVE LineageInv' /\ InterpsStay
  BY <1>2 DEF UsedStay, InterpsStay, Stored
<1>3. ASSUME NEW i \in Interps, Expire(i) PROVE LineageInv' /\ InterpsStay
  <2> DEFINE x == [interp[i] EXCEPT !.expired = TRUE]
  <2>1. interp[i] \in InterpRow /\ Stored(i)
    BY <1>0, <1>3, StoredRows DEF Expire
  <2>2. interp' = [interp EXCEPT ![i] = x] /\ UNCHANGED <<spec, asked>>
    BY <1>3, <1>0 DEF Expire, DraftTyped
  <2>3. x \in InterpRow /\ x.parent = interp[i].parent
    BY <2>1 DEF InterpRow
  <2>4. interp[i] # Deleted /\ interp[i] # NoInterp
    BY <2>1, NoRows
  <2>5. x.parent # None => Stored(x.parent) /\ x.parent \in Interps
    BY <1>0, <2>1, <2>3, StoredRows DEF Kin, Origins
  <2>6. \A j \in Interps : asked'[j] # NotAsked => asked[j] # NotAsked /\ j # i
    BY <2>2, <2>4 DEF Kin
  <2> HIDE DEF x
  <2> QED BY <1>1, <2>2, <2>3, <2>4, <2>5, <2>6
<1>4. ASSUME NEW i \in Interps, NEW k \in {"split", "prefill"}, Answer(i, k)
      PROVE  LineageInv' /\ InterpsStay
  <2>0. /\ asked[i] # NotAsked /\ interp[i] = NoInterp
        /\ asked' = [asked EXCEPT ![i] = NotAsked] /\ UNCHANGED spec
    BY <1>4 DEF Answer, Kin
  <2>1. CASE UNCHANGED interp
    <3>1. Kin'
      BY <1>0, <2>0, <2>1 DEF Kin, Stored, DraftTyped
    <3> QED BY <1>2, <2>0, <2>1, <3>1
  <2>2. CASE ~UNCHANGED interp
    <3> DEFINE x == [kind |-> k, parent |-> asked[i].parent, expired |-> FALSE,
                     offers |-> IF k = "split" THEN {}
                                ELSE IF asked[i].for = None THEN Sections
                                     ELSE Sections \ spec[asked[i].for].sections]
    <3>1. asked[i].parent \in Origins
      BY <1>0, <2>0 DEF DraftTyped, Question
    <3>2. x \in InterpRow /\ x.parent = asked[i].parent
      BY <3>1 DEF InterpRow
    <3>3. interp' = [interp EXCEPT ![i] = x] /\ (x.parent # None => Stored(x.parent))
      BY <1>4, <2>2 DEF Answer
    <3>4. ~Stored(i) /\ interp[i] # Deleted
      BY <2>0 DEF Stored, NoInterp, Deleted
    <3>5. \A j \in Interps : asked'[j] # NotAsked => asked[j] # NotAsked /\ j # i
      BY <1>0, <2>0 DEF DraftTyped
    <3> HIDE DEF x
    <3> QED BY <1>1, <2>0, <3>1, <3>2, <3>3, <3>4, <3>5 DEF Origins
  <2> QED BY <2>1, <2>2
<1>5. ASSUME NEW i \in Interps, Delete(i) PROVE LineageInv' /\ InterpsStay
  <2>1. CASE UNCHANGED interp
    <3>1. Kin'
      BY <1>5, <2>1 DEF Kin, Stored, Delete
    <3> QED BY <1>2, <1>5, <2>1, <3>1 DEF Delete
  <2>2. CASE ~UNCHANGED interp
    <3>1. /\ Deletable(i) /\ interp' = [interp EXCEPT ![i] = Deleted]
          /\ \A j \in Interps : Parent(j) # i
          /\ UNCHANGED <<spec, asked>>
      BY <1>5, <2>2 DEF Delete
    <3>2. interp'[i] = Deleted /\ \A j \in Interps : j # i => interp'[j] = interp[j]
      BY <1>0, <3>1 DEF DraftTyped
    <3>3. ~Stored(i)' /\ \A j \in Interps : j # i => (Stored(j)' <=> Stored(j))
      BY <3>2 DEF Stored
    <3>4. Kin'
      <4>1. \A j \in Interps : Stored(j) => interp[j].parent # i
        BY <3>1 DEF Parent, DraftAssumption
      <4>2. Stored(i)
        BY <3>1 DEF Deletable
      <4> QED BY <1>0, <3>1, <3>2, <3>3, <4>1, <4>2, StoredRows DEF Kin, Origins, Stored
    <3>5. UsedStay'
      <4>1. \A s \in Specs : spec[s] \in SpecRow => ~Uses(spec[s], i)
        BY <1>0, <3>1, AttachedRows, NoRows DEF Deletable, Confirms, Uses
      <4> QED BY <3>1, <3>3, <4>1 DEF UsedStay
    <3> QED BY <3>2, <3>3, <3>4, <3>5 DEF InterpsStay
  <2> QED BY <2>1, <2>2
<1>6. ASSUME NEW i \in Interps, NEW parent \in Interps \union {None},
             NEW for \in Specs \union {None}, Ask(i, parent, for)
      PROVE  LineageInv' /\ InterpsStay
  <2>1. Kin'
    BY <1>0, <1>6 DEF Ask, Kin, Stored, DraftTyped
  <2> QED BY <1>2, <1>6, <2>1 DEF Ask
<1>7. ASSUME Scan PROVE LineageInv' /\ InterpsStay
  <2>1. Kin'
    BY <1>7 DEF Scan, Kin, Stored
  <2> QED BY <1>2, <1>7, <2>1 DEF Scan
<1> QED BY <1>3, <1>4, <1>5, <1>6, <1>7

(* A step that leaves the interpretations alone and rests specifications   *)
(* on stored ones only.                                                    *)
LEMMA RestsOnStored ==
  ASSUME LineageInv, UNCHANGED <<interp, asked>>,
         \A s \in Specs, i \in Interps :
           spec'[s] \in SpecRow /\ Uses(spec'[s], i)
           => Stored(i) \/ (spec[s] \in SpecRow /\ Uses(spec[s], i))
  PROVE  LineageInv' /\ InterpsStay
<1>1. \A i \in Interps : Stored(i)' <=> Stored(i)
  BY DEF Stored
<1>2. Kin'
  BY <1>1 DEF LineageInv, Kin, Stored
<1>3. UsedStay'
  BY <1>1 DEF LineageInv, UsedStay, Uses
<1>4. InterpsStay
  BY <1>1 DEF InterpsStay
<1> QED BY <1>2, <1>3, <1>4 DEF LineageInv

(* create and updateSection rest a specification on an interpretation that *)
(* is stored then.                                                         *)
LEMMA SpecLineage ==
  ASSUME DraftAssumption, DraftInv, LineageInv,
         \/ \E s \in Specs, base \in Specs \union {None}, i \in Interps \union {None} : Create(s, base, i)
         \/ \E e \in Editors, s \in Specs, n \in Sections, i \in Interps \union {None}, a \in Answers :
              ReadSection(e, s, n, i, a)
         \/ \E e \in Editors : SaveSection(e)
  PROVE  LineageInv' /\ InterpsStay
<1>0. DraftTyped
  BY DEF DraftInv
<1>1. ASSUME NEW s \in Specs, NEW base \in Specs \union {None}, NEW i \in Interps \union {None},
             Create(s, base, i)
      PROVE  LineageInv' /\ InterpsStay
  <2> DEFINE has == Inherited(base) \union IF i = None THEN {"outcomes"} ELSE {}
             x == NewSpec(has, i)
  <2>1. spec' = [spec EXCEPT ![s] = x] /\ UNCHANGED <<interp, asked>> /\ (i # None => Stored(i))
    BY <1>1 DEF Create, Attachable
  <2> HIDE DEF has
  <2>2. x.attached = i /\ \A c \in x.confirmed : c.by = None
    BY DEF NewSpec
  <2> HIDE DEF x
  <2>3. spec'[s] = x /\ \A t \in Specs : t # s => spec'[t] = spec[t]
    BY <1>0, <2>1 DEF DraftTyped
  <2>4. \A j \in Interps : Uses(x, j) => Stored(j)
    BY <2>1, <2>2 DEF Uses, DraftAssumption
  <2> QED BY <2>1, <2>3, <2>4, RestsOnStored
<1>2. ASSUME NEW e \in Editors, NEW s \in Specs, NEW n \in Sections, NEW i \in Interps \union {None},
             NEW a \in Answers, ReadSection(e, s, n, i, a)
      PROVE  LineageInv' /\ InterpsStay
  BY <1>2, RestsOnStored DEF ReadSection
<1>3. ASSUME NEW e \in Editors, SaveSection(e) PROVE LineageInv' /\ InterpsStay
  <2> DEFINE s == editor[e].spec
             i == editor[e].by
             x == spec'[s]
             connects == i # None /\ editor[e].seen.attached = None
             c == [section |-> editor[e].section, revision |-> spec[s].revision + 1, by |-> i]
  <2>1. editor[e] \in Edit /\ UNCHANGED <<interp, asked>>
    BY <1>0, <1>3 DEF SaveSection, DraftTyped
  <2>2. s \in Specs /\ i \in Origins /\ spec[s] \in SpecRow
    BY <2>1 DEF Edit, DraftInv, EditsExist
  <2>3. CASE UNCHANGED spec
    BY <2>1, <2>3, RestsOnStored
  <2>4. CASE ~UNCHANGED spec
    <3> DEFINE y == [status |-> IF editor[e].seen.status = "ready" THEN "ready"
                                ELSE Status(editor[e].seen.sections \union {editor[e].section}),
                     revision |-> spec[s].revision + 1,
                     sections |-> spec[s].sections \union {editor[e].section},
                     attached |-> IF connects THEN i ELSE spec[s].attached,
                     confirmed |-> spec[s].confirmed \union {c}]
    <3>0. spec' = [spec EXCEPT ![s] = y] /\ (i # None => Stored(i))
      BY <1>3, <2>4 DEF SaveSection
    <3>1. /\ i # None => Stored(i)
          /\ x.attached = IF connects THEN i ELSE spec[s].attached
          /\ x.confirmed = spec[s].confirmed \union {c}
          /\ \A t \in Specs : t # s => spec'[t] = spec[t]
      <4>1. y.attached = (IF connects THEN i ELSE spec[s].attached) /\ y.confirmed = spec[s].confirmed \union {c}
        OBVIOUS
      <4> HIDE DEF y, c, connects, s, i
      <4>2. x = y /\ \A t \in Specs : t # s => spec'[t] = spec[t]
        BY <1>0, <2>2, <3>0 DEF DraftTyped, x
      <4> QED BY <3>0, <4>1, <4>2 DEF x
    <3> HIDE DEF y
    <3>2. c.by = i
      OBVIOUS
    <3> HIDE DEF c, x, connects, s, i
    <3>3. \A j \in Interps : Uses(x, j) => j = i \/ Uses(spec[s], j)
      BY <3>1, <3>2 DEF Uses
    <3>4. \A j \in Interps : Uses(x, j) => Stored(j) \/ Uses(spec[s], j)
      BY <3>1, <3>3 DEF DraftAssumption
    <3> QED BY <2>1, <2>2, <3>1, <3>4, RestsOnStored DEF x
  <2> QED BY <2>3, <2>4
<1> QED BY <1>1, <1>2, <1>3

(* What jobs, processes and deployments do to specifications.              *)
Labelled ==
  /\ UNCHANGED <<interp, asked, editor>>
  /\ \A s \in Specs : spec[s] = NoSpec => spec'[s] = NoSpec
  /\ \A s \in Specs : spec[s] \in SpecRow =>
       /\ spec'[s].attached = spec[s].attached /\ spec'[s].sections = spec[s].sections
       /\ spec'[s].confirmed = spec[s].confirmed
       /\ spec'[s].status = "draft" => spec[s].status = "draft"

(* They change a specification's status at most.                           *)
LEMMA OnlyLabels ==
  ASSUME GenerationInv, [Next]_vars
  PROVE  DraftNext \/ Labelled
<1>0. DraftTyped /\ JobTyped /\ EndingTyped
  BY DEF GenerationInv, DraftInv, JobInv
<1>1. CASE UNCHANGED draftVars
  BY <1>1 DEF draftVars, Labelled
<1>2. ASSUME UNCHANGED <<interp, asked, editor>>,
             \E s \in Specs, x \in Statuses :
               /\ spec[s] \in SpecRow /\ spec' = [spec EXCEPT ![s].status = x]
               /\ x = "draft" => spec[s].status = "draft"
      PROVE  Labelled
  <2>0. PICK s \in Specs, x \in Statuses :
               /\ spec[s] \in SpecRow /\ spec' = [spec EXCEPT ![s].status = x]
               /\ x = "draft" => spec[s].status = "draft"
    BY <1>2
  <2>1. /\ spec'[s].attached = spec[s].attached /\ spec'[s].sections = spec[s].sections
        /\ spec'[s].confirmed = spec[s].confirmed /\ spec'[s].status = x
        /\ \A t \in Specs : t # s => spec'[t] = spec[t]
    BY <1>0, <2>0 DEF SpecRow, DraftTyped
  <2> QED BY <1>2, <2>0, <2>1, NoRows DEF Labelled
<1>3. ASSUME UNCHANGED <<spec, interp, asked, editor>> PROVE Labelled
  BY <1>3 DEF Labelled
<1>4. ASSUME NEW p \in Processes, NEW j \in Jobs, NEW s \in Specs, Accept(p, j, s)
      PROVE  Labelled
  <2>1. spec[s] \in SpecRow /\ spec' = [spec EXCEPT ![s].status = "generating"]
        /\ UNCHANGED <<interp, asked, editor>>
    BY <1>0, <1>4 DEF Accept, DraftTyped
  <2> QED BY <1>2, <2>1 DEF Statuses
<1>5. ASSUME NEW p \in Processes, NEW j \in Jobs, EndSucceed(p, j) PROVE Labelled
  <2>1. /\ UNCHANGED <<interp, asked, editor>> /\ job[j] \in JobRow
        /\ spec' = [spec EXCEPT ![job[j].spec].status = "generated"]
    BY <1>0, <1>5 DEF EndSucceed, Reader, EndingTyped
  <2>2. job[j].spec \in Specs /\ spec[job[j].spec] \in SpecRow
    BY <1>0, <2>1 DEF JobTyped, JobRow
  <2>3. "generated" \in Statuses /\ "generated" # "draft"
    BY DEF Statuses
  <2> QED BY <1>2, <2>1, <2>2, <2>3
<1>6. ASSUME NEW p \in Processes, NEW j \in Jobs, EndError(p, j) \/ EndReap(p, j)
      PROVE  Labelled
  <2>1. Fail(j) /\ job[j] \in JobRow /\ UNCHANGED <<interp, asked, editor>>
    BY <1>0, <1>6 DEF EndError, EndReap, Reader, EndingTyped
  <2> DEFINE s == job[j].spec
             x == IF spec[s].status = "generating" THEN "ready" ELSE spec[s].status
  <2>2. s \in Specs /\ spec[s] \in SpecRow
    BY <1>0, <2>1 DEF JobTyped, JobRow
  <2>3. spec' = [spec EXCEPT ![s].status = x] /\ (x = "draft" => spec[s].status = "draft")
    BY <2>1 DEF Fail
  <2>4. x \in Statuses
    BY <2>2 DEF SpecRow, Statuses
  <2> HIDE DEF x, s
  <2> QED BY <1>2, <2>1, <2>2, <2>3, <2>4
<1>7. ASSUME NEW p \in Processes,
             \/ Crash(p) \/ Boot(p) \/ Resume(p)
             \/ \E j \in Jobs : Claim(p, j) \/ BeginSucceed(p, j) \/ BeginError(p, j) \/ BeginReap(p, j)
      PROVE  UNCHANGED draftVars
  BY <1>7 DEF Crash, Boot, Resume, Claim, BeginSucceed, BeginError, BeginReap
<1>8. ASSUME NEW s \in Specs, Recover(s) \/ ShadowDeploy(s) PROVE UNCHANGED draftVars
  BY <1>8 DEF Recover, ShadowDeploy
<1>9. UNCHANGED vars => UNCHANGED draftVars
  BY DEF vars
<1> QED BY <1>1, <1>4, <1>5, <1>6, <1>7, <1>8, <1>9 DEF Next, Work

(* Every step.                                                             *)
LEMMA LineageStep ==
  ASSUME DraftAssumption, GenerationInv, LineageInv, [Next]_vars
  PROVE  LineageInv' /\ InterpsStay
<1>1. CASE DraftNext
  BY <1>1, InterpretationLineage, SpecLineage DEF DraftNext, GenerationInv
<1>2. CASE Labelled
  <2>1. \A s \in Specs, i \in Interps :
          spec'[s] \in SpecRow /\ Uses(spec'[s], i) => spec[s] \in SpecRow /\ Uses(spec[s], i)
    BY <1>2, NoRows DEF Labelled, Uses, GenerationInv, DraftInv, DraftTyped
  <2> QED BY <1>2, <2>1, RestsOnStored DEF Labelled
<1> QED BY <1>1, <1>2, OnlyLabels

(* All generations of a stored interpretation are stored.                  *)
LEMMA AncestorsStored ==
  ASSUME IsFiniteSet(Interps), DraftAssumption, DraftTyped, Kin, NEW i \in Interps, Stored(i)
  PROVE  \A j \in Lineage(i) : Stored(j)
<1> DEFINE C == Cardinality(Interps)
           Kept == {j \in Interps : Stored(j)} \union {None}
<1>1. PICK up : Ancestry(i, up)
  BY LineageIs
<1>2. C \in Nat
  BY FS_CardinalityType
<1>3. \A j \in Kept : Parent(j) \in Kept
  BY StoredRows DEF Parent, Kin, Origins
<1> DEFINE P == {n \in 0..C : up[n] \subseteq Kept}
<1>4. 0 \in P
  BY <1>1, <1>2 DEF Ancestry
<1>5. ASSUME NEW n \in 1..C, n - 1 \in P PROVE n \in P
  <2>1. n \in 0..C /\ up[n] = up[n - 1] \union {Parent(j) : j \in up[n - 1]} /\ up[n - 1] \subseteq Kept
    BY <1>1, <1>2, <1>5 DEF Ancestry
  <2> QED BY <1>3, <2>1
<1> HIDE DEF P, C
<1>6. 0..C \subseteq P
  BY <1>2, <1>4, <1>5, Induction
<1>7. Lineage(i) = up[C] \ {None} /\ up[C] \subseteq Kept
  BY <1>1, <1>2, <1>6 DEF Ancestry, C, P
<1> QED BY <1>7

LEMMA LineageStart == Init => LineageInv
BY NoRows DEF Init, DraftInit, LineageInv, Kin, UsedStay, Stored

(* What a specification is attached to or was confirmed by stays, with all *)
(* its ancestors, whatever a cleanup found before it was attached          *)
(* (InterpretationService.deleteExpiredUnattached, SpecService).           *)
THEOREM LineagesAreKept ==
  DraftAssumption /\ IsFiniteSet(Interps) => (Spec => []LineageKept)
<1> SUFFICES ASSUME DraftAssumption, IsFiniteSet(Interps) PROVE Spec => []LineageKept
  OBVIOUS
<1>1. Init => GenerationInv /\ LineageInv
  BY GenerationStart, LineageStart
<1>2. GenerationInv /\ LineageInv /\ [Next]_vars => GenerationInv' /\ LineageInv'
  BY GenerationStep, LineageStep
<1>3. GenerationInv /\ LineageInv => LineageKept
  <2> SUFFICES ASSUME GenerationInv, LineageInv, NEW s \in Specs, spec[s] # NoSpec,
                      NEW i \in ({spec[s].attached} \union {c.by : c \in spec[s].confirmed}) \ {None}
               PROVE  \A j \in Lineage(i) : Stored(j)
    BY DEF LineageKept
  <2>0. DraftTyped /\ Kin /\ UsedStay
    BY DEF GenerationInv, DraftInv, LineageInv
  <2>1. spec[s] \in SpecRow
    BY <2>0 DEF DraftTyped
  <2>2. spec[s].attached \in Origins /\ spec[s].confirmed \subseteq Confirmation
    BY <2>1 DEF SpecRow
  <2>3. i \in Interps /\ Uses(spec[s], i)
    BY <2>2 DEF Uses, Origins, Confirmation
  <2>4. Stored(i)
    BY <2>0, <2>1, <2>3 DEF UsedStay
  <2> QED BY <2>0, <2>3, <2>4, AncestorsStored
<1> QED BY <1>1, <1>2, <1>3, PTL DEF Spec

-----------------------------------------------------------------------------
(* One editor at a time: what it read is what it updates.                  *)

(* An editor's view of its specification is current, and what it confirms  *)
(* by descends, as long as it is stored, from what was attached.           *)
SeenBy(x) ==
  /\ x.seen.attached = spec[x.spec].attached /\ x.seen.sections = spec[x.spec].sections
  /\ x.by # None => /\ interp[x.by] # NoInterp
                    /\ Stored(x.by) /\ x.seen.attached # None => x.seen.attached \in Lineage(x.by)
EditorsSee == \A e \in Editors : editor[e] \in Edit => SeenBy(editor[e])

(* What a row was confirmed by descends from what it is attached to.       *)
Descends(x) == \A c \in x.confirmed : c.by # None => Stored(c.by) /\ x.attached \in Lineage(c.by)
RowsDescend == \A s \in Specs : spec[s] \in SpecRow => Descends(spec[s])

NotLeft(x) == x.sections = Sections => x.status # "draft"
NoneLeft == \A s \in Specs : spec[s] \in SpecRow => NotLeft(spec[s])

DescentInv == EditorsSee /\ RowsDescend /\ NoneLeft

(* The lineage after a step, in terms of its generations.                  *)
LEMMA LineageIsThen ==
  ASSUME IsFiniteSet(Interps)
  PROVE  (DraftTyped => \A i \in Interps : \E up : Ancestry(i, up))'
BY LineageIs, PTL

(* The lineage of an interpretation that stays is not changed.             *)
LEMMA LineageStays ==
  ASSUME IsFiniteSet(Interps), DraftAssumption, DraftTyped, DraftTyped', Kin, Kin', InterpsStay,
         NEW i \in Interps, Stored(i), Stored(i)'
  PROVE  Lineage(i)' = Lineage(i)
<1> DEFINE C == Cardinality(Interps)
           Kept == {j \in Interps : Stored(j) /\ Stored(j)'} \union {None}
<1>1. PICK up : Ancestry(i, up)
  BY LineageIs
<1>2. PICK after : Ancestry(i, after)'
  BY LineageIsThen
<1>3. C \in Nat
  BY FS_CardinalityType
<1>4. ASSUME NEW j \in Kept PROVE Parent(j)' = Parent(j) /\ Parent(j) \in Kept
  <2>1. CASE j = None
    BY <2>1 DEF Parent
  <2>2. CASE j # None
    <3>1. j \in Interps /\ Stored(j) /\ Stored(j)'
      BY <2>2
    <3>2. interp'[j].parent = interp[j].parent
      BY <3>1 DEF InterpsStay, Stored
    <3>3. Parent(j) = interp[j].parent /\ Parent(j)' = interp[j].parent /\ interp[j].parent \in Origins
      BY <2>2, <3>1, <3>2, StoredRows DEF Parent
    <3> QED BY <3>1, <3>2, <3>3 DEF Kin, Origins
  <2> QED BY <2>1, <2>2
<1> DEFINE P == {n \in 0..C : up[n] = after[n] /\ up[n] \subseteq Kept}
<1>5. up[0] = {i} /\ \A n \in 1..C : up[n] = up[n - 1] \union {Parent(j) : j \in up[n - 1]}
  BY <1>1 DEF Ancestry
<1>6. after[0] = {i} /\ \A n \in 1..C : after[n] = after[n - 1] \union {Parent(j)' : j \in after[n - 1]}
  BY <1>2 DEF Ancestry
<1>7. 0 \in P
  <2>1. i \in Kept
    OBVIOUS
  <2>2. up[0] = {i} /\ after[0] = {i}
    BY <1>5, <1>6
  <2> HIDE DEF Kept, C
  <2>3. 0 \in 0..C
    BY <1>3
  <2> QED BY <2>1, <2>2, <2>3
<1>8. ASSUME NEW n \in 1..C, n - 1 \in P PROVE n \in P
  <2>1. /\ up[n] = up[n - 1] \union {Parent(j) : j \in up[n - 1]}
        /\ after[n] = after[n - 1] \union {Parent(j)' : j \in after[n - 1]}
    BY <1>5, <1>6
  <2>2. up[n - 1] = after[n - 1] /\ up[n - 1] \subseteq Kept /\ n \in 0..C
    BY <1>3, <1>8
  <2>3. {Parent(j)' : j \in up[n - 1]} = {Parent(j) : j \in up[n - 1]}
        /\ {Parent(j) : j \in up[n - 1]} \subseteq Kept
    <3> HIDE DEF Kept
    <3> QED BY <1>4, <2>2
  <2> HIDE DEF Kept
  <2> QED BY <2>1, <2>2, <2>3
<1> HIDE DEF P, C
<1>9. 0..C \subseteq P
  BY <1>3, <1>7, <1>8, Induction
<1>10. up[C] = after[C]
  BY <1>3, <1>9 DEF P
<1> QED BY <1>1, <1>2, <1>10 DEF Ancestry, C

(* An interpretation is of its own lineage, and "none" of no one's.        *)
LEMMA OwnLineage ==
  ASSUME IsFiniteSet(Interps), DraftAssumption, DraftTyped, NEW i \in Interps
  PROVE  i \in Lineage(i) /\ None \notin Lineage(i)
<1> DEFINE C == Cardinality(Interps)
<1>1. PICK up : Ancestry(i, up)
  BY LineageIs
<1>2. C \in Nat
  BY FS_CardinalityType
<1> DEFINE P == {n \in 0..C : i \in up[n]}
<1>3. 0 \in P
  BY <1>1, <1>2 DEF Ancestry
<1>4. ASSUME NEW n \in 1..C, n - 1 \in P PROVE n \in P
  BY <1>1, <1>2, <1>4 DEF Ancestry
<1> HIDE DEF P, C
<1>5. 0..C \subseteq P
  BY <1>2, <1>3, <1>4, Induction
<1>6. i \in up[C]
  BY <1>2, <1>5 DEF P
<1> QED BY <1>1, <1>6 DEF Ancestry, C, DraftAssumption

(* An editor's view stays current while its specification is not updated.  *)
LEMMA SeenStays ==
  ASSUME IsFiniteSet(Interps), DraftAssumption, DraftTyped, DraftTyped', Kin, Kin', InterpsStay,
         NEW x \in Edit, SeenBy(x),
         spec'[x.spec].attached = spec[x.spec].attached,
         spec'[x.spec].sections = spec[x.spec].sections
  PROVE  SeenBy(x)'
<1>1. x.by # None => x.by \in Interps
  BY DEF Edit, Origins
<1>2. ASSUME x.by # None PROVE interp'[x.by] # NoInterp /\ (Stored(x.by)' => Stored(x.by))
  <2>1. NoInterp # Deleted
    BY DEF NoInterp, Deleted
  <2> QED BY <1>1, <1>2, <2>1 DEF SeenBy, InterpsStay, Stored
<1>3. ASSUME x.by # None, Stored(x.by)' PROVE Lineage(x.by)' = Lineage(x.by)
  BY <1>1, <1>2, <1>3, LineageStays
<1> QED BY <1>2, <1>3 DEF SeenBy

(* Rows that descend in terms of what is stored before a step still do.    *)
LEMMA DescentStays ==
  ASSUME IsFiniteSet(Interps), DraftAssumption, DraftTyped, DraftTyped', LineageInv, LineageInv',
         InterpsStay, NEW s \in Specs, spec'[s] \in SpecRow, Descends(spec'[s])
  PROVE  Descends(spec[s])'
<1> SUFFICES ASSUME NEW c \in spec'[s].confirmed, c.by # None
             PROVE  Stored(c.by)' /\ spec'[s].attached \in Lineage(c.by)'
  BY DEF Descends
<1>1. c.by \in Interps
  BY DEF SpecRow, Confirmation, Origins
<1>2. Stored(c.by) /\ spec'[s].attached \in Lineage(c.by)
  BY DEF Descends
<1>3. Stored(c.by)'
  BY <1>1 DEF LineageInv, UsedStay, Uses
<1>4. Lineage(c.by)' = Lineage(c.by)
  BY <1>1, <1>2, <1>3, LineageStays DEF LineageInv
<1> QED BY <1>2, <1>3, <1>4

(* A step that opens no editor and writes rows that were confirmed like    *)
(* before, or by nothing.                                                  *)
LEMMA UpdatesNothing ==
  ASSUME IsFiniteSet(Interps), DraftAssumption, DraftTyped, DraftTyped', EditsExist,
         LineageInv, LineageInv', InterpsStay, DescentInv,
         \A e \in Editors : editor'[e] \in {editor[e], Closed},
         \A s \in Specs : spec[s] \in SpecRow =>
           /\ spec'[s].attached = spec[s].attached /\ spec'[s].sections = spec[s].sections
           /\ spec'[s].confirmed = spec[s].confirmed
           /\ spec'[s].status = "draft" => spec[s].status = "draft",
         \A s \in Specs : spec[s] = NoSpec /\ spec'[s] \in SpecRow =>
           NotLeft(spec'[s]) /\ \A c \in spec'[s].confirmed : c.by = None
  PROVE  DescentInv'
<1>1. EditorsSee'
  <2> SUFFICES ASSUME NEW e \in Editors, NEW x \in Edit, editor'[e] = x PROVE SeenBy(x)'
    BY DEF EditorsSee
  <2>1. editor[e] = x /\ SeenBy(x) /\ spec[x.spec] \in SpecRow /\ x.spec \in Specs
    BY NoRows DEF DescentInv, EditorsSee, EditsExist, Edit
  <2> QED BY <2>1, SeenStays DEF LineageInv
<1>2. RowsDescend'
  <2> SUFFICES ASSUME NEW s \in Specs, spec'[s] \in SpecRow PROVE Descends(spec[s])'
    BY DEF RowsDescend
  <2>1. CASE spec[s] \in SpecRow
    <3>1. Descends(spec'[s])
      BY <2>1 DEF DescentInv, RowsDescend, Descends
    <3> QED BY <3>1, DescentStays
  <2>2. CASE spec[s] = NoSpec
    <3>1. Descends(spec'[s])
      BY <2>2 DEF Descends
    <3> QED BY <3>1, DescentStays
  <2> QED BY <2>1, <2>2 DEF DraftTyped
<1>3. NoneLeft'
  BY DEF DescentInv, NoneLeft, NotLeft, DraftTyped
<1> QED BY <1>1, <1>2, <1>3 DEF DescentInv

(* updateSection, up to its update.                                        *)
LEMMA ReadDescent ==
  ASSUME IsFiniteSet(Interps), DraftAssumption, DraftTyped, DraftTyped', EditsExist,
         LineageInv, LineageInv', InterpsStay, DescentInv,
         NEW e \in Editors, NEW s \in Specs, NEW n \in Sections, NEW i \in Interps \union {None},
         NEW a \in Answers, ReadSection(e, s, n, i, a)
  PROVE  DescentInv'
<1> DEFINE x == [open |-> TRUE, spec |-> s, section |-> n, by |-> i, seen |-> spec[s]]
<1>1. /\ editor' = [editor EXCEPT ![e] = x] /\ UNCHANGED <<spec, interp>>
      /\ spec[s] \in SpecRow /\ (i # None => Attachable(i, s, spec[s].attached))
  BY DEF ReadSection, DraftTyped
<1>2. x \in Edit /\ x.spec = s /\ x.seen = spec[s] /\ x.by = i
  BY <1>1 DEF Edit, Origins
<1> HIDE DEF x
<1>3. SeenBy(x)
  BY <1>1, <1>2 DEF SeenBy, Attachable, InLineage, Stored
<1>4. EditorsSee'
  <2> SUFFICES ASSUME NEW f \in Editors, NEW y \in Edit, editor'[f] = y PROVE SeenBy(y)'
    BY DEF EditorsSee
  <2>1. SeenBy(y)
    BY <1>1, <1>2, <1>3 DEF DraftTyped, DescentInv, EditorsSee
  <2> QED BY <1>1, <2>1, SeenStays DEF LineageInv
<1>5. RowsDescend' /\ NoneLeft'
  BY <1>1, DescentStays DEF DescentInv, RowsDescend, NoneLeft
<1> QED BY <1>4, <1>5 DEF DescentInv

(* Its update: what was attached meanwhile it has seen.                    *)
LEMMA SaveDescent ==
  ASSUME IsFiniteSet(Interps), DraftAssumption, DraftTyped, DraftTyped', EditsExist,
         LineageInv, LineageInv', InterpsStay, DescentInv,
         \A e, f \in Editors : e = f, NEW e \in Editors, SaveSection(e)
  PROVE  DescentInv'
<1> DEFINE s == editor[e].spec
           seen == editor[e].seen
           n == editor[e].section
           i == editor[e].by
           connects == i # None /\ seen.attached = None
           c == [section |-> n, revision |-> spec[s].revision + 1, by |-> i]
           x == [status |-> IF seen.status = "ready" THEN "ready" ELSE Status(seen.sections \union {n}),
                 revision |-> spec[s].revision + 1,
                 sections |-> spec[s].sections \union {n},
                 attached |-> IF connects THEN i ELSE spec[s].attached,
                 confirmed |-> spec[s].confirmed \union {c}]
<1>1. /\ editor[e] \in Edit /\ editor' = [editor EXCEPT ![e] = Closed] /\ UNCHANGED interp
  BY DEF SaveSection, DraftTyped
<1>2. s \in Specs /\ i \in Origins /\ spec[s] \in SpecRow /\ SeenBy(editor[e])
  BY <1>1 DEF Edit, EditsExist, DescentInv, EditorsSee
<1>3. \A f \in Editors : editor'[f] = Closed
  BY <1>1 DEF DraftTyped
<1>4. EditorsSee'
  BY <1>3, NoRows DEF EditorsSee
<1>5. CASE UNCHANGED spec
  BY <1>3, <1>5, NoRows, UpdatesNothing DEF DraftTyped
<1>6. CASE ~UNCHANGED spec
  <2>1. spec' = [spec EXCEPT ![s] = x] /\ (i # None => Stored(i))
    BY <1>6 DEF SaveSection
  <2>2. seen.attached = spec[s].attached /\ seen.sections = spec[s].sections
        /\ (i # None /\ seen.attached # None /\ Stored(i) => seen.attached \in Lineage(i))
    BY <1>2 DEF SeenBy
  <2>3. c.by = i
    OBVIOUS
  <2>4. /\ x.status = IF seen.status = "ready" THEN "ready" ELSE Status(seen.sections \union {n})
        /\ x.sections = spec[s].sections \union {n}
        /\ x.attached = IF connects THEN i ELSE spec[s].attached
        /\ x.confirmed = spec[s].confirmed \union {c}
    OBVIOUS
  <2> HIDE DEF x, c, s, i, n, seen
  <2>5. Descends(x)
    <3> SUFFICES ASSUME NEW d \in spec[s].confirmed \union {c}, d.by # None
                 PROVE  Stored(d.by) /\ x.attached \in Lineage(d.by)
      BY <2>4 DEF Descends
    <3>1. CASE d \in spec[s].confirmed
      <4>1. Stored(d.by) /\ spec[s].attached \in Lineage(d.by)
        BY <1>2, <3>1 DEF DescentInv, RowsDescend, Descends
      <4>2. d.by \in Interps
        BY <1>2, <3>1 DEF SpecRow, Confirmation, Origins
      <4>3. spec[s].attached # None
        BY <4>1, <4>2, OwnLineage
      <4> QED BY <2>2, <2>4, <4>1, <4>3
    <3>2. CASE d = c
      <4>1. i \in Interps /\ Stored(i)
        BY <1>2, <2>1, <2>3, <3>2 DEF Origins
      <4>2. i \in Lineage(i)
        BY <4>1, OwnLineage
      <4> QED BY <2>2, <2>3, <2>4, <3>2, <4>1, <4>2
    <3> QED BY <3>1, <3>2
  <2>6. NotLeft(x)
    BY <2>2, <2>4 DEF NotLeft, Status
  <2> HIDE DEF x
  <2>7. spec'[s] = x /\ \A t \in Specs : t # s => spec'[t] = spec[t]
    BY <1>2, <2>1 DEF DraftTyped
  <2>8. NoneLeft'
    BY <2>6, <2>7 DEF DescentInv, NoneLeft
  <2>9. RowsDescend'
    <3> SUFFICES ASSUME NEW t \in Specs, spec'[t] \in SpecRow PROVE Descends(spec[t])'
      BY DEF RowsDescend
    <3>1. Descends(spec'[t])
      BY <2>5, <2>7 DEF DescentInv, RowsDescend
    <3> QED BY <3>1, DescentStays
  <2> QED BY <1>4, <2>8, <2>9 DEF DescentInv
<1> QED BY <1>5, <1>6

(* Every step, with one editor.                                            *)
LEMMA DescentStep ==
  ASSUME IsFiniteSet(Interps), DraftAssumption, \A e, f \in Editors : e = f,
         GenerationInv, LineageInv, DescentInv, [Next]_vars
  PROVE  DescentInv'
<1>0. /\ DraftTyped /\ DraftTyped' /\ EditsExist
      /\ LineageInv' /\ InterpsStay
  BY GenerationStep, LineageStep DEF GenerationInv, DraftInv
<1>1. CASE Labelled
  BY <1>0, <1>1, NoRows, UpdatesNothing DEF Labelled
<1>2. ASSUME UNCHANGED <<spec, editor>> PROVE DescentInv'
  BY <1>0, <1>2, NoRows, UpdatesNothing
<1>3. ASSUME NEW s \in Specs, NEW base \in Specs \union {None}, NEW i \in Interps \union {None},
             Create(s, base, i)
      PROVE  DescentInv'
  <2> DEFINE has == Inherited(base) \union IF i = None THEN {"outcomes"} ELSE {}
             x == NewSpec(has, i)
  <2>1. spec[s] = NoSpec /\ spec' = [spec EXCEPT ![s] = x] /\ UNCHANGED editor
    BY <1>3 DEF Create
  <2> HIDE DEF has
  <2>2. NotLeft(x) /\ \A c \in x.confirmed : c.by = None
    BY DEF NewSpec, NotLeft, Status
  <2> HIDE DEF x
  <2>3. spec'[s] = x /\ \A t \in Specs : t # s => spec'[t] = spec[t]
    BY <1>0, <2>1 DEF DraftTyped
  <2> QED BY <1>0, <2>1, <2>2, <2>3, NoRows, UpdatesNothing
<1>4. CASE DraftNext
  <2>1. CASE \E s \in Specs, base \in Specs \union {None}, i \in Interps \union {None} : Create(s, base, i)
    BY <1>3, <2>1
  <2>2. CASE \E e \in Editors, s \in Specs, n \in Sections, i \in Interps \union {None}, a \in Answers :
               ReadSection(e, s, n, i, a)
    BY <1>0, <2>2, ReadDescent
  <2>3. CASE \E e \in Editors : SaveSection(e)
    BY <1>0, <2>3, SaveDescent
  <2>4. CASE Scan \/ \E i \in Interps : Expire(i) \/ Delete(i) \/ Answer(i, "split") \/ Answer(i, "prefill")
    BY <1>2, <2>4 DEF Scan, Expire, Delete, Answer
  <2>5. CASE \E i \in Interps, parent \in Interps \union {None}, for \in Specs \union {None} :
               Ask(i, parent, for)
    BY <1>2, <2>5 DEF Ask
  <2> QED BY <1>4, <2>1, <2>2, <2>3, <2>4, <2>5 DEF DraftNext
<1> QED BY <1>1, <1>4, OnlyLabels

(* With one editor at a time, every section confirmed by an interpretation *)
(* descends from the one the specification is attached to, and a           *)
(* specification that has all sections is not left a draft, also when jobs *)
(* end, fail or are reaped between an editor's read and its update         *)
(* (SpecService.updateSection, isComplete).                                *)
THEOREM OneEditorConfirms ==
  DraftAssumption /\ IsFiniteSet(Interps) /\ (\A e, f \in Editors : e = f)
  => (Spec => [](ConfirmedInLineage /\ CompleteIsReady))
<1> SUFFICES ASSUME DraftAssumption, IsFiniteSet(Interps), \A e, f \in Editors : e = f
             PROVE  Spec => [](ConfirmedInLineage /\ CompleteIsReady)
  OBVIOUS
<1>1. Init => GenerationInv /\ LineageInv /\ DescentInv
  <2>1. Init => EditorsSee /\ RowsDescend /\ NoneLeft
    BY NoRows DEF Init, DraftInit, EditorsSee, RowsDescend, NoneLeft
  <2> QED BY <2>1, GenerationStart, LineageStart DEF DescentInv
<1>2. GenerationInv /\ LineageInv /\ DescentInv /\ [Next]_vars
      => GenerationInv' /\ LineageInv' /\ DescentInv'
  BY GenerationStep, LineageStep, DescentStep
<1>3. GenerationInv /\ DescentInv => ConfirmedInLineage /\ CompleteIsReady
  BY DEF GenerationInv, DraftInv, DraftTyped, DescentInv, RowsDescend, Descends, NoneLeft, NotLeft,
         ConfirmedInLineage, CompleteIsReady
<1> QED BY <1>1, <1>2, <1>3, PTL DEF Spec

-----------------------------------------------------------------------------
(* The permits of a process's dispatcher.                                  *)

Permitted(d) == d \in Dispatcher /\ IsFiniteSet(Held(d)) /\ Cardinality(Held(d)) <= Concurrency

PermitInv == proc \in [Processes -> Dispatcher] /\ \A p \in Processes : Permitted(proc[p])

(* One element more, and one less.                                         *)
LEMMA OneMore ==
  ASSUME NEW S, IsFiniteSet(S), NEW x
  PROVE  /\ IsFiniteSet(S \union {x}) /\ Cardinality(S \union {x}) \in Nat
         /\ Cardinality(S) \in Nat /\ Cardinality(S \union {x}) <= Cardinality(S) + 1
<1>1. IsFiniteSet(S \union {x}) /\ Cardinality(S \union {x}) = IF x \in S THEN Cardinality(S) ELSE Cardinality(S) + 1
  BY FS_AddElement
<1>2. Cardinality(S) \in Nat
  BY FS_CardinalityType
<1> QED BY <1>1, <1>2

LEMMA OneLess ==
  ASSUME NEW S, IsFiniteSet(S), NEW x \in S
  PROVE  /\ IsFiniteSet(S \ {x}) /\ Cardinality(S \ {x}) \in Nat
         /\ Cardinality(S) \in Nat /\ Cardinality(S \ {x}) = Cardinality(S) - 1
<1>1. IsFiniteSet(S \ {x}) /\ Cardinality(S \ {x}) = IF x \in S THEN Cardinality(S) - 1 ELSE Cardinality(S)
  BY FS_RemoveElement
<1>2. Cardinality(S) \in Nat /\ Cardinality(S \ {x}) \in Nat
  BY <1>1, FS_CardinalityType
<1> QED BY <1>1, <1>2

(* Nobody holds a permit of a process that has just started.               *)
LEMMA UpIsPermitted ==
  ASSUME ConcurrencyAssumption, NEW phase \in {"up", "down", "boot"}
  PROVE  Permitted([Up EXCEPT !.phase = phase]) /\ Permitted(Up)
<1> DEFINE d == [Up EXCEPT !.phase = phase]
<1>1. <<>> \in Seq(Jobs)
  OBVIOUS
<1>2. d \in Dispatcher /\ Up \in Dispatcher /\ Held(d) = {} /\ Held(Up) = {}
  BY <1>1 DEF Up, Dispatcher, Held
<1> HIDE DEF d
<1>3. ASSUME NEW x \in Dispatcher, Held(x) = {} PROVE Permitted(x)
  <2>1. IsFiniteSet(Held(x)) /\ Cardinality(Held(x)) = 0
    BY <1>3, FS_EmptySet
  <2> QED BY <2>1 DEF Permitted, ConcurrencyAssumption
<1>4. Permitted(d) /\ Permitted(Up)
  BY <1>2, <1>3
<1> QED BY <1>4, Zenon DEF d

(* Semaphore.acquire.                                                      *)
LEMMA EnqueueIsPermitted ==
  ASSUME ConcurrencyAssumption, NEW d, Permitted(d), NEW j \in Jobs
  PROVE  Permitted(Enqueue(d, j))
<1>1. d \in Dispatcher /\ IsFiniteSet(Held(d)) /\ Cardinality(Held(d)) \in Nat
  BY FS_CardinalityType DEF Permitted
<1>2. CASE Cardinality(Held(d)) < Concurrency
  <2> DEFINE x == [d EXCEPT !.granted = @ \union {j}]
  <2>1. Enqueue(d, j) = x
    BY <1>2 DEF Enqueue, Held
  <2>2. x \in Dispatcher /\ Held(x) = Held(d) \union {j}
    BY <1>1 DEF Dispatcher, Held
  <2> HIDE DEF x
  <2>3. IsFiniteSet(Held(x)) /\ Cardinality(Held(x)) \in Nat /\ Cardinality(Held(x)) <= Cardinality(Held(d)) + 1
    BY <1>1, <2>2, OneMore
  <2> QED BY <1>1, <1>2, <2>1, <2>2, <2>3 DEF Permitted, ConcurrencyAssumption
<1>3. CASE ~(Cardinality(Held(d)) < Concurrency)
  <2> DEFINE x == [d EXCEPT !.waiting = Append(@, j)]
  <2>1. Enqueue(d, j) = x
    BY <1>3 DEF Enqueue, Held
  <2>2. d.waiting \in Seq(Jobs) /\ Append(d.waiting, j) \in Seq(Jobs)
    BY <1>1 DEF Dispatcher
  <2>3. x \in Dispatcher /\ Held(x) = Held(d)
    BY <1>1, <2>2 DEF Dispatcher, Held
  <2> HIDE DEF x
  <2> QED BY <2>1, <2>3 DEF Permitted
<1> QED BY <1>2, <1>3

(* Semaphore.release: the permit goes to one that waits, or is free again. *)
LEMMA ReleaseIsPermitted ==
  ASSUME ConcurrencyAssumption, NEW d, Permitted(d), NEW j \in Held(d)
  PROVE  Permitted(Release(d, j))
<1> DEFINE free == [d EXCEPT !.granted = @ \ {j}, !.running = @ \ {j}]
<1>1. d \in Dispatcher /\ IsFiniteSet(Held(d)) /\ Cardinality(Held(d)) \in Nat
  BY FS_CardinalityType DEF Permitted
<1>2. free \in Dispatcher /\ Held(free) = Held(d) \ {j} /\ free.waiting = d.waiting
  BY <1>1 DEF Dispatcher, Held
<1>3. Release(d, j) = IF free.waiting = <<>> THEN free
                      ELSE [free EXCEPT !.granted = @ \union {Head(free.waiting)}, !.waiting = Tail(@)]
  BY DEF Release
<1> HIDE DEF free
<1>4. /\ IsFiniteSet(Held(free)) /\ Cardinality(Held(free)) \in Nat
      /\ Cardinality(Held(free)) = Cardinality(Held(d)) - 1 /\ Cardinality(Held(d)) <= Concurrency
  BY <1>1, <1>2, OneLess DEF Permitted
<1>5. Permitted(free)
  <2>1. Cardinality(Held(free)) <= Concurrency
    BY <1>1, <1>4 DEF ConcurrencyAssumption
  <2> QED BY <1>2, <1>4, <2>1 DEF Permitted
<1>6. CASE free.waiting # <<>>
  <2> DEFINE h == Head(free.waiting)
             x == [free EXCEPT !.granted = @ \union {h}, !.waiting = Tail(@)]
  <2>1. h \in Jobs /\ Tail(free.waiting) \in Seq(Jobs)
    BY <1>2, <1>6 DEF Dispatcher
  <2>2. Release(d, j) = x
    BY <1>3, <1>6
  <2> HIDE DEF h
  <2>3. x \in Dispatcher /\ Held(x) = Held(free) \union {h}
    BY <1>2, <2>1 DEF Dispatcher, Held
  <2> HIDE DEF x
  <2>4. IsFiniteSet(Held(x)) /\ Cardinality(Held(x)) \in Nat /\ Cardinality(Held(x)) <= Cardinality(Held(free)) + 1
    BY <1>4, <2>3, OneMore
  <2> QED BY <1>1, <1>4, <2>2, <2>3, <2>4 DEF Permitted, ConcurrencyAssumption
<1> QED BY <1>3, <1>5, <1>6

(* One process's dispatcher changes.                                       *)
LEMMA OneDispatcher ==
  ASSUME PermitInv, NEW p \in Processes, NEW d, Permitted(d), proc' = [proc EXCEPT ![p] = d]
  PROVE  PermitInv'
BY DEF PermitInv, Permitted

(* What is queued one after the other in a process that has just started.  *)
LEMMA QueueExists ==
  ASSUME ConcurrencyAssumption, NEW N \in Nat, NEW order \in [1..N -> Jobs]
  PROVE  \E f \in [0..N -> {d \in Dispatcher : Permitted(d)}] :
           f[0] = Up /\ \A n \in 1..N : f[n] = Enqueue(f[n - 1], order[n])
<1> DEFINE S == {d \in Dispatcher : Permitted(d)}
           step == [z \in (1..N) \X S |-> Enqueue(z[2], order[z[1]])]
           base == Up
<1>1. ASSUME NEW n \in 1..N, NEW d \in S
      PROVE  step[<<n, d>>] = Enqueue(d, order[n]) /\ step[<<n, d>>] \in S
  BY EnqueueIsPermitted DEF Permitted
<1>2. step \in [(1..N) \X S -> S]
  <2> SUFFICES ASSUME NEW z \in (1..N) \X S PROVE step[z] \in S
    OBVIOUS
  <2>1. z = <<z[1], z[2]>> /\ z[1] \in 1..N /\ z[2] \in S
    OBVIOUS
  <2> HIDE DEF step, S
  <2> QED BY <1>1, <2>1
<1>3. base \in S
  BY UpIsPermitted DEF Permitted
<1> HIDE DEF step, S, base
<1>4. PICK f : Recurs(f, S, base, N, step)
  BY <1>2, <1>3, RecursionExists
<1>5. ASSUME NEW n \in 1..N PROVE f[n] = Enqueue(f[n - 1], order[n])
  <2>1. f[n - 1] \in S
    BY <1>4 DEF Recurs
  <2> QED BY <1>1, <1>4, <2>1 DEF Recurs
<1> QED BY <1>4, <1>5 DEF S, base, Recurs

(* A booting process takes the queued jobs one by one.                     *)
LEMMA QueueIsPermitted ==
  ASSUME ConcurrencyAssumption, NEW order \in Seq(Jobs)
  PROVE  LET queue[n \in 0..Len(order)] == IF n = 0 THEN Up ELSE Enqueue(queue[n - 1], order[n])
         IN Permitted(queue[Len(order)])
<1> DEFINE N == Len(order)
           Body(f) == f = [n \in 0..N |-> IF n = 0 THEN Up ELSE Enqueue(f[n - 1], order[n])]
<1>1. N \in Nat /\ order \in [1..N -> Jobs]
  OBVIOUS
<1> HIDE DEF N
<1>2. PICK f \in [0..N -> {d \in Dispatcher : Permitted(d)}] :
        f[0] = Up /\ \A n \in 1..N : f[n] = Enqueue(f[n - 1], order[n])
  BY <1>1, QueueExists
<1>3. ASSUME NEW n \in 0..N
      PROVE  f[n] = IF n = 0 THEN Up ELSE Enqueue(f[n - 1], order[n])
  BY <1>1, <1>2
<1>4. Body(f)
  BY <1>2, <1>3
<1> DEFINE queue == CHOOSE g : Body(g)
<1>5. Body(queue)
  <2> HIDE DEF Body
  <2> QED BY <1>4
<1>6. Permitted(queue[N])
  <2> HIDE DEF queue
  <2>1. queue[0] = Up /\ \A n \in 1..N : queue[n] = Enqueue(queue[n - 1], order[n])
    BY <1>1, <1>5
  <2> DEFINE P == {n \in 0..N : Permitted(queue[n])}
  <2>2. 0 \in P
    BY <1>1, <2>1, UpIsPermitted
  <2>3. ASSUME NEW n \in 1..N, n - 1 \in P PROVE n \in P
    <3>1. Permitted(Enqueue(queue[n - 1], order[n]))
      BY <1>1, <2>3, EnqueueIsPermitted
    <3> QED BY <1>1, <2>1, <3>1
  <2> HIDE DEF P
  <2>4. 0..N \subseteq P
    BY <1>1, <2>2, <2>3, Induction
  <2> QED BY <1>1, <2>4 DEF P
<1> QED BY <1>6 DEF N

LEMMA ResumeIsPermitted ==
  ASSUME ConcurrencyAssumption, IsFiniteSet(Jobs), PermitInv, NEW p \in Processes, Resume(p)
  PROVE  PermitInv'
<1> DEFINE Q == {j \in Jobs : job[j].state = "queued"}
<1>1. Cardinality(Q) \in Nat
  BY FS_Subset, FS_CardinalityType
<1>2. PICK order \in [1..Cardinality(Q) -> Q] :
        LET queue[n \in 0..Len(order)] == IF n = 0 THEN Up ELSE Enqueue(queue[n - 1], order[n])
        IN proc' = [proc EXCEPT ![p] = queue[Len(order)]]
  BY DEF Resume
<1>3. order \in Seq(Jobs)
  <2> DEFINE K == Cardinality(Q)
  <2>1. order \in [1..K -> Jobs] /\ K \in Nat
    BY <1>1
  <2> HIDE DEF K
  <2> QED BY <2>1
<1> DEFINE queue == CHOOSE g : g = [n \in 0..Len(order) |->
                                      IF n = 0 THEN Up ELSE Enqueue(g[n - 1], order[n])]
           d == queue[Len(order)]
<1>4. proc' = [proc EXCEPT ![p] = d]
  BY <1>2
<1>5. Permitted(d)
  BY <1>3, QueueIsPermitted
<1> HIDE DEF d
<1> QED BY <1>4, <1>5, OneDispatcher

(* Every step.                                                             *)
LEMMA PermitStep ==
  ASSUME ConcurrencyAssumption, IsFiniteSet(Jobs), PermitInv, [Next]_vars
  PROVE  PermitInv'
<1>0. ASSUME NEW p \in Processes PROVE proc[p] \in Dispatcher /\ Permitted(proc[p])
  BY DEF PermitInv
<1>1. CASE UNCHANGED proc
  BY <1>1 DEF PermitInv
<1>2. ASSUME NEW p \in Processes, NEW j \in Jobs, NEW s \in Specs, Accept(p, j, s) PROVE PermitInv'
  <2>1. proc' = [proc EXCEPT ![p] = Enqueue(proc[p], j)]
    BY <1>2 DEF Accept
  <2>2. Permitted(Enqueue(proc[p], j))
    BY <1>0, EnqueueIsPermitted
  <2> QED BY <2>1, <2>2, OneDispatcher
<1>3. ASSUME NEW p \in Processes, NEW j \in Held(proc[p]), proc' = [proc EXCEPT ![p] = Release(proc[p], j)]
      PROVE  PermitInv'
  <2>1. Permitted(Release(proc[p], j))
    BY <1>0, ReleaseIsPermitted
  <2> QED BY <1>3, <2>1, OneDispatcher
<1>4. ASSUME NEW p \in Processes, NEW j \in Jobs, Claim(p, j) PROVE PermitInv'
  <2>1. j \in Held(proc[p])
    BY <1>4 DEF Claim, Held
  <2>2. CASE job[j].state = "queued"
    <3> DEFINE x == [proc[p] EXCEPT !.granted = @ \ {j}, !.running = @ \union {j}]
    <3>1. proc' = [proc EXCEPT ![p] = x]
      BY <1>0, <1>4, <2>2 DEF Claim, PermitInv
    <3>2. x \in Dispatcher /\ Held(x) = Held(proc[p])
      BY <1>0, <2>1 DEF Dispatcher, Held
    <3> HIDE DEF x
    <3>3. Permitted(x)
      BY <1>0, <3>2 DEF Permitted
    <3> QED BY <3>1, <3>3, OneDispatcher
  <2>3. CASE job[j].state # "queued"
    BY <1>3, <1>4, <2>1, <2>3 DEF Claim
  <2> QED BY <2>2, <2>3
<1>5. ASSUME NEW p \in Processes, NEW j \in Jobs,
             BeginSucceed(p, j) \/ EndSucceed(p, j) \/ BeginError(p, j) \/ EndError(p, j)
      PROVE  PermitInv'
  <2>1. \/ UNCHANGED proc
        \/ j \in Held(proc[p]) /\ proc' = [proc EXCEPT ![p] = Release(proc[p], j)]
    BY <1>5 DEF BeginSucceed, EndSucceed, BeginError, EndError, Held
  <2> QED BY <1>1, <1>3, <2>1
<1>6. ASSUME NEW p \in Processes, Crash(p) PROVE PermitInv'
  BY <1>6, UpIsPermitted, OneDispatcher DEF Crash
<1>7. ASSUME NEW p \in Processes, NEW x, Permitted(proc[p]), x \in Dispatcher,
             Held(x) = Held(proc[p]), proc' = [proc EXCEPT ![p] = x]
      PROVE  PermitInv'
  <2>1. Permitted(x)
    BY <1>7 DEF Permitted
  <2> QED BY <1>7, <2>1, OneDispatcher
<1>8. ASSUME NEW p \in Processes, Boot(p) PROVE PermitInv'
  <2> DEFINE x == [proc[p] EXCEPT !.phase = "boot", !.reap = {j \in Jobs : job[j].state = "running"}]
  <2>1. proc' = [proc EXCEPT ![p] = x]
    BY <1>8, <1>0 DEF Boot, PermitInv
  <2>2. x \in Dispatcher /\ Held(x) = Held(proc[p])
    BY <1>0 DEF Dispatcher, Held
  <2> HIDE DEF x
  <2> QED BY <1>0, <1>7, <2>1, <2>2
<1>9. ASSUME NEW p \in Processes, NEW j \in Jobs, BeginReap(p, j) \/ EndReap(p, j) PROVE PermitInv'
  <2> DEFINE x == [proc[p] EXCEPT !.reap = @ \ {j}]
  <2>1. UNCHANGED proc \/ proc' = [proc EXCEPT ![p] = x]
    BY <1>9, <1>0 DEF BeginReap, EndReap, PermitInv
  <2>2. x \in Dispatcher /\ Held(x) = Held(proc[p])
    BY <1>0 DEF Dispatcher, Held
  <2> HIDE DEF x
  <2> QED BY <1>0, <1>1, <1>7, <2>1, <2>2
<1>10. ASSUME NEW s \in Specs, Recover(s) \/ ShadowDeploy(s) PROVE UNCHANGED proc
  BY <1>10 DEF Recover, ShadowDeploy
<1>11. UNCHANGED vars \/ UNCHANGED genVars => UNCHANGED proc
  BY DEF vars, genVars
<1> QED
  BY <1>1, <1>2, <1>4, <1>5, <1>6, <1>8, <1>9, <1>10, <1>11, ResumeIsPermitted DEF Next, Work

(* No more generators run in a process, or are about to, than its          *)
(* semaphore has permits, over releases that hand a permit on, claims of   *)
(* jobs that were reaped, stops and the resuming of a whole queue          *)
(* (GenerationDispatcher, Semaphore).                                      *)
THEOREM PermitsAreKept ==
  ConcurrencyAssumption /\ IsFiniteSet(Jobs) => (Spec => []WithinConcurrency)
<1> SUFFICES ASSUME ConcurrencyAssumption, IsFiniteSet(Jobs) PROVE Spec => []WithinConcurrency
  OBVIOUS
<1>1. Init => PermitInv
  BY UpIsPermitted DEF Init, PermitInv, Permitted
<1>2. PermitInv /\ [Next]_vars => PermitInv'
  BY PermitStep
<1>3. PermitInv => WithinConcurrency
  BY DEF PermitInv, Permitted, Held, WithinConcurrency
<1> QED BY <1>1, <1>2, <1>3, PTL DEF Spec

-----------------------------------------------------------------------------
(* The Build page that asks for specifications (BuilderScreen), for any    *)
(* number of interpretations, scopes, intakes, decisions and failures.     *)
CONSTANTS MaxInterpretations, MaxScopes, MaxIntakes, MaxDecisions, MaxFailures
VARIABLES interpretation, reviewed, outcomes, intake, intakes, dialog, deciding, keys,
          request, drafts, loaded, done, saved, scopes, failures, lost

Builder == INSTANCE BuilderScreen WITH spec <- loaded

Scopes == {None} \cup {"user", "interpreted"} \X Nat
Shown == [kind : {"none", "prefill", "split"}, id : Nat]
Closures == [interpretation : Shown, reviewed : Nat, outcomes : Scopes,
             spec : BOOLEAN, intake : Nat, key : Nat]
Drafts == [outcomes : Scopes, intake : Nat, interpretation : Nat]
Intakes == [confirmed : BOOLEAN, key : Nat]

Flying(m) == request[m] # None

PageTyped ==
  /\ interpretation \in Shown /\ reviewed \in Nat /\ outcomes \in Scopes
  /\ intakes \in Seq(Intakes) /\ intake \in 0..Len(intakes)
  /\ deciding \in Nat /\ keys \in Nat /\ (deciding # 0 => intake # 0)
  /\ drafts \in Seq(Drafts) /\ loaded \in BOOLEAN /\ scopes \in Nat /\ lost \in Nat
Framed == request = [m \in Builder!Mutations |-> request[m]]
RequestTyped ==
  /\ Framed
  /\ Flying("interpret") => request["interpret"] \in Nat \ {0}
  /\ Flying("intake") => request["intake"] \in [confirmed : BOOLEAN]
  /\ Flying("decision") => /\ request["decision"] \in [closure : Closures, draft : BOOLEAN]
                           /\ request["decision"].closure.intake \in 1..Len(intakes)
  /\ Flying("create") => request["create"] \in Drafts

(* A scope that passes the gate of submitDecision was saved under the      *)
(* interpretation it is to be attributed to.                               *)
GateIsSaved(c) ==
  c.interpretation.kind = "prefill" /\ c.reviewed = c.interpretation.id
  => [scope |-> c.outcomes, under |-> c.interpretation.id] \in saved
ScopesSaved ==
  /\ GateIsSaved(Builder!Closure)
  /\ Flying("decision") => GateIsSaved(request["decision"].closure)
  /\ Flying("create") /\ request["create"].interpretation # 0
     => [scope |-> request["create"].outcomes, under |-> request["create"].interpretation] \in saved
  /\ Builder!LineageIsReviewed

(* The intake n has a confirmed scope and a decision.                      *)
OnRecord(n) == n \in 1..Len(intakes) /\ intakes[n].confirmed /\ intakes[n].key # 0
DraftsOnRecord ==
  /\ Flying("decision") => request["decision"].closure.key # 0
  /\ Flying("create") => OnRecord(request["create"].intake)
  /\ \A i \in DOMAIN drafts : OnRecord(drafts[i].intake)

(* A decision and a draft are not under way together, and neither began    *)
(* before the draft that is shown was created.                             *)
OneAtATime ==
  /\ ~(Flying("decision") /\ Flying("create"))
  /\ Flying("decision") => request["decision"].closure.spec = loaded
  /\ Flying("create") => ~loaded
  /\ Len(drafts) = IF loaded THEN lost + 1 ELSE lost

(* A section that is open or being saved has been unlocked.                *)
SectionsUnlocked ==
  /\ ~loaded => done = {} /\ dialog \notin DOMAIN Builder!Preceding /\ ~Flying("section")
  /\ dialog \in DOMAIN Builder!Preceding => Builder!Unlocked(dialog)
  /\ Flying("section") /\ request["section"] \in DOMAIN Builder!Preceding
     => Builder!Unlocked(request["section"])
  /\ Builder!SectionsInOrder

PageInv == PageTyped /\ RequestTyped
ScreenInv == PageInv /\ ScopesSaved /\ DraftsOnRecord /\ OneAtATime /\ SectionsUnlocked

LEMMA ScreenStart == Builder!Init => ScreenInv
<1> SUFFICES ASSUME Builder!Init PROVE ScreenInv
  OBVIOUS
<1> USE DEF Builder!Init, Flying
<1>0. /\ request = [m \in Builder!Mutations |-> None]
      /\ \A m \in Builder!Mutations : request[m] = None
  OBVIOUS
<1>1. \A m \in {"interpret", "intake", "decision", "create", "section"} : request[m] = None
  BY <1>0 DEF Builder!Mutations
<1>2. intakes \in Seq(Intakes) /\ intake \in 0..Len(intakes)
  <2>1. CASE intake = 0 /\ intakes = <<>>
    BY <2>1
  <2>2. ASSUME NEW c \in BOOLEAN, intake = 1, intakes = <<[confirmed |-> c, key |-> 0]>>
        PROVE  intakes \in Seq(Intakes) /\ Len(intakes) = 1
    <3>1. [confirmed |-> c, key |-> 0] \in Intakes
      BY <2>2 DEF Intakes
    <3> QED BY <2>2, <3>1
  <2>3. \/ intake = 0 /\ intakes = <<>>
        \/ \E c \in BOOLEAN : intake = 1 /\ intakes = <<[confirmed |-> c, key |-> 0]>>
    OBVIOUS
  <2>4. CASE \E c \in BOOLEAN : intake = 1 /\ intakes = <<[confirmed |-> c, key |-> 0]>>
    <3>1. intakes \in Seq(Intakes) /\ Len(intakes) = 1 /\ intake = 1
      BY <2>2, <2>4
    <3> QED BY <3>1
  <2> QED BY <2>1, <2>3, <2>4
<1>3. PageTyped
  <2>1. interpretation \in Shown /\ outcomes \in Scopes /\ reviewed \in Nat
    BY DEF Shown, Scopes
  <2>2. deciding \in Nat /\ keys \in Nat /\ loaded \in BOOLEAN /\ scopes \in Nat /\ lost \in Nat
    OBVIOUS
  <2>3. drafts \in Seq(Drafts)
    OBVIOUS
  <2> QED BY <1>2, <2>1, <2>2, <2>3 DEF PageTyped
<1>4. RequestTyped
  BY <1>0, <1>1 DEF RequestTyped, Framed
<1>5. ScopesSaved
  BY <1>1 DEF ScopesSaved, GateIsSaved, Builder!Closure, Builder!LineageIsReviewed
<1>6. DraftsOnRecord
  BY <1>1 DEF DraftsOnRecord
<1>7. OneAtATime
  BY <1>1 DEF OneAtATime
<1>8. SectionsUnlocked
  BY <1>1 DEF SectionsUnlocked, Builder!Preceding, Builder!SectionsInOrder
<1> QED BY <1>3, <1>4, <1>5, <1>6, <1>7, <1>8 DEF ScreenInv, PageInv

(* The record of a request that fits the page.                             *)
LEMMA ClosureTyped == PageTyped => Builder!Closure \in Closures
BY DEF PageTyped, Builder!Closure, Closures

(* What an answer or a new request leaves of the others.                   *)
LEMMA SendOne ==
  ASSUME NEW m \in Builder!Mutations, NEW x, Framed, Builder!Send(m, x)
  PROVE  Framed' /\ request'[m] = x /\ \A k \in Builder!Mutations \ {m} : request'[k] = request[k]
BY DEF Builder!Send, Framed

LEMMA SendTwo ==
  ASSUME NEW m \in Builder!Mutations, NEW n \in Builder!Mutations \ {m}, NEW x, NEW y,
         Framed, request' = [request EXCEPT ![m] = x, ![n] = y]
  PROVE  /\ Framed' /\ request'[m] = x /\ request'[n] = y
         /\ \A k \in Builder!Mutations \ {m, n} : request'[k] = request[k]
BY DEF Framed

LEMMA PageStep ==
  ASSUME PageInv, Builder!Next
  PROVE  PageInv'
<1> USE DEF PageInv, Flying, Builder!Mutations, Builder!Idle
<1>1. ASSUME Builder!InterpretPrompt PROVE PageInv'
  BY <1>1, SendOne DEF PageTyped, RequestTyped, Builder!InterpretPrompt, Builder!page,
      Builder!server, Builder!draftVars, Builder!history, Shown
<1>2. ASSUME NEW k \in {"prefill", "split"}, Builder!AcceptInterpretation(k) PROVE PageInv'
  <2> USE <1>2 DEF Builder!AcceptInterpretation
  <2>1. request["interpret"] \in Nat \ {0}
    BY DEF RequestTyped
  <2>2. RequestTyped'
    <3>1. CASE Builder!Send("interpret", None)
      BY <3>1, SendOne DEF RequestTyped, Builder!server
    <3>2. CASE request' = [request EXCEPT !["interpret"] = None, !["intake"] = [confirmed |-> FALSE]]
      <4>1. /\ Framed' /\ request'["interpret"] = None
            /\ request'["intake"] = [confirmed |-> FALSE]
            /\ request'["decision"] = request["decision"] /\ request'["create"] = request["create"]
        BY <3>2 DEF RequestTyped, Framed
      <4> QED BY <4>1 DEF RequestTyped, Builder!server
    <3> QED BY <3>1, <3>2
  <2>3. interpretation' \in Shown /\ reviewed' \in Nat /\ outcomes' \in Scopes
    BY <2>1 DEF PageTyped, Shown, Scopes
  <2>4. PageTyped'
    BY <2>3 DEF PageTyped, Builder!server, Builder!draftVars, Builder!history
  <2> QED BY <2>2, <2>4
<1>3. ASSUME Builder!OpenScope PROVE PageInv'
  BY <1>3 DEF PageTyped, RequestTyped, Framed, Builder!OpenScope, Builder!page, Builder!server,
      Builder!draftVars, Builder!history
<1>4. ASSUME NEW o \in Scopes, Builder!SearchScope(o) PROVE PageInv'
  <2> USE <1>4 DEF Builder!SearchScope
  <2>1. RequestTyped'
    <3>1. /\ Framed' /\ request'["intake"] = [confirmed |-> TRUE]
          /\ \A m \in {"interpret", "decision", "create"} : request'[m] = request[m]
      BY DEF RequestTyped, Framed
    <3>2. /\ request'["interpret"] = request["interpret"]
          /\ request'["decision"] = request["decision"] /\ request'["create"] = request["create"]
      BY <3>1
    <3>3. [confirmed |-> TRUE] \in [confirmed : BOOLEAN] /\ intakes' = intakes
      BY DEF Builder!server
    <3> HIDE DEF Builder!SearchScope
    <3> QED BY <3>1, <3>2, <3>3 DEF RequestTyped
  <2>2. reviewed' \in Nat /\ outcomes' \in Scopes /\ scopes' \in Nat
    BY DEF PageTyped, Shown
  <2>3. PageTyped'
    BY <2>2 DEF PageTyped, Builder!server, Builder!draftVars
  <2> QED BY <2>1, <2>3
<1>5. ASSUME Builder!SaveScope PROVE PageInv'
  <2>1. outcomes \in Scopes /\ <<"user", scopes + 1>> \in Scopes
    BY DEF PageTyped, Scopes
  <2> QED BY <1>4, <1>5, <2>1 DEF Builder!SaveScope
<1>6. ASSUME Builder!IntakeCreated PROVE PageInv'
  <2> USE <1>6 DEF Builder!IntakeCreated
  <2>1. RequestTyped'
    BY SendOne DEF RequestTyped, PageTyped
  <2>2. intakes' \in Seq(Intakes) /\ intake' = Len(intakes')
    BY DEF RequestTyped, PageTyped, Intakes
  <2>3. PageTyped'
    BY <2>2 DEF PageTyped, Builder!page, Builder!draftVars, Builder!history
  <2> QED BY <2>1, <2>3
<1>7. ASSUME Builder!BeginDecision PROVE PageInv'
  BY <1>7 DEF PageTyped, RequestTyped, Framed, Builder!BeginDecision, Builder!page, Builder!server,
      Builder!draftVars, Builder!history
<1>8. ASSUME NEW c \in Closures, c.intake \in 1..Len(intakes)
      PROVE  Builder!Decided(c) \in Seq(Intakes) /\ Len(Builder!Decided(c)) = Len(intakes)
  <2>1. [intakes[c.intake] EXCEPT !.key = c.key] \in Intakes
    <3>1. intakes[c.intake] \in Intakes
      BY <1>8 DEF PageTyped
    <3>2. c.key \in Nat
      BY <1>8 DEF Closures
    <3> QED BY <3>1, <3>2 DEF Intakes
  <2> QED BY <1>8, <2>1 DEF Builder!Decided, PageTyped
<1>9. ASSUME Flying("decision")
      PROVE  /\ Builder!Decided(request["decision"].closure) \in Seq(Intakes)
             /\ Len(Builder!Decided(request["decision"].closure)) = Len(intakes)
  BY <1>8, <1>9 DEF RequestTyped
<1>10. ASSUME Builder!CloseDialog PROVE PageInv'
  <2> USE <1>10 DEF Builder!CloseDialog
  <2>1. intakes' \in Seq(Intakes) /\ Len(intakes') = Len(intakes)
    BY <1>9 DEF PageTyped
  <2>2. PageTyped'
    BY <2>1 DEF PageTyped, Builder!page, Builder!draftVars, Builder!history
  <2>3. RequestTyped'
    BY <2>1, SendOne DEF RequestTyped, Framed
  <2> QED BY <2>2, <2>3
<1>11. ASSUME NEW d \in BOOLEAN, Builder!SubmitDecision(d) PROVE PageInv'
  <2> USE <1>11 DEF Builder!SubmitDecision
  <2>1. PageTyped'
    BY DEF PageTyped, Builder!page, Builder!server, Builder!draftVars, Builder!history
  <2>2. Builder!Closure \in Closures /\ Builder!Closure.intake \in 1..Len(intakes)
    BY ClosureTyped DEF PageTyped, Builder!Closure
  <2>3. RequestTyped'
    <3>1. CASE UNCHANGED request
      BY <3>1 DEF RequestTyped, Framed, Builder!server
    <3>2. CASE Builder!Send("decision", [closure |-> Builder!Closure, draft |-> d])
      BY <2>2, <3>2, SendOne DEF RequestTyped, Builder!server
    <3> QED BY <3>1, <3>2
  <2> QED BY <2>1, <2>3
<1>12. ASSUME Builder!DecisionRecorded PROVE PageInv'
  <2> USE <1>12 DEF Builder!DecisionRecorded
  <2> DEFINE d == request["decision"]
  <2>1. d \in [closure : Closures, draft : BOOLEAN]
    BY DEF RequestTyped
  <2>2. intakes' \in Seq(Intakes) /\ Len(intakes') = Len(intakes)
    BY <1>9
  <2>3. PageTyped'
    BY <2>2 DEF PageTyped, Builder!page, Builder!draftVars, Builder!history
  <2>4. RequestTyped'
    <3>1. CASE Builder!Send("decision", None)
      BY <2>2, <3>1, SendOne DEF RequestTyped
    <3>2. CASE d.draft /\ Builder!MayDraft(d.closure)
      <4>1. [outcomes |-> d.closure.outcomes, intake |-> d.closure.intake,
             interpretation |-> IF d.closure.interpretation.kind = "prefill"
                                THEN d.closure.interpretation.id ELSE 0] \in Drafts
        BY <2>1 DEF Drafts, Closures, Shown
      <4>2. /\ Framed' /\ request'["decision"] = None /\ request'["create"] \in Drafts
            /\ request'["interpret"] = request["interpret"] /\ request'["intake"] = request["intake"]
        BY <3>2, <4>1 DEF RequestTyped, Framed
      <4> QED BY <4>2 DEF RequestTyped
    <3> QED BY <3>1, <3>2
  <2> QED BY <2>3, <2>4
<1>13. ASSUME Builder!DecisionRefused PROVE PageInv'
  BY <1>13, SendOne DEF PageTyped, RequestTyped, Builder!DecisionRefused, Builder!page,
      Builder!server, Builder!draftVars, Builder!history
<1>14. ASSUME Builder!DraftCreated PROVE PageInv'
  <2> USE <1>14 DEF Builder!DraftCreated
  <2>1. RequestTyped'
    BY SendOne DEF RequestTyped, Builder!server
  <2>2. drafts' \in Seq(Drafts)
    BY DEF RequestTyped, PageTyped
  <2>3. PageTyped'
    BY <2>2 DEF PageTyped, Builder!page, Builder!history
  <2> QED BY <2>1, <2>3
<1>15. ASSUME NEW n, Builder!OpenStep(n) PROVE PageInv'
  BY <1>15 DEF PageTyped, RequestTyped, Framed, Builder!OpenStep, Builder!page, Builder!server,
      Builder!draftVars, Builder!history
<1>16. ASSUME Builder!SaveSection PROVE PageInv'
  BY <1>16, SendOne DEF PageTyped, RequestTyped, Builder!SaveSection, Builder!page,
      Builder!server, Builder!draftVars, Builder!history
<1>17. ASSUME Builder!SectionSaved PROVE PageInv'
  BY <1>17, SendOne DEF PageTyped, RequestTyped, Builder!SectionSaved, Builder!page,
      Builder!server, Builder!history
<1>18. ASSUME NEW m \in Builder!Mutations, Builder!RequestFails(m) PROVE PageInv'
  <2> USE <1>18 DEF Builder!RequestFails
  <2>1. intakes' \in Seq(Intakes) /\ Len(intakes') = Len(intakes)
    BY <1>9 DEF PageTyped, Builder!server
  <2>2. drafts' \in Seq(Drafts) /\ lost' \in Nat
    <3>1. CASE m = "create" /\ drafts' = Append(drafts, request[m]) /\ lost' = lost + 1
      BY <3>1 DEF PageTyped, RequestTyped
    <3>2. CASE UNCHANGED <<drafts, lost>>
      BY <3>2 DEF PageTyped
    <3> QED BY <3>1, <3>2 DEF Builder!server
  <2>3. PageTyped'
    BY <2>1, <2>2 DEF PageTyped, Builder!page, Builder!draftVars
  <2>4. RequestTyped'
    <3>1. Framed' /\ \A k \in {"interpret", "intake", "decision", "create"} :
                        request'[k] \in {None, request[k]}
      BY SendOne DEF RequestTyped
    <3>2. /\ request'["interpret"] \in {None, request["interpret"]}
          /\ request'["intake"] \in {None, request["intake"]}
          /\ request'["decision"] \in {None, request["decision"]}
          /\ request'["create"] \in {None, request["create"]}
      BY <3>1
    <3> QED BY <2>1, <3>1, <3>2 DEF RequestTyped
  <2> QED BY <2>3, <2>4
<1> QED
  BY <1>1, <1>2, <1>3, <1>5, <1>6, <1>7, <1>10, <1>11, <1>12, <1>13, <1>14, <1>15, <1>16,
     <1>17, <1>18 DEF Builder!Next

LEMMA ScopesStep ==
  ASSUME PageInv, ScopesSaved, Builder!Next
  PROVE  ScopesSaved'
<1> USE DEF Flying, Builder!Mutations, Builder!Idle
<1>0. /\ Framed /\ drafts \in Seq(Drafts)
      /\ Flying("interpret") => request["interpret"] \in Nat \ {0}
  BY DEF PageInv, PageTyped, RequestTyped
(* What is saved stays saved. *)
<1>1. ASSUME saved \subseteq saved', UNCHANGED drafts,
             GateIsSaved(Builder!Closure)',
             \/ request'["decision"] = None \/ request'["decision"] = request["decision"]
             \/ GateIsSaved(request'["decision"].closure),
             \/ request'["create"] = None \/ request'["create"] = request["create"]
             \/ request'["create"].interpretation = 0
             \/ [scope |-> request'["create"].outcomes, under |-> request'["create"].interpretation] \in saved
      PROVE  ScopesSaved'
  <2>1. (Flying("decision") => GateIsSaved(request["decision"].closure))'
    BY <1>1 DEF ScopesSaved, GateIsSaved
  <2>2. Builder!LineageIsReviewed'
    BY <1>1 DEF ScopesSaved, Builder!LineageIsReviewed
  <2> QED BY <1>1, <2>1, <2>2 DEF ScopesSaved
<1>2. ASSUME UNCHANGED <<interpretation, reviewed, outcomes, saved>>
      PROVE  GateIsSaved(Builder!Closure)'
  BY <1>2 DEF ScopesSaved, GateIsSaved, Builder!Closure
<1>3. CASE Builder!InterpretPrompt
  BY <1>0, <1>1, <1>2, <1>3, SendOne DEF Builder!InterpretPrompt, Builder!page, Builder!server,
      Builder!history
<1>4. ASSUME NEW k \in {"prefill", "split"}, Builder!AcceptInterpretation(k) PROVE ScopesSaved'
  <2> USE <1>4 DEF Builder!AcceptInterpretation
  <2>1. GateIsSaved(Builder!Closure)'
    BY <1>0 DEF GateIsSaved, Builder!Closure
  <2>2. request'["decision"] = request["decision"] /\ request'["create"] = request["create"]
    BY <1>0 DEF Framed, Builder!Send
  <2> QED BY <1>1, <2>1, <2>2 DEF Builder!server, Builder!history
<1>5. CASE Builder!OpenScope
  BY <1>1, <1>2, <1>5 DEF Builder!OpenScope, Builder!page, Builder!server, Builder!history
<1>6. ASSUME NEW o, Builder!SearchScope(o) PROVE ScopesSaved'
  <2> USE <1>6 DEF Builder!SearchScope
  <2>1. GateIsSaved(Builder!Closure)'
    BY DEF GateIsSaved, Builder!Closure
  <2>2. request'["decision"] = request["decision"] /\ request'["create"] = request["create"]
    BY <1>0 DEF Framed
  <2> QED BY <1>1, <2>1, <2>2 DEF Builder!server
<1>7. CASE Builder!SaveScope
  BY <1>6, <1>7 DEF Builder!SaveScope
<1>8. CASE Builder!IntakeCreated
  BY <1>0, <1>1, <1>2, <1>8, SendOne DEF Builder!IntakeCreated, Builder!page, Builder!history
<1>9. CASE Builder!BeginDecision
  BY <1>1, <1>2, <1>9 DEF Builder!BeginDecision, Builder!page, Builder!server, Builder!history
<1>10. CASE Builder!CloseDialog
  BY <1>0, <1>1, <1>2, <1>10, SendOne DEF Builder!CloseDialog, Builder!page, Builder!history
<1>11. ASSUME NEW d \in BOOLEAN, Builder!SubmitDecision(d) PROVE ScopesSaved'
  <2> USE <1>11 DEF Builder!SubmitDecision
  <2>1. GateIsSaved(Builder!Closure)'
    BY <1>2 DEF Builder!page, Builder!history
  <2>2. /\ request'["create"] = request["create"]
        /\ request'["decision"] = request["decision"] \/ request'["decision"].closure = Builder!Closure
    BY <1>0, SendOne
  <2> QED BY <1>1, <2>1, <2>2 DEF ScopesSaved, Builder!server, Builder!history
<1>12. CASE Builder!DecisionRecorded
  <2> USE <1>12 DEF Builder!DecisionRecorded
  <2> DEFINE c == request["decision"].closure
  <2>1. GateIsSaved(Builder!Closure)'
    BY <1>2 DEF Builder!page, Builder!history
  <2>2. CASE Builder!Send("decision", None)
    BY <1>0, <1>1, <2>1, <2>2, SendOne DEF Builder!history
  <2>3. CASE request["decision"].draft /\ Builder!MayDraft(c)
    <3>1. /\ request'["decision"] = None
          /\ request'["create"] = [outcomes |-> c.outcomes, intake |-> c.intake,
               interpretation |-> IF c.interpretation.kind = "prefill" THEN c.interpretation.id ELSE 0]
      BY <1>0, <2>3 DEF Framed
    <3>2. c.interpretation.kind = "prefill" => c.reviewed = c.interpretation.id
      BY <2>3 DEF Builder!MayDraft, Builder!ScopeReviewed
    <3>3. \/ request'["create"].interpretation = 0
          \/ [scope |-> request'["create"].outcomes, under |-> request'["create"].interpretation] \in saved
      BY <3>1, <3>2 DEF ScopesSaved, GateIsSaved
    <3> QED BY <1>1, <2>1, <3>1, <3>3 DEF Builder!history
  <2> QED BY <2>2, <2>3
<1>13. CASE Builder!DecisionRefused
  BY <1>0, <1>1, <1>2, <1>13, SendOne DEF Builder!DecisionRefused, Builder!page, Builder!server,
      Builder!history
(* A draft is created with what was asked for. *)
<1>14. ASSUME Flying("create"), drafts' = Append(drafts, request["create"]), saved' = saved
       PROVE  Builder!LineageIsReviewed'
  <2>1. request["create"] \in Drafts
    BY <1>14 DEF PageInv, RequestTyped
  <2>2. ASSUME NEW i \in DOMAIN drafts', drafts'[i].interpretation # 0
        PROVE  [scope |-> drafts'[i].outcomes, under |-> drafts'[i].interpretation] \in saved
    <3>1. CASE i \in DOMAIN drafts
      BY <1>0, <1>14, <2>1, <2>2, <3>1 DEF ScopesSaved, Builder!LineageIsReviewed
    <3>2. CASE i \notin DOMAIN drafts
      <4>1. drafts'[i] = request["create"]
        BY <1>0, <1>14, <2>1, <2>2, <3>2
      <4> QED BY <1>14, <2>2, <4>1 DEF ScopesSaved
    <3> QED BY <3>1, <3>2
  <2> QED BY <1>14, <2>2 DEF Builder!LineageIsReviewed
<1>15. CASE Builder!DraftCreated
  <2> USE <1>15 DEF Builder!DraftCreated
  <2>1. GateIsSaved(Builder!Closure)'
    BY <1>2 DEF Builder!page, Builder!history
  <2>2. request'["create"] = None /\ request'["decision"] = request["decision"]
    BY <1>0, SendOne
  <2>3. saved' = saved
    BY DEF Builder!history
  <2>4. (Flying("decision") => GateIsSaved(request["decision"].closure))'
    BY <2>2, <2>3 DEF ScopesSaved, GateIsSaved
  <2> QED BY <1>14, <2>1, <2>2, <2>3, <2>4 DEF ScopesSaved
<1>16. ASSUME NEW n, Builder!OpenStep(n) PROVE ScopesSaved'
  BY <1>1, <1>2, <1>16 DEF Builder!OpenStep, Builder!page, Builder!server, Builder!history
<1>17. CASE Builder!SaveSection
  BY <1>0, <1>1, <1>2, <1>17, SendOne DEF Builder!SaveSection, Builder!page, Builder!server,
      Builder!history
<1>18. CASE Builder!SectionSaved
  BY <1>0, <1>1, <1>2, <1>18, SendOne DEF Builder!SectionSaved, Builder!page, Builder!server,
      Builder!history
<1>19. ASSUME NEW m \in Builder!Mutations, Builder!RequestFails(m) PROVE ScopesSaved'
  <2> USE <1>19 DEF Builder!RequestFails
  <2>1. GateIsSaved(Builder!Closure)' /\ saved' = saved
    BY <1>2 DEF Builder!page
  <2>2. /\ request'["create"] \in {None, request["create"]}
        /\ request'["decision"] \in {None, request["decision"]}
    BY <1>0, SendOne
  <2>3. (Flying("decision") => GateIsSaved(request["decision"].closure))'
    BY <2>1, <2>2 DEF ScopesSaved, GateIsSaved
  <2>4. Builder!LineageIsReviewed'
    <3>1. CASE UNCHANGED drafts
      BY <2>1, <3>1 DEF ScopesSaved, Builder!LineageIsReviewed
    <3>2. CASE m = "create" /\ drafts' = Append(drafts, request[m])
      BY <1>14, <2>1, <3>2
    <3> QED BY <3>1, <3>2 DEF Builder!server
  <2> QED BY <2>1, <2>2, <2>3, <2>4 DEF ScopesSaved
<1> QED
  BY <1>3, <1>4, <1>5, <1>7, <1>8, <1>9, <1>10, <1>11, <1>12, <1>13, <1>15, <1>16, <1>17,
     <1>18, <1>19 DEF Builder!Next

LEMMA RecordStep ==
  ASSUME PageInv, PageInv', DraftsOnRecord, Builder!Next
  PROVE  DraftsOnRecord'
<1> USE DEF Flying, Builder!Mutations, Builder!Idle
<1>0. /\ Framed /\ drafts \in Seq(Drafts) /\ intakes \in Seq(Intakes)
      /\ Flying("decision") => /\ request["decision"].closure.intake \in 1..Len(intakes)
                               /\ request["decision"].closure.key # 0
      /\ Flying("create") => request["create"] \in Drafts /\ OnRecord(request["create"].intake)
  BY DEF PageInv, PageTyped, RequestTyped, DraftsOnRecord
(* A decision on record stays there: intakes are added and decided. *)
<1> DEFINE Kept == \A n : OnRecord(n) => OnRecord(n)'
<1>1. ASSUME UNCHANGED intakes PROVE Kept
  BY <1>1 DEF OnRecord
<1>2. ASSUME Flying("decision"), Builder!Takes(request["decision"].closure),
             intakes' = Builder!Decided(request["decision"].closure)
      PROVE  Kept /\ \A n : n = request["decision"].closure.intake => OnRecord(n)'
  <2> DEFINE c == request["decision"].closure
  <2>1. /\ Len(intakes') = Len(intakes)
        /\ \A n \in 1..Len(intakes) :
             intakes'[n] = IF n = c.intake THEN [intakes[n] EXCEPT !.key = c.key] ELSE intakes[n]
    <3>1. intakes' = [intakes EXCEPT ![c.intake].key = c.key]
      BY <1>2 DEF Builder!Decided
    <3>2. DOMAIN intakes = 1..Len(intakes) /\ Len(intakes) \in Nat
      BY <1>0
    <3>3. intakes' = [n \in 1..Len(intakes) |->
                        IF n = c.intake THEN [intakes[n] EXCEPT !.key = c.key] ELSE intakes[n]]
      BY <3>1, <3>2
    <3> HIDE DEF c
    <3> QED BY <3>2, <3>3
  <2>2. \A n \in 1..Len(intakes) : intakes[n] \in Intakes
    BY <1>0
  <2>3. \A n \in 1..Len(intakes) :
          /\ intakes'[n].confirmed = intakes[n].confirmed
          /\ intakes'[n].key = IF n = c.intake THEN c.key ELSE intakes[n].key
    BY <2>1, <2>2 DEF Intakes
  <2>4. Kept
    BY <1>0, <1>2, <2>1, <2>3 DEF OnRecord
  <2>5. ASSUME NEW n, n = c.intake PROVE OnRecord(n)'
    <3>1. n \in 1..Len(intakes) /\ c.key # 0 /\ intakes[n].confirmed
      BY <1>0, <1>2, <2>5 DEF Builder!Takes
    <3> QED BY <2>1, <2>3, <2>5, <3>1 DEF OnRecord
  <2> QED BY <2>4, <2>5
(* What the page still holds is on record. *)
<1>3. ASSUME Kept, UNCHANGED drafts,
             request'["decision"] \in {None, request["decision"]} \/ request'["decision"].closure.key # 0,
             \/ request'["create"] = None
             \/ request'["create"] = request["create"]
             \/ OnRecord(request["create"].intake)'
      PROVE  DraftsOnRecord'
  <2>1. (Flying("create") => OnRecord(request["create"].intake))'
    BY <1>0, <1>3
  <2>2. (\A i \in DOMAIN drafts : OnRecord(drafts[i].intake))'
    BY <1>3 DEF DraftsOnRecord
  <2> QED BY <1>0, <1>3, <2>1, <2>2 DEF DraftsOnRecord
<1>4. CASE Builder!InterpretPrompt
  BY <1>0, <1>1, <1>3, <1>4, SendOne DEF Builder!InterpretPrompt, Builder!server
<1>5. ASSUME NEW k \in {"prefill", "split"}, Builder!AcceptInterpretation(k) PROVE DraftsOnRecord'
  <2>1. request'["decision"] = request["decision"] /\ request'["create"] = request["create"]
    BY <1>0, <1>5 DEF Framed, Builder!Send, Builder!AcceptInterpretation
  <2> QED BY <1>1, <1>3, <1>5, <2>1 DEF Builder!AcceptInterpretation, Builder!server
<1>6. CASE Builder!OpenScope
  BY <1>1, <1>3, <1>6 DEF Builder!OpenScope, Builder!server
<1>7. ASSUME NEW o, Builder!SearchScope(o) PROVE DraftsOnRecord'
  <2>1. request'["decision"] = request["decision"] /\ request'["create"] = request["create"]
    BY <1>0, <1>7 DEF Framed, Builder!SearchScope
  <2> QED BY <1>1, <1>3, <1>7, <2>1 DEF Builder!SearchScope, Builder!server
<1>8. CASE Builder!SaveScope
  BY <1>7, <1>8 DEF Builder!SaveScope
<1>9. CASE Builder!IntakeCreated
  <2>1. /\ request'["decision"] = request["decision"] /\ request'["create"] = request["create"]
        /\ drafts' = drafts
    BY <1>0, <1>9, SendOne DEF Builder!IntakeCreated
  <2>2. Kept
    <3> DEFINE new == [confirmed |-> request["intake"].confirmed, key |-> 0]
    <3>1. intakes' = Append(intakes, new)
      BY <1>9 DEF Builder!IntakeCreated
    <3>2. \A n \in 1..Len(intakes) : n \in 1..Len(intakes') /\ intakes'[n] = intakes[n]
      BY <1>0, <3>1
    <3> QED BY <3>2 DEF OnRecord
  <2> QED BY <1>3, <2>1, <2>2
<1>10. CASE Builder!BeginDecision
  BY <1>1, <1>3, <1>10 DEF Builder!BeginDecision, Builder!server
<1>11. CASE Builder!CloseDialog
  <2> USE <1>11 DEF Builder!CloseDialog
  <2>1. Kept
    BY <1>1, <1>2
  <2>2. request'["decision"] \in {None, request["decision"]} /\ request'["create"] = request["create"]
    BY <1>0, SendOne
  <2> QED BY <1>3, <2>1, <2>2
<1>12. ASSUME NEW d \in BOOLEAN, Builder!SubmitDecision(d) PROVE DraftsOnRecord'
  <2> USE <1>12 DEF Builder!SubmitDecision
  <2>1. /\ request'["create"] = request["create"]
        /\ \/ request'["decision"] = request["decision"]
           \/ request'["decision"].closure = Builder!Closure
    BY <1>0, SendOne
  <2>2. Builder!Closure.key = deciding
    BY DEF Builder!Closure
  <2>3. request'["decision"] \in {None, request["decision"]} \/ request'["decision"].closure.key # 0
    BY <2>1, <2>2
  <2> QED BY <1>1, <1>3, <2>1, <2>3 DEF Builder!server
<1>13. CASE Builder!DecisionRecorded
  <2> USE <1>13 DEF Builder!DecisionRecorded
  <2> DEFINE c == request["decision"].closure
  <2>1. Kept /\ \A n : n = c.intake => OnRecord(n)'
    BY <1>2
  <2>2. CASE Builder!Send("decision", None)
    BY <1>0, <1>3, <2>1, <2>2, SendOne
  <2>3. CASE request["decision"].draft /\ Builder!MayDraft(c)
    <3>1. /\ request'["decision"] = None
          /\ request'["create"].intake = c.intake
      BY <1>0, <2>3 DEF Framed
    <3>2. OnRecord(request["create"].intake)'
      BY <2>1, <3>1
    <3> QED BY <1>3, <2>1, <3>1, <3>2
  <2> QED BY <2>2, <2>3
<1>14. CASE Builder!DecisionRefused
  BY <1>0, <1>1, <1>3, <1>14, SendOne DEF Builder!DecisionRefused, Builder!server
(* A draft is created for what was asked. *)
<1>15. ASSUME Flying("create"), drafts' = Append(drafts, request["create"]), UNCHANGED intakes
       PROVE  (\A i \in DOMAIN drafts : OnRecord(drafts[i].intake))'
  <2>1. \A n : OnRecord(n) => OnRecord(n)'
    BY <1>1, <1>15
  <2>2. ASSUME NEW i \in DOMAIN drafts' PROVE OnRecord(drafts'[i].intake)
    <3>1. CASE i \in DOMAIN drafts
      BY <1>0, <1>15, <3>1 DEF DraftsOnRecord
    <3>2. CASE i \notin DOMAIN drafts
      <4>1. drafts'[i] = request["create"]
        BY <1>0, <1>15, <2>2, <3>2
      <4> QED BY <1>0, <1>15, <4>1
    <3> QED BY <3>1, <3>2
  <2> QED BY <2>1, <2>2
<1>16. CASE Builder!DraftCreated
  <2>1. request'["create"] = None /\ request'["decision"] = request["decision"]
    BY <1>0, <1>16, SendOne DEF Builder!DraftCreated
  <2> QED BY <1>0, <1>15, <1>16, <2>1 DEF Builder!DraftCreated, DraftsOnRecord
<1>17. ASSUME NEW n, Builder!OpenStep(n) PROVE DraftsOnRecord'
  BY <1>1, <1>3, <1>17 DEF Builder!OpenStep, Builder!server
<1>18. CASE Builder!SaveSection
  BY <1>0, <1>1, <1>3, <1>18, SendOne DEF Builder!SaveSection, Builder!server
<1>19. CASE Builder!SectionSaved
  BY <1>0, <1>1, <1>3, <1>19, SendOne DEF Builder!SectionSaved, Builder!server
<1>20. ASSUME NEW m \in Builder!Mutations, Builder!RequestFails(m) PROVE DraftsOnRecord'
  <2> USE <1>20 DEF Builder!RequestFails
  <2>1. /\ request'["create"] \in {None, request["create"]}
        /\ request'["decision"] \in {None, request["decision"]}
    BY <1>0, SendOne
  <2>2. CASE UNCHANGED drafts
    <3>1. Kept
      BY <1>1, <1>2 DEF Builder!server
    <3> QED BY <1>3, <2>1, <2>2, <3>1
  <2>3. CASE m = "create" /\ drafts' = Append(drafts, request[m]) /\ UNCHANGED intakes
    <3>1. request'["create"] = None
      BY <1>0, <2>3, SendOne
    <3> QED BY <1>0, <1>15, <2>1, <2>3, <3>1 DEF DraftsOnRecord
  <2> QED BY <2>2, <2>3 DEF Builder!server
<1> QED
  BY <1>4, <1>5, <1>6, <1>8, <1>9, <1>10, <1>11, <1>12, <1>13, <1>14, <1>16, <1>17, <1>18,
     <1>19, <1>20 DEF Builder!Next

LEMMA OneDraftStep ==
  ASSUME PageInv, OneAtATime, Builder!Next
  PROVE  OneAtATime'
<1> USE DEF Flying, Builder!Mutations, Builder!Idle
<1>0. Framed /\ drafts \in Seq(Drafts) /\ loaded \in BOOLEAN /\ lost \in Nat
  BY DEF PageInv, PageTyped, RequestTyped
<1>1. ASSUME UNCHANGED <<drafts, loaded, lost>>,
             \/ request'["decision"] \in {None, request["decision"]}
             \/ ~Flying("create") /\ request'["decision"].closure.spec = loaded,
             \/ request'["create"] \in {None, request["create"]}
             \/ ~loaded /\ request'["decision"] = None
      PROVE  OneAtATime'
  <2>1. (Flying("decision") => request["decision"].closure.spec = loaded)'
    BY <1>1 DEF OneAtATime
  <2> QED BY <1>1, <2>1 DEF OneAtATime
<1>2. CASE Builder!InterpretPrompt
  BY <1>0, <1>1, <1>2, SendOne DEF Builder!InterpretPrompt, Builder!server, Builder!draftVars,
      Builder!history
<1>3. ASSUME NEW k \in {"prefill", "split"}, Builder!AcceptInterpretation(k) PROVE OneAtATime'
  <2>1. request'["decision"] = request["decision"] /\ request'["create"] = request["create"]
    BY <1>0, <1>3 DEF Framed, Builder!Send, Builder!AcceptInterpretation
  <2> QED BY <1>1, <1>3, <2>1 DEF Builder!AcceptInterpretation, Builder!server,
              Builder!draftVars, Builder!history
<1>4. CASE Builder!OpenScope
  BY <1>1, <1>4 DEF Builder!OpenScope, Builder!server, Builder!draftVars, Builder!history
<1>5. ASSUME NEW o, Builder!SearchScope(o) PROVE OneAtATime'
  <2>1. request'["decision"] = request["decision"] /\ request'["create"] = request["create"]
    BY <1>0, <1>5 DEF Framed, Builder!SearchScope
  <2> QED BY <1>1, <1>5, <2>1 DEF Builder!SearchScope, Builder!server, Builder!draftVars
<1>6. CASE Builder!SaveScope
  BY <1>5, <1>6 DEF Builder!SaveScope
<1>7. CASE Builder!IntakeCreated
  BY <1>0, <1>1, <1>7, SendOne DEF Builder!IntakeCreated, Builder!draftVars, Builder!history
<1>8. CASE Builder!BeginDecision
  BY <1>1, <1>8 DEF Builder!BeginDecision, Builder!server, Builder!draftVars, Builder!history
<1>9. CASE Builder!CloseDialog
  BY <1>0, <1>1, <1>9, SendOne DEF Builder!CloseDialog, Builder!draftVars, Builder!history
<1>10. ASSUME NEW d \in BOOLEAN, Builder!SubmitDecision(d) PROVE OneAtATime'
  <2> USE <1>10 DEF Builder!SubmitDecision
  <2>1. /\ request'["create"] = request["create"] /\ ~Flying("create")
        /\ \/ request'["decision"] = request["decision"]
           \/ request'["decision"].closure = Builder!Closure
    BY <1>0, SendOne
  <2>2. Builder!Closure.spec = loaded
    BY DEF Builder!Closure
  <2> QED BY <1>1, <2>1, <2>2 DEF Builder!server, Builder!draftVars, Builder!history
<1>11. CASE Builder!DecisionRecorded
  <2> USE <1>11 DEF Builder!DecisionRecorded
  <2> DEFINE c == request["decision"].closure
  <2>1. UNCHANGED <<drafts, loaded, lost>>
    BY DEF Builder!draftVars, Builder!history
  <2>2. CASE Builder!Send("decision", None)
    BY <1>0, <1>1, <2>1, <2>2, SendOne
  <2>3. CASE request["decision"].draft /\ Builder!MayDraft(c)
    <3>1. request'["decision"] = None
      BY <1>0, <2>3 DEF Framed
    <3>2. ~loaded
      BY <1>0, <2>3 DEF OneAtATime, Builder!MayDraft
    <3> QED BY <1>1, <2>1, <3>1, <3>2
  <2> QED BY <2>2, <2>3
<1>12. CASE Builder!DecisionRefused
  BY <1>0, <1>1, <1>12, SendOne DEF Builder!DecisionRefused, Builder!server, Builder!draftVars,
      Builder!history
<1>13. CASE Builder!DraftCreated
  <2> USE <1>13 DEF Builder!DraftCreated
  <2>1. request'["create"] = None /\ request'["decision"] = request["decision"]
    BY <1>0, SendOne
  <2>2. ~Flying("decision") /\ ~loaded
    BY <1>0 DEF OneAtATime
  <2>3. Len(drafts') = Len(drafts) + 1 /\ lost' = lost
    <3>1. request["create"] \in Drafts
      BY DEF PageInv, RequestTyped
    <3> QED BY <1>0, <3>1 DEF Builder!history
  <2> QED BY <1>0, <2>1, <2>2, <2>3 DEF OneAtATime
<1>14. ASSUME NEW n, Builder!OpenStep(n) PROVE OneAtATime'
  BY <1>1, <1>14 DEF Builder!OpenStep, Builder!server, Builder!draftVars, Builder!history
<1>15. CASE Builder!SaveSection
  BY <1>0, <1>1, <1>15, SendOne DEF Builder!SaveSection, Builder!server, Builder!draftVars,
      Builder!history
<1>16. CASE Builder!SectionSaved
  BY <1>0, <1>1, <1>16, SendOne DEF Builder!SectionSaved, Builder!server, Builder!history
<1>17. ASSUME NEW m \in Builder!Mutations, Builder!RequestFails(m) PROVE OneAtATime'
  <2> USE <1>17 DEF Builder!RequestFails
  <2>1. /\ request'["create"] \in {None, request["create"]}
        /\ request'["decision"] \in {None, request["decision"]}
    BY <1>0, SendOne
  <2>2. CASE UNCHANGED <<drafts, lost>>
    BY <1>1, <2>1, <2>2 DEF Builder!draftVars
  <2>3. CASE m = "create" /\ drafts' = Append(drafts, request[m]) /\ lost' = lost + 1
    <3>1. request["create"] \in Drafts
      BY <2>3 DEF PageInv, RequestTyped
    <3>2. Len(drafts') = Len(drafts) + 1 /\ loaded' = loaded
      BY <1>0, <2>3, <3>1 DEF Builder!draftVars
    <3>3. request'["create"] = None /\ ~loaded /\ ~Flying("decision")
      BY <1>0, <2>3, SendOne DEF OneAtATime
    <3> QED BY <1>0, <2>1, <2>3, <3>2, <3>3 DEF OneAtATime
  <2> QED BY <2>2, <2>3 DEF Builder!server
<1> QED
  BY <1>2, <1>3, <1>4, <1>6, <1>7, <1>8, <1>9, <1>10, <1>11, <1>12, <1>13, <1>14, <1>15,
     <1>16, <1>17 DEF Builder!Next

LEMMA SectionStep ==
  ASSUME PageInv, OneAtATime, SectionsUnlocked, Builder!Next
  PROVE  SectionsUnlocked'
<1> USE DEF Flying, Builder!Mutations, Builder!Idle
<1>0. Framed
  BY DEF PageInv, RequestTyped
<1>1. ASSUME UNCHANGED <<done, loaded>>,
             \/ dialog' = dialog \/ dialog' \notin DOMAIN Builder!Preceding
             \/ loaded /\ Builder!Unlocked(dialog'),
             \/ request'["section"] \in {None, request["section"]}
             \/ loaded /\ (request'["section"] \in DOMAIN Builder!Preceding
                           => Builder!Unlocked(request'["section"]))
      PROVE  SectionsUnlocked'
  <2>1. \A n : Builder!Unlocked(n) => Builder!Unlocked(n)'
    BY <1>1 DEF Builder!Unlocked
  <2>2. (dialog \in DOMAIN Builder!Preceding => Builder!Unlocked(dialog))'
    BY <1>1 DEF SectionsUnlocked, Builder!Unlocked, Builder!Preceding
  <2>3. (Flying("section") /\ request["section"] \in DOMAIN Builder!Preceding
         => Builder!Unlocked(request["section"]))'
    BY <1>1 DEF SectionsUnlocked, Builder!Unlocked, Builder!Preceding
  <2>4. Builder!SectionsInOrder'
    BY <1>1 DEF SectionsUnlocked, Builder!SectionsInOrder, Builder!Preceding
  <2>5. (~loaded => done = {} /\ dialog \notin DOMAIN Builder!Preceding /\ ~Flying("section"))'
    BY <1>1 DEF SectionsUnlocked, Builder!Preceding
  <2> QED BY <2>2, <2>3, <2>4, <2>5 DEF SectionsUnlocked
<1> USE DEF Builder!draftVars
<1>2. "none" \notin DOMAIN Builder!Preceding /\ "scope" \notin DOMAIN Builder!Preceding
      /\ "outcomes" \notin DOMAIN Builder!Preceding
  BY DEF Builder!Preceding
<1>3. CASE Builder!InterpretPrompt
  BY <1>0, <1>1, <1>3, SendOne DEF Builder!InterpretPrompt
<1>4. ASSUME NEW k \in {"prefill", "split"}, Builder!AcceptInterpretation(k) PROVE SectionsUnlocked'
  <2>1. request'["section"] = request["section"]
    BY <1>0, <1>4 DEF Framed, Builder!Send, Builder!AcceptInterpretation
  <2> QED BY <1>1, <1>4, <2>1 DEF Builder!AcceptInterpretation
<1>5. CASE Builder!OpenScope
  BY <1>1, <1>2, <1>5 DEF Builder!OpenScope
<1>6. ASSUME NEW o, Builder!SearchScope(o) PROVE SectionsUnlocked'
  <2>1. request'["section"] = IF loaded THEN "outcomes" ELSE None
    BY <1>0, <1>6 DEF Framed, Builder!SearchScope
  <2> QED BY <1>1, <1>2, <1>6, <2>1 DEF Builder!SearchScope
<1>7. CASE Builder!SaveScope
  BY <1>6, <1>7 DEF Builder!SaveScope
<1>8. CASE Builder!IntakeCreated
  BY <1>0, <1>1, <1>8, SendOne DEF Builder!IntakeCreated
<1>9. CASE Builder!BeginDecision
  BY <1>1, <1>9 DEF Builder!BeginDecision
<1>10. CASE Builder!CloseDialog
  BY <1>0, <1>1, <1>2, <1>10, SendOne DEF Builder!CloseDialog
<1>11. ASSUME NEW d \in BOOLEAN, Builder!SubmitDecision(d) PROVE SectionsUnlocked'
  BY <1>0, <1>1, <1>2, <1>11, SendOne DEF Builder!SubmitDecision
<1>12. CASE Builder!DecisionRecorded
  <2>1. request'["section"] = request["section"]
    BY <1>0, <1>12 DEF Framed, Builder!Send, Builder!DecisionRecorded
  <2> QED BY <1>1, <1>2, <1>12, <2>1 DEF Builder!DecisionRecorded
<1>13. CASE Builder!DecisionRefused
  BY <1>0, <1>1, <1>13, SendOne DEF Builder!DecisionRefused
<1>14. CASE Builder!DraftCreated
  <2> USE <1>14 DEF Builder!DraftCreated
  <2>1. request'["section"] = request["section"] /\ dialog' = dialog
    BY <1>0, SendOne
  <2>2. ~loaded
    BY DEF OneAtATime
  <2>3. request'["section"] = None /\ dialog' \notin DOMAIN Builder!Preceding
    BY <2>1, <2>2 DEF SectionsUnlocked
  <2>4. Builder!SectionsInOrder'
    BY <1>2 DEF Builder!SectionsInOrder, Builder!Preceding
  <2> QED BY <2>3, <2>4 DEF SectionsUnlocked, Builder!Preceding
<1>15. ASSUME NEW n \in DOMAIN Builder!Preceding, Builder!OpenStep(n) PROVE SectionsUnlocked'
  BY <1>1, <1>15 DEF Builder!OpenStep
<1>16. CASE Builder!SaveSection
  <2>1. loaded /\ Builder!Unlocked(dialog)
    BY <1>16 DEF Builder!SaveSection, SectionsUnlocked, PageInv, PageTyped
  <2>2. request'["section"] = dialog
    BY <1>0, <1>16, SendOne DEF Builder!SaveSection
  <2> QED BY <1>1, <1>16, <2>1, <2>2 DEF Builder!SaveSection
<1>17. CASE Builder!SectionSaved
  <2> USE <1>17 DEF Builder!SectionSaved
  <2>1. request'["section"] = None /\ loaded /\ loaded' = loaded
    BY <1>0, SendOne DEF SectionsUnlocked, PageInv, PageTyped
  <2>2. Builder!SectionsInOrder'
    BY DEF SectionsUnlocked, Builder!SectionsInOrder, Builder!Unlocked
  <2> QED BY <1>2, <2>1, <2>2 DEF SectionsUnlocked, Builder!Preceding
<1>18. ASSUME NEW m \in Builder!Mutations, Builder!RequestFails(m) PROVE SectionsUnlocked'
  BY <1>0, <1>1, <1>18, SendOne DEF Builder!RequestFails
<1> QED
  BY <1>3, <1>4, <1>5, <1>7, <1>8, <1>9, <1>10, <1>11, <1>12, <1>13, <1>14, <1>15, <1>16,
     <1>17, <1>18 DEF Builder!Next

(* However the requests of the Build page overlap, fail or lose their      *)
(* answer: a draft that records an interpretation has a scope saved while  *)
(* it was shown, belongs to an intake that was confirmed and decided, is   *)
(* the only one of its visit unless an answer was lost, and its sections   *)
(* are completed in their order (App.tsx: searchScope, submitDecision,     *)
(* createDraft, openStep).                                                 *)
THEOREM DraftsAreReviewed ==
  Builder!Spec => [](/\ Builder!LineageIsReviewed /\ Builder!DraftAfterDecision
                     /\ Builder!OneDraftPerVisit /\ Builder!SectionsInOrder)
<1>1. Builder!Init => ScreenInv
  BY ScreenStart
<1>2. ScreenInv /\ [Builder!Next]_(Builder!vars) => ScreenInv'
  <2> SUFFICES ASSUME ScreenInv, [Builder!Next]_(Builder!vars) PROVE ScreenInv'
    OBVIOUS
  <2>1. CASE Builder!Next
    BY <2>1, PageStep, ScopesStep, RecordStep, OneDraftStep, SectionStep DEF ScreenInv
  <2>2. CASE UNCHANGED Builder!vars
    <3>1. UNCHANGED <<interpretation, reviewed, outcomes, intake, intakes, dialog, deciding, keys,
                      request, drafts, loaded, done, saved, scopes, failures, lost>>
      BY <2>2 DEF Builder!vars, Builder!page, Builder!server, Builder!draftVars, Builder!history
    <3>2. PageInv'
      BY <3>1 DEF ScreenInv, PageInv, PageTyped, RequestTyped, Framed, Flying
    <3>3. ScopesSaved'
      BY <3>1 DEF ScreenInv, ScopesSaved, GateIsSaved, Builder!Closure,
                  Builder!LineageIsReviewed, Flying
    <3>4. DraftsOnRecord' /\ OneAtATime'
      BY <3>1 DEF ScreenInv, DraftsOnRecord, OnRecord, OneAtATime, Flying
    <3>5. SectionsUnlocked'
      BY <3>1 DEF ScreenInv, SectionsUnlocked, Builder!Unlocked, Builder!SectionsInOrder, Flying
    <3> QED BY <3>2, <3>3, <3>4, <3>5 DEF ScreenInv
  <2> QED BY <2>1, <2>2
<1>3. ScreenInv => /\ Builder!LineageIsReviewed /\ Builder!DraftAfterDecision
                   /\ Builder!OneDraftPerVisit /\ Builder!SectionsInOrder
  <2> SUFFICES ASSUME ScreenInv
               PROVE  /\ Builder!LineageIsReviewed /\ Builder!DraftAfterDecision
                      /\ Builder!OneDraftPerVisit /\ Builder!SectionsInOrder
    OBVIOUS
  <2>1. Builder!LineageIsReviewed /\ Builder!SectionsInOrder
    BY DEF ScreenInv, ScopesSaved, SectionsUnlocked
  <2>2. Builder!DraftAfterDecision
    BY DEF ScreenInv, DraftsOnRecord, OnRecord, Builder!DraftAfterDecision
  <2>3. Builder!OneDraftPerVisit
    BY DEF ScreenInv, OneAtATime, PageInv, PageTyped, Builder!OneDraftPerVisit
  <2> QED BY <2>1, <2>2, <2>3
<1> QED BY <1>1, <1>2, <1>3, PTL DEF Builder!Spec

-----------------------------------------------------------------------------
(* The way of a request through the backend (RequestAccess), for any       *)
(* requests, tested operations and modes, while bindings are revoked and   *)
(* the principal is deactivated.                                           *)
CONSTANTS Requests, Tested, Modes
VARIABLES mode, bindings, active, req, held

Access == INSTANCE RequestAccess

RoleNames == {"consumer", "builder", "owner", "admin"}
Principals == [who : {"anonymous", "operator", "caller"}, roles : SUBSET RoleNames]
Refusals == {401, 403, 404, 503}
ReqRow == [phase : {"none", "arrived", "authenticated", "handling", "answered"},
           route : Access!Routes \cup {None}, token : {"none", "good", "bad", None},
           valid : BOOLEAN \cup {None}, principal : Principals \cup {None},
           status : Access!Handlers \cup Refusals \cup {None}]

AccessTyped ==
  /\ bindings \subseteq Access!Bindings
  /\ req \in [Requests -> ReqRow]
  /\ held = [q \in Requests |-> held[q]]

(* Whether the role check of a route lets a principal through.             *)
Allows(p, route) == route.role # None => Access!HasMinimumRole(p, route.role)

(* A request carries no principal before it was authenticated, the roles   *)
(* of a caller are those the caller held then, and the handler runs when   *)
(* they suffice and is refused only when they do not.                      *)
Admitted(r, roles) ==
  /\ r.phase \in {"none", "arrived"} => r.principal = None
  /\ r.phase # "answered" => r.status = None
  /\ r.phase \in {"authenticated", "handling"} => r.principal # None
  /\ r.principal # None /\ r.principal.who = "caller" => r.principal.roles \subseteq roles
  /\ r.phase = "handling" \/ r.status \in Access!Handlers
     => r.principal # None /\ Allows(r.principal, r.route)
  /\ r.phase # "none" => r.route \in Access!Routes
  /\ r.status = 403 /\ r.principal # None => ~Allows(r.principal, r.route)

AccessInv == AccessTyped /\ \A q \in Requests : Admitted(req[q], held[q])

LEMMA RoleNamesAre == {Access!Roles[i] : i \in 1 .. 4} = RoleNames
BY DEF Access!Roles, RoleNames

(* What an operation requires, wherever it is registered.                  *)
BuilderOps == {"interpret", "specs.create", "specs.outcomes", "specs.knowledge",
               "specs.guardrails", "specs.outputs", "generate", "recover", "shadow",
               "cases.create", "certification.create", "intakes.create", "intakes.decide",
               "import", "releases.create", "evaluate"}
OwnerOps == {"selftest", "gates.publish", "cases.deactivate", "corpus.publish", "promote",
             "retire", "publications.retire", "channels.promote", "channels.decline",
             "channels.rollback", "improvements.review", "memory.review", "grants.create",
             "grants.revoke", "groups.approve", "groups.reject", "runs.approve", "runs.reject"}
AdminOps == {"install", "configure", "enable", "disable", "uninstall"}
Required(op) ==
  IF op \in BuilderOps THEN "builder"
  ELSE IF op \in OwnerOps THEN "owner" ELSE IF op \in AdminOps THEN "admin" ELSE None
Requiring(R) == \A r \in R : r.role = Required(r.op)

(* Two registrations of one operation require the same role, because each  *)
(* section of routes requires what the operation does.                     *)
LEMMA OneRolePerOperation ==
  \A r, s \in Access!Routes : r.op = s.op => r.role = s.role
<1> USE DEF Requiring, Required, BuilderOps, OwnerOps, AdminOps,
            Access!Any, Access!AnyId, Access!By, Access!ById
<1>1. Requiring(Access!PublicRoutes)
  BY DEF Access!PublicRoutes
<1>2. Requiring(Access!SessionRoutes)
  BY DEF Access!SessionRoutes
<1>3. Requiring(Access!AuthoringRoutes)
  BY DEF Access!AuthoringRoutes
<1>4. Requiring(Access!DeploymentRoutes)
  BY DEF Access!DeploymentRoutes
<1>5. Requiring(Access!CertificationRoutes)
  BY DEF Access!CertificationRoutes
<1>6. Requiring(Access!ReuseRoutes)
  BY DEF Access!ReuseRoutes
<1>7. Requiring(Access!PluginRoutes)
  BY DEF Access!PluginRoutes
<1>8. Requiring(Access!RegistryRoutes)
  BY DEF Access!RegistryRoutes
<1>9. Requiring(Access!ChannelRoutes)
  BY DEF Access!ChannelRoutes
<1>10. Requiring(Access!AutomationRoutes)
  BY DEF Access!AutomationRoutes
<1>11. Requiring(Access!LearningRoutes)
  BY DEF Access!LearningRoutes
<1>12. Requiring(Access!ExecutionRoutes)
  BY DEF Access!ExecutionRoutes
<1> HIDE DEF Required, Access!Any
<1>13. Requiring(Access!LegacyAuthoringRoutes) /\ Requiring(Access!LegacyDeploymentRoutes)
  <2>1. Access!Any("similarity").role = Required("similarity")
        /\ Access!Any("similarity").op = "similarity"
    BY DEF Required, Access!Any
  <2> QED BY <1>3, <1>4, <2>1 DEF Access!LegacyAuthoringRoutes, Access!LegacyDeploymentRoutes
<1>14. ASSUME NEW path, NEW R, Requiring(R) PROVE Requiring(Access!Under(path, R))
  BY <1>14 DEF Access!Under
<1> HIDE DEF Requiring
<1>15. ASSUME NEW R, NEW S, Requiring(R), Requiring(S) PROVE Requiring(R \cup S)
  BY <1>15 DEF Requiring
<1>16. Requiring(Access!Routes)
  <2>1. Requiring(Access!AuthoringRoutes \cup Access!DeploymentRoutes)
    BY <1>3, <1>4, <1>15
  <2>2. Requiring(Access!LegacyAuthoringRoutes \cup Access!LegacyDeploymentRoutes
                  \cup Access!CertificationRoutes)
    BY <1>5, <1>13, <1>15
  <2>3. Requiring(Access!ReuseRoutes \cup Access!PluginRoutes \cup Access!RegistryRoutes
                  \cup Access!ChannelRoutes \cup Access!AutomationRoutes
                  \cup Access!LearningRoutes \cup Access!ExecutionRoutes)
    BY <1>6, <1>7, <1>8, <1>9, <1>10, <1>11, <1>12, <1>15
  <2> QED BY <1>1, <1>2, <1>14, <2>1, <2>2, <2>3 DEF Access!Routes, Requiring
<1> QED BY <1>16 DEF Requiring

LEMMA AccessNone ==
  ASSUME Access!AccessAssumption
  PROVE  None \notin Principals /\ None \notin Access!Handlers \cup Refusals
<1>1. Access!Handlers \cup Refusals \subseteq Nat
  BY DEF Access!Handlers, Refusals
<1> QED BY <1>1, RoleNamesAre DEF Access!AccessAssumption, Principals

LEMMA AccessStart == Access!AccessAssumption /\ Access!Init => AccessInv
<1> SUFFICES ASSUME Access!AccessAssumption, Access!Init PROVE AccessInv
  OBVIOUS
<1>1. bindings \subseteq Access!Bindings
  BY RoleNamesAre DEF Access!Init, Access!Bindings, RoleNames
<1>2. Access!Fresh \in ReqRow
  BY DEF Access!Fresh, ReqRow
<1>3. AccessTyped
  BY <1>1, <1>2 DEF Access!Init, AccessTyped
<1>4. \A q \in Requests : Admitted(req[q], held[q])
  BY AccessNone DEF Access!Init, Admitted, Access!Fresh
<1> QED BY <1>3, <1>4 DEF AccessInv

(* What the transaction of a request leaves of the others.                 *)
LEMMA OneRequest ==
  ASSUME AccessInv, NEW q \in Requests, NEW r \in ReqRow, NEW h,
         req' = [req EXCEPT ![q] = r], held' = [held EXCEPT ![q] = h],
         Admitted(r, h), bindings' \subseteq bindings
  PROVE  AccessInv'
<1>1. AccessTyped'
  BY DEF AccessInv, AccessTyped
<1>2. ASSUME NEW x \in Requests PROVE Admitted(req[x], held[x])'
  <2>1. CASE x = q
    <3>1. req'[x] = r /\ held'[x] = h
      BY <2>1 DEF AccessInv, AccessTyped
    <3> QED BY <3>1 DEF Admitted, Allows
  <2>2. CASE x # q
    <3>1. req'[x] = req[x] /\ held'[x] = held[x]
      BY <2>2 DEF AccessInv, AccessTyped
    <3> QED BY <3>1 DEF AccessInv, Admitted, Allows
  <2> QED BY <2>1, <2>2
<1> QED BY <1>1, <1>2 DEF AccessInv

(* A request is answered, or goes on with its principal.                   *)
LEMMA RequestAnswered ==
  ASSUME AccessInv, NEW q \in Requests, NEW s \in Access!Handlers \cup Refusals, NEW h,
         Access!Answer(q, s), held' = [held EXCEPT ![q] = h], bindings' \subseteq bindings,
         req[q].phase # "none", Access!AccessAssumption,
         req[q].phase = "arrived" \/ h = held[q],
         s \in Access!Handlers => req[q].phase = "handling",
         s = 403 /\ req[q].principal # None => ~Allows(req[q].principal, req[q].route)
  PROVE  AccessInv'
<1> DEFINE r == [req[q] EXCEPT !.phase = "answered", !.status = s]
<1>1. req[q] \in ReqRow /\ Admitted(req[q], held[q])
  BY DEF AccessInv, AccessTyped
<1>2. /\ r \in ReqRow /\ r.phase = "answered" /\ r.status = s
      /\ r.principal = req[q].principal /\ r.route = req[q].route
  BY <1>1 DEF ReqRow
<1>3. req' = [req EXCEPT ![q] = r]
  BY DEF Access!Answer, AccessInv, AccessTyped
<1>4. s \in Access!Handlers => s # 403
  BY DEF Access!Handlers
<1>5. Admitted(r, h)
  <2>1. r.principal # None /\ r.principal.who = "caller" => r.principal.roles \subseteq h
    BY <1>1, <1>2 DEF Admitted
  <2>2. r.status \in Access!Handlers => r.principal # None /\ Allows(r.principal, r.route)
    BY <1>1, <1>2 DEF Admitted
  <2>3. r.route \in Access!Routes
    BY <1>1, <1>2 DEF Admitted
  <2>4. r.status = 403 /\ r.principal # None => ~Allows(r.principal, r.route)
    BY <1>2
  <2> QED BY <1>2, <2>1, <2>2, <2>3, <2>4 DEF Admitted
<1> HIDE DEF r
<1> QED BY <1>2, <1>3, <1>5, OneRequest

LEMMA RequestPassed ==
  ASSUME AccessInv, NEW q \in Requests, NEW p \in Principals, NEW h, Access!AccessAssumption,
         Access!Pass(q, p), held' = [held EXCEPT ![q] = h], bindings' \subseteq bindings,
         req[q].phase = "arrived", p.who = "caller" => p.roles \subseteq h
  PROVE  AccessInv'
<1> DEFINE r == [req[q] EXCEPT !.phase = "authenticated", !.principal = p]
<1>1. req[q] \in ReqRow /\ Admitted(req[q], held[q])
  BY DEF AccessInv, AccessTyped
<1>2. /\ r \in ReqRow /\ r.phase = "authenticated" /\ r.status = req[q].status
      /\ r.principal = p /\ r.route = req[q].route
  BY <1>1 DEF ReqRow
<1>3. req' = [req EXCEPT ![q] = r]
  BY DEF Access!Pass, AccessInv, AccessTyped
<1>4. r.status = None /\ None \notin Access!Handlers /\ None # 403 /\ p # None
      /\ r.route \in Access!Routes
  BY <1>1, <1>2, AccessNone DEF Admitted, Refusals
<1>5. Admitted(r, h)
  BY <1>2, <1>4 DEF Admitted
<1> HIDE DEF r
<1> QED BY <1>2, <1>3, <1>5, OneRequest

LEMMA AccessStep ==
  ASSUME Access!AccessAssumption, AccessInv, Access!Next
  PROVE  AccessInv'
<1>1. CASE Access!Revoke \/ Access!Deactivate
  <2>1. req' = req /\ held' = held /\ bindings' \subseteq bindings
    BY <1>1 DEF Access!Revoke, Access!Deactivate
  <2> QED BY <2>1 DEF AccessInv, AccessTyped, Admitted, Allows
<1>2. ASSUME NEW q \in Requests PROVE held = [held EXCEPT ![q] = held[q]]
  BY DEF AccessInv, AccessTyped
<1>3. ASSUME NEW q \in Requests, Access!Arrive(q) PROVE AccessInv'
  <2>1. PICK x \in Access!Routes, t \in {"none", "good", "bad"}, v \in BOOLEAN :
          req' = [req EXCEPT ![q] = [@ EXCEPT !.phase = "arrived", !.route = x, !.token = t,
                                              !.valid = v]]
    BY <1>3 DEF Access!Arrive
  <2> DEFINE r == [req[q] EXCEPT !.phase = "arrived", !.route = x, !.token = t, !.valid = v]
  <2>2. req[q] \in ReqRow /\ Admitted(req[q], held[q]) /\ req[q].phase = "none"
    BY <1>3 DEF Access!Arrive, AccessInv, AccessTyped
  <2>3. /\ r \in ReqRow /\ r.phase = "arrived" /\ r.status = req[q].status
        /\ r.principal = req[q].principal /\ r.route = x
    BY <2>2 DEF ReqRow
  <2>4. r.status = None /\ r.principal = None /\ None \notin Access!Handlers
    BY <2>2, <2>3, AccessNone DEF Admitted
  <2>5. Admitted(r, held[q])
    BY <2>3, <2>4 DEF Admitted
  <2>6. req' = [req EXCEPT ![q] = r] /\ held' = held /\ bindings' = bindings
    BY <1>3, <2>1 DEF Access!Arrive, AccessInv, AccessTyped
  <2> HIDE DEF r
  <2> QED BY <1>2, <2>3, <2>5, <2>6, OneRequest
<1>4. ASSUME NEW q \in Requests, Access!Authenticate(q) PROVE AccessInv'
  <2> DEFINE h == IF active THEN Access!Entitled ELSE {}
  <2>1. req[q].phase = "arrived" /\ held' = [held EXCEPT ![q] = h] /\ bindings' = bindings
        /\ req[q].principal = None
    BY <1>4 DEF Access!Authenticate, AccessInv, Admitted
  <2>2. ASSUME NEW s \in Refusals, Access!Answer(q, s) PROVE AccessInv'
    <3>1. s \notin Access!Handlers
      BY DEF Refusals, Access!Handlers
    <3> HIDE DEF h
    <3> QED BY <2>1, <2>2, <3>1, RequestAnswered
  <2>3. ASSUME NEW p \in Principals, Access!Pass(q, p), p.who = "caller" => p.roles \subseteq h
        PROVE  AccessInv'
    <3> HIDE DEF h
    <3> QED BY <2>1, <2>3, RequestPassed
  <2>4. Access!Anonymous \in Principals /\ Access!Operator \in Principals
    BY DEF Access!Anonymous, Access!Operator, Principals, RoleNames
  <2>5. Access!Anonymous.who # "caller" /\ Access!Operator.who # "caller"
    BY DEF Access!Anonymous, Access!Operator
  <2>6. ASSUME Access!Resolve(q) PROVE AccessInv'
    <3>1. CASE Access!Answer(q, 401) \/ Access!Answer(q, 403)
      BY <2>2, <3>1 DEF Refusals
    <3>2. CASE active /\ Access!Pass(q, [who |-> "caller", roles |-> Access!ResolvedRoles])
      <4>1. Access!ResolvedRoles = h
        BY <3>2 DEF Access!ResolvedRoles, Access!Entitled
      <4>2. Access!ResolvedRoles \subseteq RoleNames
        BY RoleNamesAre DEF Access!ResolvedRoles, AccessInv, AccessTyped, Access!Bindings
      <4>3. [who |-> "caller", roles |-> Access!ResolvedRoles] \in Principals
        BY <4>2 DEF Principals
      <4> HIDE DEF h
      <4> QED BY <2>3, <3>2, <4>1, <4>3
    <3> QED BY <2>6, <3>1, <3>2 DEF Access!Resolve
  <2>7. CASE Access!Adapter(q)
    <3>1. CASE Access!Answer(q, 401) \/ Access!Answer(q, 503)
      BY <2>2, <3>1 DEF Refusals
    <3> QED BY <2>3, <2>4, <2>5, <2>6, <2>7, <3>1 DEF Access!Adapter
  <2> QED BY <1>4, <2>3, <2>4, <2>5, <2>7 DEF Access!Authenticate
<1>5. ASSUME NEW q \in Requests, Access!CheckRoute(q) PROVE AccessInv'
  <2>1. req[q].phase = "authenticated" /\ held' = held /\ bindings' = bindings
    BY <1>5 DEF Access!CheckRoute
  <2>2. CASE Access!Answer(q, 404)
    <3>1. 404 \in Refusals /\ 404 \notin Access!Handlers
      BY DEF Refusals, Access!Handlers
    <3> QED BY <1>2, <2>1, <2>2, <3>1, RequestAnswered
  <2>3. CASE ~Allows(req[q].principal, req[q].route) /\ Access!Answer(q, 403)
    <3>1. 403 \in Refusals /\ 403 \notin Access!Handlers
      BY DEF Refusals, Access!Handlers
    <3> QED BY <1>2, <2>1, <2>3, <3>1, RequestAnswered
  <2>4. CASE /\ Allows(req[q].principal, req[q].route)
             /\ req' = [req EXCEPT ![q].phase = "handling"]
    <3> DEFINE r == [req[q] EXCEPT !.phase = "handling"]
    <3>1. req[q] \in ReqRow /\ Admitted(req[q], held[q])
      BY DEF AccessInv, AccessTyped
    <3>2. /\ r \in ReqRow /\ r.phase = "handling" /\ r.status = req[q].status
          /\ r.principal = req[q].principal /\ r.route = req[q].route
      BY <3>1 DEF ReqRow
    <3>3. r.status = None /\ None # 403 /\ r.principal # None
      BY <2>1, <3>1, <3>2, AccessNone DEF Admitted, Refusals
    <3>4. Admitted(r, held[q])
      BY <2>1, <2>4, <3>1, <3>2, <3>3 DEF Admitted
    <3>5. req' = [req EXCEPT ![q] = r]
      BY <2>4 DEF AccessInv, AccessTyped
    <3> HIDE DEF r
    <3> QED BY <1>2, <2>1, <3>2, <3>4, <3>5, OneRequest
  <2> QED BY <1>5, <2>2, <2>3, <2>4 DEF Access!CheckRoute, Allows
<1>6. ASSUME NEW q \in Requests, Access!Handle(q) PROVE AccessInv'
  <2>1. PICK s \in Access!Handlers : Access!Answer(q, s)
    BY <1>6 DEF Access!Handle
  <2>2. req[q].phase = "handling" /\ held' = held /\ bindings' = bindings
    BY <1>6 DEF Access!Handle
  <2>3. s # 403
    BY DEF Access!Handlers
  <2> QED BY <1>2, <2>1, <2>2, <2>3, RequestAnswered
<1> QED BY <1>1, <1>3, <1>4, <1>5, <1>6 DEF Access!Next, Access!Serve

(* A handler that requires a role runs only for a caller who was entitled  *)
(* to it when the request was authenticated, whatever is revoked while it  *)
(* is in flight, and no other path to the same operation lets through who  *)
(* is refused on one (requestContextMiddleware, resolveExternal,           *)
(* requireMinimumRole).                                                    *)
THEOREM HandlersAreEntitled ==
  Access!AccessAssumption => (Access!Spec => [](Access!ReachedIsEntitled /\ Access!NoWeakerPath))
<1> SUFFICES ASSUME Access!AccessAssumption
             PROVE  Access!Spec => [](Access!ReachedIsEntitled /\ Access!NoWeakerPath)
  OBVIOUS
<1>1. Access!Init => AccessInv
  BY AccessStart
<1>2. AccessInv /\ [Access!Next]_(Access!vars) => AccessInv'
  <2> SUFFICES ASSUME AccessInv, UNCHANGED Access!vars PROVE AccessInv'
    BY AccessStep
  <2> QED BY DEF Access!vars, AccessInv, AccessTyped, Admitted, Allows
<1>3. AccessInv => Access!ReachedIsEntitled
  <2> SUFFICES ASSUME AccessInv, NEW q \in Requests, Access!Reached(q),
                      req[q].route.role # None, req[q].principal.who = "caller"
               PROVE  \E r \in held[q] : Access!Rank(r) >= Access!Rank(req[q].route.role)
    BY DEF Access!ReachedIsEntitled
  <2>1. Admitted(req[q], held[q])
    BY DEF AccessInv
  <2>2. /\ Access!HasMinimumRole(req[q].principal, req[q].route.role)
        /\ req[q].principal.roles \subseteq held[q]
    BY <2>1 DEF Admitted, Allows, Access!Reached
  <2> QED BY <2>2 DEF Access!HasMinimumRole
<1>4. AccessInv => Access!NoWeakerPath
  <2> SUFFICES ASSUME AccessInv, NEW q \in Requests, NEW w \in Requests,
                      req[q].status = 403, req[q].principal # None, req[w].phase # "none",
                      Access!Reached(w), req[q].route.op = req[w].route.op
               PROVE  req[q].principal # req[w].principal
    BY DEF Access!NoWeakerPath
  <2>1. Admitted(req[q], held[q]) /\ Admitted(req[w], held[w])
    BY DEF AccessInv
  <2>2. req[q].phase # "none"
    BY <2>1, AccessNone DEF Admitted, Refusals
  <2>3. req[q].route \in Access!Routes /\ req[w].route \in Access!Routes
    BY <2>1, <2>2 DEF Admitted
  <2>4. req[q].route.role = req[w].route.role
    BY <2>3, OneRolePerOperation
  <2>5. ~Allows(req[q].principal, req[q].route) /\ Allows(req[w].principal, req[w].route)
    BY <2>1 DEF Admitted, Access!Reached
  <2> QED BY <2>4, <2>5 DEF Allows
<1> QED BY <1>1, <1>2, <1>3, <1>4, PTL DEF Access!Spec

-----------------------------------------------------------------------------
(* The seed (DatabaseSeed), for any number of boots, crashes and days.     *)
CONSTANTS MaxDay, MaxBoots
VARIABLES db, step, read, day, boots, ran, failed

Seed == INSTANCE DatabaseSeed WITH done <- ran

Tables == {"workspace", "principals", "project", "families", "specs", "sources", "gates",
           "cases", "audit", "resources", "release"}
SeedDb ==
  [rows : SUBSET Tables, role : BOOLEAN, corpora : SUBSET Seed!Families,
   members : SUBSET Seed!Families, runs : [Seed!Families -> {None} \cup Nat],
   results : SUBSET Seed!Families, evidence : SUBSET Seed!Families,
   decisions : SUBSET Seed!Families,
   status : [Seed!Families -> {None, "certified", "active", "retired"}],
   activated : SUBSET Seed!Families,
   champion : [Seed!Families -> {None, "first", "later"}]]

SeedTyped ==
  /\ db \in SeedDb /\ step \in 0..23 /\ day \in Nat
  /\ read \in [corpora : SUBSET Seed!Families, evidence : SUBSET Seed!Families]

(* Results are written, or were evidence before, by the time runs are      *)
(* marked.                                                                 *)
ResultsComeFirst ==
  /\ read.evidence \subseteq db.evidence
  /\ step >= 18 => "supplier" \in db.results
  /\ step >= 20 => "inventory" \in db.results

SeedInv == SeedTyped /\ ResultsComeFirst /\ Seed!EvidenceHasResults /\ Seed!ActiveIsChampion

(* The statements that concern neither evidence nor versions.              *)
Apart(s) == s \notin {"versions", "supplier results", "inventory results", "evidence", "promotion"}

LEMMA EffectTyped ==
  ASSUME NEW d \in SeedDb, NEW s, day \in Nat
  PROVE  Seed!Effect(s, d) \in SeedDb
<1> USE DEF SeedDb
<1>1. /\ Seed!SeedLocalScope(d) \in SeedDb /\ Seed!SeedFamilies(d) \in SeedDb
      /\ Seed!SeedSpecs(d) \in SeedDb /\ Seed!SeedSources(d) \in SeedDb
  BY DEF Seed!SeedLocalScope, Seed!SeedFamilies, Seed!SeedSpecs, Seed!SeedSources, Tables
<1>2. /\ Seed!SeedGates(d) \in SeedDb /\ Seed!SeedCases(d) \in SeedDb /\ Seed!SeedAudit(d) \in SeedDb
      /\ Seed!SeedPlatformResources(d) \in SeedDb /\ Seed!BindRoles(d) \in SeedDb
  BY DEF Seed!SeedGates, Seed!SeedCases, Seed!SeedAudit, Seed!SeedPlatformResources,
         Seed!BindRoles, Tables
<1>3. \A f \in Seed!Families : Seed!CreateCorpus(d, f) \in SeedDb /\ Seed!FillCorpus(d, f) \in SeedDb
  BY DEF Seed!CreateCorpus, Seed!FillCorpus
<1>4. \A f \in Seed!Families : Seed!SeedRun(d, f) \in SeedDb
  BY DEF Seed!SeedRun
<1>5. \A f \in Seed!Families : Seed!SeedResults(d, f) \in SeedDb
  BY DEF Seed!SeedResults
<1>6. Seed!SeedVersions(d) \in SeedDb
  BY DEF Seed!SeedVersions
<1>7. Seed!MarkEvidence(d) \in SeedDb
  BY DEF Seed!MarkEvidence
<1>8. Seed!EnsureDecisions(d) \in SeedDb
  BY DEF Seed!EnsureDecisions
<1>9. ASSUME NEW e \in SeedDb PROVE Seed!ReconcileChampions(e) \in SeedDb
  BY <1>9 DEF Seed!ReconcileChampions, Seed!Uncrowned
<1>10. "supplier" \in Seed!Families /\ "inventory" \in Seed!Families
  BY DEF Seed!Families
<1> HIDE DEF SeedDb
<1> QED
  BY <1>1, <1>2, <1>3, <1>4, <1>5, <1>6, <1>7, <1>8, <1>9, <1>10 DEF Seed!Effect,
     Seed!SeedInventoryRun, Seed!SeedInventoryResults

LEMMA EffectApart ==
  ASSUME NEW d \in SeedDb, NEW s, Apart(s)
  PROVE  LET e == Seed!Effect(s, d) IN
         /\ e.results = d.results /\ e.evidence = d.evidence /\ e.decisions = d.decisions
         /\ e.status = d.status /\ e.activated = d.activated /\ e.champion = d.champion
<1> DEFINE Same(e) == /\ e.results = d.results /\ e.evidence = d.evidence
                      /\ e.decisions = d.decisions /\ e.status = d.status
                      /\ e.activated = d.activated /\ e.champion = d.champion
<1> USE DEF SeedDb
<1>1. /\ Same(Seed!SeedLocalScope(d)) /\ Same(Seed!SeedFamilies(d))
      /\ Same(Seed!SeedSpecs(d)) /\ Same(Seed!SeedSources(d))
  BY DEF Seed!SeedLocalScope, Seed!SeedFamilies, Seed!SeedSpecs, Seed!SeedSources
<1>2. /\ Same(Seed!SeedGates(d)) /\ Same(Seed!SeedCases(d)) /\ Same(Seed!SeedAudit(d))
      /\ Same(Seed!SeedPlatformResources(d)) /\ Same(Seed!BindRoles(d))
  BY DEF Seed!SeedGates, Seed!SeedCases, Seed!SeedAudit, Seed!SeedPlatformResources, Seed!BindRoles
<1>3. \A f \in Seed!Families : Same(Seed!CreateCorpus(d, f)) /\ Same(Seed!FillCorpus(d, f))
  BY DEF Seed!CreateCorpus, Seed!FillCorpus
<1>4. \A f \in Seed!Families : Same(Seed!SeedRun(d, f))
  BY DEF Seed!SeedRun
<1>5. "supplier" \in Seed!Families /\ "inventory" \in Seed!Families
  BY DEF Seed!Families
<1>6. Same(d)
  OBVIOUS
<1> HIDE DEF SeedDb, Same
<1>7. Same(Seed!Effect(s, d))
  BY <1>1, <1>2, <1>3, <1>4, <1>5, <1>6 DEF Seed!Effect, Seed!SeedInventoryRun, Apart
<1> QED BY <1>7 DEF Same

LEMMA TheStatements ==
  /\ Len(Seed!Statements) = 23
  /\ Seed!Statements[4] = "versions" /\ Seed!Statements[17] = "supplier results"
  /\ Seed!Statements[19] = "inventory results" /\ Seed!Statements[20] = "evidence"
  /\ Seed!Statements[22] = "promotion"
  /\ \A i \in 1..23 : i \notin {4, 17, 19, 20, 22} => Apart(Seed!Statements[i])
BY DEF Seed!Statements, Apart

LEMMA ReadTyped ==
  ASSUME SeedTyped, NEW s
  PROVE  /\ Seed!Reads(s) \in [corpora : SUBSET Seed!Families, evidence : SUBSET Seed!Families]
         /\ Seed!Reads(s).evidence \in {read.evidence, db.evidence}
BY DEF SeedTyped, SeedDb, Seed!Reads

LEMMA SeedStep ==
  ASSUME Seed!SeedAssumption, SeedInv, Seed!Next
  PROVE  SeedInv' /\ Seed!RebootKeepsAgents
<1>1. db \in SeedDb /\ step \in 0..23 /\ day \in Nat
  BY DEF SeedInv, SeedTyped
<1>2. None \notin {"certified", "active", "retired", "first", "later"}
  BY DEF Seed!SeedAssumption
<1>3. ASSUME UNCHANGED <<db, read>>, step' \in {0, 1}, day' \in Nat
      PROVE  SeedInv' /\ Seed!RebootKeepsAgents
  <2>1. SeedTyped' /\ ResultsComeFirst'
    BY <1>3 DEF SeedInv, SeedTyped, ResultsComeFirst
  <2>2. Seed!EvidenceHasResults' /\ Seed!ActiveIsChampion' /\ Seed!RebootKeepsAgents
    BY <1>3 DEF SeedInv, Seed!EvidenceHasResults, Seed!ActiveIsChampion, Seed!RebootKeepsAgents
  <2> QED BY <2>1, <2>2 DEF SeedInv
<1>4. CASE Seed!Boot \/ Seed!Crash \/ Seed!DayPasses
  BY <1>1, <1>3, <1>4 DEF Seed!Boot, Seed!Crash, Seed!DayPasses
<1>5. CASE Seed!Revoke
  <2>1. step = 0 /\ db' = [db EXCEPT !.role = FALSE] /\ UNCHANGED <<step, read, day>>
    BY <1>5 DEF Seed!Revoke
  <2>2. SeedTyped' /\ ResultsComeFirst' /\ Seed!RebootKeepsAgents
    BY <2>1 DEF SeedInv, SeedTyped, SeedDb, ResultsComeFirst, Seed!RebootKeepsAgents
  <2>3. Seed!EvidenceHasResults' /\ Seed!ActiveIsChampion'
    BY <1>1, <2>1 DEF SeedInv, SeedDb, Seed!EvidenceHasResults, Seed!ActiveIsChampion
  <2> QED BY <2>2, <2>3 DEF SeedInv
<1>6. ASSUME NEW f \in Seed!Families, Seed!Replace(f) PROVE SeedInv' /\ Seed!RebootKeepsAgents
  <2>1. PICK c \in {"later", None} :
          db' = [db EXCEPT !.champion[f] = c, !.status[f] = "retired"]
    BY <1>6 DEF Seed!Replace
  <2>2. step = 0 /\ UNCHANGED <<step, read, day>>
    BY <1>6 DEF Seed!Replace
  <2>3. /\ db' \in SeedDb /\ db'.evidence = db.evidence /\ db'.results = db.results
        /\ db'.decisions = db.decisions /\ db'.activated = db.activated
    BY <1>1, <2>1 DEF SeedDb
  <2>4. \A g \in Seed!Families :
          /\ db'.champion[g] = IF g = f THEN c ELSE db.champion[g]
          /\ db'.status[g] = IF g = f THEN "retired" ELSE db.status[g]
    BY <1>1, <2>1 DEF SeedDb
  <2>5. SeedTyped' /\ ResultsComeFirst' /\ Seed!RebootKeepsAgents
    BY <2>2, <2>3 DEF SeedInv, SeedTyped, ResultsComeFirst, Seed!RebootKeepsAgents
  <2>6. Seed!EvidenceHasResults'
    BY <2>3 DEF SeedInv, Seed!EvidenceHasResults
  <2>7. Seed!ActiveIsChampion'
    BY <1>2, <2>3, <2>4 DEF SeedInv, Seed!ActiveIsChampion
  <2> QED BY <2>5, <2>6, <2>7 DEF SeedInv
<1>7. CASE Seed!Execute
  <2> DEFINE s == Seed!Statements[step]
  <2>1. step \in 1..23 /\ day' = day
    BY <1>1, <1>7 DEF Seed!Execute
  <2>2. CASE step' = 0 /\ UNCHANGED <<db, read>>
    BY <1>1, <1>3, <2>1, <2>2
  <2>3. CASE /\ s = "promotion" => ~Seed!StaleDecision(db)
             /\ db' = Seed!Effect(s, db) /\ read' = Seed!Reads(s)
             /\ step' = (step + 1) % (Len(Seed!Statements) + 1)
    <3>1. step' \in 0..23 /\ (step' = 0 \/ step' = step + 1)
      <4>1. step' = (step + 1) % 24
        <5>1. Len(Seed!Statements) + 1 = 24
          <6>1. Len(Seed!Statements) = 23
            BY TheStatements
          <6> QED BY ONLY <6>1
        <5>2. step' = (step + 1) % (Len(Seed!Statements) + 1)
          BY <2>3
        <5> QED BY ONLY <5>1, <5>2, Zenon
      <4>2. \A n \in 1..23 : (n + 1) % 24 = 0 \/ (n + 1) % 24 = n + 1
        OBVIOUS
      <4>3. \A n \in 1..23 : (n + 1) % 24 \in 0..23
        OBVIOUS
      <4> QED BY <2>1, <4>1, <4>2, <4>3
    <3>2. SeedTyped'
      BY <1>1, <2>1, <2>3, <3>1, EffectTyped, ReadTyped DEF SeedInv, SeedTyped
    <3>3. ASSUME db.evidence \subseteq db'.evidence
          PROVE  read'.evidence \subseteq db'.evidence
      BY <2>3, <3>3, ReadTyped DEF SeedInv, ResultsComeFirst
    <3>4. CASE step \notin {4, 17, 19, 20, 22}
      <4>1. Apart(s)
        BY <2>1, <3>4, TheStatements
      <4>2. /\ db'.results = db.results /\ db'.evidence = db.evidence
            /\ db'.decisions = db.decisions /\ db'.status = db.status
            /\ db'.activated = db.activated /\ db'.champion = db.champion
        BY <1>1, <2>3, <4>1, EffectApart
      <4>3. ResultsComeFirst'
        BY <2>1, <3>1, <3>3, <3>4, <4>2 DEF SeedInv, ResultsComeFirst
      <4> QED BY <3>2, <4>2, <4>3 DEF SeedInv, Seed!EvidenceHasResults, Seed!ActiveIsChampion,
                 Seed!RebootKeepsAgents
    <3>5. CASE step = 4
      <4>1. db' = Seed!SeedVersions(db)
        BY <2>3, <3>5, TheStatements DEF Seed!Effect
      <4>2. /\ db'.results = db.results /\ db'.evidence = db.evidence
            /\ db'.decisions = db.decisions
            /\ db'.activated = db.activated /\ db'.champion = db.champion
            /\ \A f \in Seed!Families :
                 db'.status[f] = IF db.status[f] = None THEN "certified" ELSE db.status[f]
        BY <1>1, <4>1 DEF Seed!SeedVersions, SeedDb
      <4>3. ResultsComeFirst'
        BY <2>1, <3>1, <3>3, <3>5, <4>2 DEF SeedInv, ResultsComeFirst
      <4>4. Seed!ActiveIsChampion' /\ Seed!RebootKeepsAgents
        BY <1>2, <4>2 DEF SeedInv, Seed!ActiveIsChampion, Seed!RebootKeepsAgents
      <4> QED BY <3>2, <4>2, <4>3, <4>4 DEF SeedInv, Seed!EvidenceHasResults
    <3>6. ASSUME NEW f \in Seed!Families, db' = Seed!SeedResults(db, f)
          PROVE  /\ Seed!EvidenceHasResults' /\ Seed!ActiveIsChampion' /\ Seed!RebootKeepsAgents
                 /\ db.results \subseteq db'.results /\ f \in db'.results
                 /\ db.evidence \subseteq db'.evidence
      <4>1. /\ db'.evidence = db.evidence /\ db'.decisions = db.decisions
            /\ db'.status = db.status /\ db'.activated = db.activated /\ db'.champion = db.champion
            /\ db'.results = IF f \in read.evidence THEN db.results ELSE db.results \union {f}
        BY <1>1, <3>6 DEF Seed!SeedResults, SeedDb
      <4>2. read.evidence \subseteq db.results
        BY DEF SeedInv, ResultsComeFirst, Seed!EvidenceHasResults
      <4> QED BY <4>1, <4>2 DEF SeedInv, Seed!EvidenceHasResults, Seed!ActiveIsChampion,
                 Seed!RebootKeepsAgents
    <3>7. CASE step = 17
      <4>1. db' = Seed!SeedResults(db, "supplier")
        BY <2>3, <3>7, TheStatements DEF Seed!Effect
      <4>2. "supplier" \in Seed!Families
        BY DEF Seed!Families
      <4>3. ResultsComeFirst'
        BY <3>1, <3>3, <3>6, <3>7, <4>1, <4>2 DEF ResultsComeFirst
      <4> QED BY <3>2, <3>6, <4>1, <4>2, <4>3 DEF SeedInv
    <3>8. CASE step = 19
      <4>1. db' = Seed!SeedResults(db, "inventory")
        BY <2>3, <3>8, TheStatements DEF Seed!Effect, Seed!SeedInventoryResults
      <4>2. "inventory" \in Seed!Families
        BY DEF Seed!Families
      <4>3. ResultsComeFirst'
        BY <3>1, <3>3, <3>6, <3>8, <4>1, <4>2 DEF SeedInv, ResultsComeFirst
      <4> QED BY <3>2, <3>6, <4>1, <4>2, <4>3 DEF SeedInv
    <3>9. CASE step = 20
      <4>1. db' = Seed!MarkEvidence(db)
        BY <2>3, <3>9, TheStatements DEF Seed!Effect
      <4>2. /\ db'.results = db.results /\ db'.decisions = db.decisions
            /\ db'.status = db.status /\ db'.activated = db.activated /\ db'.champion = db.champion
            /\ db.evidence \subseteq db'.evidence /\ db'.evidence \subseteq Seed!Families
        BY <1>1, <4>1 DEF Seed!MarkEvidence, SeedDb
      <4>3. Seed!Families \subseteq db.results
        BY <3>9 DEF SeedInv, ResultsComeFirst, Seed!Families
      <4>4. ResultsComeFirst'
        BY <3>1, <3>3, <3>9, <4>2 DEF SeedInv, ResultsComeFirst
      <4>5. Seed!EvidenceHasResults'
        BY <4>2, <4>3 DEF SeedInv, Seed!EvidenceHasResults
      <4> QED BY <3>2, <4>2, <4>4, <4>5 DEF SeedInv, Seed!ActiveIsChampion, Seed!RebootKeepsAgents
    <3>10. CASE step = 22
      <4>1. db' = Seed!ReconcileChampions(Seed!EnsureDecisions(db)) /\ ~Seed!StaleDecision(db)
        BY <2>3, <3>10, TheStatements DEF Seed!Effect
      <4> DEFINE e == Seed!EnsureDecisions(db)
      <4>2. /\ e \in SeedDb /\ e.results = db.results /\ e.evidence = db.evidence
            /\ e.decisions = Seed!Families /\ e.status = db.status
            /\ e.activated = db.activated /\ e.champion = db.champion
        BY <1>1 DEF Seed!EnsureDecisions, SeedDb
      <4> HIDE DEF e
      <4>3. /\ db'.results = db.results /\ db'.evidence = db.evidence
            /\ db'.decisions = Seed!Families
            /\ db'.activated = db.activated \union Seed!Uncrowned(e)
            /\ \A f \in Seed!Families :
                 /\ db'.status[f] = IF f \in Seed!Uncrowned(e) THEN "active" ELSE db.status[f]
                 /\ db'.champion[f] = IF f \in Seed!Uncrowned(e) THEN "first" ELSE db.champion[f]
        BY <4>1, <4>2 DEF Seed!ReconcileChampions, SeedDb, e
      <4>4. \A f \in Seed!Uncrowned(e) :
              db.status[f] = "certified" /\ f \notin db.activated /\ db.champion[f] = None
        BY <4>2 DEF Seed!Uncrowned
      <4>5. Seed!Families \subseteq db.evidence
        <5>1. Seed!Families \ db.decisions \subseteq db.evidence
          BY <4>1 DEF Seed!StaleDecision
        <5> QED BY <5>1 DEF SeedInv, Seed!EvidenceHasResults
      <4>6. ResultsComeFirst'
        BY <3>1, <3>3, <3>10, <4>3 DEF SeedInv, ResultsComeFirst
      <4>7. Seed!EvidenceHasResults'
        BY <1>1, <4>3, <4>5 DEF SeedInv, Seed!EvidenceHasResults, SeedDb
      <4>8. Seed!ActiveIsChampion' /\ Seed!RebootKeepsAgents
        BY <1>2, <4>3, <4>4 DEF SeedInv, Seed!ActiveIsChampion, Seed!RebootKeepsAgents
      <4> QED BY <3>2, <4>6, <4>7, <4>8 DEF SeedInv
    <3> QED BY <3>4, <3>5, <3>7, <3>8, <3>9, <3>10
  <2> QED BY <1>7, <2>2, <2>3 DEF Seed!Execute
<1> QED BY <1>4, <1>5, <1>6, <1>7 DEF Seed!Next

(* Wherever the seed was interrupted and however often it was run again:   *)
(* promotion evidence has its results and a decision its evidence, an      *)
(* active version is its family's champion by a recorded decision, and no  *)
(* boot revives a retired agent or replaces a champion (prisma/seed.ts).   *)
(* Nothing is said of the role bindings, which every boot gives again.     *)
THEOREM SeedIsRepeatable ==
  Seed!SeedAssumption =>
    (Seed!Spec => /\ [](Seed!EvidenceHasResults /\ Seed!ActiveIsChampion)
                  /\ [][Seed!RebootKeepsAgents]_(Seed!vars))
<1> SUFFICES ASSUME Seed!SeedAssumption
             PROVE  Seed!Spec => /\ [](Seed!EvidenceHasResults /\ Seed!ActiveIsChampion)
                                 /\ [][Seed!RebootKeepsAgents]_(Seed!vars)
  OBVIOUS
<1>1. Seed!Init => SeedInv
  <2> SUFFICES ASSUME Seed!Init PROVE SeedInv
    OBVIOUS
  <2>1. Seed!Empty \in SeedDb
    BY DEF Seed!Empty, SeedDb
  <2>2. SeedTyped /\ ResultsComeFirst
    BY <2>1 DEF Seed!Init, SeedTyped, ResultsComeFirst
  <2>3. Seed!EvidenceHasResults /\ Seed!ActiveIsChampion
    BY DEF Seed!Init, Seed!Empty, Seed!SeedAssumption, Seed!EvidenceHasResults, Seed!ActiveIsChampion
  <2> QED BY <2>2, <2>3 DEF SeedInv
<1>2. SeedInv /\ [Seed!Next]_(Seed!vars) => SeedInv' /\ [Seed!RebootKeepsAgents]_(Seed!vars)
  <2> SUFFICES ASSUME SeedInv, UNCHANGED Seed!vars PROVE SeedInv'
    BY SeedStep
  <2> QED BY DEF Seed!vars, SeedInv, SeedTyped, ResultsComeFirst, Seed!EvidenceHasResults,
             Seed!ActiveIsChampion
<1>3. SeedInv => Seed!EvidenceHasResults /\ Seed!ActiveIsChampion
  BY DEF SeedInv
<1> QED BY <1>1, <1>2, <1>3, PTL DEF Seed!Spec

-----------------------------------------------------------------------------
(* The query cache (QueryCache), for any mounted queries and mutations,    *)
(* any number of versions and failures.                                    *)
CONSTANTS Keys, Ops, Terminal, MaxVersion, MaxPages
VARIABLES server, q, mutation, terminalSeen, pending, failedClosed, due, ended, rejected

Cache == INSTANCE QueryCache WITH MaxFailures <- MaxFailures, failures <- rejected

Contents == Nat \cup {Cache!NoData}
Query == [data : Contents, status : {"pending", "success", "error"},
          phase : {"idle", "sent", "read", "page"}, got : Contents, tries : Nat, pages : Nat]

CacheTyped ==
  /\ server \in [Keys -> Nat] /\ q \in [Keys -> Query]
  /\ due \in [Keys -> Contents] /\ ended \in [Keys -> Contents]
  /\ mutation = [o \in Ops |-> mutation[o]]
  /\ \A o \in Ops : mutation[o] = [phase |-> mutation[o].phase, wrote |-> mutation[o].wrote]

(* What was written is on the server, and answers overtake nothing.        *)
ServerIsAhead ==
  /\ \A k \in Keys : q[k].data <= server[k] /\ due[k] <= server[k] /\ ended[k] <= server[k]
  /\ \A k \in Keys : q[k].phase = "read" => /\ q[k].got # Cache!NoData
                                            /\ q[k].data <= q[k].got /\ q[k].got <= server[k]
  /\ \A o \in Ops : mutation[o].phase = "applied" =>
       \A k \in Cache!Touches(o) : mutation[o].wrote[k] \in Nat /\ mutation[o].wrote[k] <= server[k]
  /\ "certification-run" \in Keys => ended["certification-run"] <= Terminal

(* A query that only a mutation refreshes holds what was reported, or is   *)
(* about to ask for it.  Another page is added only to what it holds.      *)
SelfRefreshing == Cache!AlwaysPolled \cup {"attention"}
Settled(k) ==
  /\ q[k].phase = "read" => due[k] <= q[k].got
  /\ q[k].phase = "page" => due[k] <= q[k].data
  /\ q[k].phase = "idle" /\ q[k].status # "error" => due[k] <= q[k].data
ReportedIsHeld == \A k \in Keys \ SelfRefreshing : Settled(k)

QueueIsRead ==
  /\ pending # "none" => /\ "attention" \in Keys
                         /\ q["attention"].status = "success" /\ ~failedClosed
  /\ \A k \in Keys : /\ q[k].status = "success" => q[k].data # Cache!NoData
                     /\ q[k].status = "pending" => q[k].data = Cache!NoData
                     /\ q[k].phase = "page" => q[k].data # Cache!NoData

CacheInv == CacheTyped /\ ServerIsAhead /\ ReportedIsHeld /\ QueueIsRead

LEMMA CacheStart == Terminal \in Nat /\ Cache!Init => CacheInv
<1> SUFFICES ASSUME Terminal \in Nat, Cache!Init PROVE CacheInv
  OBVIOUS
<1> USE DEF Cache!Init, Cache!NoData
<1>1. CacheTyped
  BY DEF CacheTyped, Query, Contents, Cache!Idle
<1>2. ServerIsAhead
  BY DEF ServerIsAhead, Cache!Idle
<1>3. ReportedIsHeld
  BY DEF ReportedIsHeld, Settled
<1>4. QueueIsRead
  BY DEF QueueIsRead
<1> QED BY <1>1, <1>2, <1>3, <1>4 DEF CacheInv

(* Asking again keeps the data, and drops what is under way.               *)
LEMMA AskedIs ==
  ASSUME NEW s \in Query
  PROVE  /\ Cache!Asked(s) \in Query /\ Cache!Asked(s).phase = "sent"
         /\ Cache!Asked(s).data = s.data
         /\ s.data # Cache!NoData => Cache!Asked(s).status = s.status
         /\ s.data = Cache!NoData => Cache!Asked(s).status = "pending"
BY DEF Cache!Asked, Query, Contents

(* Steps of the query client alone. *)
LEMMA ClientStep ==
  ASSUME CacheInv, NEW S \in SUBSET Keys, Cache!BoundsAssumption,
         q' = Cache!InvalidateQueries(S)
  PROVE  /\ q' \in [Keys -> Query]
         /\ \A k \in Keys : /\ q'[k].data = q[k].data
                            /\ k \in S => \/ q'[k].phase = "sent"
                                          \/ /\ q'[k] = q[k] /\ q[k].data = Cache!NoData
                                             /\ q[k].phase \in {"sent", "read"}
                            /\ k \notin S => q'[k] = q[k]
                            /\ q'[k].status = "success" <=> q[k].status = "success"
                            /\ q'[k].status = "pending" => q[k].data = Cache!NoData
<1>1. \A k \in Keys : q[k] \in Query
  BY DEF CacheInv, CacheTyped
<1>2. \A k \in Keys : q'[k] = IF k \in S /\ (q[k].data # Cache!NoData \/ q[k].phase = "idle")
                              THEN Cache!Asked(q[k]) ELSE q[k]
  BY DEF Cache!InvalidateQueries
<1>3. q' \in [Keys -> Query]
  BY <1>1, <1>2, AskedIs DEF Cache!InvalidateQueries
<1>4. \A k \in Keys : /\ q[k].status = "success" => q[k].data # Cache!NoData
                      /\ q[k].status = "pending" => q[k].data = Cache!NoData
                      /\ q[k].phase = "page" => q[k].data # Cache!NoData
  BY DEF CacheInv, QueueIsRead
<1>5. \A k \in Keys : q[k].phase \in {"idle", "sent", "read", "page"}
  BY <1>1 DEF Query
<1> QED BY <1>1, <1>2, <1>3, <1>4, <1>5, AskedIs

(* What a mutation changes is invalidated by its hook, refreshes by itself *)
(* or is one of the queries that its hook leaves as they were.             *)
Refreshed(o) == Cache!Invalidates(o) \cup SelfRefreshing \cup Cache!Unrefreshed(o)

LEMMA Mutated ==
  /\ DOMAIN Cache!PluginMutations = {"install", "configure", "checkHealth", "setState", "uninstall"}
  /\ DOMAIN Cache!QueueMutations = {"resolveItem"}
  /\ DOMAIN Cache!ReviewMutations =
       {"scheduleState", "rollbackRelease", "reviewImprovement", "reviewMemory"}
  /\ DOMAIN Cache!RunMutations =
       {"approveRun", "approveGroup", "rejectRun", "rejectGroup", "cancelRun", "revokeGrant"}
  /\ DOMAIN Cache!ReleaseMutations = {"promoteRelease", "declineRelease"}
  /\ DOMAIN Cache!AgentMutations = {"startCertification", "promoteAgent"}
BY DEF Cache!PluginMutations, Cache!QueueMutations, Cache!ReviewMutations, Cache!RunMutations,
       Cache!ReleaseMutations, Cache!AgentMutations

LEMMA Written ==
  /\ DOMAIN Cache!PluginWrites = {"install", "configure", "checkHealth", "setState", "uninstall"}
  /\ DOMAIN Cache!QueueWrites = {"resolveItem"}
  /\ DOMAIN Cache!ReviewWrites =
       {"scheduleState", "rollbackRelease", "reviewImprovement", "reviewMemory"}
  /\ DOMAIN Cache!RunWrites =
       {"approveRun", "approveGroup", "rejectRun", "rejectGroup", "cancelRun", "revokeGrant"}
  /\ DOMAIN Cache!ReleaseWrites = {"promoteRelease", "declineRelease"}
  /\ DOMAIN Cache!AgentWrites = {"startCertification", "promoteAgent"}
BY DEF Cache!PluginWrites, Cache!QueueWrites, Cache!ReviewWrites, Cache!RunWrites,
       Cache!ReleaseWrites, Cache!AgentWrites

LEMMA HooksRefresh ==
  ASSUME Cache!OpsAssumption, NEW o \in Ops
  PROVE  Cache!Touches(o) \subseteq Refreshed(o)
<1> SUFFICES ASSUME NEW k \in Keys, NEW t \in Cache!Writes(o), k \in Cache!ShownBy[t]
             PROVE  k \in Refreshed(o)
  BY DEF Cache!Touches
<1>1. CASE o \in DOMAIN Cache!PluginMutations
  <2>1. Cache!Invalidates(o) = Keys \cap Cache!PluginMutations[o] /\ Cache!Writes(o) = Cache!PluginWrites[o]
    BY <1>1, Mutated, Written DEF Cache!Invalidates, Cache!Writes
  <2> QED BY <1>1, <2>1, Mutated DEF Cache!PluginMutations, Cache!PluginWrites, Cache!ShownBy, Cache!Queue,
       Refreshed, SelfRefreshing, Cache!AlwaysPolled, Cache!Unrefreshed, Cache!NeverInvalidated
<1>2. CASE o \in DOMAIN Cache!QueueMutations
  <2>1. Cache!Invalidates(o) = Keys \cap Cache!QueueMutations[o] /\ Cache!Writes(o) = Cache!QueueWrites[o]
    BY <1>2, Mutated, Written DEF Cache!Invalidates, Cache!Writes
  <2> QED BY <1>2, <2>1, Mutated DEF Cache!QueueMutations, Cache!QueueWrites, Cache!ShownBy, Cache!Queue,
       Refreshed, SelfRefreshing, Cache!AlwaysPolled, Cache!Unrefreshed, Cache!NeverInvalidated
<1>3. CASE o \in DOMAIN Cache!ReviewMutations
  <2>1. Cache!Invalidates(o) = Keys \cap Cache!ReviewMutations[o] /\ Cache!Writes(o) = Cache!ReviewWrites[o]
    BY <1>3, Mutated, Written DEF Cache!Invalidates, Cache!Writes
  <2> QED BY <1>3, <2>1, Mutated DEF Cache!ReviewMutations, Cache!ReviewWrites, Cache!ShownBy, Cache!Queue,
       Refreshed, SelfRefreshing, Cache!AlwaysPolled, Cache!Unrefreshed, Cache!NeverInvalidated
<1>4. CASE o \in DOMAIN Cache!RunMutations
  <2>1. Cache!Invalidates(o) = Keys \cap Cache!RunMutations[o] /\ Cache!Writes(o) = Cache!RunWrites[o]
    BY <1>4, Mutated, Written DEF Cache!Invalidates, Cache!Writes
  <2> QED BY <1>4, <2>1, Mutated DEF Cache!RunMutations, Cache!RunWrites, Cache!ShownBy, Cache!Queue,
       Refreshed, SelfRefreshing, Cache!AlwaysPolled, Cache!Unrefreshed, Cache!NeverInvalidated
<1>5. CASE o \in DOMAIN Cache!ReleaseMutations
  <2>1. Cache!Invalidates(o) = Keys \cap Cache!ReleaseMutations[o] /\ Cache!Writes(o) = Cache!ReleaseWrites[o]
    BY <1>5, Mutated, Written DEF Cache!Invalidates, Cache!Writes
  <2> QED BY <1>5, <2>1, Mutated DEF Cache!ReleaseMutations, Cache!ReleaseWrites, Cache!ShownBy, Cache!Queue,
       Refreshed, SelfRefreshing, Cache!AlwaysPolled, Cache!Unrefreshed, Cache!NeverInvalidated
<1>6. CASE o \in DOMAIN Cache!AgentMutations
  <2>1. Cache!Invalidates(o) = Keys \cap Cache!AgentMutations[o] /\ Cache!Writes(o) = Cache!AgentWrites[o]
    BY <1>6, Mutated, Written DEF Cache!Invalidates, Cache!Writes
  <2> QED BY <1>6, <2>1, Mutated DEF Cache!AgentMutations, Cache!AgentWrites, Cache!ShownBy, Cache!Queue,
       Refreshed, SelfRefreshing, Cache!AlwaysPolled, Cache!Unrefreshed, Cache!NeverInvalidated
<1> QED BY <1>1, <1>2, <1>3, <1>4, <1>5, <1>6 DEF Cache!OpsAssumption

LEMMA CacheStep ==
  ASSUME Cache!BoundsAssumption, Cache!OpsAssumption, CacheInv, Cache!Next
  PROVE  CacheInv'
<1>1. /\ Terminal \in Nat /\ q \in [Keys -> Query] /\ server \in [Keys -> Nat]
      /\ due \in [Keys -> Contents] /\ ended \in [Keys -> Contents]
  BY DEF Cache!BoundsAssumption, CacheInv, CacheTyped
<1>2. \A k \in Keys : /\ q[k].data \in Contents /\ q[k].got \in Contents
                      /\ q[k].tries \in Nat /\ q[k].status \in {"pending", "success", "error"}
                      /\ q[k].phase \in {"idle", "sent", "read", "page"}
  BY <1>1 DEF Query
<1>3. Contents \subseteq Int
  BY DEF Contents, Cache!NoData
(* One query moves. *)
<1>4. ASSUME NEW k \in Keys, NEW r \in Query, NEW d \in Contents,
             q' = [q EXCEPT ![k] = r], due' = [due EXCEPT ![k] = d],
             UNCHANGED <<server, mutation, ended>>,
             r.data <= server[k], d <= server[k],
             r.phase = "read" => r.got # Cache!NoData /\ r.data <= r.got /\ r.got <= server[k],
             k \notin SelfRefreshing =>
               /\ r.phase = "read" => d <= r.got
               /\ r.phase = "page" => d <= r.data
               /\ r.phase = "idle" /\ r.status # "error" => d <= r.data,
             r.status = "success" => r.data # Cache!NoData,
             r.status = "pending" => r.data = Cache!NoData,
             r.phase = "page" => r.data # Cache!NoData,
             pending' # "none" => /\ pending = pending' /\ ~failedClosed'
                                  /\ k = "attention" => r.status = "success"
      PROVE  CacheInv'
  <2>1. /\ q' \in [Keys -> Query] /\ q'[k] = r /\ \A x \in Keys : x # k => q'[x] = q[x]
        /\ due' \in [Keys -> Contents] /\ due'[k] = d /\ \A x \in Keys : x # k => due'[x] = due[x]
    BY <1>1, <1>4
  <2>2. CacheTyped'
    BY <1>4, <2>1 DEF CacheInv, CacheTyped
  <2>3. ServerIsAhead'
    BY <1>4, <2>1 DEF CacheInv, ServerIsAhead
  <2>4. ReportedIsHeld'
    <3>1. ASSUME NEW x \in Keys \ SelfRefreshing PROVE Settled(x)'
      BY <1>4, <2>1 DEF CacheInv, ReportedIsHeld, Settled
    <3> QED BY <3>1 DEF ReportedIsHeld, SelfRefreshing, Cache!AlwaysPolled
  <2>5. QueueIsRead'
    BY <1>4, <2>1 DEF CacheInv, QueueIsRead
  <2> QED BY <2>2, <2>3, <2>4, <2>5 DEF CacheInv
(* What is due stays so, except where the user loads another page. *)
<1>4a. ASSUME NEW k \in Keys, NEW r \in Query, q' = [q EXCEPT ![k] = r],
              UNCHANGED <<server, mutation, due, ended>>,
              r.data <= server[k],
              r.phase = "read" => r.got # Cache!NoData /\ r.data <= r.got /\ r.got <= server[k],
              k \notin SelfRefreshing =>
                /\ r.phase = "read" => due[k] <= r.got
                /\ r.phase = "page" => due[k] <= r.data
                /\ r.phase = "idle" /\ r.status # "error" => due[k] <= r.data,
              r.status = "success" => r.data # Cache!NoData,
              r.status = "pending" => r.data = Cache!NoData,
              r.phase = "page" => r.data # Cache!NoData,
              pending' # "none" => /\ pending = pending' /\ ~failedClosed'
                                   /\ k = "attention" => r.status = "success"
       PROVE  CacheInv'
  <2>1. due' = [due EXCEPT ![k] = due[k]] /\ due[k] \in Contents
    BY <1>1, <1>4a
  <2>2. due[k] <= server[k] /\ UNCHANGED <<server, mutation, ended>>
    BY <1>4a DEF CacheInv, ServerIsAhead
  <2> QED BY <1>4, <1>4a, <2>1, <2>2
<1>5. \A k \in Keys : /\ q[k].data <= server[k] /\ due[k] <= server[k]
                      /\ q[k].phase = "read" => q[k].data <= q[k].got /\ q[k].got <= server[k]
                      /\ q[k].status = "success" => q[k].data # Cache!NoData
                      /\ q[k].status = "pending" => q[k].data = Cache!NoData
                      /\ q[k].phase = "page" => q[k].data # Cache!NoData
                      /\ k \notin SelfRefreshing => Settled(k)
  BY DEF CacheInv, ServerIsAhead, QueueIsRead, ReportedIsHeld
<1>6. pending # "none" => /\ "attention" \in Keys
                          /\ q["attention"].status = "success" /\ ~failedClosed
  BY DEF CacheInv, QueueIsRead
<1>7. ASSUME NEW k \in Keys, Cache!Refetch(k) PROVE CacheInv'
  <2>1. /\ q' = [q EXCEPT ![k] = Cache!Asked(q[k])]
        /\ UNCHANGED <<server, mutation, pending, failedClosed, due, ended>>
    BY <1>7 DEF Cache!Refetch
  <2>2. /\ Cache!Asked(q[k]) \in Query /\ Cache!Asked(q[k]).phase = "sent"
        /\ Cache!Asked(q[k]).data = q[k].data
        /\ Cache!Asked(q[k]).status = "success" <=> q[k].status = "success"
        /\ Cache!Asked(q[k]).status = "pending" => q[k].data = Cache!NoData
    BY <1>1, <1>5, AskedIs
  <2> QED BY <1>4a, <1>5, <1>6, <2>1, <2>2
<1>8. ASSUME NEW k \in Keys, Cache!ServerReads(k) PROVE CacheInv'
  <2> DEFINE r == [q[k] EXCEPT !.phase = "read", !.got = server[k]]
  <2>1. /\ q' = [q EXCEPT ![k] = r]
        /\ UNCHANGED <<server, mutation, pending, failedClosed, due, ended>>
    BY <1>1, <1>8 DEF Cache!ServerReads
  <2>2. /\ r \in Query /\ r.phase = "read" /\ r.data = q[k].data /\ r.got = server[k]
        /\ r.status = q[k].status
    BY <1>1 DEF Query, Contents
  <2>3. server[k] <= server[k] /\ server[k] # Cache!NoData
    BY <1>1 DEF Cache!NoData
  <2> HIDE DEF r
  <2> QED BY <1>4a, <1>5, <1>6, <2>1, <2>2, <2>3
<1>9. ASSUME NEW k \in Keys, Cache!Answer(k) PROVE CacheInv'
  <2> DEFINE r == [q[k] EXCEPT !.data = q[k].got, !.phase = "idle", !.status = "success"]
  <2>1. /\ q' = [q EXCEPT ![k] = r] /\ q[k].phase = "read"
        /\ UNCHANGED <<server, mutation, pending, due, ended>>
        /\ failedClosed' => failedClosed
    BY <1>1, <1>9 DEF Cache!Answer
  <2>2. /\ r \in Query /\ r.phase = "idle" /\ r.data = q[k].got /\ r.status = "success"
    BY <1>1 DEF Query
  <2>3. r.data # Cache!NoData
    BY <2>1, <2>2 DEF CacheInv, ServerIsAhead
  <2> HIDE DEF r
  <2> QED BY <1>4a, <1>5, <1>6, <2>1, <2>2, <2>3 DEF Settled
<1>10. ASSUME NEW k \in Keys, Cache!RequestFails(k) PROVE CacheInv'
  <2>0. UNCHANGED <<server, mutation, due, ended>>
    BY <1>10 DEF Cache!RequestFails
  <2>1. ASSUME NEW ph \in {"sent", "page"}, ph = "page" => q[k].phase = "page",
               q' = [q EXCEPT ![k].phase = ph, ![k].tries = @ + 1],
               UNCHANGED <<pending, failedClosed>>
        PROVE  CacheInv'
    <3> DEFINE r == [q[k] EXCEPT !.phase = ph, !.tries = q[k].tries + 1]
    <3>1. q' = [q EXCEPT ![k] = r]
      BY <1>1, <2>1
    <3>2. q[k] \in Query /\ q[k].tries + 1 \in Nat
      <4>1. q[k] \in Query
        BY <1>1
      <4> QED BY <4>1 DEF Query
    <3>3. r \in Query /\ r.phase = ph /\ r.data = q[k].data /\ r.status = q[k].status
      BY <2>1, <3>2 DEF Query
    <3>4. /\ r.phase # "read" /\ r.phase # "idle"
          /\ k \notin SelfRefreshing /\ r.phase = "page" => due[k] <= r.data
          /\ r.phase = "page" => r.data # Cache!NoData
          /\ r.data <= server[k]
      BY <1>5, <2>1, <3>3 DEF Settled
    <3>6. /\ r.status = "success" => r.data # Cache!NoData
          /\ r.status = "pending" => r.data = Cache!NoData
      BY <1>5, <3>3
    <3>5. pending' = pending /\ failedClosed' = failedClosed
      BY <2>1
    <3> HIDE DEF r
    <3> QED BY <1>4a, <1>6, <2>0, <3>1, <3>3, <3>4, <3>5, <3>6
  <2>2. CASE /\ q' = [q EXCEPT ![k].phase = "idle", ![k].status = "error"]
             /\ failedClosed' = (failedClosed \/ k = "attention")
             /\ pending' = IF k = "attention" THEN "none" ELSE pending
    <3> DEFINE r == [q[k] EXCEPT !.phase = "idle", !.status = "error"]
    <3>1. q' = [q EXCEPT ![k] = r]
      BY <1>1, <2>2
    <3>2. r \in Query /\ r.phase = "idle" /\ r.data = q[k].data /\ r.status = "error"
      BY <1>1 DEF Query
    <3>3. pending' # "none" => pending = pending' /\ ~failedClosed' /\ k # "attention"
      BY <1>6, <2>2
    <3> HIDE DEF r
    <3> QED BY <1>4a, <1>5, <2>0, <3>1, <3>2, <3>3
  <2>3. CASE /\ q' = [q EXCEPT ![k].phase = IF @ = "page" THEN "page" ELSE "sent", ![k].tries = @ + 1]
             /\ UNCHANGED <<pending, failedClosed>>
    <3>1. CASE q[k].phase = "page"
      BY <1>1, <2>1, <2>3, <3>1
    <3>2. CASE q[k].phase # "page"
      BY <1>1, <2>1, <2>3, <3>2
    <3> QED BY <3>1, <3>2
  <2> QED BY <1>10, <2>2, <2>3 DEF Cache!RequestFails
<1>10a. ASSUME NEW k \in Keys, Cache!FetchNextPage(k) PROVE CacheInv'
  <2> DEFINE r == [q[k] EXCEPT !.phase = "page", !.got = Cache!NoData, !.tries = 0]
  <2>1. /\ q' = [q EXCEPT ![k] = r] /\ due' = [due EXCEPT ![k] = Cache!NoData]
        /\ q[k].data # Cache!NoData
        /\ UNCHANGED <<server, mutation, pending, failedClosed, ended>>
    BY <1>1, <1>10a DEF Cache!FetchNextPage
  <2>2. /\ r \in Query /\ r.phase = "page" /\ r.data = q[k].data /\ r.status = q[k].status
    BY <1>1 DEF Query, Contents
  <2>3. /\ Cache!NoData \in Contents /\ Cache!NoData <= server[k] /\ Cache!NoData <= q[k].data
    BY <1>1, <1>2 DEF Contents, Cache!NoData
  <2> HIDE DEF r
  <2> QED BY <1>4, <1>5, <1>6, <2>1, <2>2, <2>3
<1>10b. ASSUME NEW k \in Keys, Cache!PageAnswer(k) PROVE CacheInv'
  <2> DEFINE r == [q[k] EXCEPT !.phase = "idle", !.status = "success", !.pages = q[k].pages + 1]
  <2>1. /\ q' = [q EXCEPT ![k] = r] /\ q[k].phase = "page"
        /\ UNCHANGED <<server, mutation, pending, failedClosed, due, ended>>
    BY <1>1, <1>10b DEF Cache!PageAnswer
  <2>2. q[k] \in Query /\ q[k].pages + 1 \in Nat
    <3>1. q[k] \in Query
      BY <1>1
    <3> QED BY <3>1 DEF Query
  <2>3. /\ r \in Query /\ r.phase = "idle" /\ r.data = q[k].data /\ r.status = "success"
    BY <2>2 DEF Query
  <2> HIDE DEF r
  <2> QED BY <1>4a, <1>5, <1>6, <2>1, <2>3 DEF Settled
<1>11. ASSUME NEW o \in Ops, Cache!OpenAction(o) PROVE CacheInv'
  <2>1. /\ UNCHANGED <<server, q, mutation, failedClosed, due, ended>>
        /\ "attention" \in Keys /\ q["attention"].status = "success" /\ ~failedClosed
    BY <1>2, <1>5, <1>11 DEF Cache!OpenAction
  <2>2. QueueIsRead'
    BY <2>1 DEF CacheInv, QueueIsRead
  <2> QED BY <2>1, <2>2 DEF CacheInv, CacheTyped, ServerIsAhead, ReportedIsHeld, Settled
<1>12. ASSUME NEW o \in Ops, NEW m, mutation' = [mutation EXCEPT ![o] = m],
              m = [phase |-> m.phase, wrote |-> m.wrote], m.phase # "applied",
              UNCHANGED <<server, q, pending, failedClosed, due, ended>>
       PROVE  CacheInv'
  <2>1. mutation' = [p \in Ops |-> IF p = o THEN m ELSE mutation[p]]
    BY <1>12 DEF CacheInv, CacheTyped
  <2>2. CacheTyped'
    BY <1>12, <2>1 DEF CacheInv, CacheTyped
  <2>3. ServerIsAhead'
    BY <1>12, <2>1 DEF CacheInv, ServerIsAhead
  <2>4. ReportedIsHeld' /\ QueueIsRead'
    BY <1>12 DEF CacheInv, ReportedIsHeld, Settled, QueueIsRead
  <2> QED BY <2>2, <2>3, <2>4 DEF CacheInv
<1>13. ASSUME NEW o \in Ops, Cache!Start(o) PROVE CacheInv'
  <2>1. mutation[o] = [phase |-> mutation[o].phase, wrote |-> mutation[o].wrote]
    BY DEF CacheInv, CacheTyped
  <2>2. mutation' = [mutation EXCEPT ![o] = [phase |-> "sent", wrote |-> mutation[o].wrote]]
    <3>1. mutation' = [mutation EXCEPT ![o] = [mutation[o] EXCEPT !.phase = "sent"]]
      BY <1>13 DEF Cache!Start
    <3>2. [mutation[o] EXCEPT !.phase = "sent"] = [phase |-> "sent", wrote |-> mutation[o].wrote]
      BY <2>1
    <3> QED BY <3>1, <3>2
  <2> DEFINE m == [phase |-> "sent", wrote |-> mutation[o].wrote]
  <2>3. m = [phase |-> m.phase, wrote |-> m.wrote] /\ m.phase # "applied"
    OBVIOUS
  <2>4. UNCHANGED <<server, q, pending, failedClosed, due, ended>>
    BY <1>13 DEF Cache!Start
  <2>5. mutation' = [mutation EXCEPT ![o] = m]
    BY <2>2
  <2> HIDE DEF m
  <2> QED BY <1>12, <2>3, <2>4, <2>5
<1>14. ASSUME NEW o \in Ops, Cache!MutationFails(o) PROVE CacheInv'
  <2>1. Cache!Idle = [phase |-> Cache!Idle.phase, wrote |-> Cache!Idle.wrote]
        /\ Cache!Idle.phase # "applied"
    BY DEF Cache!Idle
  <2> QED BY <1>12, <1>14, <2>1 DEF Cache!MutationFails
(* The server's contents only grow. *)
<1>15. ASSUME NEW W, server' = [k \in Keys |-> IF k \in W THEN server[k] + 1 ELSE server[k]]
       PROVE  \A k \in Keys : server[k] <= server'[k] /\ ended[k] <= server'[k]
  <2> SUFFICES ASSUME NEW k \in Keys PROVE server[k] <= server'[k] /\ ended[k] <= server'[k]
    OBVIOUS
  <2>1. server'[k] = server[k] \/ server'[k] = server[k] + 1
    BY <1>15
  <2>2. server[k] \in Nat /\ ended[k] \in Int
    BY <1>1, <1>3
  <2>3. ended[k] <= server[k]
    BY DEF CacheInv, ServerIsAhead
  <2> QED BY <2>1, <2>2, <2>3
<1>16. ASSUME NEW W \in SUBSET Keys,
              server' = [k \in Keys |-> IF k \in W THEN server[k] + 1 ELSE server[k]],
              UNCHANGED <<q, pending, failedClosed, due>>, CacheTyped',
              \A k \in Keys : ended'[k] <= server'[k],
              "certification-run" \in Keys => ended'["certification-run"] <= Terminal,
              \A o \in Ops : mutation'[o].phase = "applied" =>
                \/ mutation'[o] = mutation[o]
                \/ \A k \in Cache!Touches(o) :
                     mutation'[o].wrote[k] \in Nat /\ mutation'[o].wrote[k] <= server'[k]
       PROVE  CacheInv'
  <2>1. \A k \in Keys : server[k] <= server'[k]
    BY <1>16, <1>15
  <2>2. \A k \in Keys : server'[k] \in Int /\ server[k] \in Int /\ due[k] \in Int
    BY <1>1, <1>3, <1>16 DEF CacheTyped
  <2>3. ASSUME NEW k \in Keys
        PROVE  /\ q'[k].data <= server'[k] /\ due'[k] <= server'[k]
               /\ q'[k].phase = "read" => /\ q'[k].got # Cache!NoData
                                          /\ q'[k].data <= q'[k].got /\ q'[k].got <= server'[k]
    <3>1. q[k].data \in Int /\ q[k].got \in Int
      BY <1>2, <1>3
    <3> QED BY <1>5, <1>16, <2>1, <2>2, <3>1 DEF CacheInv, ServerIsAhead
  <2>4. ASSUME NEW o \in Ops, mutation'[o].phase = "applied", NEW k \in Cache!Touches(o)
        PROVE  mutation'[o].wrote[k] \in Nat /\ mutation'[o].wrote[k] <= server'[k]
    <3>1. k \in Keys
      BY DEF Cache!Touches
    <3>2. CASE mutation'[o] = mutation[o]
      <4>1. mutation[o].wrote[k] \in Nat /\ mutation[o].wrote[k] <= server[k]
        BY <2>4, <3>2 DEF CacheInv, ServerIsAhead
      <4> QED BY <2>1, <2>2, <3>1, <3>2, <4>1
    <3> QED BY <1>16, <2>4, <3>2
  <2>5. ServerIsAhead'
    BY <1>16, <2>3, <2>4 DEF ServerIsAhead
  <2>6. ReportedIsHeld' /\ QueueIsRead'
    BY <1>16 DEF CacheInv, ReportedIsHeld, Settled, QueueIsRead
  <2> QED BY <1>16, <2>5, <2>6 DEF CacheInv
<1>17. \A o \in Ops : Cache!Touches(o) \subseteq Keys
  BY DEF Cache!Touches
<1>18. ASSUME NEW o \in Ops, Cache!Apply(o) PROVE CacheInv'
  <2> DEFINE W == Cache!Touches(o)
             m == [phase |-> "applied", wrote |-> [k \in W |-> server[k] + 1]]
  <2>1. W \in SUBSET Keys
    BY <1>17
  <2>2. /\ server' = [k \in Keys |-> IF k \in W THEN server[k] + 1 ELSE server[k]]
        /\ mutation' = [mutation EXCEPT ![o] = m]
        /\ UNCHANGED <<q, pending, failedClosed, due, ended>>
    BY <1>18 DEF Cache!Apply
  <2>3. mutation' = [p \in Ops |-> IF p = o THEN m ELSE mutation[p]]
    BY <2>2 DEF CacheInv, CacheTyped
  <2>4. CacheTyped'
    <3>1. server' \in [Keys -> Nat]
      BY <1>1, <2>2
    <3>2. \A p \in Ops : mutation'[p] = [phase |-> mutation'[p].phase, wrote |-> mutation'[p].wrote]
      BY <2>3 DEF CacheInv, CacheTyped
    <3> QED BY <2>2, <2>3, <3>1, <3>2 DEF CacheInv, CacheTyped
  <2>5. \A k \in Keys : ended'[k] <= server'[k]
    BY <1>15, <2>2
  <2>6. \A k \in W : mutation'[o].wrote[k] \in Nat /\ mutation'[o].wrote[k] <= server'[k]
    BY <1>1, <2>1, <2>2, <2>3
  <2>7. \A p \in Ops : p = o \/ mutation'[p] = mutation[p]
    BY <2>3
  <2>8. "certification-run" \in Keys => ended'["certification-run"] <= Terminal
    BY <2>2 DEF CacheInv, ServerIsAhead
  <2> HIDE DEF m, W
  <2>9. \A p \in Ops : mutation'[p].phase = "applied" =>
          \/ mutation'[p] = mutation[p]
          \/ \A k \in Cache!Touches(p) :
               mutation'[p].wrote[k] \in Nat /\ mutation'[p].wrote[k] <= server'[k]
    BY <2>6, <2>7 DEF W
  <2> QED BY <1>16, <2>1, <2>2, <2>4, <2>5, <2>8, <2>9
<1>19. ASSUME NEW k \in Keys, Cache!OthersWrite(k) PROVE CacheInv'
  <2> DEFINE ends == k = "certification-run" /\ server[k] + 1 = Terminal
             W == (IF ends THEN Cache!EndWrites ELSE {k})
  <2>1. /\ server' = [x \in Keys |-> IF x \in W THEN server[x] + 1 ELSE server[x]]
        /\ ended' = IF ends THEN server' ELSE ended
        /\ UNCHANGED <<q, mutation, pending, failedClosed, due>>
    BY <1>19 DEF Cache!OthersWrite
  <2>2. W \in SUBSET Keys
    BY DEF Cache!EndWrites
  <2>3. server' \in [Keys -> Nat] /\ ended' \in [Keys -> Contents]
    BY <1>1, <2>1 DEF Contents
  <2>4. CacheTyped'
    BY <2>1, <2>3 DEF CacheInv, CacheTyped
  <2>5. \A x \in Keys : ended'[x] <= server'[x]
    <3>1. CASE ends
      BY <2>1, <2>3, <3>1
    <3>2. CASE ~ends
      BY <1>15, <2>1, <3>2
    <3> QED BY <3>1, <3>2
  <2>6. "certification-run" \in Keys => ended'["certification-run"] <= Terminal
    <3>1. CASE ends
      BY <1>1, <2>1, <3>1 DEF Cache!EndWrites
    <3>2. CASE ~ends
      BY <2>1, <3>2 DEF CacheInv, ServerIsAhead
    <3> QED BY <3>1, <3>2
  <2> HIDE DEF W, ends
  <2> QED BY <1>16, <2>1, <2>2, <2>4, <2>5, <2>6
(* Queries are asked again, and what was written becomes due. *)
<1>20. ASSUME NEW S \in SUBSET Keys, q' = Cache!InvalidateQueries(S),
              UNCHANGED <<server, ended>>, failedClosed' = failedClosed,
              pending' \in {pending, "none"},
              mutation' = [o \in Ops |-> mutation'[o]],
              \A o \in Ops : mutation'[o] \in {mutation[o], Cache!Idle},
              due' \in [Keys -> Contents],
              \A k \in Keys : /\ due'[k] <= server[k]
                              /\ \/ due'[k] = due[k] \/ k \in SelfRefreshing
                                 \/ due'[k] <= q[k].data
                                 \/ /\ k \in S
                                    /\ q[k].data = Cache!NoData /\ q[k].phase = "read" =>
                                         due'[k] <= q[k].got
       PROVE  CacheInv'
  <2>1. /\ q' \in [Keys -> Query]
        /\ \A k \in Keys : /\ q'[k].data = q[k].data
                           /\ k \in S => \/ q'[k].phase = "sent"
                                         \/ /\ q'[k] = q[k] /\ q[k].data = Cache!NoData
                                            /\ q[k].phase \in {"sent", "read"}
                           /\ k \notin S => q'[k] = q[k]
                           /\ q'[k].status = "success" <=> q[k].status = "success"
                           /\ q'[k].status = "pending" => q[k].data = Cache!NoData
    BY <1>20, ClientStep
  <2>2. CacheTyped'
    <3>1. Cache!Idle = [phase |-> Cache!Idle.phase, wrote |-> Cache!Idle.wrote]
      BY DEF Cache!Idle
    <3> QED BY <1>20, <2>1, <3>1 DEF CacheInv, CacheTyped
  <2>3. ServerIsAhead'
    <3>1. Cache!Idle.phase # "applied"
      BY DEF Cache!Idle
    <3>2. \A o \in Ops : mutation'[o].phase = "applied" => mutation'[o] = mutation[o]
      BY <1>20, <3>1
    <3>3. \A k \in Keys : q'[k].data <= server'[k] /\ due'[k] <= server'[k] /\ ended'[k] <= server'[k]
      BY <1>20, <2>1 DEF CacheInv, ServerIsAhead
    <3>4. \A k \in Keys : q'[k].phase = "read" => q'[k] = q[k]
      BY <2>1
    <3> QED BY <1>20, <3>2, <3>3, <3>4 DEF CacheInv, ServerIsAhead
  <2>4. ReportedIsHeld'
    <3>1. ASSUME NEW k \in Keys \ SelfRefreshing PROVE Settled(k)'
      <4>0. q'[k] = q[k] \/ q'[k].phase = "sent"
        BY <2>1
      <4>1. CASE q'[k].phase = "sent"
        BY <4>1 DEF Settled
      <4>2. CASE q'[k] = q[k] /\ due'[k] = due[k]
        BY <4>2 DEF CacheInv, ReportedIsHeld, Settled
      <4>3. CASE q'[k] = q[k] /\ due'[k] <= q[k].data
        <5>1. q[k].phase = "read" => q[k].data <= q[k].got
          BY <1>5
        <5>2. q[k].data \in Int /\ q[k].got \in Int /\ due'[k] \in Int
          BY <1>2, <1>3, <1>20
        <5> QED BY <4>3, <5>1, <5>2 DEF Settled
      <4>4. CASE /\ q'[k] = q[k] /\ q[k].phase = "read" /\ due'[k] <= q[k].got
        BY <4>4 DEF Settled
      <4> QED BY <1>20, <2>1, <4>0, <4>1, <4>2, <4>3, <4>4
    <3> QED BY <3>1 DEF ReportedIsHeld, SelfRefreshing, Cache!AlwaysPolled
  <2>5. QueueIsRead'
    BY <1>5, <1>6, <1>20, <2>1 DEF QueueIsRead
  <2> QED BY <2>2, <2>3, <2>4, <2>5 DEF CacheInv
(* A first load that goes on was answered with what is due, or later. *)
<1>20a. ASSUME NEW k \in Keys, NEW v \in Contents, v <= server[k]
        PROVE  /\ Cache!Owed(k, v) \in Contents /\ Cache!Owed(k, v) <= server[k]
               /\ Cache!Owed(k, v) \in {v, due[k]}
               /\ Cache!Owed(k, v) # due[k] /\ q[k].data = Cache!NoData /\ q[k].phase = "read" =>
                    Cache!Owed(k, v) <= q[k].got
  <2>1. due[k] \in Contents /\ due[k] <= server[k] /\ q[k].got \in Int /\ v \in Int
    BY <1>1, <1>2, <1>3, <1>5, <1>20a
  <2> QED BY <1>20a, <2>1 DEF Cache!Owed, Cache!AnsweredBefore
<1>21. ASSUME NEW o \in Ops, Cache!Succeed(o) PROVE CacheInv'
  <2> DEFINE S == Cache!Invalidates(o)
             W == Cache!Touches(o) \ Cache!Unrefreshed(o)
             w == mutation[o].wrote
  <2>1. /\ mutation[o].phase = "applied" /\ q' = Cache!InvalidateQueries(S)
        /\ due' = [k \in Keys |-> IF k \in W THEN Cache!Owed(k, w[k]) ELSE due[k]]
        /\ pending' \in {pending, "none"} /\ mutation' = [mutation EXCEPT ![o] = Cache!Idle]
        /\ UNCHANGED <<server, failedClosed, ended>>
    BY <1>21 DEF Cache!Succeed
  <2>2. \A k \in W : k \in Keys /\ w[k] \in Contents /\ w[k] <= server[k]
    BY <1>17, <2>1 DEF CacheInv, ServerIsAhead, Contents
  <2>3. S \in SUBSET Keys
    <3>1. \/ o \in DOMAIN Cache!PluginMutations \/ o \in DOMAIN Cache!QueueMutations
          \/ o \in DOMAIN Cache!ReviewMutations \/ o \in DOMAIN Cache!RunMutations
          \/ o \in DOMAIN Cache!ReleaseMutations \/ o \in DOMAIN Cache!AgentMutations
      BY DEF Cache!OpsAssumption
    <3> QED BY <3>1 DEF Cache!Invalidates
  <2>4. W \subseteq S \cup SelfRefreshing
    BY HooksRefresh DEF Refreshed
  <2> HIDE DEF S, W, w
  <2>5. due' \in [Keys -> Contents]
    BY <1>1, <1>20a, <2>1, <2>2
  <2>6. \A k \in Keys : due'[k] <= server[k]
    BY <1>5, <1>20a, <2>1, <2>2
  <2>7. \A k \in Keys : \/ due'[k] = due[k] \/ k \in SelfRefreshing
                        \/ /\ k \in S
                           /\ q[k].data = Cache!NoData /\ q[k].phase = "read" => due'[k] <= q[k].got
    BY <1>20a, <2>1, <2>2, <2>4
  <2>8. /\ mutation' = [p \in Ops |-> mutation'[p]]
        /\ \A p \in Ops : mutation'[p] \in {mutation[p], Cache!Idle}
    <3>1. mutation' = [p \in Ops |-> IF p = o THEN Cache!Idle ELSE mutation[p]]
      BY <2>1 DEF CacheInv, CacheTyped
    <3> QED BY <3>1
  <2> QED BY <1>20, <2>1, <2>3, <2>5, <2>6, <2>7, <2>8
<1>22. CASE Cache!TerminalEffect
  <2> DEFINE c == "certification-run"
             W == Cache!EndWrites \ Cache!NeverInvalidated
             S == Cache!TerminalKeys
  <2>1. /\ c \in Keys /\ q[c].data >= Terminal /\ q' = Cache!InvalidateQueries(S)
        /\ due' = [k \in Keys |-> IF k \in W THEN Cache!Owed(k, ended[k]) ELSE due[k]]
        /\ UNCHANGED <<server, mutation, pending, failedClosed, ended>>
    BY <1>22 DEF Cache!TerminalEffect
  <2>2. S \in SUBSET Keys /\ W \subseteq S \cup {c}
    BY DEF Cache!TerminalKeys, Cache!EndWrites, Cache!NeverInvalidated, Cache!ShownBy
  <2>3. \A k \in Keys : ended[k] \in Contents /\ ended[k] <= server[k]
    BY <1>1 DEF CacheInv, ServerIsAhead
  <2>4. ended[c] <= q[c].data
    <3>1. ended[c] <= Terminal /\ ended[c] \in Int /\ q[c].data \in Int
      BY <1>1, <1>2, <1>3, <2>1 DEF CacheInv, ServerIsAhead
    <3> QED BY <1>1, <2>1, <3>1
  <2> HIDE DEF S, W, c
  <2>5. due' \in [Keys -> Contents] /\ \A k \in Keys : due'[k] <= server[k]
    BY <1>1, <1>5, <1>20a, <2>1, <2>3
  <2>6. \A k \in Keys : \/ due'[k] = due[k] \/ due'[k] <= q[k].data
                        \/ /\ k \in S
                           /\ q[k].data = Cache!NoData /\ q[k].phase = "read" => due'[k] <= q[k].got
    BY <1>20a, <2>1, <2>2, <2>3, <2>4
  <2>7. mutation' = [o \in Ops |-> mutation'[o]] /\ \A o \in Ops : mutation'[o] \in {mutation[o], Cache!Idle}
    BY <2>1 DEF CacheInv, CacheTyped
  <2> QED BY <1>20, <2>1, <2>2, <2>5, <2>6, <2>7
<1> QED
  BY <1>7, <1>8, <1>9, <1>10, <1>10a, <1>10b, <1>11, <1>13, <1>14, <1>18, <1>19, <1>21, <1>22
     DEF Cache!Next, Cache!Interval, Cache!Remount

(* Whatever requests, mutations, polls, pages and failures overlap: once a *)
(* mutation was reported no query that its hook refreshes or that is       *)
(* polled settles on an older version of what the mutation changed, unless *)
(* its first load had been answered before or the user loads another page, *)
(* and no decision is open while the last request of the queue failed      *)
(* (hooks.ts, AttentionPage.tsx).                                          *)
THEOREM OwnWritesAreShown ==
  Cache!BoundsAssumption /\ Cache!OpsAssumption =>
    (Cache!Spec => [](Cache!OwnWriteShown /\ Cache!QueueFailsClosed))
<1> SUFFICES ASSUME Cache!BoundsAssumption, Cache!OpsAssumption
             PROVE  Cache!Spec => [](Cache!OwnWriteShown /\ Cache!QueueFailsClosed)
  OBVIOUS
<1>1. Cache!Init => CacheInv
  BY CacheStart DEF Cache!BoundsAssumption
<1>2. CacheInv /\ [Cache!Next]_(Cache!vars) => CacheInv'
  <2> SUFFICES ASSUME CacheInv, UNCHANGED Cache!vars PROVE CacheInv'
    BY CacheStep
  <2> QED BY DEF Cache!vars, CacheInv, CacheTyped, ServerIsAhead, ReportedIsHeld, Settled, QueueIsRead
<1>3. CacheInv => Cache!OwnWriteShown
  <2> SUFFICES ASSUME CacheInv, NEW k \in Keys, q[k].data < due[k],
                      q[k].phase = "idle", q[k].status # "error"
               PROVE  Cache!Polled(k)
    BY DEF Cache!OwnWriteShown, CacheInv, CacheTyped, Query
  <2>1. CASE k \in Cache!AlwaysPolled \/ k = "attention"
    BY <2>1 DEF Cache!Polled
  <2>2. CASE k \notin SelfRefreshing
    <3>1. due[k] <= q[k].data
      BY <2>2 DEF CacheInv, ReportedIsHeld, Settled
    <3>2. due[k] \in Int /\ q[k].data \in Int
      BY DEF CacheInv, CacheTyped, Query, Contents, Cache!NoData
    <3> QED BY <3>1, <3>2
  <2> QED BY <2>1, <2>2 DEF SelfRefreshing
<1>4. CacheInv => Cache!QueueFailsClosed
  BY DEF CacheInv, QueueIsRead, Cache!QueueFailsClosed
<1> QED BY <1>1, <1>2, <1>3, <1>4, PTL DEF Cache!Spec

=============================================================================
