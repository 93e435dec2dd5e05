---------------------------- MODULE SpecDrafting ----------------------------
(***************************************************************************)
(* Specifications and their interpretations: SpecService saves one section *)
(* at a time, InterpretationService stores prefills and split suggestions  *)
(* in a tree and deletes the expired ones no specification needs.          *)
(*                                                                         *)
(* updateSection runs under READ COMMITTED: it reads the specification,    *)
(* decides, and updates by id. An editor is a request between the two.     *)
(***************************************************************************)
EXTENDS Naturals, FiniteSets

CONSTANTS
  Specs,         \* specifications (each has its agent)
  Sections,      \* sections of a specification, "outcomes" and "knowledge" among them
  Interps,       \* interpretations
  Editors,       \* requests that save a section
  None,          \* no interpretation
  MaxRevision    \* bound on revisions

SectionsAssumption == {"outcomes", "knowledge"} \subseteq Sections
DraftAssumption == SectionsAssumption /\ None \notin Interps /\ MaxRevision \in Nat \ {0}

VARIABLES
  spec,      \* the specifications
  interp,    \* the stored interpretations
  asked,     \* interpretations being computed, with the parent read
  editor,    \* what a request has read of the specification it updates
  doomed     \* what a cleanup has found to be deletable

draftVars == <<spec, interp, asked, editor, doomed>>

NoSpec == [status |-> "none"]
NoInterp == [kind |-> "none"]
Deleted == [kind |-> "deleted"]
Closed == [open |-> FALSE]
NotAsked == [asked |-> FALSE]

DraftInit ==
  /\ spec = [s \in Specs |-> NoSpec]
  /\ interp = [i \in Interps |-> NoInterp]
  /\ asked = [i \in Interps |-> NotAsked]
  /\ editor = [e \in Editors |-> Closed]
  /\ doomed = {}

Stored(i) == interp[i] \notin {NoInterp, Deleted}

Attached(s) == IF spec[s] = NoSpec THEN None ELSE spec[s].attached

AttachedTo(i) == {s \in Specs : Attached(s) = i}

Confirms(i) == {s \in Specs : spec[s] # NoSpec /\ \E c \in spec[s].confirmed : c.by = i}

Parent(i) == IF i = None \/ ~Stored(i) THEN None ELSE interp[i].parent

(* The interpretation and its ancestors. A child is stored after its       *)
(* parent, so there is no cycle.                                           *)
Lineage(i) ==
  LET up[n \in 0..Cardinality(Interps)] ==
        IF n = 0 THEN {i} ELSE up[n - 1] \union {Parent(j) : j \in up[n - 1]}
  IN up[Cardinality(Interps)] \ {None}

-----------------------------------------------------------------------------
(* InterpretationService.                                                  *)

(* interpret reads the parent: the split suggestion narrowed down, or the  *)
(* interpretation attached to the specification; then the interpreter runs.*)
Ask(i, parent, for) ==
  /\ interp[i] = NoInterp /\ asked[i] = NotAsked
  /\ \/ parent = None /\ for = None
     \/ for # None /\ spec[for] # NoSpec /\ parent = Attached(for)
     \/ /\ for = None /\ parent # None /\ Stored(parent)
        /\ interp[parent].kind = "split" /\ ~interp[parent].expired
  /\ asked' = [asked EXCEPT ![i] = [asked |-> TRUE, parent |-> parent, for |-> for]]
  /\ UNCHANGED <<spec, interp, editor, doomed>>

Editable(s) == spec[s].status \notin {"generating", "generated"}

(* The answer is stored; the foreign key refuses it if the parent is gone. *)
(* A prefill of a locked specification is refused, one of an open          *)
(* specification leaves out the sections it has.                           *)
Answer(i, kind) ==
  LET for == asked[i].for IN
  /\ asked[i] # NotAsked
  /\ asked' = [asked EXCEPT ![i] = NotAsked]
  /\ IF \/ asked[i].parent # None /\ ~Stored(asked[i].parent)
        \/ kind = "prefill" /\ for # None /\ ~Editable(for)
     THEN UNCHANGED interp
     ELSE interp' = [interp EXCEPT ![i] =
            [kind |-> kind, parent |-> asked[i].parent, expired |-> FALSE,
             offers |-> IF kind = "split" THEN {}
                        ELSE IF for = None THEN Sections ELSE Sections \ spec[for].sections]]
  /\ UNCHANGED <<spec, editor, doomed>>

Expire(i) ==
  /\ Stored(i) /\ ~interp[i].expired
  /\ interp' = [interp EXCEPT ![i].expired = TRUE]
  /\ UNCHANGED <<spec, asked, editor, doomed>>

(* deleteExpiredUnattached: what is in use, and all ancestors of what is   *)
(* kept, are protected.                                                    *)
Protected ==
  UNION {Lineage(i) : i \in {j \in Interps :
           Stored(j) /\ (~interp[j].expired \/ AttachedTo(j) # {} \/ Confirms(j) # {})}}

Scan ==
  /\ doomed = {}
  /\ doomed' = {i \in Interps : Stored(i) /\ interp[i].expired} \ Protected
  /\ doomed' # {}
  /\ UNCHANGED <<spec, interp, asked, editor>>

(* The deleteMany of one candidate repeats the conditions on it.           *)
MutantDeletable(i) == Stored(i)

Deletable(i) == Stored(i) /\ AttachedTo(i) = {} /\ Confirms(i) = {}

(* Deepest first; the foreign key of a child stored meanwhile aborts.      *)
Delete(i) ==
  /\ i \in doomed
  /\ \A j \in doomed : Cardinality(Lineage(j)) <= Cardinality(Lineage(i))
  /\ IF ~Deletable(i) THEN doomed' = doomed \ {i} /\ UNCHANGED interp
     ELSE IF \E j \in Interps : Parent(j) = i THEN doomed' = {} /\ UNCHANGED interp
     ELSE interp' = [interp EXCEPT ![i] = Deleted] /\ doomed' = doomed \ {i}
  /\ UNCHANGED <<spec, asked, editor>>

-----------------------------------------------------------------------------
(* SpecService.                                                            *)

(* assertAttachableInterpretation: not expired unless attached, not        *)
(* another specification's, and of the attached interpretation's lineage.  *)
InLineage(i, attached) == attached = None \/ attached \in Lineage(i)

Attachable(i, s, attached) ==
  /\ Stored(i)
  /\ interp[i].expired => AttachedTo(i) # {}
  /\ AttachedTo(i) \subseteq {s}
  /\ InLineage(i, attached)

Status(sections) == IF sections = Sections THEN "ready" ELSE "draft"

(* create: a configured version inherits the base's sections, confirmed by *)
(* that; the outcomes of an interpretation wait for their confirmation.    *)
NewSpec(has, i) ==
  [status |-> Status(has), revision |-> 1, sections |-> has, attached |-> i,
   confirmed |-> {[section |-> n, revision |-> 1, by |-> None] : n \in has}]

Inherited(base) == IF base = None THEN {} ELSE spec[base].sections \ {"outcomes"}

Create(s, base, i) ==
  /\ spec[s] = NoSpec
  /\ base # None => spec[base] # NoSpec
  /\ i # None => Attachable(i, s, None) /\ interp[i].kind = "prefill" /\ "outcomes" \in interp[i].offers
  /\ spec' = [spec EXCEPT ![s] =
                NewSpec(Inherited(base) \union IF i = None THEN {"outcomes"} ELSE {}, i)]
  /\ UNCHANGED <<interp, asked, editor, doomed>>

(* updateSection up to its update: i is the interpretation the request     *)
(* confirms the section by, answer how it resolved the section's one       *)
(* unresolved item.                                                        *)
Resolves(section, answer) ==
  IF section = "knowledge" THEN answer \in {"map_source", "remove"} ELSE answer = "acknowledge"

ReadSection(e, s, section, i, answer) ==
  /\ editor[e] = Closed /\ spec[s] # NoSpec /\ Editable(s)
  /\ spec[s].attached # None /\ section \notin spec[s].sections => i # None
  /\ i # None => /\ Attachable(i, s, spec[s].attached)
                 /\ interp[i].kind = "prefill" /\ Resolves(section, answer)
  /\ editor' = [editor EXCEPT ![e] = [open |-> TRUE, spec |-> s, section |-> section, by |-> i,
                                      seen |-> spec[s]]]
  /\ UNCHANGED <<spec, interp, asked, doomed>>

(* The update and the confirmation: the status and, where none was seen,   *)
(* the interpretation are set from what was read. The unique index and the *)
(* foreign keys of the interpretation abort the request.                   *)
SaveSection(e) ==
  LET s == editor[e].spec
      seen == editor[e].seen
      i == editor[e].by
      connects == i # None /\ seen.attached = None IN
  /\ editor[e] # Closed /\ spec[s].revision < MaxRevision
  /\ editor' = [editor EXCEPT ![e] = Closed]
  /\ IF i # None /\ (~Stored(i) \/ (connects /\ AttachedTo(i) \ {s} # {}))
     THEN UNCHANGED spec
     ELSE spec' = [spec EXCEPT ![s] =
            [status |-> IF seen.status = "ready" THEN "ready" ELSE Status(seen.sections \union {editor[e].section}),
             revision |-> @.revision + 1,
             sections |-> @.sections \union {editor[e].section},
             attached |-> IF connects THEN i ELSE @.attached,
             confirmed |-> @.confirmed \union
               {[section |-> editor[e].section, revision |-> @.revision + 1, by |-> i]}]]
  /\ UNCHANGED <<interp, asked, doomed>>

Answers == {"map_source", "remove", "acknowledge"}

DraftNext ==
  \/ \E i \in Interps : Expire(i) \/ Delete(i) \/ Answer(i, "split") \/ Answer(i, "prefill")
  \/ \E i \in Interps, parent \in Interps \union {None}, for \in Specs \union {None} : Ask(i, parent, for)
  \/ Scan
  \/ \E s \in Specs, base \in Specs \union {None}, i \in Interps \union {None} : Create(s, base, i)
  \/ \E e \in Editors, s \in Specs, n \in Sections, i \in Interps \union {None}, a \in Answers :
       ReadSection(e, s, n, i, a)
  \/ \E e \in Editors : SaveSection(e)

-----------------------------------------------------------------------------
(* Properties.                                                             *)

TypeOK ==
  /\ \A s \in Specs : spec[s] = NoSpec \/ (spec[s].sections \subseteq Sections /\ spec[s].revision \in 1..MaxRevision)
  /\ \A i \in Interps : ~Stored(i) \/ interp[i].parent \in Interps \union {None}
  /\ doomed \subseteq Interps

(* What a specification is attached to or was confirmed by stays, with all *)
(* its ancestors, through cleanups that scanned before it was attached     *)
(* (deleteExpiredUnattached).                                              *)
LineageKept ==
  \A s \in Specs : spec[s] # NoSpec =>
    \A i \in ({spec[s].attached} \union {c.by : c \in spec[s].confirmed}) \ {None} :
      \A j \in Lineage(i) : Stored(j)

(* "Interpretation must be the attached interpretation or one of its       *)
(* descendants": every section confirmed by an interpretation descends     *)
(* from the one the specification is attached to (updateSection).          *)
ConfirmedInLineage ==
  \A s \in Specs : spec[s] # NoSpec =>
    \A c \in spec[s].confirmed : c.by # None => spec[s].attached \in Lineage(c.by)

(* An interpretation belongs to one specification at most.                 *)
OneSpecPerInterpretation == \A i \in Interps : Cardinality(AttachedTo(i)) <= 1

(* Every section of a specification was confirmed (create, updateSection). *)
SectionsConfirmed ==
  \A s \in Specs : spec[s] # NoSpec =>
    \A n \in spec[s].sections : \E c \in spec[s].confirmed :
      c.section = n /\ c.revision <= spec[s].revision

(* "All specification sections are required": a specification that has all *)
(* sections can be generated, it is not left a draft (isComplete).         *)
CompleteIsReady ==
  \A s \in Specs : spec[s] # NoSpec => (spec[s].sections = Sections => spec[s].status # "draft")
=============================================================================
