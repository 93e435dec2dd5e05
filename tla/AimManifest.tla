----------------------------- MODULE AimManifest -----------------------------
(***************************************************************************)
(* Cross-references of an AIM program manifest (aimProgramManifestSchema   *)
(* of packages/contracts/src/aim/program-contract.ts): who owns a part, a  *)
(* hardware anchor and a workstream, and which agents cover which parts.   *)
(* Every relation is written down at both ends; the manifest is edited one *)
(* field at a time and accepted only when the schema reports no issue.     *)
(* Ids are unique, lists hold no id twice, references to capabilities,     *)
(* decision loops, evidence and sources are taken as known, and dates lie  *)
(* in the timeline; text, labels and limits are left out.                  *)
(***************************************************************************)
EXTENDS Naturals, FiniteSets

CONSTANTS Groups, Parts, Anchors, Agents, Milestones,
  Unknown,      \* an id that no collection declares
  MaxEdits      \* edits made to an accepted manifest

ASSUME SomeGroup   == Groups # {}
ASSUME SomePart    == Parts # {}
ASSUME PartsFinite == IsFiniteSet(Parts)

VARIABLES
  kind,         \* kind[g]: primary or supporting
  owned,        \* owned[g]: ownedAnchorIds
  part,         \* part[p]: [anchor, owner, groups, agents]
  agent,        \* agent[a]: [groups, parts]
  affects,      \* affects[m]: affectedPartIds of a milestone
  work,         \* the workstream: [owner, parts, milestones]
  edits, accepted  \* accepted: the manifest as it stands was parsed

vars == <<kind, owned, part, agent, affects, work, edits, accepted>>

AnyGroup == CHOOSE g \in Groups : TRUE

(* An accepted manifest to edit: one group owns every part, each part has  *)
(* its anchor, every agent covers every part.                              *)
Init ==
  /\ kind = [g \in Groups |-> "primary"]
  /\ \E anchorOf \in [Parts -> Anchors] :
       /\ \A p, q \in Parts : anchorOf[p] = anchorOf[q] => p = q
       /\ part = [p \in Parts |-> [anchor |-> anchorOf[p], owner |-> AnyGroup, groups |-> {AnyGroup}, agents |-> Agents]]
       /\ owned = [g \in Groups |-> IF g = AnyGroup THEN {anchorOf[p] : p \in Parts} ELSE {}]
  /\ agent = [a \in Agents |-> [groups |-> {AnyGroup}, parts |-> Parts]]
  /\ affects = [m \in Milestones |-> Parts]
  /\ work = [owner |-> AnyGroup, parts |-> Parts, milestones |-> Milestones]
  /\ edits = 0 /\ accepted = TRUE

-----------------------------------------------------------------------------
(* The checks of superRefine, one definition per collection.               *)

Known(refs, allowed) == refs \subseteq allowed

UniqueAnchors == \A p, q \in Parts : part[p].anchor = part[q].anchor => p = q

GroupValid(g) ==
  /\ Known(owned[g], Anchors)
  /\ kind[g] = "supporting" => owned[g] = {}
  /\ \A x \in owned[g] : \E p \in Parts : part[p].anchor = x /\ part[p].owner = g

MutantAgentValid(a) ==
  /\ agent[a].groups # {} /\ Known(agent[a].groups, Groups)
  /\ agent[a].parts # {} /\ Known(agent[a].parts, Parts)
  /\ \A p \in agent[a].parts \cap Parts : a \in part[p].agents
  /\ \A g \in agent[a].groups : \E p \in agent[a].parts \cap Parts : g \in part[p].groups

AgentValid(a) ==
  /\ agent[a].groups # {} /\ Known(agent[a].groups, Groups)
  /\ agent[a].parts # {} /\ Known(agent[a].parts, Parts)
  /\ \A p \in agent[a].parts \cap Parts : a \in part[p].agents /\ part[p].owner \in agent[a].groups
  /\ \A g \in agent[a].groups : \E p \in agent[a].parts \cap Parts : g \in part[p].groups

Owners(x) == {g \in Groups : x \in owned[g]}

PartValid(p) ==
  LET r == part[p] IN
  /\ Known({r.anchor}, Anchors) /\ Known({r.owner}, Groups) /\ Known(r.groups, Groups) /\ Known(r.agents, Agents)
  /\ r.owner \in r.groups
  /\ r.owner \in Groups => kind[r.owner] = "primary" /\ r.anchor \in owned[r.owner]
  /\ \A a \in r.agents \cap Agents : p \in agent[a].parts
  /\ Owners(r.anchor) = {r.owner}

MilestoneValid(m) == affects[m] # {} /\ Known(affects[m], Parts)

WorkstreamValid ==
  /\ Known({work.owner}, Groups) /\ Known(work.milestones, Milestones)
  /\ work.parts # {} /\ Known(work.parts, Parts)
  /\ work.owner \in Groups => kind[work.owner] = "primary"
  /\ \A p \in work.parts \cap Parts : part[p].owner = work.owner
  /\ \A m \in work.milestones \cap Milestones : affects[m] \cap work.parts # {}

Valid ==
  /\ UniqueAnchors /\ WorkstreamValid
  /\ \A g \in Groups : GroupValid(g)
  /\ \A a \in Agents : AgentValid(a)
  /\ \A p \in Parts : PartValid(p)
  /\ \A m \in Milestones : MilestoneValid(m)

-----------------------------------------------------------------------------
(* Editing, one field at a time.                                           *)

Toggle(S, x) == IF x \in S THEN S \ {x} ELSE S \cup {x}

Edit == edits < MaxEdits /\ edits' = edits + 1 /\ accepted' = FALSE

EditGroup(g) ==
  /\ Edit
  /\ \/ kind' = [kind EXCEPT ![g] = IF @ = "primary" THEN "supporting" ELSE "primary"] /\ UNCHANGED owned
     \/ \E x \in Anchors \cup {Unknown} : owned' = [owned EXCEPT ![g] = Toggle(@, x)] /\ UNCHANGED kind
  /\ UNCHANGED <<part, agent, affects, work>>

EditPart(p) ==
  /\ Edit
  /\ \/ \E x \in Anchors \cup {Unknown} : part' = [part EXCEPT ![p].anchor = x]
     \/ \E g \in Groups \cup {Unknown} : part' = [part EXCEPT ![p].owner = g]
     \/ \E g \in Groups \cup {Unknown} : part' = [part EXCEPT ![p].groups = Toggle(@, g)]
     \/ \E a \in Agents \cup {Unknown} : part' = [part EXCEPT ![p].agents = Toggle(@, a)]
  /\ UNCHANGED <<kind, owned, agent, affects, work>>

EditAgent(a) ==
  /\ Edit
  /\ \/ \E g \in Groups \cup {Unknown} : agent' = [agent EXCEPT ![a].groups = Toggle(@, g)]
     \/ \E p \in Parts \cup {Unknown} : agent' = [agent EXCEPT ![a].parts = Toggle(@, p)]
  /\ UNCHANGED <<kind, owned, part, affects, work>>

EditPlan ==
  /\ Edit
  /\ \/ \E m \in Milestones, p \in Parts \cup {Unknown} :
          affects' = [affects EXCEPT ![m] = Toggle(@, p)] /\ UNCHANGED work
     \/ \E g \in Groups \cup {Unknown} : work' = [work EXCEPT !.owner = g] /\ UNCHANGED affects
     \/ \E p \in Parts \cup {Unknown} : work' = [work EXCEPT !.parts = Toggle(@, p)] /\ UNCHANGED affects
     \/ \E m \in Milestones \cup {Unknown} : work' = [work EXCEPT !.milestones = Toggle(@, m)] /\ UNCHANGED affects
  /\ UNCHANGED <<kind, owned, part, agent>>

(* The schema parses the manifest without an issue.                        *)
Accept ==
  /\ ~accepted /\ Valid
  /\ accepted' = TRUE
  /\ UNCHANGED <<kind, owned, part, agent, affects, work, edits>>

Next ==
  \/ \E g \in Groups : EditGroup(g)
  \/ \E p \in Parts : EditPart(p)
  \/ \E a \in Agents : EditAgent(a)
  \/ EditPlan \/ Accept

Spec == Init /\ [][Next]_vars

-----------------------------------------------------------------------------
(* In an accepted manifest hardware has one owner: the anchors groups own  *)
(* are those of the parts, no two groups share one, no two parts share     *)
(* one.  (The checks of groups and parts together.)                        *)
HardwareHasOneOwner ==
  accepted =>
    /\ UNION {owned[g] : g \in Groups} = {part[p].anchor : p \in Parts}
    /\ \A g, h \in Groups : g # h => owned[g] \cap owned[h] = {}
    /\ \A g \in Groups : Cardinality(owned[g]) = Cardinality({p \in Parts : part[p].owner = g})

(* In an accepted manifest coverage reads the same from both ends, so the  *)
(* agents counted for a part are among those counted for the group that    *)
(* owns it, and an agent counts for no group that shares none of its       *)
(* parts.  (The checks of agents and parts together; stateAt counts a      *)
(* group's agents by agent.groupIds and a part's by coverage.agentIds.)    *)
CoverageAgrees ==
  accepted =>
    /\ \A p \in Parts : part[p].agents = {a \in Agents : p \in agent[a].parts}
    /\ \A p \in Parts : \A a \in part[p].agents : part[p].owner \in agent[a].groups
    /\ \A a \in Agents : \A g \in agent[a].groups : \E p \in Parts : a \in part[p].agents /\ g \in part[p].groups

(* In an accepted manifest every milestone of a workstream affects a part  *)
(* whose hardware the workstream's own group owns.  (The checks of         *)
(* workstreams, parts and groups together.)                                *)
WorkstreamsStayHome ==
  accepted =>
    \A m \in work.milestones : \E p \in affects[m] \cap work.parts : part[p].anchor \in owned[work.owner]

(* What the cross-checks of programManifestSchema promise together to the  *)
(* reader of a manifest they accept, in whatever order its parts were      *)
(* edited: hardware has one owner, coverage reads the same from both ends, *)
(* and workstreams touch only what their group owns.                       *)
ManifestAgrees == HardwareHasOneOwner /\ CoverageAgrees /\ WorkstreamsStayHome
=============================================================================
