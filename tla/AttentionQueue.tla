--------------------------- MODULE AttentionQueue ---------------------------
(***************************************************************************)
(* The Attention queue of one principal: AttentionService.list projects    *)
(* pending approvals, passed release evaluations, stopped runs and         *)
(* unhealthy Plugins onto the Decide and Degraded shelves; resolveItem     *)
(* acknowledges a failed run; approveRunGroup and rejectRunGroup decide    *)
(* the group of approvals a reviewer was shown, by the key of its exact    *)
(* membership.  The runs move as in ExecutionAuthority.                    *)
(***************************************************************************)
EXTENDS Naturals, FiniteSets, Sequences

CONSTANTS
  Runs, Reviewers, Plugins,
  Semantics,    \* Semantics[r]: approvalSemanticKey without the run
  PerRun,       \* runs whose Plugin calls need a decision per run
  Named,        \* runs with a safe governed subject
  Global,       \* workspace-global runs (departmentId null)
  Admin,        \* the principal is a workspace admin
  Owner,        \* the principal may govern releases
  MaxEvals,     \* bound on release evaluations
  MaxVersion    \* bound on requestVersion

(* Each shelf query of list() takes at most so many stopped runs, and as    *)
(* many Plugins; the queue is modelled below that limit.                   *)
ShelfLimit == 50

QueueAssumption ==
  /\ IsFiniteSet(Runs) /\ Cardinality(Runs) <= ShelfLimit
  /\ IsFiniteSet(Plugins) /\ Cardinality(Plugins) <= ShelfLimit
  /\ PerRun \subseteq Runs /\ Named \subseteq Runs /\ Global \subseteq Runs
  /\ Runs \cap Plugins = {}
  /\ Admin \in BOOLEAN /\ Owner \in BOOLEAN /\ MaxEvals \in Nat /\ MaxVersion \in Nat \ {0}

VARIABLES
  run,       \* ExecutionRun state; "stalled" is running with an expired lease
  version,   \* ApprovalRequest.requestVersion
  plugin,    \* PluginInstallation state
  evals,     \* the evaluations of a release, oldest first: [passed, decided]
  live,      \* the release is the current one of a channel
  resolved,  \* item ids with an AttentionResolution
  shown,     \* shown[h]: the items of the reviewer's last list
  reviewed   \* history: <<run, version>> pairs covered by a group decision, with what was shown

vars == <<run, version, plugin, evals, live, resolved, shown, reviewed>>

Stopped   == {"paused_budget", "paused_plugin", "stalled", "failed"}
RunStates == Stopped \cup {"none", "awaiting_approval", "queued", "running", "ended"}
ItemKinds == {"execution_approval", "safety_stop", "unresolved", "release_promotion",
              "budget_stop", "plugin_health", "stalled_run"}

TypeOK ==
  /\ run \in [Runs -> RunStates] /\ version \in [Runs -> 0 .. MaxVersion]
  /\ plugin \in [Plugins -> {"enabled", "degraded", "disabled"}]
  /\ \A i \in DOMAIN evals : evals[i] \in [passed : BOOLEAN, decided : BOOLEAN]
  /\ live \in BOOLEAN /\ resolved \subseteq {<<"stalled_run", {r}>> : r \in Runs}
  /\ \A h \in Reviewers : \A i \in shown[h] :
       i.shelf \in {"decide", "degraded"} /\ i.id[1] \in ItemKinds

Init ==
  /\ run = [r \in Runs |-> "none"] /\ version = [r \in Runs |-> 0]
  /\ plugin = [p \in Plugins |-> "enabled"]
  /\ evals = << >> /\ live = FALSE /\ resolved = {} /\ reviewed = {}
  /\ shown = [h \in Reviewers |-> {}]

-----------------------------------------------------------------------------
(* list(): the items as the database is now.                               *)

Item(kind, members, shelf, state) ==
  [id |-> <<kind, members>>, shelf |-> shelf, state |-> state]

Awaiting == {r \in Runs : run[r] = "awaiting_approval"}

SemanticKey(r) == <<Semantics[r], r \in Global, IF r \in PerRun THEN {r} ELSE {}>>

MutantMembership(r) == <<r, 1>>

(* The group key covers the approval and the generation of its request.    *)
Membership(r) == <<r, version[r]>>

(* groupExecutionApprovals: groups by meaning, without unnamed subjects.   *)
ApprovalGroups ==
  {{Membership(r) : r \in {q \in Awaiting \cap Named : SemanticKey(q) = SemanticKey(p)}} : p \in Awaiting \cap Named}

(* A workspace-global request is read-only for a principal who is no admin. *)
AdminRequired(g) == ~Admin /\ \E m \in g : m[1] \in Global

ApprovalItems ==
  {IF AdminRequired(g) THEN Item("safety_stop", g, "degraded", "awaiting_approval")
                       ELSE Item("execution_approval", g, "decide", "awaiting_approval") : g \in ApprovalGroups}

UnresolvedApprovalItems ==
  {Item("unresolved", {<<r, version[r]>>}, "degraded", "awaiting_approval") : r \in Awaiting \ Named}

(* A release is offered when its latest evaluation passed and is open.     *)
ReleaseItems ==
  IF Owner /\ ~live /\ evals # << >> /\ evals[Len(evals)].passed /\ ~evals[Len(evals)].decided
    THEN {Item("release_promotion", {Len(evals)}, "decide", "passed")} ELSE {}

KindOf(state) ==
  CASE state = "paused_budget" -> "budget_stop"
    [] state = "paused_plugin" -> "plugin_health"
    [] OTHER                   -> "stalled_run"

Acknowledged(item) == item.state = "failed" /\ item.id \in resolved

DegradedRunItems ==
  {i \in {Item(KindOf(run[r]), {r}, "degraded", run[r]) : r \in {q \in Runs : run[q] \in Stopped}} : ~Acknowledged(i)}

DegradedPluginItems ==
  {Item("plugin_health", {p}, "degraded", plugin[p]) : p \in {q \in Plugins : plugin[q] # "enabled"}}

Items == ApprovalItems \cup UnresolvedApprovalItems \cup ReleaseItems \cup DegradedRunItems \cup DegradedPluginItems

-----------------------------------------------------------------------------
(* The runs, the Plugins and the evaluations move.                         *)

Steps == {<<"none", "awaiting_approval">>, <<"none", "queued">>, <<"none", "paused_budget">>, <<"queued", "running">>,
          <<"queued", "paused_plugin">>, <<"queued", "ended">>, <<"running", "ended">>, <<"running", "failed">>,
          <<"running", "stalled">>, <<"running", "paused_plugin">>, <<"stalled", "queued">>, <<"stalled", "failed">>,
          <<"running", "awaiting_approval">>, <<"queued", "awaiting_approval">>,
          <<"paused_plugin", "queued">>, <<"awaiting_approval", "ended">>, <<"awaiting_approval", "queued">>}

MoveRun(r, to) ==
  /\ <<run[r], to>> \in Steps
  /\ to = "awaiting_approval" => version[r] < MaxVersion
  /\ run' = [run EXCEPT ![r] = to]
  /\ version' = [version EXCEPT ![r] = IF to = "awaiting_approval" THEN @ + 1 ELSE @]
  /\ UNCHANGED <<plugin, evals, live, resolved, shown, reviewed>>

MovePlugin(p, to) ==
  /\ plugin[p] # to /\ plugin' = [plugin EXCEPT ![p] = to]
  /\ UNCHANGED <<run, version, evals, live, resolved, shown, reviewed>>

EvaluateRelease(passed) ==
  /\ Len(evals) < MaxEvals
  /\ evals' = Append(evals, [passed |-> passed, decided |-> FALSE])
  /\ UNCHANGED <<run, version, plugin, live, resolved, shown, reviewed>>

DecideRelease(promote) ==
  /\ ReleaseItems # {}
  /\ evals' = [evals EXCEPT ![Len(evals)].decided = TRUE] /\ live' = promote
  /\ UNCHANGED <<run, version, plugin, resolved, shown, reviewed>>

-----------------------------------------------------------------------------
(* Reviewers.                                                              *)

List(h) ==
  /\ shown[h] # Items
  /\ shown' = [shown EXCEPT ![h] = Items]
  /\ UNCHANGED <<run, version, plugin, evals, live, resolved, reviewed>>

(* resolveItem lists again and accepts a failed run only. *)
Resolvable(item) == item.shelf = "degraded" /\ item.state = "failed"

ResolveItem(h) ==
  /\ \E i \in shown[h] \cap Items : Resolvable(i) /\ resolved' = resolved \cup {i.id}
  /\ UNCHANGED <<run, version, plugin, evals, live, shown, reviewed>>

(* approveRunGroup and rejectRunGroup: the pending group with the key that *)
(* was shown, read again under the decision locks of its runs.             *)
DecideGroup(h, to) ==
  /\ \E i \in shown[h] :
       /\ i.id[1] = "execution_approval" /\ i.id[2] \in ApprovalGroups
       /\ LET members == {m[1] : m \in i.id[2]}
          IN /\ run' = [r \in Runs |-> IF r \in members THEN to ELSE run[r]]
             /\ reviewed' = reviewed \cup {[run |-> r, version |-> version[r], shown |-> i.id[2]] : r \in members}
  /\ UNCHANGED <<version, plugin, evals, live, resolved, shown>>

Next ==
  \/ \E r \in Runs, to \in RunStates : MoveRun(r, to)
  \/ \E p \in Plugins, to \in {"enabled", "degraded", "disabled"} : MovePlugin(p, to)
  \/ \E b \in BOOLEAN : EvaluateRelease(b) \/ DecideRelease(b)
  \/ \E h \in Reviewers : List(h) \/ ResolveItem(h) \/ (\E to \in {"queued", "ended"} : DecideGroup(h, to))

Spec == Init /\ [][Next]_vars

-----------------------------------------------------------------------------
(* Properties.                                                             *)

Holds(i, r) ==
  \/ /\ i.id[1] \in {"execution_approval", "safety_stop", "unresolved"}
     /\ \E v \in 0 .. MaxVersion : <<r, v>> \in i.id[2]
  \/ /\ i.id[1] \in {"budget_stop", "stalled_run", "plugin_health"}
     /\ r \in i.id[2]

(* Every matter that waits for a human is on the queue exactly once: a run *)
(* that awaits approval or stopped without an acknowledgement is in one    *)
(* item, whatever its scope, subject and role of the reader (list).        *)
NothingIsHidden ==
  \A r \in Runs :
    Cardinality({i \in Items : Holds(i, r)}) =
      IF \/ run[r] = "awaiting_approval" \/ run[r] \in Stopped \ {"failed"}
         \/ run[r] = "failed" /\ <<"stalled_run", {r}>> \notin resolved THEN 1 ELSE 0

(* An acknowledgement hides a failure and nothing else: the item id of a   *)
(* stalled run is the id of the failed run, so an id is resolved only      *)
(* after the run failed for good (resolveItem, degradedRunItem).           *)
OnlyFailuresAreResolved == \A r \in Runs : <<"stalled_run", {r}>> \in resolved => run[r] = "failed"

(* A group decision binds what was reviewed: each run it decides was shown *)
(* to the reviewer in the generation of the request that is decided        *)
(* (groupKey over approval id and requestVersion).                         *)
DecidedAsReviewed == \A d \in reviewed : <<d.run, d.version>> \in d.shown
=============================================================================
