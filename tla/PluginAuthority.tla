--------------------------- MODULE PluginAuthority ---------------------------
(***************************************************************************)
(* Which Plugin calls a run may make: execution-service.ts derives the     *)
(* Plugin requirements of a run from the dependency closure of its entry   *)
(* resource, a grant names exact installations, tools and limits, the run  *)
(* is admitted and claimed against the grant, and the worker checks every  *)
(* call once more.  Installations come, go and change state in between,    *)
(* also while a run is being created: createRun reads them before its      *)
(* transaction.  What holding the runs of a Plugin may miss is in          *)
(* PluginInstallation.                                                     *)
(*                                                                         *)
(* ExecutionAuthority models the life of grants and their budgets; here a  *)
(* grant is its Plugin scopes and whether it is still active.              *)
(***************************************************************************)
EXTENDS Integers, Sequences, FiniteSets

CONSTANTS
  Versions,    \* the resource versions of the release
  Entry,       \* the entry resource of the run
  Pins,        \* its dependency pins, pairs of Versions
  Plugins,     \* the versions that are Plugins
  Uses,        \* [by, plugin, tool]: the tools the definitions of Versions name
  Declared,    \* [plugin, tool, effect, approval, limit]: the capabilities
  Limits,      \* the limits a grant may ask for
  MaxRows      \* bound on the installations ever made

ReleaseAssumption ==
  /\ IsFiniteSet(Versions) /\ Entry \in Versions /\ Plugins \subseteq Versions
  /\ Pins \subseteq Versions \X Versions /\ Limits \subseteq Nat

VARIABLES
  rows,     \* Seq of installations, in the order of installedAt
  grants,   \* ["standing", "perRun" -> [active, scopes]]
  creating, \* the createRun under way: what it has read so far
  run,
  calls     \* history: the calls made

vars == <<rows, grants, creating, run, calls>>

Rows == 1..Len(rows)
Principals == [department : {"sales", "none"}, admin : BOOLEAN]
NoGrant == [active |-> FALSE, scopes |-> {}]
Nothing == [stage |-> "none"]

Init ==
  /\ rows = <<>>
  /\ grants = [g \in {"standing", "perRun"} |-> NoGrant]
  /\ creating = Nothing
  /\ run = [state |-> "none"]
  /\ calls = {}

-----------------------------------------------------------------------------
(* entryRequirements: what the entry reaches through the pins, and the     *)
(* Plugin tools that the definitions it reaches name.                      *)
Reachable ==
  {v \in Versions : \A s \in SUBSET Versions :
     (Entry \in s /\ \A p \in Pins : p[1] \in s => p[2] \in s) => v \in s}

RequiredPlugins == {[plugin |-> u.plugin, tool |-> u.tool] : u \in {u \in Uses : u.by \in Reachable}}

Capability(plugin, tool) == CHOOSE c \in Declared : c.plugin = plugin /\ c.tool = tool

(* aggregateScopeWhere.                                                    *)
Visible(p, i) == rows[i].department \in {"none", p.department}

(* governedExecutionMutationScope.                                         *)
MayDecide(p) == p.department # "none" \/ p.admin

(* assertNarrowedPluginLimits.                                             *)
Narrowed(limit, declared) == limit <= declared

(* materializePluginScopes accepts the scopes a person asks for; a scope   *)
(* keeps the effect and the digest of the declaration.                     *)
Acceptable(p, requested) ==
  /\ \A s, t \in requested : s.row = t.row /\ s.tool = t.tool => s = t
  /\ \A s \in requested :
       /\ s.row \in Rows /\ Visible(p, s.row) /\ rows[s.row].state = "enabled"
       /\ rows[s.row].plugin \in Reachable \cap Plugins
       /\ \E c \in Declared : c.plugin = rows[s.row].plugin /\ c.tool = s.tool
                              /\ Narrowed(s.limit, c.limit)

Materialized(requested) ==
  {[row |-> s.row, plugin |-> rows[s.row].plugin, tool |-> s.tool, limit |-> s.limit,
    effect |-> Capability(rows[s.row].plugin, s.tool).effect] : s \in requested}

(* deriveRunPluginRequirements: the newest installation of the principal's *)
(* own department that is not uninstalled, or else the workspace's.        *)
Candidates(p, plugin, d) ==
  {i \in Rows : Visible(p, i) /\ rows[i].plugin = plugin /\ rows[i].department = d
                /\ rows[i].state # "uninstalled"}

Newest(s) == CHOOSE i \in s : \A j \in s : j <= i

InstallationFor(p, plugin) ==
  LET own == Candidates(p, plugin, p.department)
      all == Candidates(p, plugin, "none")
  IN  IF own # {} THEN Newest(own) ELSE IF all # {} THEN Newest(all) ELSE 0

ApprovalRequired(c) == c.approval = "approval_required" \/ c.effect # "read"

(* known is history: how many installations there were when it was read.   *)
Requirement(p, q) ==
  LET c == Capability(q.plugin, q.tool) IN
    [row |-> InstallationFor(p, q.plugin), plugin |-> q.plugin, tool |-> q.tool,
     effect |-> c.effect, limit |-> c.limit, approvalRequired |-> ApprovalRequired(c),
     known |-> Len(rows)]

(* grantBlockers and claimedGrantBlockers, the part about Plugins: a scope *)
(* for every requirement, and an approval of this run where one is needed. *)
Covered(required, scopes) ==
  \A r \in required : \E s \in scopes :
    s.row = r.row /\ s.plugin = r.plugin /\ s.tool = r.tool /\ s.effect = r.effect

Allows(scopes, required, approved) ==
  /\ Covered(required, scopes)
  /\ approved \/ \A r \in required : ~r.approvalRequired

Admits(g, required, approved) ==
  grants[g].active /\ Allows(grants[g].scopes, required, approved)

-----------------------------------------------------------------------------
Install(plugin, department) ==
  /\ Len(rows) < MaxRows
  /\ \A i \in Rows : rows[i].plugin = plugin /\ rows[i].department = department
                     => rows[i].state = "uninstalled"
  /\ rows' = Append(rows, [plugin |-> plugin, department |-> department, state |-> "installed"])
  /\ UNCHANGED <<grants, run, calls, creating>>

(* enable; the health it asks for is in PluginInstallation.                *)
Enable(i) ==
  /\ rows[i].state \in {"installed", "disabled"}
  /\ rows' = [rows EXCEPT ![i].state = "enabled"]
  /\ UNCHANGED <<grants, run, calls, creating>>

Needs(i) == run.state # "none" /\ \E r \in run.required : r.row = i

(* disable and holdAffectedRuns: a queued run that needs the installation  *)
(* pauses, a running one is asked to stop.                                 *)
Disable(i) ==
  /\ rows[i].state \in {"installed", "enabled"}
  /\ rows' = [rows EXCEPT ![i].state = "disabled"]
  /\ run' = CASE Needs(i) /\ run.state = "queued" -> [run EXCEPT !.state = "paused_plugin"]
              [] Needs(i) /\ run.state = "running" -> [run EXCEPT !.stop = TRUE]
              [] OTHER -> run
  /\ UNCHANGED <<grants, calls, creating>>

Uninstall(i) ==
  /\ rows[i].state # "uninstalled"
  /\ ~(Needs(i) /\ run.state \in {"queued", "running"})
  /\ rows' = [rows EXCEPT ![i].state = "uninstalled"]
  /\ UNCHANGED <<grants, run, calls, creating>>

RequestedScopes ==
  SUBSET [row : 1..MaxRows, tool : {c.tool : c \in Declared}, limit : Limits]

CreateGrant(p, requested) ==
  /\ grants["standing"] = NoGrant
  /\ MayDecide(p)
  /\ Acceptable(p, requested)
  /\ grants' = [grants EXCEPT !["standing"] =
                  [active |-> TRUE, scopes |-> Materialized(requested)]]
  /\ UNCHANGED <<rows, run, calls, creating>>

(* createRun reads the grant it names, if any, and derives one requirement *)
(* after another, each from the installations there are by then; it is     *)
(* refused when an exact Plugin is not installed.                          *)
BeginCreateRun(p) ==
  /\ run.state = "none" /\ creating = Nothing
  /\ \E g \in {grants["standing"], NoGrant} :
       creating' = [stage |-> "deriving", by |-> p, grant |-> g,
                    required |-> {}, unavailable |-> FALSE]
  /\ UNCHANGED <<rows, grants, run, calls>>

DeriveRequirement(q) ==
  /\ creating # Nothing
  /\ ~\E r \in creating.required : r.plugin = q.plugin /\ r.tool = q.tool
  /\ LET r == Requirement(creating.by, q) IN
       creating' = IF r.row = 0 THEN Nothing
                   ELSE [creating EXCEPT !.required = @ \cup {r},
                                         !.unavailable = @ \/ rows[r.row].state # "enabled"]
  /\ UNCHANGED <<rows, grants, run, calls>>

(* The plan is refused when it calls a tool more often than its            *)
(* declaration allows; the transaction then inserts what was derived.      *)
CommitCreateRun(plan) ==
  LET required == creating.required
      queued == creating.grant.active /\ Allows(creating.grant.scopes, required, FALSE)
  IN  /\ creating # Nothing
      /\ \A q \in RequiredPlugins : \E r \in required : r.plugin = q.plugin /\ r.tool = q.tool
      /\ \A r \in required : plan[<<r.plugin, r.tool>>] <= r.limit
      /\ \A k \in DOMAIN plan : plan[k] > 0 =>
           \E r \in required : k = <<r.plugin, r.tool>>
      /\ creating' = Nothing
      /\ run' = [state |-> IF creating.unavailable THEN "paused_plugin"
                           ELSE IF queued THEN "queued" ELSE "awaiting_approval",
                 by |-> creating.by, required |-> required, plan |-> plan,
                 approved |-> FALSE, stop |-> FALSE,
                 grant |-> IF ~creating.unavailable /\ queued THEN "standing" ELSE "none"]
      /\ UNCHANGED <<rows, grants, calls>>

(* approveRun: a grant for this run, in the same transaction.              *)
ApproveRun(p, requested) ==
  /\ run.state = "awaiting_approval"
  /\ MayDecide(p) /\ p.department = run.by.department
  /\ Acceptable(p, requested)
  /\ LET scopes == Materialized(requested) IN
       /\ Covered(run.required, scopes)
       /\ grants' = [grants EXCEPT !["perRun"] = [active |-> TRUE, scopes |-> scopes]]
  /\ run' = [run EXCEPT !.state = "queued", !.grant = "perRun", !.approved = TRUE]
  /\ UNCHANGED <<rows, calls, creating>>

Revoke(g) ==
  /\ grants[g].active
  /\ grants' = [grants EXCEPT ![g].active = FALSE]
  /\ UNCHANGED <<rows, run, calls, creating>>

(* The claim checks the grant again; a run it does not admit waits for a   *)
(* decision.                                                               *)
Claim ==
  /\ run.state = "queued"
  /\ run' = IF Admits(run.grant, run.required, run.approved)
            THEN [run EXCEPT !.state = "running"]
            ELSE [run EXCEPT !.state = "awaiting_approval", !.grant = "none"]
  /\ UNCHANGED <<rows, grants, calls, creating>>

(* assertWorkerPluginAuthorization and the first ledger entry of a call.   *)
Authorized(r) ==
  /\ ~run.stop
  /\ rows[r.row].state = "enabled"
  /\ grants[run.grant].active
  /\ r.approvalRequired => run.approved
  /\ \E s \in grants[run.grant].scopes :
       /\ s.row = r.row /\ s.plugin = r.plugin /\ s.tool = r.tool /\ s.effect = r.effect
       /\ Narrowed(s.limit, r.limit)
       /\ Cardinality({c \in calls : c.requirement = r}) < s.limit

Call(r) ==
  LET made == Cardinality({c \in calls : c.requirement = r}) IN
  /\ run.state = "running"
  /\ made < run.plan[<<r.plugin, r.tool>>]
  /\ IF Authorized(r)
     THEN calls' = calls \cup {[requirement |-> r, n |-> made + 1]} /\ UNCHANGED run
     ELSE run' = [run EXCEPT !.state = "failed"] /\ UNCHANGED calls
  /\ UNCHANGED <<rows, grants, creating>>

Finish ==
  /\ run.state = "running"
  /\ \A r \in run.required :
       Cardinality({c \in calls : c.requirement = r}) = run.plan[<<r.plugin, r.tool>>]
  /\ run' = [run EXCEPT !.state = "succeeded"]
  /\ UNCHANGED <<rows, grants, calls, creating>>

Plans == [{<<c.plugin, c.tool>> : c \in Declared} -> 0..2]

Next ==
  \/ \E v \in Plugins, d \in {"sales", "none"} : Install(v, d)
  \/ \E i \in Rows : Enable(i) \/ Disable(i) \/ Uninstall(i)
  \/ \E p \in Principals, q \in RequestedScopes : CreateGrant(p, q) \/ ApproveRun(p, q)
  \/ \E p \in Principals : BeginCreateRun(p)
  \/ \E q \in RequiredPlugins : DeriveRequirement(q)
  \/ \E plan \in Plans : CommitCreateRun(plan)
  \/ \E g \in DOMAIN grants : Revoke(g)
  \/ Claim
  \/ run.state = "running" /\ \E r \in run.required : Call(r)
  \/ Finish

Spec == Init /\ [][Next]_vars

-----------------------------------------------------------------------------
(* The versions at the end of a chain of pins from the entry.              *)
ChainsFromEntry ==
  {v \in Versions : \E n \in 1..Cardinality(Versions) : \E c \in [1..n -> Versions] :
     c[1] = Entry /\ c[n] = v /\ \A i \in 1..n - 1 : <<c[i], c[i + 1]>> \in Pins}

(* Whatever changed between the grant, the run, its claim and its calls,   *)
(* every call was to a Plugin in the dependency closure of the entry,      *)
(* under a scope of the run's grant for that exact installation and tool,  *)
(* and no tool was called more often than the scope says, nor than its     *)
(* Plugin declares.  (materializePluginScopes, grantBlockers,              *)
(* materializePluginCallPlans; the worker's checks.)                       *)
CallsWithinAuthority ==
  \A c \in calls :
    LET r == c.requirement IN
    /\ \E u \in Uses : u.plugin = r.plugin /\ u.tool = r.tool /\ u.by \in ChainsFromEntry
    /\ r.plugin \in ChainsFromEntry
    /\ rows[r.row].plugin = r.plugin /\ Visible(run.by, r.row)
    /\ \E s \in grants[run.grant].scopes :
         /\ s.row = r.row /\ s.tool = r.tool
         /\ c.n <= s.limit /\ s.limit <= Capability(r.plugin, r.tool).limit

(* No call is made with an effect beyond reading, or that its Plugin marks *)
(* as needing approval, unless a person approved this very run: a standing *)
(* grant does not suffice.  (deriveRunPluginRequirements, grantBlockers.)  *)
EffectsAreApproved ==
  \A c \in calls :
    (c.requirement.effect # "read"
       \/ Capability(c.requirement.plugin, c.requirement.tool).approval = "approval_required")
    => run.approved

(* A run of a department requires the workspace's installation of a Plugin *)
(* only if the department had none of its own, disabled or not, when the   *)
(* requirement was read: an own one that is there was installed while the  *)
(* run was being created, or after.  (deriveRunPluginRequirements.)        *)
NoFallback ==
  run.state # "none" /\ run.by.department # "none" =>
    \A r \in run.required : rows[r.row].department = "none" =>
      \A i \in 1..r.known :
        rows[i].plugin = r.plugin /\ rows[i].department = run.by.department
          => rows[i].state = "uninstalled"

(* A run never starts on the worker, and is never queued, with a           *)
(* requirement outside the scopes of its grant: they are checked when the  *)
(* run is created, when it is approved and when it is claimed.             *)
AdmittedIsCovered ==
  run.state \in {"queued", "running", "succeeded"} =>
    \A r \in run.required : \E s \in grants[run.grant].scopes :
      s.row = r.row /\ s.tool = r.tool /\ s.effect = r.effect

=============================================================================
