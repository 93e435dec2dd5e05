---------------------------- MODULE RequestAccess ----------------------------
(***************************************************************************)
(* The way of an HTTP request through the backend: request context and     *)
(* authentication, the identity directory, the route's parameter check,    *)
(* its role check, the handler, the error handler.  While requests are in  *)
(* flight role bindings are revoked and principals are deactivated.        *)
(*                                                                         *)
(* A route names the operation it runs, whether an identifier in its path  *)
(* is checked, and the role it requires; several paths run the same        *)
(* operation.  Handlers themselves are the actions of the other modules.   *)
(***************************************************************************)
EXTENDS Naturals, FiniteSets

CONSTANTS
  Requests,  \* requests of one caller
  Tested,    \* the operations that are asked for
  Modes,     \* the configured ways of authentication
  None

Roles == <<"consumer", "builder", "owner", "admin">>
Rank(role) == CHOOSE i \in 1 .. 4 : Roles[i] = role

-----------------------------------------------------------------------------
(* The routes, section by section of registration. *)
Any(op)        == [op |-> op, id |-> FALSE, role |-> None]  \* whoever is authenticated
AnyId(op)      == [op |-> op, id |-> TRUE,  role |-> None]
By(op, role)   == [op |-> op, id |-> FALSE, role |-> role]
ById(op, role) == [op |-> op, id |-> TRUE,  role |-> role]
Under(path, R)  == {[op |-> r.op, id |-> r.id, role |-> r.role, path |-> path] : r \in R}

PublicRoutes ==
  {Any("live"), Any("ready"), Any("health"), Any("openapi")}

SessionRoutes == {Any("session"), By("selftest", "owner")}

AuthoringRoutes ==
  {Any("sources.list"), By("interpret", "builder"), By("specs.create", "builder"),
   AnyId("specs.get"), ById("specs.outcomes", "builder"), ById("specs.knowledge", "builder"),
   ById("specs.guardrails", "builder"), ById("specs.outputs", "builder")}

DeploymentRoutes ==
  {ById("generate", "builder"), AnyId("jobs.get"), ById("recover", "builder"),
   ById("shadow", "builder"), AnyId("evaluation")}

LegacyAuthoringRoutes == AuthoringRoutes \union {Any("similarity")}

LegacyDeploymentRoutes == DeploymentRoutes

CertificationRoutes ==
  {AnyId("certification.get"), Any("gates.list"), By("gates.publish", "owner"),
   Any("cases.list"), By("cases.create", "builder"), ById("cases.deactivate", "owner"),
   By("corpus.publish", "owner"), Any("catalog.list"), ById("certification.create", "builder"),
   AnyId("certification.list"), ById("promote", "owner"), ById("retire", "owner"),
   AnyId("catalog.get")}

ReuseRoutes ==
  {Any("roadmaps"), Any("publications.list"), AnyId("publications.get"),
   ById("publications.retire", "owner"), By("intakes.create", "builder"), AnyId("intakes.get"),
   AnyId("choices"), ById("intakes.decide", "builder"), AnyId("drafts.get"),
   Any("deployments.create"), AnyId("deployments.get"), AnyId("deployments.configure"),
   AnyId("lineage")}

PluginRoutes ==
  {Any("plugins.list"), AnyId("plugins.get"), AnyId("plugins.mark"), Any("installations.list"),
   By("install", "admin"), AnyId("installations.get"), ById("configure", "admin"),
   AnyId("health-check"), ById("enable", "admin"), ById("disable", "admin"),
   AnyId("used-by"), ById("uninstall", "admin")}

RegistryRoutes ==
  {Any("attention.list"), Any("attention.resolve"), Any("attention.get"),
   Any("resources.list"), AnyId("resources.get"), By("import", "builder"),
   By("releases.create", "builder"), AnyId("releases.get"), By("evaluate", "builder"),
   AnyId("evaluations.get")}

ChannelRoutes ==
  {Any("channels.get"), By("channels.promote", "owner"), By("channels.decline", "owner"),
   By("channels.rollback", "owner")}

AutomationRoutes ==
  {Any("schedules.due"), Any("schedules.list"), Any("schedules.create"),
   AnyId("schedules.get"), AnyId("schedules.state")}

LearningRoutes ==
  {Any("observations.list"), Any("observations.create"), Any("improvements.list"),
   Any("improvements.create"), ById("improvements.review", "owner"), Any("memory.list"),
   Any("memory.create"), ById("memory.review", "owner")}

ExecutionRoutes ==
  {Any("grants.list"), By("grants.create", "owner"), ById("grants.revoke", "owner"),
   Any("runs.list"), Any("runs.create"), AnyId("runs.get"), By("groups.approve", "owner"),
   By("groups.reject", "owner"), ById("runs.approve", "owner"), ById("runs.reject", "owner"),
   AnyId("runs.cancel"), Any("outcomes.list"), Any("metrics.list")}

Routes ==
  UNION {Under("public", PublicRoutes), Under("v1", SessionRoutes),
         Under("v1/builder", AuthoringRoutes \union DeploymentRoutes),
         Under("agents", LegacyAuthoringRoutes \union LegacyDeploymentRoutes
                           \union CertificationRoutes),
         Under("v1", ReuseRoutes \union PluginRoutes \union RegistryRoutes \union ChannelRoutes
                       \union AutomationRoutes \union LearningRoutes \union ExecutionRoutes)}

(* No answer and no principal is taken for the absence of one.             *)
AccessAssumption ==
  /\ None \notin Nat
  /\ None \notin [who : {"anonymous", "operator", "caller"},
                  roles : SUBSET {Roles[i] : i \in 1 .. 4}]

-----------------------------------------------------------------------------
VARIABLES
  mode,      \* the authentication mode of the process
  bindings,  \* role bindings of the caller that are not revoked
  active,    \* the caller's principal is active
  req,       \* each request: its route, phase, principal, answer
  held       \* what the caller was entitled to when each request was authenticated

vars == <<mode, bindings, active, req, held>>

(* A binding holds in the workspace, in the caller's department or in      *)
(* another one, or only for a project.                                     *)
Bindings == [role : {Roles[i] : i \in 1 .. 4}, scope : {"workspace", "home", "other", "project"}]

Anonymous == [who |-> "anonymous", roles |-> {}]
Fresh     == [phase |-> "none", route |-> None, token |-> None, valid |-> None,
              principal |-> None, status |-> None]

(* Of the bindings of the caller, the ones that count. *)
Entitled == {b.role : b \in {c \in bindings : c.scope \in {"workspace", "home"}}}

Init ==
  /\ mode \in Modes
  /\ \E r \in {Roles[i] : i \in 1 .. 4}, s \in {"workspace", "home", "other", "project"} :
       bindings = {[role |-> r, scope |-> s], [role |-> "consumer", scope |-> "workspace"]}
  /\ active = TRUE
  /\ req = [q \in Requests |-> Fresh]
  /\ held = [q \in Requests |-> {}]

Arrive(q) ==
  /\ req[q].phase = "none"
  /\ \E r \in {x \in Routes : x.op \in Tested}, t \in {"none", "good", "bad"}, v \in BOOLEAN :
       req' = [req EXCEPT ![q] = [@ EXCEPT !.phase = "arrived", !.route = r, !.token = t,
                                            !.valid = v]]
  /\ UNCHANGED <<mode, bindings, active, held>>

Answer(q, status) == req' = [req EXCEPT ![q].phase = "answered", ![q].status = status]
Pass(q, p)        == req' = [req EXCEPT ![q].phase = "authenticated", ![q].principal = p]

(* resolveExternal: one serializable transaction.                          *)
ResolvedRoles == {b.role : b \in {c \in bindings : c.scope \in {"workspace", "home"}}}

Resolve(q) ==
  IF ~active THEN Answer(q, 401)
  ELSE IF ResolvedRoles = {} THEN Answer(q, 403)
  ELSE Pass(q, [who |-> "caller", roles |-> ResolvedRoles])

(* Of the tokens, the ones an adapter accepts: the configured one, one the *)
(* fixture secret signed and that has not expired, one the verifier takes. *)
Accepted(t) == t = "good"

(* createAuthenticationAdapter: what the mode decides about a token.       *)
Operator == [who |-> "operator", roles |-> {"admin"}]
Adapter(q) ==
  IF mode = "local" THEN Pass(q, Operator)
  ELSE IF ~Accepted(req[q].token) THEN Answer(q, 401)
  ELSE IF mode = "static_bearer" THEN Pass(q, Operator)
  ELSE IF mode = "oidc_closed" THEN Answer(q, 503)
  ELSE Resolve(q)

(* requestContextMiddleware: a public route has the anonymous principal,   *)
(* every other one what the mode's adapter decides about the token.        *)
Authenticate(q) ==
  /\ req[q].phase = "arrived"
  /\ IF req[q].route.path = "public" THEN Pass(q, Anonymous) ELSE Adapter(q)
  /\ held' = [held EXCEPT ![q] = IF active THEN Entitled ELSE {}]
  /\ UNCHANGED <<mode, bindings, active>>

(* effectiveRoles: a role includes the ones below it. *)
HasMinimumRole(p, role) == \E r \in p.roles : Rank(r) >= Rank(role)

(* An identifier that is no UUID leaves the route before its role check,   *)
(* and no other route takes it.                                            *)
CheckRoute(q) ==
  /\ req[q].phase = "authenticated"
  /\ LET r == req[q].route IN
     IF r.id /\ ~req[q].valid THEN Answer(q, 404)
     ELSE IF r.role # None /\ ~HasMinimumRole(req[q].principal, r.role) THEN Answer(q, 403)
     ELSE req' = [req EXCEPT ![q].phase = "handling"]
  /\ UNCHANGED <<mode, bindings, active, held>>

(* asyncRoute and the error middleware: whatever the handler throws is     *)
(* answered.                                                               *)
Handlers == {200, 400, 409, 500}

Handle(q) ==
  /\ req[q].phase = "handling"
  /\ \E status \in Handlers : Answer(q, status)
  /\ UNCHANGED <<mode, bindings, active, held>>

Revoke ==
  /\ \E b \in bindings : bindings' = bindings \ {b}
  /\ UNCHANGED <<mode, active, req, held>>

Deactivate == active /\ active' = FALSE /\ UNCHANGED <<mode, bindings, req, held>>

Serve(q) == Authenticate(q) \/ CheckRoute(q) \/ Handle(q)

Next == Revoke \/ Deactivate \/ \E q \in Requests : Arrive(q) \/ Serve(q)

Spec == Init /\ [][Next]_vars

(* The event loop runs every middleware of a request that has arrived.     *)
FairSpec == Spec /\ \A q \in Requests : WF_vars(Serve(q))

-----------------------------------------------------------------------------
Reached(q) == req[q].phase = "handling" \/ req[q].status \in Handlers

(* A handler that requires a role runs only for a caller who was entitled  *)
(* to it when the request was authenticated: by a binding that was not     *)
(* revoked and that holds in the workspace or the caller's own department, *)
(* never by one of another department or of a project.                     *)
ReachedIsEntitled ==
  \A q \in Requests :
    Reached(q) /\ req[q].route.role # None /\ req[q].principal.who = "caller"
      => \E r \in held[q] : Rank(r) >= Rank(req[q].route.role)

(* Two paths to the same operation decide alike: who is refused on one     *)
(* does not get through on the other with the same roles.                  *)
NoWeakerPath ==
  \A q, w \in Requests :
    req[q].status = 403 /\ req[q].principal # None /\ req[w].phase # "none" /\ Reached(w)
      /\ req[q].route.op = req[w].route.op
      => req[q].principal # req[w].principal

(* No request is left without an answer, whatever its handler throws. *)
EveryRequestAnswered == \A q \in Requests : req[q].phase = "arrived" ~> req[q].phase = "answered"
=============================================================================
