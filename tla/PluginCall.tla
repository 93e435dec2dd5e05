----------------------------- MODULE PluginCall -----------------------------
(***************************************************************************)
(* One tool call or health probe through PluginTransportRegistry and the   *)
(* HTTP adapter: limits are narrowed, the input checked, the secret header *)
(* resolved, the addresses of the host checked, redirects followed, and    *)
(* the answer checked, while a timer or the caller may abort.              *)
(***************************************************************************)
EXTENDS Naturals, Sequences

CONSTANTS
  MaxLimit,      \* limits and sizes are 0 .. MaxLimit + 1
  MaxRedirects,  \* 3 in callTool
  Undefined      \* an absent optional limit

CallAssumption == MaxLimit \in Nat /\ MaxRedirects \in Nat /\ Undefined \notin Nat

LimitKeys == {"maxResponseBytes", "maxRecords"}
Sizes     == 0 .. MaxLimit + 1
Home      == [scheme |-> "https", host |-> "api"]
Urls      == {Home, [scheme |-> "http", host |-> "api"], [scheme |-> "https", host |-> "cdn"]}

VARIABLES
  mode,        \* "call" or "probe"
  declared,    \* limits of the tool
  authorized,  \* limits of the granted scope
  plugin,      \* state of the installation
  bound,       \* the secret slot has a binding that resolves
  stage, url, hops, aborted,
  requests,    \* history: the requests made: where to, and with the secret or not
  result,      \* "none", "output", a probe status or an error code
  out          \* the answer behind an output

config == <<mode, declared, authorized, plugin, bound>>
vars   == <<config, stage, url, hops, aborted, requests, result, out>>

Limits == {l \in [LimitKeys -> 0 .. MaxLimit \cup {Undefined}] : l["maxResponseBytes"] # Undefined}

TypeOK ==
  /\ mode \in {"call", "probe"} /\ declared \in Limits /\ authorized \in Limits /\ bound \in BOOLEAN
  /\ plugin \in {"installed", "enabled", "degraded", "disabled"}
  /\ stage \in {"start", "secret", "connect", "sent", "done"} /\ url \in Urls /\ hops \in 0 .. MaxRedirects
  /\ aborted \in BOOLEAN /\ (stage = "done" <=> result # "none")

Init ==
  /\ mode \in {"call", "probe"} /\ declared \in Limits /\ authorized \in Limits /\ bound \in BOOLEAN
  /\ plugin \in {"installed", "enabled", "degraded", "disabled"}
  /\ stage = "start" /\ url = Home /\ hops = 0 /\ aborted = FALSE
  /\ requests = << >> /\ result = "none" /\ out = [bytes |-> 0, records |-> 0, valid |-> FALSE]

-----------------------------------------------------------------------------
(* assertScopeNarrowsTool: no limit is raised, none is added. *)
Narrows ==
  \A k \in LimitKeys : authorized[k] # Undefined => declared[k] # Undefined /\ authorized[k] <= declared[k]

Effective(k) == IF authorized[k] # Undefined THEN authorized[k] ELSE declared[k]

Within(size, limit) == limit = Undefined \/ size <= limit

Finish(r) == stage' = "done" /\ result' = r

Quiet == UNCHANGED <<config, aborted, out>>

(* assertDefinition: a probe may also look at an installation that is not  *)
(* enabled yet.                                                            *)
Usable == IF mode = "probe" THEN plugin # "disabled" ELSE plugin = "enabled"

(* callTool and probe up to the first await. *)
Start ==
  /\ stage = "start"
  /\ \/ ~Usable /\ Finish("PLUGIN_DISABLED")
     \/ Usable /\ mode = "call" /\ ~Narrows /\ Finish("PLUGIN_LIMIT_ESCALATION")
     \/ Usable /\ mode = "call" /\ Narrows /\ Finish("PLUGIN_INPUT_SCHEMA_INVALID")
     \/ Usable /\ mode = "call" /\ Narrows /\ (\E n \in Sizes : n > Effective("maxResponseBytes")) /\ Finish("PLUGIN_INPUT_LIMIT_EXCEEDED")
     \/ Usable /\ (mode = "call" => Narrows) /\ stage' = "secret" /\ UNCHANGED result
  /\ UNCHANGED <<url, hops, requests>> /\ Quiet

(* EnvironmentPluginSecretResolver.resolve, for each secret header. *)
ResolveSecret ==
  /\ stage = "secret"
  /\ \/ aborted /\ Finish("PLUGIN_CALL_CANCELLED")
     \/ ~aborted /\ ~bound /\ Finish("PLUGIN_SECRET_BINDING_MISSING")
     \/ ~aborted /\ bound /\ stage' = "connect" /\ UNCHANGED result
  /\ UNCHANGED <<url, hops, requests>> /\ Quiet

(* A request error of a probe is a finding, not a failure, unless aborted. *)
RequestFails(code) == Finish(IF mode = "probe" /\ ~aborted THEN "unavailable" ELSE code)

(* The loop head of callTool and defaultHttpRequester up to the request:   *)
(* every resolved address must be public.                                  *)
Connect ==
  /\ stage = "connect"
  /\ \/ aborted /\ Finish("PLUGIN_CALL_CANCELLED") /\ UNCHANGED requests
     \/ ~aborted /\ RequestFails("PLUGIN_HTTP_ADDRESS_FORBIDDEN") /\ UNCHANGED requests
     \/ /\ ~aborted /\ stage' = "sent" /\ UNCHANGED result
        /\ requests' = Append(requests, [url |-> url, secret |-> TRUE])
  /\ UNCHANGED <<url, hops>> /\ Quiet

MutantRedirectAllowed(to) == to.scheme = "https"

(* A redirect stays on the origin and under the allowed hosts. *)
RedirectAllowed(to) == to.scheme = "https" /\ to = Home /\ hops < MaxRedirects

FollowRedirect(to) ==
  /\ stage = "sent" /\ mode = "call" /\ ~aborted
  /\ \/ RedirectAllowed(to) /\ hops' = hops + 1 /\ url' = to /\ stage' = "connect" /\ UNCHANGED result
     \/ ~RedirectAllowed(to) /\ Finish("PLUGIN_HTTP_REDIRECT_FORBIDDEN") /\ UNCHANGED <<hops, url>>
  /\ UNCHANGED requests /\ Quiet

(* The answer of a call: bytes while reading, then schema and records. *)
Accepts(o) ==
  Within(o.bytes, Effective("maxResponseBytes")) /\ o.valid /\ Within(o.records, Effective("maxRecords"))

Answer(o) ==
  /\ stage = "sent" /\ mode = "call" /\ ~aborted
  /\ IF Accepts(o) THEN Finish("output") /\ out' = o ELSE Finish("PLUGIN_OUTPUT_INVALID") /\ UNCHANGED out
  /\ UNCHANGED <<config, aborted, url, hops, requests>>

Refuse ==
  /\ stage = "sent" /\ ~aborted
  /\ RequestFails("PLUGIN_HTTP_DEPENDENCY_UNAVAILABLE") /\ UNCHANGED <<url, hops, requests>> /\ Quiet

ProbeAnswer(expected) ==
  /\ stage = "sent" /\ mode = "probe" /\ ~aborted
  /\ Finish(IF expected THEN "healthy" ELSE "degraded") /\ UNCHANGED <<url, hops, requests>> /\ Quiet

(* The signal ends the request that is under way. *)
AbortedCall ==
  /\ stage = "sent" /\ aborted
  /\ Finish("PLUGIN_TIMEOUT") /\ UNCHANGED <<url, hops, requests>> /\ Quiet

(* The timer of the registry, or the caller's signal. *)
Abort ==
  /\ stage # "done" /\ ~aborted /\ aborted' = TRUE
  /\ UNCHANGED <<config, stage, url, hops, requests, result, out>>

Network ==
  \/ \E to \in Urls : FollowRedirect(to)
  \/ \E o \in [bytes : Sizes, records : Sizes, valid : BOOLEAN] : Answer(o)
  \/ \E e \in BOOLEAN : ProbeAnswer(e)
  \/ Refuse

Process == Start \/ ResolveSecret \/ Connect \/ AbortedCall

Next == Process \/ Network \/ Abort

(* The process runs and its timer fires; no answer is assumed. *)
Spec == Init /\ [][Next]_vars /\ WF_vars(Process) /\ WF_vars(Abort)

-----------------------------------------------------------------------------
(* Properties.                                                             *)

(* What a call returns is valid and within every limit that the tool or    *)
(* the grant states, the narrower one where both do (callTool).            *)
OutputWithinLimits ==
  result = "output" =>
    /\ out.valid
    /\ \A l \in {declared, authorized} : Within(out.bytes, l["maxResponseBytes"]) /\ Within(out.records, l["maxRecords"])

(* The secret header goes to the governed origin only, also after          *)
(* redirects (redirected.origin, assertAllowedHttpUrl).                    *)
SecretsStayHome == \A i \in DOMAIN requests : requests[i].secret => requests[i].url = Home

(* A call makes at most one request more than the redirects it may follow. *)
BoundedRequests == Len(requests) <= MaxRedirects + 1

(* Every call and every probe ends, whether or not the service answers:    *)
(* the registry's timer bounds it.                                         *)
CallEnds == <>(stage = "done")
=============================================================================
