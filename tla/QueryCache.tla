------------------------------ MODULE QueryCache ------------------------------
(***************************************************************************)
(* What the browser shows of the server: the query cache that              *)
(* apps/frontend/src/api/hooks.ts builds on TanStack Query, the request    *)
(* function of client.ts under it, and the Attention page, which decides   *)
(* on what the cache shows.                                                *)
(*                                                                         *)
(* A query is named by the first element of its key.  The server's content *)
(* for it is a version that grows; what a request answers is the version   *)
(* the server had when it handled the request, which may be older than     *)
(* what the server has when the answer arrives.  An infinite query is as   *)
(* old as its oldest page.                                                 *)
(***************************************************************************)
EXTENDS Integers, FiniteSets

CONSTANTS
  Keys,         \* the queries mounted on the screen
  Ops,          \* the mutations the user may start
  Terminal,     \* a job that has this version or a later one has ended
  MaxVersion,   \* bound on the version of a query
  MaxPages,     \* how many pages an infinite query has
  MaxFailures   \* bound on the requests that fail

BoundsAssumption ==
  /\ Terminal \in Nat /\ MaxVersion \in Nat /\ Terminal <= MaxVersion
  /\ MaxPages \in Nat /\ MaxFailures \in Nat

VARIABLES
  server,       \* [Keys -> version]
  q,            \* [Keys -> the state of a query in the cache]
  mutation,     \* [Ops -> the state of a mutation]
  terminalSeen, \* invalidatedTerminalRuns holds the certification run
  pending,      \* the decision whose dialog is open on the Attention page
  failedClosed, \* queueFailedClosed
  due,          \* history: the version the hooks owe the screen
  ended,        \* history: what the end of the certification wrote
  failures

vars == <<server, q, mutation, terminalSeen, pending, failedClosed, due, ended, failures>>

NoData == -1
Versions == 0..MaxVersion
Idle == [phase |-> "idle", wrote |-> [k \in {} |-> 0]]

Init ==
  /\ server = [k \in Keys |-> 0]
  /\ q = [k \in Keys |-> [data |-> NoData, status |-> "pending",
                          phase |-> "sent", got |-> NoData, tries |-> 0, pages |-> 1]]
  /\ mutation = [o \in Ops |-> Idle]
  /\ terminalSeen = FALSE
  /\ pending = "none"
  /\ failedClosed = FALSE
  /\ due = [k \in Keys |-> NoData] /\ ended = due
  /\ failures = 0

-----------------------------------------------------------------------------
(* The hooks: what each mutation invalidates when the server reports that  *)
(* it succeeded, and which queries refresh by themselves.                  *)

PluginMutations ==
  [o \in {"install", "configure", "checkHealth", "setState", "uninstall"} |->
     {"plugins", "plugin-installations", "plugin-used-by", "attention"}]

QueueMutations == [resolveItem |-> {"attention", "attention-item"}]

ReviewMutations ==
  [scheduleState     |-> {"automation-schedules"},
   rollbackRelease   |-> {"production-channel", "attention"},
   reviewImprovement |-> {"improvement-candidates", "attention"},
   reviewMemory      |-> {"memory-candidates", "attention"}]

RunMutations ==
  [approveRun   |-> {"execution-runs", "authority-grants", "attention"},
   approveGroup |-> {"execution-runs", "authority-grants", "attention"},
   rejectRun    |-> {"attention", "execution-runs"},
   rejectGroup  |-> {"attention", "execution-runs"},
   cancelRun    |-> {"execution-runs"},
   revokeGrant  |-> {"authority-grants"}]

ReleaseMutations ==
  [promoteRelease |-> {"attention", "production-channel", "platform-resources"},
   declineRelease |-> {"attention", "production-channel"}]

AgentMutations ==
  [startCertification |-> {"certification-runs", "agent"},
   promoteAgent |-> {"agent", "certification-runs", "certification-run",
                     "agent-family-versions", "agent-catalog"}]

OpsAssumption ==
  Ops \subseteq DOMAIN PluginMutations \cup DOMAIN QueueMutations \cup DOMAIN ReviewMutations
       \cup DOMAIN RunMutations \cup DOMAIN ReleaseMutations \cup DOMAIN AgentMutations

Invalidates(o) ==
  Keys \cap
  CASE o \in DOMAIN PluginMutations  -> PluginMutations[o]
    [] o \in DOMAIN QueueMutations   -> QueueMutations[o]
    [] o \in DOMAIN ReviewMutations  -> ReviewMutations[o]
    [] o \in DOMAIN RunMutations     -> RunMutations[o]
    [] o \in DOMAIN ReleaseMutations -> ReleaseMutations[o]
    [] o \in DOMAIN AgentMutations   -> AgentMutations[o]

(* The tables the server writes for each of them, in the transaction of    *)
(* the request.  A Plugin that fails, is reconfigured or is disabled holds *)
(* runs; a grant that is revoked sends runs back to their approval.        *)
PluginWrites ==
  [install     |-> {"installation"},
   configure   |-> {"installation", "run"},
   checkHealth |-> {"installation", "run"},
   setState    |-> {"installation", "run"},
   uninstall   |-> {"installation"}]

QueueWrites == [resolveItem |-> {"resolution"}]

ReviewWrites ==
  [scheduleState     |-> {"schedule"},
   rollbackRelease   |-> {"channel", "decision", "publication"},
   reviewImprovement |-> {"improvement"},
   reviewMemory      |-> {"memory"}]

RunWrites ==
  [approveRun   |-> {"run", "approval", "grant"},
   approveGroup |-> {"run", "approval", "grant"},
   rejectRun    |-> {"run", "approval"},
   rejectGroup  |-> {"run", "approval"},
   cancelRun    |-> {"run", "approval"},
   revokeGrant  |-> {"run", "approval", "grant"}]

ReleaseWrites ==
  [promoteRelease |-> {"channel", "decision", "publication"},
   declineRelease |-> {"decision"}]

AgentWrites ==
  [startCertification |-> {"agent", "certification"},
   promoteAgent       |-> {"agent", "certification"}]

Writes(o) ==
  CASE o \in DOMAIN PluginWrites  -> PluginWrites[o]
    [] o \in DOMAIN QueueWrites   -> QueueWrites[o]
    [] o \in DOMAIN ReviewWrites  -> ReviewWrites[o]
    [] o \in DOMAIN RunWrites     -> RunWrites[o]
    [] o \in DOMAIN ReleaseWrites -> ReleaseWrites[o]
    [] o \in DOMAIN AgentWrites   -> AgentWrites[o]

(* Which queries answer from a table.  The queue is made of everything     *)
(* that waits for a person or is degraded; the catalog of Plugins shows    *)
(* the scopes of active grants, where a Plugin is used shows the releases  *)
(* in production, and a certification run says whether its agent may still *)
(* be promoted.                                                            *)
Queue == {"attention", "attention-item"}

ShownBy ==
  [run           |-> {"execution-runs", "execution-run"} \cup Queue,
   approval      |-> Queue,
   grant         |-> {"authority-grants", "plugins"},
   installation  |-> {"plugins", "plugin-installations"} \cup Queue,
   resolution    |-> Queue,
   schedule      |-> {"automation-schedules"},
   channel       |-> {"production-channel", "plugin-used-by"} \cup Queue,
   decision      |-> Queue,
   publication   |-> {"catalog-publications"},
   improvement   |-> {"improvement-candidates"} \cup Queue,
   memory        |-> {"memory-candidates"} \cup Queue,
   agent         |-> {"agent", "agents", "agent-catalog", "agent-family-versions",
                      "certification-run"},
   certification |-> {"certification-run", "certification-runs"}]

Touches(o) == Keys \cap UNION {ShownBy[t] : t \in Writes(o)}

(* What a mutation changes and its hook leaves as it was: no hook          *)
(* invalidates the detail of a run, the agents of the search or the        *)
(* published catalog, only an acknowledgement invalidates the detail of an *)
(* item, a promoted release does not invalidate where a Plugin is used,    *)
(* and a certification that starts does not invalidate the lists of agents *)
(* or the run on the screen.                                               *)
NeverInvalidated == {"execution-run", "agents", "catalog-publications"}

Unrefreshed(o) ==
  NeverInvalidated
  \cup (IF o = "resolveItem" THEN {} ELSE {"attention-item"})
  \cup (IF o \in {"promoteRelease", "rollbackRelease"} THEN {"plugin-used-by"} ELSE {})
  \cup (IF o = "startCertification"
        THEN {"agent-catalog", "agent-family-versions", "certification-run"} ELSE {})

(* What the useEffect of useCertificationRun invalidates, once per run.    *)
TerminalKeys ==
  Keys \cap {"certification-runs", "agent", "agent-family-versions", "agent-catalog"}

(* What the transaction that ends a certification writes.                  *)
EndWrites == Keys \cap (ShownBy.certification \cup ShownBy.agent)

(* Queries of a job.                                                       *)
JobKeys == {"generation-job", "evaluation", "certification-run"}

AlwaysPolled == {"plugins", "automation-schedules", "authority-grants", "execution-runs"}

(* refetchInterval is not false.                                           *)
Polled(k) ==
  \/ k \in AlwaysPolled
  \/ k = "attention" /\ q[k].status # "error"
  \/ k \in {"generation-job", "evaluation"} /\ q[k].status # "error"
                                            /\ q[k].data < Terminal
  \/ k = "certification-run" /\ q[k].data \in 0..Terminal - 1

(* useInfiniteQuery. *)
Paged == {"agent-catalog", "agent-family-versions", "certification-run", "certification-runs"}

(* How often a failed request is sent again before the query is an error.  *)
Retries(k) ==
  CASE k \in {"attention", "health"} -> 0
    [] k = "generation-job" -> 3
    [] OTHER -> 2

-----------------------------------------------------------------------------
(* The query client.                                                       *)

(* A new request of a query.  An error without data becomes pending again, *)
(* one with data stays an error until a request succeeds.                  *)
Asked(s) ==
  [s EXCEPT !.phase = "sent", !.got = NoData, !.tries = 0,
            !.status = IF s.data = NoData THEN "pending" ELSE @]

(* invalidateQueries: a mounted query is asked again, and a request that   *)
(* is under way is cancelled, so that its answer is dropped.  Only the     *)
(* first load is not: as long as a query has no data its request goes on,  *)
(* and its answer counts as new.                                           *)
InvalidateQueries(ks) ==
  [k \in Keys |-> IF k \in ks /\ (q[k].data # NoData \/ q[k].phase = "idle")
                 THEN Asked(q[k]) ELSE q[k]]

(* What the hooks owe a query for which the server wrote version v; a      *)
(* first load that was answered with an older one is not repeated.         *)
AnsweredBefore(k, v) == q[k].data = NoData /\ q[k].phase = "read" /\ q[k].got < v
Owed(k, v) == IF v > due[k] /\ ~AnsweredBefore(k, v) THEN v ELSE due[k]

(* refetchInterval fires, or the component mounts again after staleTime.   *)
Refetch(k) ==
  /\ q[k].phase = "idle"
  /\ q' = [q EXCEPT ![k] = Asked(@)]
  /\ UNCHANGED <<server, mutation, terminalSeen, pending, failedClosed, due, ended, failures>>

Interval(k) == Polled(k) /\ Refetch(k)
Remount(k) == ~Polled(k) /\ Refetch(k)

(* "Load more" of an infinite query: the next page is fetched in place of  *)
(* a request that is under way, the refetch of an invalidation included;   *)
(* what is shown stays, and with the page it counts as new.                *)
FetchNextPage(k) ==
  /\ k \in Paged
  /\ q[k].data # NoData /\ q[k].phase # "page"
  /\ q[k].pages < MaxPages
  /\ q' = [q EXCEPT ![k].phase = "page", ![k].got = NoData, ![k].tries = 0]
  /\ due' = [due EXCEPT ![k] = NoData]
  /\ UNCHANGED <<server, mutation, terminalSeen, pending, failedClosed, ended, failures>>

PageAnswer(k) ==
  /\ q[k].phase = "page"
  /\ q' = [q EXCEPT ![k].phase = "idle", ![k].status = "success", ![k].pages = @ + 1]
  /\ UNCHANGED <<server, mutation, terminalSeen, pending, failedClosed, due, ended, failures>>

(* The server handles a request.                                           *)
ServerReads(k) ==
  /\ q[k].phase = "sent"
  /\ q' = [q EXCEPT ![k].phase = "read", ![k].got = server[k]]
  /\ UNCHANGED <<server, mutation, terminalSeen, pending, failedClosed, due, ended, failures>>

(* request() resolves with a body that satisfies its schema.  The          *)
(* Attention page opens again with the first answer after a failure.       *)
Answer(k) ==
  /\ q[k].phase = "read"
  /\ q' = [q EXCEPT ![k].data = q[k].got, ![k].phase = "idle", ![k].status = "success"]
  /\ failedClosed' = IF k = "attention" THEN FALSE ELSE failedClosed
  /\ UNCHANGED <<server, mutation, terminalSeen, pending, due, ended, failures>>

(* request() rejects: the network, a status that is not ok, a body that is *)
(* not JSON or does not satisfy the schema, or, for the attention query,   *)
(* eight seconds without an answer.  With no attempt left the query is an  *)
(* error, and for attention the page closes the dialog that is open.       *)
RequestFails(k) ==
  /\ failures < MaxFailures
  /\ q[k].phase # "idle"
  /\ failures' = failures + 1
  /\ IF q[k].tries < Retries(k)
     THEN /\ q' = [q EXCEPT ![k].phase = IF @ = "page" THEN "page" ELSE "sent",
                            ![k].tries = @ + 1]
          /\ UNCHANGED <<pending, failedClosed>>
     ELSE /\ q' = [q EXCEPT ![k].phase = "idle", ![k].status = "error"]
          /\ failedClosed' = (failedClosed \/ k = "attention")
          /\ pending' = IF k = "attention" THEN "none" ELSE pending
  /\ UNCHANGED <<server, mutation, terminalSeen, due, ended>>

-----------------------------------------------------------------------------
(* The user and the server.                                                *)

(* openAction: a card of the queue opens its dialog.                       *)
DialogOps == {"rejectGroup", "promoteRelease", "declineRelease", "reviewMemory",
              "reviewImprovement", "cancelRun", "resolveItem"}

OpenAction(o) ==
  /\ o \in DialogOps
  /\ pending = "none"
  /\ "attention" \in Keys
  /\ q["attention"].status # "error" /\ ~failedClosed
  /\ q["attention"].data # NoData
  /\ pending' = o
  /\ UNCHANGED <<server, q, mutation, terminalSeen, failedClosed, due, ended, failures>>

(* mutate: the request leaves; confirmDecision for the ones of a dialog.   *)
(* A version is promoted on a certification that has ended.                *)
Start(o) ==
  /\ mutation[o].phase = "idle"
  /\ o = "promoteAgent" => terminalSeen
  /\ o \in DialogOps => pending = o
  /\ \A k \in Touches(o) : server[k] < MaxVersion
  /\ mutation' = [mutation EXCEPT ![o].phase = "sent"]
  /\ UNCHANGED <<server, q, terminalSeen, pending, failedClosed, due, ended, failures>>

(* The server commits it.  A certification starts only when the one on the *)
(* screen has ended.                                                       *)
Apply(o) ==
  /\ mutation[o].phase = "sent"
  /\ o = "startCertification" /\ "certification-run" \in Keys =>
       server["certification-run"] >= Terminal
  /\ \A k \in Touches(o) : server[k] < MaxVersion
  /\ server' = [k \in Keys |-> IF k \in Touches(o) THEN server[k] + 1 ELSE server[k]]
  /\ mutation' = [mutation EXCEPT ![o] =
       [phase |-> "applied", wrote |-> [k \in Touches(o) |-> server[k] + 1]]]
  /\ UNCHANGED <<q, terminalSeen, pending, failedClosed, due, ended, failures>>

(* onSuccess: the queries are invalidated and the dialog closes.           *)
Succeed(o) ==
  /\ mutation[o].phase = "applied"
  /\ q' = InvalidateQueries(Invalidates(o))
  /\ due' = [k \in Keys |-> IF k \in Touches(o) \ Unrefreshed(o)
                            THEN Owed(k, mutation[o].wrote[k]) ELSE due[k]]
  /\ pending' = IF o \in DialogOps THEN "none" ELSE pending
  /\ mutation' = [mutation EXCEPT ![o] = Idle]
  /\ UNCHANGED <<server, terminalSeen, failedClosed, ended, failures>>

(* The answer of the mutation is lost, or the server refuses it: onSuccess *)
(* does not run, no query is invalidated, and mutations are not retried.   *)
MutationFails(o) ==
  /\ failures < MaxFailures
  /\ mutation[o].phase # "idle"
  /\ failures' = failures + 1
  /\ mutation' = [mutation EXCEPT ![o] = Idle]
  /\ UNCHANGED <<server, q, terminalSeen, pending, failedClosed, due, ended>>

(* The useEffect of useCertificationRun, in the render that shows the run  *)
(* ended for the first time.                                               *)
TerminalEffect ==
  /\ "certification-run" \in Keys
  /\ q["certification-run"].data >= Terminal
  /\ ~terminalSeen
  /\ terminalSeen' = TRUE
  /\ q' = InvalidateQueries(TerminalKeys)
  /\ due' = [k \in Keys |-> IF k \in EndWrites \ NeverInvalidated
                            THEN Owed(k, ended[k]) ELSE due[k]]
  /\ UNCHANGED <<server, mutation, pending, failedClosed, ended, failures>>

(* Others write.  The end of a certification also writes the version, its  *)
(* history and the catalog entry, in the same transaction.                 *)
OthersWrite(k) ==
  /\ server[k] < IF k \in JobKeys THEN Terminal ELSE MaxVersion
  /\ LET ends == k = "certification-run" /\ server[k] + 1 = Terminal
         writes == IF ends THEN EndWrites ELSE {k}
     IN  /\ \A x \in writes : server[x] < MaxVersion
         /\ server' = [x \in Keys |-> IF x \in writes THEN server[x] + 1 ELSE server[x]]
         /\ ended' = IF ends THEN server' ELSE ended
  /\ UNCHANGED <<q, mutation, terminalSeen, pending, failedClosed, due, failures>>

Next ==
  \/ \E k \in Keys : Interval(k) \/ Remount(k) \/ ServerReads(k) \/ Answer(k)
                     \/ FetchNextPage(k) \/ PageAnswer(k) \/ RequestFails(k) \/ OthersWrite(k)
  \/ \E o \in Ops : OpenAction(o) \/ Start(o) \/ Apply(o) \/ Succeed(o) \/ MutationFails(o)
  \/ TerminalEffect

(* The browser's timers and the network move; nobody has to click, and a   *)
(* component does not have to mount again.                                 *)
Fairness ==
  /\ \A k \in Keys : /\ WF_vars(Interval(k)) /\ WF_vars(ServerReads(k))
                     /\ WF_vars(Answer(k)) /\ WF_vars(PageAnswer(k))
  /\ \A o \in Ops : WF_vars(Apply(o)) /\ WF_vars(Succeed(o))
  /\ WF_vars(TerminalEffect)

Spec == Init /\ [][Next]_vars
FairSpec == Spec /\ Fairness

-----------------------------------------------------------------------------
(* Once a mutation was reported to the user, and for the end of a          *)
(* certification once the screen showed it, no query that its hook         *)
(* refreshes or that is polled settles on an older version of what the     *)
(* mutation changed: it is being asked again, is polled, or shows an       *)
(* error.  A request that the server had already answered with the older   *)
(* version does not land over it.  (hooks.ts: every onSuccess, and         *)
(* useCertificationRun.)  Three things may leave the older version on the  *)
(* screen: the hook does not invalidate the query (Unrefreshed), the first *)
(* load of the query had been answered before (AnsweredBefore), or the     *)
(* user loads another page while it is asked again (FetchNextPage).        *)
OwnWriteShown ==
  \A k \in Keys :
    q[k].data < due[k] => q[k].phase # "idle" \/ q[k].status = "error" \/ Polled(k)

(* A decision is never open, and so never sent, while the last request of  *)
(* the queue failed: AttentionPage.tsx closes the dialog with the failure, *)
(* and opens none before an answer arrived.                                *)
QueueFailsClosed ==
  pending # "none" => q["attention"].status = "success" /\ ~failedClosed

(* What a query shows catches up with the server: the ones with an         *)
(* interval are asked again until they show what the server has, an ended  *)
(* job included, unless the query stopped on an error.  Certification      *)
(* polling goes on through errors once it has data.                        *)
PolledCatchesUp ==
  \A k \in Keys \cap (JobKeys \cup AlwaysPolled \cup {"attention"}) :
    []<>(\/ q[k].data = server[k] \/ (k \in JobKeys /\ q[k].data >= Terminal)
         \/ (q[k].status = "error" /\ ~Polled(k)))

=============================================================================
