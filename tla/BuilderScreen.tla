---------------------------- MODULE BuilderScreen ----------------------------
(***************************************************************************)
(* The Build page (apps/frontend/src/App.tsx): a prompt is interpreted or  *)
(* a scope is written, an intake asks for reusable agents, a decision is   *)
(* recorded for the intake, and a draft specification is created and       *)
(* filled.  The five requests overlap, each may fail, and the callbacks of *)
(* a request see the state of the render that sent it.                     *)
(*                                                                         *)
(* A scope (OutcomesSection) is <<"user", n>> when a person wrote it and   *)
(* <<"interpreted", n>> when interpretation n proposed it.                 *)
(***************************************************************************)
EXTENDS Naturals, Sequences

CONSTANTS
  None,
  MaxInterpretations, \* bound on interpreted prompts
  MaxScopes,          \* bound on the scopes a person writes
  MaxIntakes,         \* bound on intakes
  MaxDecisions,       \* bound on the decision dialogs opened
  MaxFailures         \* bound on requests that fail or whose answer is lost

BoundsAssumption ==
  {MaxInterpretations, MaxScopes, MaxIntakes, MaxDecisions, MaxFailures} \subseteq Nat

VARIABLES
  interpretation,  \* [kind, id]
  reviewed,        \* reviewedInterpretationId, 0 when null
  outcomes,        \* pendingOutcomes
  intake,          \* the intake in the URL, 0 when there is none
  intakes,         \* server: Seq of [confirmed, key], key 0 until decided
  dialog,          \* the scope or section dialog that is open, or "none"
  deciding,        \* idempotency key of pendingDecision, 0 when null
  keys,            \* the idempotency keys drawn
  request,         \* what is in flight, by mutation
  drafts,          \* server: Seq of the specifications created
  spec,            \* the specification in the URL is loaded
  done,            \* its completed sections
  saved,           \* history: the scopes a person saved, with the interpretation shown
  scopes, failures,
  lost             \* history: drafts created whose answer was lost

page == <<interpretation, reviewed, outcomes>>
server == <<intakes, drafts>>
draftVars == <<spec, done>>
history == <<saved, scopes, failures, lost>>
vars == <<page, server, draftVars, history, intake, dialog, deciding, keys, request>>

Mutations == {"interpret", "intake", "decision", "create", "section"}

(* The section that unlocks each section after the first.                  *)
Preceding == [knowledge |-> "outcomes", guardrails |-> "knowledge", outputs |-> "guardrails"]

(* The page starts empty, or with the intake of an earlier visit in its    *)
(* URL; what was typed in that visit is gone.                              *)
Init ==
  /\ interpretation = [kind |-> "none", id |-> 0]
  /\ reviewed = 0 /\ outcomes = None
  /\ \/ intake = 0 /\ intakes = <<>>
     \/ intake = 1 /\ \E c \in BOOLEAN : intakes = <<[confirmed |-> c, key |-> 0]>>
  /\ dialog = "none" /\ deciding = 0 /\ keys = 0
  /\ request = [m \in Mutations |-> None]
  /\ drafts = <<>> /\ spec = FALSE /\ done = {}
  /\ saved = {} /\ scopes = 0 /\ failures = 0 /\ lost = 0

Idle(m) == request[m] = None
Send(m, payload) == request' = [request EXCEPT ![m] = payload]
NoDialog == dialog = "none" /\ deciding = 0

(* The state of the page that a callback closes over.                      *)
Closure == [interpretation |-> interpretation, reviewed |-> reviewed,
            outcomes |-> outcomes, spec |-> spec, intake |-> intake, key |-> deciding]

(* The gate of submitDecision and createDraft.                             *)
ScopeReviewed(c) == c.interpretation.kind = "prefill" => c.reviewed = c.interpretation.id

-----------------------------------------------------------------------------
(* The single-shot panel.                                                  *)

InterpretPrompt ==
  /\ NoDialog /\ Idle("interpret") /\ interpretation.id < MaxInterpretations
  /\ Send("interpret", interpretation.id + 1)
  /\ UNCHANGED <<page, server, draftVars, history, intake, dialog, deciding, keys>>

(* acceptInterpretation: a proposed scope becomes the pending one unless   *)
(* the specification already has its scope, and an unconfirmed intake is   *)
(* asked for.  A later createIntake takes the callbacks of an earlier one. *)
AcceptInterpretation(kind) ==
  LET n == request["interpret"] IN
  /\ ~Idle("interpret")
  /\ interpretation' = [kind |-> kind, id |-> n]
  /\ reviewed' = 0
  /\ IF kind = "prefill"
     THEN /\ outcomes' = IF "outcomes" \in done THEN outcomes ELSE <<"interpreted", n>>
          /\ request' = [request EXCEPT !["interpret"] = None,
                                        !["intake"] = [confirmed |-> FALSE]]
     ELSE Send("interpret", None) /\ UNCHANGED outcomes
  /\ UNCHANGED <<server, draftVars, history, intake, dialog, deciding, keys>>

-----------------------------------------------------------------------------
(* The scope, and the intake it asks for.                                  *)

OpenScope ==
  /\ NoDialog /\ dialog' = "scope"
  /\ UNCHANGED <<page, server, draftVars, history, intake, deciding, keys, request>>

(* searchScope: the person saves the scope that is shown, or one of their  *)
(* own; with a specification it is also written to its first section.      *)
SearchScope(scope) ==
  /\ dialog = "scope"
  /\ Idle("intake") /\ Idle("section")
  /\ outcomes' = scope
  /\ saved' = saved \cup {[scope |-> scope,
       under |-> IF interpretation.kind = "prefill" THEN interpretation.id ELSE 0]}
  /\ reviewed' = IF interpretation.kind = "prefill" THEN interpretation.id ELSE reviewed
  /\ scopes' = IF scope = <<"user", scopes + 1>> THEN scopes + 1 ELSE scopes
  /\ request' = [request EXCEPT !["intake"] = [confirmed |-> TRUE],
                                !["section"] = IF spec THEN "outcomes" ELSE None]
  /\ dialog' = IF spec THEN dialog ELSE "none"
  /\ UNCHANGED <<interpretation, server, draftVars, failures, lost, intake, deciding, keys>>

SaveScope ==
  \/ outcomes # None /\ SearchScope(outcomes)
  \/ scopes < MaxScopes /\ SearchScope(<<"user", scopes + 1>>)

(* submitIntake succeeds: the new intake replaces the one in the URL.      *)
IntakeCreated ==
  /\ ~Idle("intake") /\ Len(intakes) < MaxIntakes
  /\ intakes' = Append(intakes, [confirmed |-> request["intake"].confirmed, key |-> 0])
  /\ intake' = Len(intakes')
  /\ Send("intake", None)
  /\ UNCHANGED <<page, drafts, draftVars, history, dialog, deciding, keys>>

-----------------------------------------------------------------------------
(* The decision and the draft.                                             *)

(* beginDecision: the panel offers choices while no intake is under way;   *)
(* every opening of the dialog draws an idempotency key.                   *)
BeginDecision ==
  /\ NoDialog /\ intake # 0 /\ Idle("intake") /\ keys < MaxDecisions
  /\ keys' = keys + 1 /\ deciding' = keys'
  /\ UNCHANGED <<page, server, draftVars, history, intake, dialog, request>>

(* The server takes a decision for a confirmed intake once; the key that   *)
(* made it finds it again.                                                 *)
MutantTakes(c) == intakes[c.intake].key \in {0, c.key}
Takes(c) == intakes[c.intake].confirmed /\ intakes[c.intake].key \in {0, c.key}
Decided(c) == [intakes EXCEPT ![c.intake].key = c.key]

(* Escape or a click beside the dialog.  createDecision.reset() drops the  *)
(* callbacks of a decision under way, which the server may still take.     *)
CloseDialog ==
  /\ ~NoDialog
  /\ dialog' = "none" /\ deciding' = 0
  /\ IF deciding = 0 \/ Idle("decision") THEN UNCHANGED <<request, intakes>>
     ELSE LET c == request["decision"].closure IN
          /\ Send("decision", None)
          /\ intakes' \in {intakes} \cup (IF Takes(c) THEN {Decided(c)} ELSE {})
  /\ UNCHANGED <<page, drafts, draftVars, history, intake, keys>>

(* A choice to use or configure an agent needs no draft.                   *)
SubmitDecision(draft) ==
  /\ deciding # 0
  /\ Idle("decision") /\ Idle("create")
  /\ IF ScopeReviewed(Closure)
     THEN Send("decision", [closure |-> Closure, draft |-> draft]) /\ UNCHANGED <<dialog, deciding>>
     ELSE dialog' = "scope" /\ deciding' = 0 /\ UNCHANGED request
  /\ UNCHANGED <<page, server, draftVars, history, intake, keys>>

(* createDraft, called with the state of the render that submitted: it     *)
(* asks for the scope, or for its review, or sees that a draft exists.     *)
MayDraft(c) == c.outcomes # None /\ ScopeReviewed(c) /\ ~c.spec

DecisionRecorded ==
  LET d == request["decision"]
      c == d.closure IN
  /\ ~Idle("decision") /\ Takes(c)
  /\ intakes' = Decided(c)
  /\ IF d.draft /\ MayDraft(c)
     THEN /\ request' = [request EXCEPT !["decision"] = None,
              !["create"] = [outcomes |-> c.outcomes, intake |-> c.intake,
                interpretation |-> IF c.interpretation.kind = "prefill"
                                   THEN c.interpretation.id ELSE 0]]
          /\ UNCHANGED <<dialog, deciding>>
     ELSE /\ Send("decision", None)
          /\ deciding' = 0
          /\ dialog' = IF d.draft /\ c.outcomes = None /\ ~c.spec THEN "scope" ELSE dialog
  /\ UNCHANGED <<page, drafts, draftVars, history, intake, keys>>

(* createSpec succeeds: the draft is shown; the server stored its scope as *)
(* the first section.                                                      *)
DraftCreated ==
  /\ ~Idle("create")
  /\ drafts' = Append(drafts, request["create"])
  /\ spec' = TRUE /\ done' = {"outcomes"}
  /\ deciding' = 0
  /\ Send("create", None)
  /\ UNCHANGED <<page, intakes, history, intake, dialog, keys>>

-----------------------------------------------------------------------------
(* The other sections.                                                     *)

(* openStep: a section opens when the one before it is complete.           *)
Unlocked(s) == Preceding[s] \in done

OpenStep(s) ==
  /\ NoDialog /\ spec
  /\ Unlocked(s)
  /\ dialog' = s
  /\ UNCHANGED <<page, server, draftVars, history, intake, deciding, keys, request>>

(* saveSection: one save at a time, whichever dialog is open.              *)
SaveSection ==
  /\ dialog \in DOMAIN Preceding /\ Idle("section")
  /\ Send("section", dialog)
  /\ UNCHANGED <<page, server, draftVars, history, intake, dialog, deciding, keys>>

SectionSaved ==
  /\ ~Idle("section")
  /\ done' = done \cup {request["section"]}
  /\ dialog' = "none"
  /\ Send("section", None)
  /\ UNCHANGED <<page, server, spec, history, intake, deciding, keys>>

-----------------------------------------------------------------------------
(* A request fails, before or after the server did it.  The dialog of a    *)
(* failed decision or draft stays open for another try.                    *)
RequestFails(m) ==
  /\ ~Idle(m) /\ failures < MaxFailures
  /\ failures' = failures + 1
  /\ Send(m, None)
  /\ \/ UNCHANGED <<server, lost>>
     \/ /\ m = "decision" /\ Takes(request[m].closure)
        /\ intakes' = Decided(request[m].closure) /\ UNCHANGED <<drafts, lost>>
     \/ /\ m = "create"
        /\ drafts' = Append(drafts, request[m]) /\ lost' = lost + 1 /\ UNCHANGED intakes
  /\ UNCHANGED <<page, draftVars, saved, scopes, intake, dialog, deciding, keys>>

DecisionRefused ==
  /\ ~Idle("decision") /\ ~Takes(request["decision"].closure)
  /\ Send("decision", None)
  /\ UNCHANGED <<page, server, draftVars, history, intake, dialog, deciding, keys>>

Next ==
  \/ InterpretPrompt \/ (\E k \in {"prefill", "split"} : AcceptInterpretation(k))
  \/ OpenScope \/ SaveScope \/ IntakeCreated
  \/ BeginDecision \/ CloseDialog \/ (\E d \in BOOLEAN : SubmitDecision(d))
  \/ DecisionRecorded \/ DecisionRefused \/ DraftCreated
  \/ (\E s \in DOMAIN Preceding : OpenStep(s)) \/ SaveSection \/ SectionSaved
  \/ \E m \in Mutations : RequestFails(m)

Spec == Init /\ [][Next]_vars

-----------------------------------------------------------------------------
(* A draft that records an interpretation as its origin has a scope that a *)
(* person saved while that interpretation was shown, whatever arrived or   *)
(* was interpreted again while the decision and the draft were under way.  *)
(* (App.tsx: submitDecision, createDraft, searchScope.)                    *)
LineageIsReviewed ==
  \A i \in DOMAIN drafts : LET d == drafts[i] IN d.interpretation # 0 =>
    [scope |-> d.outcomes, under |-> d.interpretation] \in saved

(* Every draft belongs to an intake whose scope a person confirmed and for *)
(* which a decision is on record: the reuse-first choice came before it.   *)
(* (App.tsx: submitIntake, submitDecision.)                                *)
DraftAfterDecision ==
  \A i \in DOMAIN drafts :
    intakes[drafts[i].intake].confirmed /\ intakes[drafts[i].intake].key # 0

(* One visit creates one draft, whichever dialogs are closed and opened    *)
(* while requests are under way; only a lost answer adds one (createSpec   *)
(* carries no idempotency key).  (App.tsx: createDraft.)                   *)
OneDraftPerVisit == Len(drafts) <= 1 + lost

(* The sections of a specification are completed in their order.           *)
(* (App.tsx: unlockedSteps, openStep.)                                     *)
SectionsInOrder == \A s \in done \cap DOMAIN Preceding : Preceding[s] \in done

=============================================================================
