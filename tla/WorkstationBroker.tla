-------------------------- MODULE WorkstationBroker --------------------------
(***************************************************************************)
(* The workstation broker: a run that needs the workstation is placed in   *)
(* waiting_for_user, a signed work order is delivered, the companion       *)
(* proves that the user is present, the service adds the device's proof,   *)
(* and only then is the local Plugin executed.  Every check reads the      *)
(* clock again, and time passes between any two of them.                   *)
(*                                                                         *)
(* The transport is an interface; the fixture delivers one order and the   *)
(* production one refuses.  The model's transport may deliver the same     *)
(* order again to the same process, which is what the nonce store is for.  *)
(* The same rules exist in TypeScript, for the control plane: PlaceTS,     *)
(* PayloadValidTS and ResumesTS are that version.                          *)
(***************************************************************************)
EXTENDS Naturals, FiniteSets

CONSTANTS
  MinWindow, MaxWindow,      \* bounds of a freshness window
  DailyWindow, AdHocWindow,  \* its defaults
  LeaseTime,                 \* a lease, from the delivery
  MaxTime, MaxDeliveries,    \* bounds of the model
  None

(* The times of a signed work order.                                       *)
Orders == [issuedAt : Nat, notBefore : Nat, expiresAt : Nat, leaseExpiresAt : Nat, window : Nat]

WindowAssumption ==
  /\ MinWindow \in Nat \ {0} /\ MaxWindow \in Nat /\ LeaseTime \in Nat
  /\ {DailyWindow, AdHocWindow} \subseteq MinWindow .. MaxWindow
  /\ None \notin Nat \cup Orders

VARIABLES
  now,
  request,     \* the placement request of the run
  snapshot,    \* the run as the delivery carries it
  order,       \* the signed work order
  session,     \* where the broker's session stands
  handshake,   \* what was read from the pipe, with the device's part
  consumed,    \* nonces consumed by this process
  verifiedAt,  \* when the binding of this session was verified
  executions,  \* what the local executor was asked to do
  deliveries

vars == <<now, request, snapshot, order, session, handshake, consumed, verifiedAt, executions,
          deliveries>>

Bindings  == {"order", "lease", "nonce", "actor", "sid"}
Scenarios == {"resume", "replay", "expiry"}
Requests  ==
  [needs : SUBSET {"control_plane", "workstation"}, scheduled : BOOLEAN, daily : BOOLEAN,
   window : {None, MinWindow - 1, MinWindow, MaxWindow, MaxWindow + 1}, scenario : Scenarios]
(* A handshake: the bindings it matches, and which of its proofs hold.     *)
Handshakes == [matches : {Bindings} \union {Bindings \ {b} : b \in Bindings},
               user : BOOLEAN, device : BOOLEAN]

-----------------------------------------------------------------------------
(* PlacementEngine.Place and placeExecution. *)
Window(r) == IF r.window # None THEN r.window ELSE IF r.daily THEN DailyWindow ELSE AdHocWindow

Place(r) ==
  IF "workstation" \notin r.needs
  THEN [state |-> "control_plane_ready", effects |-> TRUE, window |-> None]
  ELSE IF \/ r.scheduled /\ ~r.daily /\ r.window = None
          \/ ~(Window(r) \in MinWindow .. MaxWindow)
  THEN None
  ELSE [state |-> "waiting_for_user", effects |-> FALSE, window |-> Window(r)]

PlaceTS(r) ==
  IF r.window # None /\ ~(r.window \in MinWindow .. MaxWindow) THEN None
  ELSE IF "workstation" \notin r.needs
  THEN [state |-> "control_plane_ready", effects |-> TRUE, window |-> None]
  ELSE IF r.scheduled /\ ~r.daily /\ r.window = None THEN None
  ELSE [state |-> "waiting_for_user", effects |-> FALSE, window |-> Window(r)]

(* WorkOrderSignatures.ValidatePayload and the schema of the payload.      *)
PayloadValid(o) ==
  /\ o.notBefore >= o.issuedAt /\ o.expiresAt > o.notBefore
  /\ o.leaseExpiresAt > o.notBefore /\ o.leaseExpiresAt <= o.expiresAt
  /\ o.expiresAt - o.issuedAt <= o.window

PayloadValidTS(o) ==
  ~ \/ o.notBefore < o.issuedAt
    \/ o.expiresAt <= o.notBefore
    \/ o.leaseExpiresAt <= o.notBefore \/ o.leaseExpiresAt > o.expiresAt
    \/ o.expiresAt - o.issuedAt > o.window

Current(o) == now >= o.notBefore /\ now < o.expiresAt /\ now < o.leaseExpiresAt

Resumes(s) == s.state = "waiting_for_user" /\ now < s.expiresAt

(* resumeWaitingExecution is told which nonces were consumed before.       *)
ResumesTS(s, used) ==
  /\ s.state = "waiting_for_user" /\ now < s.expiresAt
  /\ order \notin used /\ verifiedAt <= now

-----------------------------------------------------------------------------
Init ==
  /\ now = 0 /\ request \in Requests
  /\ snapshot = None /\ order = None /\ session = "idle" /\ handshake = None
  /\ consumed = {} /\ verifiedAt = None /\ executions = {} /\ deliveries = 0

Tick ==
  /\ now < MaxTime /\ now' = now + 1
  /\ UNCHANGED <<request, snapshot, order, session, handshake, consumed, verifiedAt, executions,
                 deliveries>>

Steps(from, to) == session = from /\ session' = to

Untouched == UNCHANGED <<now, request, deliveries>>

(* The first delivery places the run and signs its order. *)
Receive ==
  /\ session = "idle" /\ deliveries = 0 /\ deliveries' = 1
  /\ LET placed == Place(request)
         o      == [issuedAt |-> now, notBefore |-> now, expiresAt |-> now + placed.window,
                    leaseExpiresAt |-> now + LeaseTime, window |-> placed.window]
     IN IF placed = None
        THEN session' = "failed" /\ UNCHANGED <<snapshot, order>>
        ELSE IF placed.state = "control_plane_ready"
        THEN /\ snapshot' = [placed EXCEPT !.window = None]
             /\ session' = "central" /\ UNCHANGED order
        ELSE IF ~PayloadValid(o)
        THEN session' = "failed" /\ UNCHANGED <<snapshot, order>>
        ELSE /\ snapshot' = [state |-> placed.state, effects |-> placed.effects,
                             window |-> placed.window, expiresAt |-> o.expiresAt]
             /\ order' = o /\ session' = "delivered"
  /\ UNCHANGED <<now, request, handshake, consumed, verifiedAt, executions>>

(* The same delivery once more, with the snapshot it was issued with.      *)
Redeliver ==
  /\ session \in {"completed", "failed"} /\ order # None
  /\ deliveries < MaxDeliveries /\ deliveries' = deliveries + 1
  /\ session' = "delivered" /\ handshake' = None /\ verifiedAt' = None
  /\ snapshot' = [snapshot EXCEPT !.state = "waiting_for_user", !.effects = FALSE]
  /\ UNCHANGED <<now, request, order, consumed, executions>>

(* VerifyAndRead and AssertExactDelivery, then the waiting state is        *)
(* reported; the expiry scenario settles the run there.                    *)
Open(authentic) ==
  /\ session = "delivered"
  /\ IF ~authentic THEN session' = "failed" /\ UNCHANGED snapshot
     ELSE IF request.scenario = "expiry"
     THEN /\ session' = "expired"
          /\ snapshot' = [snapshot EXCEPT !.state = "expired", !.effects = FALSE]
     ELSE session' = "waiting" /\ UNCHANGED snapshot
  /\ Untouched /\ UNCHANGED <<order, handshake, consumed, verifiedAt, executions>>

(* The companion connects, and sends a handshake.                          *)
Present(h) ==
  /\ Steps("waiting", "presented") /\ handshake' = h
  /\ Untouched /\ UNCHANGED <<snapshot, order, consumed, verifiedAt, executions>>

(* BindCurrentDeviceAsync: the service signs the nonce with the device key.*)
BindDevice ==
  /\ session = "presented"
  /\ session' = IF Current(order) /\ handshake.matches = Bindings THEN "bound" ELSE "failed"
  /\ Untouched /\ UNCHANGED <<snapshot, order, handshake, consumed, verifiedAt, executions>>

Verified ==
  Current(order) /\ handshake.matches = Bindings /\ handshake.user /\ handshake.device

(* TryConsumeAsync, after both proofs were verified. *)
MutantConsumable == TRUE

Consumable == order \notin consumed

VerifyDualIdentity ==
  /\ session = "bound"
  /\ IF Verified /\ Consumable
     THEN session' = "verified" /\ consumed' = consumed \union {order} /\ verifiedAt' = now
     ELSE session' = "failed" /\ UNCHANGED <<consumed, verifiedAt>>
  /\ Untouched /\ UNCHANGED <<snapshot, order, handshake, executions>>

Resume ==
  /\ session = "verified"
  /\ IF Resumes(snapshot)
     THEN /\ session' = "leased"
          /\ snapshot' = [snapshot EXCEPT !.state = "leased", !.effects = TRUE]
     ELSE session' = "failed" /\ UNCHANGED snapshot
  /\ Untouched /\ UNCHANGED <<order, handshake, consumed, verifiedAt, executions>>

Execute ==
  /\ Steps("leased", "executed")
  /\ executions' = executions \union
       {[delivery |-> deliveries, verifiedAt |-> verifiedAt, proofs |-> handshake]}
  /\ Untouched /\ UNCHANGED <<snapshot, order, handshake, consumed, verifiedAt>>

(* The replay scenario verifies the same handshake again.  It is satisfied *)
(* only by the refusal of the nonce; an order that has run out meanwhile   *)
(* is refused with another message, and fails the session.                 *)
Replay ==
  /\ session = "executed" /\ request.scenario = "replay"
  /\ session' = IF Verified /\ ~Consumable THEN "replayed" ELSE "failed"
  /\ Untouched /\ UNCHANGED <<snapshot, order, handshake, consumed, verifiedAt, executions>>

Complete ==
  /\ session = IF request.scenario = "replay" THEN "replayed" ELSE "executed"
  /\ session' = "completed"
  /\ snapshot' = [snapshot EXCEPT !.state = "completed", !.effects = FALSE]
  /\ Untouched /\ UNCHANGED <<order, handshake, consumed, verifiedAt, executions>>

(* FixtureHandshakeTimeoutSeconds: the token covers everything from the    *)
(* wait for the connection to the execution.                               *)
TimeOut ==
  /\ session \in {"waiting", "presented", "bound", "verified", "leased"} /\ session' = "failed"
  /\ Untouched /\ UNCHANGED <<snapshot, order, handshake, consumed, verifiedAt, executions>>

Session ==
  \/ \E a \in BOOLEAN : Open(a)
  \/ BindDevice \/ VerifyDualIdentity \/ Resume \/ Execute \/ Replay \/ Complete \/ TimeOut

Next == Tick \/ Receive \/ Redeliver \/ Session \/ \E h \in Handshakes : Present(h)

Spec == Init /\ [][Next]_vars

(* The service runs its session; the companion need not ever connect.      *)
FairSpec == Spec /\ WF_vars(Session)

-----------------------------------------------------------------------------
(* README, Security invariants 2: neither the user alone nor the device    *)
(* alone.  Whatever the executor is asked to do was verified with both     *)
(* proofs and every binding, while the order and its lease were valid.     *)
ExecutedUnderBothProofs ==
  \A e \in executions : /\ e.proofs.user /\ e.proofs.device /\ e.proofs.matches = Bindings
                        /\ e.verifiedAt < order.leaseExpiresAt

(* An order delivered again to the same process is not executed again: the *)
(* nonce is consumed before the run is leased, also when the first session *)
(* timed out after consuming it.                                           *)
ExecutedOnce == Cardinality(executions) <= 1

(* Effects are allowed only to a run that was resumed inside its freshness *)
(* window and has not settled; a waiting or expired run has none, and no   *)
(* workstation requirement falls back to the control plane.                *)
NoLateEffects ==
  /\ snapshot' # None /\ snapshot'.effects /\ snapshot # snapshot'
     => IF "workstation" \in request.needs
        THEN order # None /\ now < order.expiresAt ELSE snapshot'.state = "control_plane_ready"
  /\ snapshot # None /\ snapshot.state = "expired" => snapshot' = snapshot

(* What the control plane accepts the broker reads the same way: placement *)
(* of every accepted request, validity of the order, and a resumption      *)
(* whose nonce was not consumed before this session.                       *)
LanguagesAgree ==
  /\ PlaceTS(request) # None => Place(request) = PlaceTS(request)
  /\ "workstation" \in request.needs => Place(request) = PlaceTS(request)
  /\ order # None => PayloadValidTS(order)
  /\ session = "verified" => (Resumes(snapshot) <=> ResumesTS(snapshot, consumed \ {order}))

(* A session ends although the user never signs in: the service reports or *)
(* fails, and does not wait at the pipe for ever.                          *)
SessionEnds ==
  (session = "delivered") ~> (session \in {"completed", "failed", "expired"})
=============================================================================
