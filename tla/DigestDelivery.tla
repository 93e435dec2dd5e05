--------------------------- MODULE DigestDelivery ---------------------------
(***************************************************************************)
(* The platform event ledger and its digest for one actor.  Transactions   *)
(* append events to the stream of their department or of the workspace     *)
(* under the advisory lock of the stream; sequence numbers come from one   *)
(* database sequence.  A briefing takes a snapshot of the contiguous       *)
(* visible events after the cursor, and its run delivers it, moving the    *)
(* cursor, or fails.                                                       *)
(***************************************************************************)
EXTENDS Naturals, FiniteSets

CONSTANTS
  Writers,       \* transactions that append one event each
  StreamOf,      \* StreamOf[w]: the stream of its event
  Streams,
  Visible,       \* streams the actor sees (workspace and own department)
  NotShown,      \* events of records that are not user-facing
  Briefings,     \* scheduled briefings, one after the other or overlapping
  DigestLimit,   \* MAX_DIGEST_EVENTS
  MaxFailures,   \* bound on briefing runs that fail and on appends that roll back
  Nil

ASSUME DigestAssumption ==
  /\ StreamOf \in [Writers -> Streams] /\ Visible \subseteq Streams /\ NotShown \subseteq Writers
  /\ DigestLimit \in Nat \ {0} /\ MaxFailures \in Nat
  /\ IsFiniteSet(Writers)
  /\ Writers \cap Briefings = {} /\ Nil \notin Writers \cup Briefings

VARIABLES
  lock,       \* holder of the advisory lock of a stream
  nextSeq,    \* the database sequence
  event,      \* [at, seq]: at is idle, locked, inserted, committed, aborted
  cursor,     \* AttentionCursor.lastDeliveredEventSequence
  snaps,      \* DigestSnapshot rows: [from, through, items]
  delivered,  \* the snapshots with a DELIVERED attempt
  briefing,   \* [at, cur, snap]
  failures

vars == <<lock, nextSeq, event, cursor, snaps, delivered, briefing, failures>>

EventAt   == {"idle", "locked", "inserted", "committed", "aborted"}
Snapshots == [from : Nat, through : Nat, items : SUBSET Writers]
Idle      == [at |-> "idle", cur |-> 0, snap |-> Nil]

(* A briefing holds the lock of the actor's digest: it takes a snapshot.   *)
Holding(b) == briefing[b].at \in {"locked", "read", "taking"}

TypeOK ==
  /\ lock \in [Streams -> Writers \cup Briefings \cup {Nil}]
  /\ nextSeq \in Nat \ {0} /\ cursor \in Nat /\ failures \in Nat
  /\ event \in [Writers -> [at : EventAt, seq : Nat]]
  /\ snaps \in SUBSET Snapshots /\ delivered \in SUBSET snaps
  /\ briefing \in [Briefings -> [at : {"idle", "locked", "read", "taking", "running"},
                                 cur : Nat, snap : snaps \cup {Nil}]]
  /\ \A b \in Briefings : briefing[b].at = "running" => briefing[b].snap \in snaps
  /\ \A b, c \in Briefings : Holding(b) /\ Holding(c) => b = c

Init ==
  /\ lock = [s \in Streams |-> Nil] /\ nextSeq = 1 /\ cursor = 0 /\ failures = 0
  /\ event = [w \in Writers |-> [at |-> "idle", seq |-> 0]]
  /\ snaps = {} /\ delivered = {}
  /\ briefing = [b \in Briefings |-> Idle]

-----------------------------------------------------------------------------
(* appendPlatformEvent and its copies in the plugin service and the        *)
(* worker: lock the stream, insert, and later commit with the rest of the  *)
(* transaction.                                                            *)
LockStream(w) ==
  /\ event[w].at = "idle" /\ lock[StreamOf[w]] = Nil
  /\ lock' = [lock EXCEPT ![StreamOf[w]] = w]
  /\ event' = [event EXCEPT ![w].at = "locked"]
  /\ UNCHANGED <<nextSeq, cursor, snaps, delivered, briefing, failures>>

InsertEvent(w) ==
  /\ event[w].at = "locked"
  /\ event' = [event EXCEPT ![w] = [at |-> "inserted", seq |-> nextSeq]]
  /\ nextSeq' = nextSeq + 1
  /\ UNCHANGED <<lock, cursor, snaps, delivered, briefing, failures>>

EndTransaction(w) ==
  /\ event[w].at = "inserted"
  /\ lock' = [lock EXCEPT ![StreamOf[w]] = Nil]
  /\ \/ event' = [event EXCEPT ![w].at = "committed"] /\ UNCHANGED failures
     \/ /\ failures < MaxFailures /\ failures' = failures + 1
        /\ event' = [event EXCEPT ![w].at = "aborted"]
  /\ UNCHANGED <<nextSeq, cursor, snaps, delivered, briefing>>

-----------------------------------------------------------------------------
(* createDigestSnapshotForActor.                                           *)

MutantStreamsFree == TRUE

StreamsFree == \A s \in Visible : lock[s] = Nil

(* The lock of the actor's digest, then the streams.                       *)
LockStreams(b) ==
  /\ briefing[b].at = "idle" /\ StreamsFree
  /\ \A other \in Briefings : ~Holding(other)
  /\ lock' = [s \in Streams |-> IF s \in Visible THEN b ELSE lock[s]]
  /\ briefing' = [briefing EXCEPT ![b].at = "locked"]
  /\ UNCHANGED <<nextSeq, event, cursor, snaps, delivered, failures>>

ReadCursor(b) ==
  /\ briefing[b].at = "locked"
  /\ briefing' = [briefing EXCEPT ![b].at = "read", ![b].cur = cursor]
  /\ UNCHANGED <<lock, nextSeq, event, cursor, snaps, delivered, failures>>

Unlocked(b) == [s \in Streams |-> IF lock[s] = b THEN Nil ELSE lock[s]]

MutantPending(cur) == snaps \ delivered

(* The oldest undelivered snapshot after the cursor that was read.         *)
Pending(cur) == {s \in snaps \ delivered : s.from > cur}

FindPending(b) ==
  /\ briefing[b].at = "read"
  /\ \/ /\ Pending(briefing[b].cur) = {}
        /\ briefing' = [briefing EXCEPT ![b].at = "taking"] /\ UNCHANGED lock
     \/ /\ \E s \in Pending(briefing[b].cur) :
             /\ \A t \in Pending(briefing[b].cur) : s.through <= t.through
             /\ briefing' = [briefing EXCEPT ![b] = [at |-> "running", cur |-> 0, snap |-> s]]
        /\ lock' = Unlocked(b)
  /\ UNCHANGED <<nextSeq, event, cursor, snaps, delivered, failures>>

MutantNewEvents(cur) == {w \in Writers : event[w].at = "committed" /\ StreamOf[w] \in Visible /\ event[w].seq > cur + 1}

NewEvents(cur) == {w \in Writers : event[w].at = "committed" /\ StreamOf[w] \in Visible /\ event[w].seq > cur}

(* ORDER BY sequence, the first DigestLimit. *)
FirstOf(E) == {w \in E : Cardinality({v \in E : event[v].seq < event[w].seq}) < DigestLimit}

TakeSnapshot(b) ==
  LET E == FirstOf(NewEvents(briefing[b].cur)) IN
  /\ briefing[b].at = "taking"
  /\ lock' = Unlocked(b)
  /\ \/ E = {} /\ briefing' = [briefing EXCEPT ![b] = Idle] /\ UNCHANGED snaps   \* DIGEST_WINDOW_EMPTY
     \/ /\ E # {}
        /\ \E lo, hi \in E :
             /\ \A w \in E : event[lo].seq <= event[w].seq /\ event[w].seq <= event[hi].seq
             /\ LET s == [from |-> event[lo].seq, through |-> event[hi].seq, items |-> E]
                IN /\ snaps' = snaps \cup {s}
                   /\ briefing' = [briefing EXCEPT ![b] = [at |-> "running", cur |-> 0, snap |-> s]]
  /\ UNCHANGED <<nextSeq, event, cursor, delivered, failures>>

-----------------------------------------------------------------------------
(* The briefing run.  A snapshot with omitted events is refused by         *)
(* appendPlatformDigestSignals before the run exists.                      *)

Omits(s) == s.items \cap NotShown # {}

Refuse(b) ==
  /\ briefing[b].at = "running" /\ Omits(briefing[b].snap)
  /\ briefing' = [briefing EXCEPT ![b] = Idle]
  /\ UNCHANGED <<lock, nextSeq, event, cursor, snaps, delivered, failures>>

Superseded(s) == s.from <= cursor

(* recordDigestDeliveryForRun and recordDigestDelivery, under the lock of  *)
(* the cursor.                                                             *)
Deliver(b) ==
  LET s == briefing[b].snap IN
  /\ briefing[b].at = "running" /\ ~Omits(s)
  /\ \/ Superseded(s) /\ UNCHANGED <<delivered, cursor>>
     \/ /\ ~Superseded(s) /\ delivered' = delivered \cup {s}
        /\ cursor' = IF s.through > cursor THEN s.through ELSE cursor
  /\ briefing' = [briefing EXCEPT ![b] = Idle]
  /\ UNCHANGED <<lock, nextSeq, event, snaps, failures>>

(* The run fails: a FAILED attempt, the snapshot stays pending.            *)
DeliveryFails(b) ==
  /\ briefing[b].at = "running" /\ failures < MaxFailures /\ failures' = failures + 1
  /\ briefing' = [briefing EXCEPT ![b] = Idle]
  /\ UNCHANGED <<lock, nextSeq, event, cursor, snaps, delivered>>

Brief(b) ==
  LockStreams(b) \/ ReadCursor(b) \/ FindPending(b) \/ TakeSnapshot(b) \/ Refuse(b) \/ Deliver(b)

Append(w) == LockStream(w) \/ InsertEvent(w) \/ EndTransaction(w)

Next ==
  \/ \E w \in Writers : Append(w)
  \/ \E b \in Briefings : Brief(b) \/ DeliveryFails(b)

Spec == Init /\ [][Next]_vars

(* Open transactions end, and the schedule starts briefings for ever; a    *)
(* lock request that keeps being possible is granted.                      *)
Fairness ==
  /\ \A w \in Writers : WF_vars(InsertEvent(w) \/ EndTransaction(w))
  /\ \A b \in Briefings : SF_vars(LockStreams(b)) /\ WF_vars(Brief(b))
FairSpec == Spec /\ Fairness

-----------------------------------------------------------------------------
(* Properties.                                                             *)

(* The cursor is a high-water mark that skips nothing: a visible event     *)
(* below it was in a delivered snapshot, also when its transaction was     *)
(* still open while a later number was already committed (the stream locks *)
(* in createDigestSnapshotForActor and appendPlatformEvent).               *)
NoEventSkipped ==
  \A w \in Writers : (event[w].at = "committed" /\ StreamOf[w] \in Visible /\ event[w].seq <= cursor)
    => \E s \in delivered : w \in s.items

(* No event is delivered twice, although two briefings may run with one    *)
(* snapshot and a snapshot may be taken with a stale cursor.               *)
DeliveredOnce ==
  \A s, t \in delivered : s # t => s.items \cap t.items = {}

(* The digest implements the feed of EventFeed: what is visible and        *)
(* committed is published, and each delivery is the next stretch of it     *)
(* (createDigestSnapshotForActor, recordDigestDelivery).                   *)
FeedNumber == [w \in Writers |->
  IF event[w].at = "committed" /\ StreamOf[w] \in Visible THEN event[w].seq ELSE 0]
Feed == INSTANCE EventFeed WITH Events <- Writers, number <- FeedNumber,
                                sent <- UNION {s.items : s \in delivered}
DeliversInOrder == Feed!Spec

(* A committed event reaches the daily briefing (phase-2-quiet-console     *)
(* plan, line 24: "delivered in full through tomorrow's daily briefing").  *)
EventIsDelivered ==
  \A w \in Writers : (event[w].at = "committed" /\ StreamOf[w] \in Visible) ~> \E s \in delivered : w \in s.items
=============================================================================
