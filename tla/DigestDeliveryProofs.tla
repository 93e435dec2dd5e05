------------------------- MODULE DigestDeliveryProofs -------------------------
(***************************************************************************)
(* What a person is handed, for every value of the constants.              *)
(*   The digest: its cursor skips nothing, nothing is delivered twice, and *)
(*   it implements the ordered feed of EventFeed.                          *)
(*   Reviews of learning candidates decide what was shown, once.           *)
(*   Schedules: what the policy keeps has exactly one dispatch, and a      *)
(*   dispatch is settled once.                                             *)
(***************************************************************************)
EXTENDS DigestDelivery, Integers, FiniteSetTheorems, WellFoundedInduction, TLAPS

Seen(w) == StreamOf[w] \in Visible

(* Who holds the advisory locks of the streams.                            *)
LocksHeld ==
  /\ \A w \in Writers : event[w].at \in {"locked", "inserted"} => lock[StreamOf[w]] = w
  /\ \A b \in Briefings : Holding(b) => \A s \in Visible : lock[s] = b

(* Numbers come from the database sequence.                                *)
Numbered ==
  \A w \in Writers : /\ event[w].seq < nextSeq
                     /\ event[w].at \in {"inserted", "committed"} => event[w].seq > 0

(* Nothing that is still open lies below the cursor.                       *)
CursorSettled ==
  /\ cursor < nextSeq
  /\ \A w \in Writers : Seen(w) /\ event[w].at = "inserted" => event[w].seq > cursor
  /\ \A b \in Briefings : briefing[b].cur <= cursor
  /\ \A s \in delivered : s.through <= cursor

(* A snapshot is a closed window: what is visible, committed and in its    *)
(* range is in it, what lies before it is behind the cursor, and what is   *)
(* still open comes after it.                                              *)
ClosedWindow(s) ==
  /\ s.from <= s.through /\ s.through < nextSeq
  /\ \A w \in s.items : /\ Seen(w) /\ event[w].at = "committed"
                        /\ s.from <= event[w].seq /\ event[w].seq <= s.through
  /\ \A w \in Writers : Seen(w) =>
       /\ event[w].at = "inserted" => event[w].seq > s.through
       /\ event[w].at = "committed" =>
            \/ event[w].seq <= cursor
            \/ w \in s.items
            \/ event[w].seq > s.through

IInv ==
  /\ TypeOK /\ LocksHeld /\ Numbered /\ CursorSettled
  /\ \A s \in snaps : ClosedWindow(s)
  /\ NoEventSkipped /\ DeliveredOnce

-----------------------------------------------------------------------------
(* FirstOf takes a prefix: an event of E that is numbered no higher than   *)
(* one that was taken is taken too.                                        *)
LEMMA FirstOfPrefix ==
  ASSUME TypeOK, NEW E \in SUBSET Writers, NEW w \in FirstOf(E), NEW v \in E,
         event[v].seq <= event[w].seq
  PROVE  v \in FirstOf(E)
<1> DEFINE Below(x) == {u \in E : event[u].seq < event[x].seq}
<1>1. w \in E /\ Cardinality(Below(w)) < DigestLimit
  BY DEF FirstOf
<1>2. \A u \in Writers : event[u].seq \in Nat
  BY DEF TypeOK
<1>3. Below(v) \subseteq Below(w)
  BY <1>1, <1>2
<1>4. IsFiniteSet(Below(w))
  <2>1. IsFiniteSet(Writers)
    BY DigestAssumption
  <2>2. Below(w) \subseteq Writers
    OBVIOUS
  <2> QED
    BY <2>1, <2>2, FS_Subset
<1>5. /\ IsFiniteSet(Below(v))
      /\ Cardinality(Below(v)) <= Cardinality(Below(w))
  BY <1>3, <1>4, FS_Subset
<1>6. Cardinality(Below(v)) \in Nat /\ Cardinality(Below(w)) \in Nat
  BY <1>4, <1>5, FS_CardinalityType
<1>7. Cardinality(Below(v)) < DigestLimit
  BY <1>1, <1>5, <1>6, DigestAssumption
<1> QED
  BY <1>7 DEF FirstOf

(* The snapshot a briefing takes, while it holds the streams, is a window. *)
LEMMA TakenIsWindow ==
  ASSUME IInv, NEW b \in Briefings, briefing[b].at = "taking",
         NEW lo \in FirstOf(NewEvents(briefing[b].cur)),
         NEW hi \in FirstOf(NewEvents(briefing[b].cur)),
         \A w \in FirstOf(NewEvents(briefing[b].cur)) :
            event[lo].seq <= event[w].seq /\ event[w].seq <= event[hi].seq
  PROVE  LET s == [from |-> event[lo].seq, through |-> event[hi].seq,
                   items |-> FirstOf(NewEvents(briefing[b].cur))]
         IN  s \in Snapshots /\ ClosedWindow(s)
<1> DEFINE new == NewEvents(briefing[b].cur)
           s == [from |-> event[lo].seq, through |-> event[hi].seq, items |-> FirstOf(new)]
<1>1. /\ FirstOf(new) \subseteq new /\ new \subseteq Writers
      /\ \A w \in new : Seen(w) /\ event[w].at = "committed"
  BY DEF FirstOf, NewEvents, Seen
<1>2. \A w \in Writers : event[w].seq \in Nat
  BY DEF IInv, TypeOK
<1>3. s \in Snapshots
  BY <1>1, <1>2 DEF Snapshots
<1>4. s.from <= s.through /\ s.through < nextSeq
  BY <1>1 DEF IInv, Numbered
<1>5. \A w \in s.items : /\ Seen(w) /\ event[w].at = "committed"
                          /\ s.from <= event[w].seq /\ event[w].seq <= s.through
  BY <1>1
<1>6. ASSUME NEW w \in Writers, Seen(w)
      PROVE  /\ event[w].at = "inserted" => event[w].seq > s.through
             /\ event[w].at = "committed" =>
                  event[w].seq <= cursor \/ w \in s.items \/ event[w].seq > s.through
  <2>1. event[w].at # "inserted"
    <3>1. lock[StreamOf[w]] = b
      BY <1>6 DEF IInv, LocksHeld, Holding, Seen
    <3>2. b # w
      BY DigestAssumption
    <3> QED
      BY <3>1, <3>2 DEF IInv, LocksHeld
  <2>2. CASE event[w].at = "committed" /\ event[w].seq <= event[hi].seq
                                      /\ event[w].seq > briefing[b].cur
    <3>1. w \in new
      BY <1>6, <2>2 DEF NewEvents, Seen
    <3>2. w \in FirstOf(new)
      BY <1>1, <2>2, <3>1, FirstOfPrefix DEF IInv
    <3> QED
      BY <2>1, <3>2
  <2>3. CASE event[w].seq <= briefing[b].cur
    <3>1. briefing[b].cur \in Nat /\ cursor \in Nat /\ briefing[b].cur <= cursor
      BY DEF IInv, TypeOK, CursorSettled
    <3> QED
      BY <1>2, <2>1, <2>3, <3>1
  <2>4. briefing[b].cur \in Nat
    BY DEF IInv, TypeOK
  <2> QED
    BY <1>1, <1>2, <2>1, <2>2, <2>3, <2>4
<1> QED
  BY <1>3, <1>4, <1>5, <1>6 DEF ClosedWindow

-----------------------------------------------------------------------------
(* The invariant is inductive.                                             *)

(* The first state satisfies the invariant.                                *)
LEMMA InitInvariant == Init => IInv
BY DigestAssumption DEF Init, IInv, TypeOK, LocksHeld, Numbered, CursorSettled, NoEventSkipped, DeliveredOnce,
   Holding, Idle, EventAt, Snapshots

(* Windows survive a step that leaves them the same open and committed     *)
(* events, or adds open ones with new numbers.                             *)
LEMMA WindowKept ==
  ASSUME IInv, NEW s \in snaps,
         nextSeq' \in Nat, nextSeq <= nextSeq', cursor' \in Nat, cursor <= cursor',
         \A w \in Writers : event'[w].seq \in Nat,
         \A w \in Writers : event[w].at = "committed" => event'[w] = event[w],
         \A w \in Writers : event'[w].at = "inserted" =>
            event'[w] = event[w] \/ event'[w].seq = nextSeq,
         \A w \in Writers : event'[w].at = "committed" =>
            event'[w].seq = event[w].seq /\ event[w].at \in {"inserted", "committed"}
  PROVE  ClosedWindow(s)'
<1>1. /\ s.from \in Nat /\ s.through \in Nat /\ s.items \subseteq Writers
      /\ nextSeq \in Nat /\ cursor \in Nat
      /\ \A w \in Writers : event[w].seq \in Nat
  BY DEF IInv, TypeOK, Snapshots
<1>2. ClosedWindow(s)
  BY DEF IInv
<1>3. s.from <= s.through /\ s.through < nextSeq'
  BY <1>1, <1>2 DEF ClosedWindow
<1>4. \A w \in s.items : /\ Seen(w) /\ event'[w].at = "committed"
                          /\ s.from <= event'[w].seq /\ event'[w].seq <= s.through
  BY <1>1, <1>2 DEF ClosedWindow
<1>5. ASSUME NEW w \in Writers, Seen(w), event'[w].at = "inserted"
      PROVE  event'[w].seq > s.through
  BY <1>1, <1>2, <1>5 DEF ClosedWindow
<1>6. ASSUME NEW w \in Writers, Seen(w), event'[w].at = "committed"
      PROVE  event'[w].seq <= cursor' \/ w \in s.items \/ event'[w].seq > s.through
  BY <1>1, <1>2, <1>6 DEF ClosedWindow
<1> QED
  BY <1>3, <1>4, <1>5, <1>6 DEF ClosedWindow, Seen

(* A transaction takes the lock of its stream. *)
LEMMA LockStreamKeeps ==
  ASSUME IInv, NEW w \in Writers, LockStream(w)
  PROVE  IInv'
<1> USE DigestAssumption
<1>1. TypeOK'
  <2>1. lock' \in [Streams -> Writers \cup Briefings \cup {Nil}]
    BY DEF IInv, TypeOK, LockStream
  <2>2. event' \in [Writers -> [at : EventAt, seq : Nat]]
    BY DEF IInv, TypeOK, LockStream, EventAt
  <2> QED BY <2>1, <2>2 DEF IInv, TypeOK, LockStream, Holding
<1>2. LocksHeld'
  <2>1. StreamOf[w] \in Streams /\ lock[StreamOf[w]] = Nil
    BY DEF LockStream
  <2>2. /\ lock' = [lock EXCEPT ![StreamOf[w]] = w] /\ lock'[StreamOf[w]] = w
        /\ \A t \in Streams : t # StreamOf[w] => lock'[t] = lock[t]
    BY <2>1 DEF IInv, TypeOK, LockStream
  <2>3. ASSUME NEW v \in Writers, event'[v].at \in {"locked", "inserted"}
        PROVE  lock'[StreamOf[v]] = v
    <3>1. CASE v = w
      BY <2>2, <3>1
    <3>2. CASE v # w
      <4>1. event'[v] = event[v]
        BY <3>2 DEF IInv, TypeOK, LockStream
      <4>2. lock[StreamOf[v]] = v /\ v # Nil /\ StreamOf[v] \in Streams
        BY <2>3, <4>1 DEF IInv, LocksHeld
      <4> QED
        BY <2>1, <2>2, <4>2
    <3> QED
      BY <3>1, <3>2
  <2>4. ASSUME NEW b \in Briefings, Holding(b)', NEW t \in Visible
        PROVE  lock'[t] = b
    <3>1. Holding(b)
      BY <2>4 DEF Holding, LockStream
    <3>2. lock[t] = b /\ b # Nil /\ t \in Streams
      BY <3>1 DEF IInv, LocksHeld
    <3> QED
      BY <2>1, <2>2, <3>2
  <2> QED
    BY <2>3, <2>4 DEF LocksHeld
<1>3. Numbered'
  BY DEF IInv, TypeOK, Numbered, LockStream
<1>4. CursorSettled'
  BY DEF IInv, TypeOK, Numbered, CursorSettled, LockStream, Idle, Seen
<1>5. \A s \in snaps' : ClosedWindow(s)'
  BY WindowKept DEF IInv, TypeOK, LockStream
<1>6. NoEventSkipped' /\ DeliveredOnce'
  BY DEF IInv, TypeOK, NoEventSkipped, DeliveredOnce, CursorSettled, Seen, LockStream
<1> QED
  BY <1>1, <1>2, <1>3, <1>4, <1>5, <1>6 DEF IInv

(* An insert takes a number above every cursor and window. *)
LEMMA InsertEventKeeps ==
  ASSUME IInv, NEW w \in Writers, InsertEvent(w)
  PROVE  IInv'
<1> USE DigestAssumption
<1>1. TypeOK'
  BY DEF IInv, TypeOK, InsertEvent, EventAt, Snapshots, Holding, Idle
<1>2. LocksHeld'
  BY DEF IInv, TypeOK, LocksHeld, InsertEvent, Holding, Idle
<1>3. Numbered'
  BY DEF IInv, TypeOK, Numbered, InsertEvent
<1>4. CursorSettled'
  BY DEF IInv, TypeOK, Numbered, CursorSettled, InsertEvent, Idle, Seen
<1>5. \A s \in snaps' : ClosedWindow(s)'
  BY WindowKept DEF IInv, TypeOK, InsertEvent
<1>6. NoEventSkipped' /\ DeliveredOnce'
  BY DEF IInv, TypeOK, NoEventSkipped, DeliveredOnce, CursorSettled, Seen, InsertEvent
<1> QED
  BY <1>1, <1>2, <1>3, <1>4, <1>5, <1>6 DEF IInv

(* A commit publishes a number that lies above every cursor and window. *)
LEMMA EndTransactionKeeps ==
  ASSUME IInv, NEW w \in Writers, EndTransaction(w)
  PROVE  IInv'
<1> USE DigestAssumption
<1>1. TypeOK'
  BY DEF IInv, TypeOK, EndTransaction, EventAt, Snapshots, Holding, Idle
<1>2. LocksHeld'
  BY DEF IInv, TypeOK, LocksHeld, EndTransaction, Holding, Idle
<1>3. Numbered'
  BY DEF IInv, TypeOK, Numbered, EndTransaction
<1>4. CursorSettled'
  BY DEF IInv, TypeOK, Numbered, CursorSettled, EndTransaction, Idle, Seen
<1>5. \A s \in snaps' : ClosedWindow(s)'
  <2>1. nextSeq' \in Nat /\ nextSeq <= nextSeq' /\ cursor' \in Nat /\ cursor <= cursor' /\ snaps' = snaps
    BY DEF IInv, TypeOK, EndTransaction
  <2>2. \A v \in Writers : event'[v].seq = event[v].seq /\ event[v].seq \in Nat
    BY DEF IInv, TypeOK, EndTransaction
  <2>3. \A v \in Writers : event[v].at = "committed" => event'[v] = event[v]
    BY DEF IInv, TypeOK, EndTransaction
  <2>4. \A v \in Writers : event'[v].at = "inserted" => event'[v] = event[v]
    BY DEF IInv, TypeOK, EndTransaction
  <2>5. \A v \in Writers : event'[v].at = "committed" => event[v].at \in {"inserted", "committed"}
    BY DEF IInv, TypeOK, EndTransaction
  <2> QED
    BY <2>1, <2>2, <2>3, <2>4, <2>5, WindowKept
<1>6. NoEventSkipped' /\ DeliveredOnce'
  BY DEF IInv, TypeOK, NoEventSkipped, DeliveredOnce, CursorSettled, Seen, EndTransaction
<1> QED
  BY <1>1, <1>2, <1>3, <1>4, <1>5, <1>6 DEF IInv

(* A briefing takes the streams only when no writer has one. *)
LEMMA LockStreamsKeeps ==
  ASSUME IInv, NEW b \in Briefings, LockStreams(b)
  PROVE  IInv'
<1> USE DigestAssumption
<1>1. TypeOK'
  BY DEF IInv, TypeOK, LockStreams, StreamsFree, EventAt, Snapshots, Holding, Idle
<1>2. LocksHeld'
  BY DEF IInv, TypeOK, LocksHeld, LockStreams, StreamsFree, Holding, Idle
<1>3. Numbered'
  BY DEF IInv, TypeOK, Numbered, LockStreams
<1>4. CursorSettled'
  BY DEF IInv, TypeOK, Numbered, CursorSettled, LockStreams, Idle, Seen
<1>5. \A s \in snaps' : ClosedWindow(s)'
  BY DEF IInv, ClosedWindow, Seen, LockStreams
<1>6. NoEventSkipped' /\ DeliveredOnce'
  BY DEF IInv, TypeOK, NoEventSkipped, DeliveredOnce, CursorSettled, Seen, LockStreams
<1> QED
  BY <1>1, <1>2, <1>3, <1>4, <1>5, <1>6 DEF IInv

(* A briefing reads the cursor. *)
LEMMA ReadCursorKeeps ==
  ASSUME IInv, NEW b \in Briefings, ReadCursor(b)
  PROVE  IInv'
<1> USE DigestAssumption
<1>1. TypeOK'
  <2>1. /\ briefing[b].at = "locked" /\ cursor \in Nat
        /\ briefing' = [briefing EXCEPT ![b].at = "read", ![b].cur = cursor]
        /\ UNCHANGED <<lock, nextSeq, event, cursor, snaps, delivered, failures>>
    BY DEF IInv, TypeOK, ReadCursor
  <2>2. briefing' \in [Briefings -> [at : {"idle", "locked", "read", "taking", "running"},
                                    cur : Nat, snap : snaps \cup {Nil}]]
    <3> DEFINE A == {"idle", "locked", "read", "taking", "running"}
               S == snaps \cup {Nil}
    <3>1. briefing \in [Briefings -> [at : A, cur : Nat, snap : S]] /\ "read" \in A
      BY DEF IInv, TypeOK
    <3> HIDE DEF A, S
    <3>2. briefing' \in [Briefings -> [at : A, cur : Nat, snap : S]]
      <4>1. DOMAIN briefing' = Briefings /\ briefing' = [c \in Briefings |-> briefing'[c]]
        BY <2>1, <3>1
      <4>2. ASSUME NEW c \in Briefings PROVE briefing'[c] \in [at : A, cur : Nat, snap : S]
        <5>1. CASE c = b
          BY <2>1, <3>1, <5>1
        <5>2. CASE c # b
          BY <2>1, <3>1, <5>2
        <5> QED BY <5>1, <5>2
      <4> QED BY <4>1, <4>2
    <3> QED BY <3>2 DEF A, S
  <2>3. /\ \A c \in Briefings : briefing'[c].at = "running" => briefing'[c].snap \in snaps
        /\ \A c \in Briefings : Holding(c)' <=> Holding(c)
    BY <2>1 DEF IInv, TypeOK, Holding
  <2> QED BY <2>1, <2>2, <2>3 DEF IInv, TypeOK
<1>2. LocksHeld'
  BY DEF IInv, TypeOK, LocksHeld, ReadCursor, Holding, Idle
<1>3. Numbered'
  BY DEF IInv, TypeOK, Numbered, ReadCursor
<1>4. CursorSettled'
  BY DEF IInv, TypeOK, Numbered, CursorSettled, ReadCursor, Idle, Seen
<1>5. \A s \in snaps' : ClosedWindow(s)'
  BY DEF IInv, ClosedWindow, Seen, ReadCursor
<1>6. NoEventSkipped' /\ DeliveredOnce'
  BY DEF IInv, TypeOK, NoEventSkipped, DeliveredOnce, CursorSettled, Seen, ReadCursor
<1> QED
  BY <1>1, <1>2, <1>3, <1>4, <1>5, <1>6 DEF IInv

(* A briefing looks for a pending snapshot. *)
LEMMA FindPendingKeeps ==
  ASSUME IInv, NEW b \in Briefings, FindPending(b)
  PROVE  IInv'
<1> USE DigestAssumption
<1>1. TypeOK'
  <2>1. lock' \in [Streams -> Writers \cup Briefings \cup {Nil}]
    BY DEF IInv, TypeOK, FindPending, Unlocked
  <2>2. CASE briefing' = [briefing EXCEPT ![b].at = "taking"]
    BY <2>1, <2>2 DEF IInv, TypeOK, FindPending, Holding
  <2>3. ASSUME NEW s \in Pending(briefing[b].cur),
               briefing' = [briefing EXCEPT ![b] = [at |-> "running", cur |-> 0, snap |-> s]]
        PROVE  TypeOK'
    <3>1. s \in snaps
      BY DEF Pending
    <3> QED
      BY <2>1, <2>3, <3>1 DEF IInv, TypeOK, FindPending, Holding
  <2> QED
    BY <2>2, <2>3 DEF FindPending
<1>2. LocksHeld'
  BY DEF IInv, TypeOK, LocksHeld, FindPending, Unlocked, Pending, Holding, Idle
<1>3. Numbered'
  BY DEF IInv, TypeOK, Numbered, FindPending
<1>4. CursorSettled'
  BY DEF IInv, TypeOK, Numbered, CursorSettled, FindPending, Idle, Seen
<1>5. \A s \in snaps' : ClosedWindow(s)'
  BY DEF IInv, ClosedWindow, Seen, FindPending
<1>6. NoEventSkipped' /\ DeliveredOnce'
  BY DEF IInv, TypeOK, NoEventSkipped, DeliveredOnce, CursorSettled, Seen, FindPending
<1> QED
  BY <1>1, <1>2, <1>3, <1>4, <1>5, <1>6 DEF IInv

(* A briefing takes a window, or finds nothing new. *)
LEMMA TakeSnapshotKeeps ==
  ASSUME IInv, NEW b \in Briefings, TakeSnapshot(b)
  PROVE  IInv'
<1> USE DigestAssumption
<1> DEFINE E == FirstOf(NewEvents(briefing[b].cur))
<1>1. CASE E = {} /\ briefing' = [briefing EXCEPT ![b] = Idle] /\ UNCHANGED snaps
  <2>1. TypeOK'
    BY <1>1 DEF IInv, TypeOK, TakeSnapshot, Unlocked, EventAt, Snapshots, Holding, Idle
  <2>2. LocksHeld'
    BY <1>1 DEF IInv, TypeOK, LocksHeld, TakeSnapshot, Unlocked, Holding, Idle
  <2>3. Numbered' /\ CursorSettled' /\ NoEventSkipped' /\ DeliveredOnce'
    BY <1>1 DEF IInv, TypeOK, Numbered, CursorSettled, NoEventSkipped, DeliveredOnce,
                TakeSnapshot, Seen, Idle
  <2>4. \A s \in snaps' : ClosedWindow(s)'
    BY <1>1 DEF IInv, ClosedWindow, TakeSnapshot, Seen
  <2> QED
    BY <2>1, <2>2, <2>3, <2>4 DEF IInv
<1>2. ASSUME NEW lo \in E, NEW hi \in E,
             \A w \in E : event[lo].seq <= event[w].seq /\ event[w].seq <= event[hi].seq,
             snaps' = snaps \cup {[from |-> event[lo].seq, through |-> event[hi].seq, items |-> E]},
             briefing' = [briefing EXCEPT ![b] = [at |-> "running", cur |-> 0,
               snap |-> [from |-> event[lo].seq, through |-> event[hi].seq, items |-> E]]]
      PROVE  IInv'
  <2> DEFINE new == [from |-> event[lo].seq, through |-> event[hi].seq, items |-> E]
  <2>1. new \in Snapshots /\ ClosedWindow(new)
    BY <1>2, TakenIsWindow DEF TakeSnapshot
  <2>2. TypeOK'
    <3> HIDE DEF new
    <3>1. snaps' = snaps \cup {new} /\ briefing' = [briefing EXCEPT ![b] = [at |-> "running", cur |-> 0, snap |-> new]]
      BY <1>2 DEF new
    <3>2. lock' \in [Streams -> Writers \cup Briefings \cup {Nil}]
      BY DEF IInv, TypeOK, TakeSnapshot, Unlocked
    <3>3. briefing' \in [Briefings -> [at : {"idle", "locked", "read", "taking", "running"},
                                 cur : Nat, snap : snaps' \cup {Nil}]]
      BY <3>1 DEF IInv, TypeOK
    <3>4. /\ \A c \in Briefings : briefing'[c].at = "running" => briefing'[c].snap \in snaps'
          /\ \A c, d \in Briefings : Holding(c)' /\ Holding(d)' => c = d
      BY <3>1 DEF IInv, TypeOK, Holding
    <3> QED
      BY <2>1, <3>1, <3>2, <3>3, <3>4 DEF IInv, TypeOK, TakeSnapshot
  <2>3. LocksHeld'
    BY <1>2 DEF IInv, TypeOK, LocksHeld, TakeSnapshot, Unlocked, Holding
  <2>4. Numbered' /\ CursorSettled' /\ NoEventSkipped' /\ DeliveredOnce'
    BY <1>2 DEF IInv, TypeOK, Numbered, CursorSettled, NoEventSkipped, DeliveredOnce,
                TakeSnapshot, Seen
  <2>5. \A s \in snaps' : ClosedWindow(s)'
    <3> HIDE DEF new
    <3>1. snaps' = snaps \cup {new} /\ UNCHANGED <<event, nextSeq, cursor>>
      BY <1>2 DEF new, TakeSnapshot
    <3> QED
      BY <2>1, <3>1 DEF IInv, ClosedWindow, Seen
  <2> QED
    BY <2>2, <2>3, <2>4, <2>5 DEF IInv
<1> QED
  BY <1>1, <1>2 DEF TakeSnapshot

(* A refused snapshot changes nothing that is delivered. *)
LEMMA RefuseKeeps ==
  ASSUME IInv, NEW b \in Briefings, Refuse(b)
  PROVE  IInv'
<1> USE DigestAssumption
<1>1. TypeOK'
  BY DEF IInv, TypeOK, Refuse, EventAt, Snapshots, Holding, Idle
<1>2. LocksHeld'
  BY DEF IInv, TypeOK, LocksHeld, Refuse, Holding, Idle
<1>3. Numbered'
  BY DEF IInv, TypeOK, Numbered, Refuse
<1>4. CursorSettled'
  BY DEF IInv, TypeOK, Numbered, CursorSettled, Refuse, Idle, Seen
<1>5. \A s \in snaps' : ClosedWindow(s)'
  BY DEF IInv, ClosedWindow, Seen, Refuse
<1>6. NoEventSkipped' /\ DeliveredOnce'
  BY DEF IInv, TypeOK, NoEventSkipped, DeliveredOnce, CursorSettled, Seen, Refuse
<1> QED
  BY <1>1, <1>2, <1>3, <1>4, <1>5, <1>6 DEF IInv

(* A delivery moves the cursor to the end of a window that starts behind it. *)
LEMMA DeliverKeeps ==
  ASSUME IInv, NEW b \in Briefings, Deliver(b)
  PROVE  IInv'
<1> USE DigestAssumption
<1>1. TypeOK'
  BY DEF IInv, TypeOK, Deliver, Superseded, EventAt, Snapshots, Holding, Idle
<1>2. LocksHeld'
  BY DEF IInv, TypeOK, LocksHeld, Deliver, Superseded, Holding, Idle
<1>3. Numbered'
  BY DEF IInv, TypeOK, Numbered, Deliver
<1> DEFINE s == briefing[b].snap
<1>4. CASE Superseded(s) /\ UNCHANGED <<delivered, cursor>>
  BY <1>1, <1>2, <1>3, <1>4 DEF IInv, TypeOK, CursorSettled, ClosedWindow, NoEventSkipped, DeliveredOnce,
     Deliver, Seen, Idle
<1>5. CASE /\ ~Superseded(s) /\ delivered' = delivered \cup {s}
           /\ cursor' = IF s.through > cursor THEN s.through ELSE cursor
  <2>1. /\ s \in snaps /\ ClosedWindow(s) /\ s.from \in Nat /\ s.through \in Nat
        /\ s.items \subseteq Writers
    BY DEF IInv, TypeOK, Deliver, Snapshots
  <2>2. /\ cursor \in Nat /\ nextSeq \in Nat /\ cursor' = s.through /\ cursor < s.from
        /\ UNCHANGED <<lock, nextSeq, event, snaps, failures>>
    BY <1>5, <2>1 DEF IInv, TypeOK, Deliver, Superseded, ClosedWindow
  <2>3. CursorSettled'
    <3>1. \A c \in Briefings : briefing'[c].cur <= cursor'
      BY <2>1, <2>2 DEF IInv, TypeOK, CursorSettled, Deliver, Idle, ClosedWindow
    <3>2. \A t \in delivered' : t.through <= cursor'
      <4>1. \A t \in delivered : t.through \in Nat /\ t.through <= cursor
        BY DEF IInv, TypeOK, CursorSettled, Snapshots
      <4> QED
        BY <1>5, <2>1, <2>2, <4>1 DEF ClosedWindow
    <3> QED
      BY <2>1, <2>2, <3>1, <3>2 DEF CursorSettled, ClosedWindow, Seen
  <2>4. \A t \in snaps' : ClosedWindow(t)'
    <3>1. cursor' \in Nat /\ cursor <= cursor'
      BY <2>1, <2>2 DEF ClosedWindow
    <3>2. \A w \in Writers : event[w].seq \in Nat
      BY DEF IInv, TypeOK
    <3> QED
      BY <2>2, <3>1, <3>2, WindowKept
  <2>5. NoEventSkipped'
    <3>1. ASSUME NEW w \in Writers, event[w].at = "committed", Seen(w), event[w].seq <= s.through
          PROVE  \E t \in delivered' : w \in t.items
      <4>1. event[w].seq \in Nat
        BY DEF IInv, TypeOK
      <4>2. event[w].seq <= cursor \/ w \in s.items
        BY <2>1, <3>1, <4>1 DEF ClosedWindow
      <4>3. CASE event[w].seq <= cursor
        BY <1>5, <3>1, <4>3 DEF IInv, NoEventSkipped, Seen
      <4>4. CASE w \in s.items
        BY <1>5, <4>4
      <4> QED
        BY <4>2, <4>3, <4>4
    <3> QED
      BY <2>2, <3>1 DEF NoEventSkipped, Seen
  <2>6. DeliveredOnce'
    <3>1. ASSUME NEW t \in delivered, NEW w \in t.items PROVE w \notin s.items
      <4>1. t \in Snapshots /\ ClosedWindow(t) /\ t.through <= cursor /\ w \in Writers
        BY DEF IInv, TypeOK, CursorSettled, Snapshots
      <4>2. event[w].seq \in Nat /\ t.through \in Nat
        BY <4>1 DEF IInv, TypeOK, Snapshots
      <4> QED
        BY <2>1, <2>2, <4>1, <4>2 DEF ClosedWindow
    <3> QED
      BY <1>5, <3>1 DEF IInv, DeliveredOnce
  <2> QED
    BY <1>1, <1>2, <1>3, <2>3, <2>4, <2>5, <2>6 DEF IInv
<1> QED
  BY <1>4, <1>5 DEF Deliver

(* A failed run leaves its snapshot pending. *)
LEMMA DeliveryFailsKeeps ==
  ASSUME IInv, NEW b \in Briefings, DeliveryFails(b)
  PROVE  IInv'
<1> USE DigestAssumption
<1>1. TypeOK'
  BY DEF IInv, TypeOK, DeliveryFails, EventAt, Snapshots, Holding, Idle
<1>2. LocksHeld'
  BY DEF IInv, TypeOK, LocksHeld, DeliveryFails, Holding, Idle
<1>3. Numbered'
  BY DEF IInv, TypeOK, Numbered, DeliveryFails
<1>4. CursorSettled'
  BY DEF IInv, TypeOK, Numbered, CursorSettled, DeliveryFails, Idle, Seen
<1>5. \A s \in snaps' : ClosedWindow(s)'
  BY DEF IInv, ClosedWindow, Seen, DeliveryFails
<1>6. NoEventSkipped' /\ DeliveredOnce'
  BY DEF IInv, TypeOK, NoEventSkipped, DeliveredOnce, CursorSettled, Seen, DeliveryFails
<1> QED
  BY <1>1, <1>2, <1>3, <1>4, <1>5, <1>6 DEF IInv

(* Every step of a writer and of a briefing keeps the invariant.           *)
LEMMA NextInvariant == IInv /\ [Next]_vars => IInv'
<1> SUFFICES ASSUME IInv, [Next]_vars PROVE IInv'
  OBVIOUS
<1>1. ASSUME NEW w \in Writers, Append(w) PROVE IInv'
  BY <1>1, LockStreamKeeps, InsertEventKeeps, EndTransactionKeeps DEF Append
<1>2. ASSUME NEW b \in Briefings, Brief(b) \/ DeliveryFails(b) PROVE IInv'
  BY <1>2, LockStreamsKeeps, ReadCursorKeeps, FindPendingKeeps, TakeSnapshotKeeps, RefuseKeeps,
     DeliverKeeps, DeliveryFailsKeeps DEF Brief
<1>3. CASE UNCHANGED vars
  BY <1>3 DEF IInv, TypeOK, LocksHeld, Numbered, CursorSettled, ClosedWindow, NoEventSkipped, DeliveredOnce,
     Holding, Seen, vars
<1> QED
  BY <1>1, <1>2, <1>3 DEF Next

(* The invariant of the digest holds for every number of writers and       *)
(* briefings (attention-service.ts: createDigestSnapshotForActor,          *)
(* recordDigestDelivery).                                                  *)
THEOREM DigestInvariant == Spec => []IInv
<1>1. Init => IInv
  BY InitInvariant
<1>2. IInv /\ [Next]_vars => IInv'
  BY NextInvariant
<1> QED
  BY <1>1, <1>2, PTL DEF Spec

(* The cursor skips no visible event, however transactions and briefings   *)
(* interleave (the stream locks of appendPlatformEvent and of              *)
(* createDigestSnapshotForActor).                                          *)
THEOREM DigestSkipsNothing == Spec => []NoEventSkipped
<1>1. IInv => NoEventSkipped
  BY DEF IInv
<1> QED
  BY <1>1, DigestInvariant, PTL

(* No event is in two delivered snapshots (recordDigestDelivery refuses a  *)
(* superseded one).                                                        *)
THEOREM DigestDeliversOnce == Spec => []DeliveredOnce
<1>1. IInv => DeliveredOnce
  BY DEF IInv
<1> QED
  BY <1>1, DigestInvariant, PTL

-----------------------------------------------------------------------------
(* The digest implements the feed.                                         *)

Sent == UNION {s.items : s \in delivered}

(* What is sent lies behind the cursor and is published.                   *)
LEMMA SentIsBehind ==
  ASSUME IInv, NEW w \in Sent
  PROVE  /\ w \in Writers /\ Seen(w) /\ event[w].at = "committed"
         /\ event[w].seq \in Nat /\ event[w].seq <= cursor
<1>1. PICK s \in delivered : w \in s.items
  BY DEF Sent
<1>2. s \in Snapshots /\ ClosedWindow(s) /\ s.through <= cursor
  BY DEF IInv, TypeOK, CursorSettled
<1>3. w \in Writers /\ s.through \in Nat /\ cursor \in Nat
  BY <1>1, <1>2 DEF Snapshots, IInv, TypeOK
<1>4. event[w].seq \in Nat
  BY <1>3 DEF IInv, TypeOK
<1> QED
  BY <1>1, <1>2, <1>3, <1>4 DEF ClosedWindow

(* A commit publishes above everything that was sent, or is not visible,   *)
(* or is rolled back.                                                      *)
LEMMA EndTransactionPublishes ==
  ASSUME IInv, NEW w \in Writers, EndTransaction(w)
  PROVE  Feed!Next \/ UNCHANGED <<FeedNumber, Sent>>
<1> USE DigestAssumption
<1>1. UNCHANGED Sent
  BY DEF EndTransaction, Sent
<1>2. \A v \in Writers : v # w => event'[v] = event[v]
  BY DEF IInv, TypeOK, EndTransaction
<1>3. event[w].at = "inserted" /\ event'[w].seq = event[w].seq /\ event[w].seq \in Nat /\ event[w].seq > 0
  BY DEF IInv, TypeOK, Numbered, EndTransaction
<1>4. CASE Seen(w) /\ event'[w].at = "committed"
  <2>1. FeedNumber[w] = 0 /\ FeedNumber'[w] = event[w].seq
    BY <1>3, <1>4 DEF FeedNumber, Seen
  <2>2. FeedNumber' = [FeedNumber EXCEPT ![w] = FeedNumber'[w]]
    BY <1>2 DEF FeedNumber
  <2>3. ASSUME NEW d \in Sent PROVE FeedNumber[d] < FeedNumber'[w]
    <3>1. d \in Writers /\ FeedNumber[d] = event[d].seq /\ event[d].seq \in Nat /\ event[d].seq <= cursor
      BY SentIsBehind DEF FeedNumber, Seen
    <3>2. cursor \in Nat /\ event[w].seq > cursor
      BY <1>3, <1>4 DEF IInv, TypeOK, CursorSettled
    <3> QED
      BY <1>3, <2>1, <3>1, <3>2
  <2>4. Feed!Publish(w)
    BY <1>1, <1>3, <2>1, <2>2, <2>3 DEF Feed!Publish, Feed!Published, Sent
  <2> QED
    BY <2>4 DEF Feed!Next
<1>5. CASE ~Seen(w) \/ event'[w].at # "committed"
  BY <1>1, <1>2, <1>3, <1>5 DEF FeedNumber, Seen
<1> QED
  BY <1>4, <1>5

(* A delivery sends the next stretch of the feed.                          *)
LEMMA DeliverSends ==
  ASSUME IInv, NEW b \in Briefings, Deliver(b)
  PROVE  Feed!Next \/ UNCHANGED <<FeedNumber, Sent>>
<1> DEFINE s == briefing[b].snap
<1>1. UNCHANGED FeedNumber
  BY DEF Deliver, FeedNumber
<1>2. CASE delivered' = delivered
  BY <1>1, <1>2 DEF Sent
<1>3. CASE ~Superseded(s) /\ delivered' = delivered \cup {s}
  <2>1. s \in Snapshots /\ ClosedWindow(s) /\ s.from > cursor /\ cursor \in Nat
    BY <1>3 DEF IInv, TypeOK, Deliver, Superseded, Snapshots
  <2>2. Sent' = Sent \cup s.items
    BY <1>3 DEF Sent
  <2>3. \A w \in Writers : event[w].seq \in Nat
    BY DEF IInv, TypeOK
  <2>4. s.items \subseteq Feed!Published \ Sent
    <3>1. ASSUME NEW w \in s.items PROVE w \in Feed!Published /\ w \notin Sent
      <4>1. w \in Writers /\ Seen(w) /\ event[w].at = "committed" /\ event[w].seq > cursor
        BY <2>1, <2>3 DEF ClosedWindow, Snapshots
      <4>2. w \notin Sent
        BY <2>1, <2>3, <4>1, SentIsBehind
      <4>3. FeedNumber[w] # 0
        BY <2>1, <2>3, <4>1 DEF FeedNumber, Seen
      <4> QED
        BY <4>1, <4>2, <4>3 DEF Feed!Published
    <3> QED
      BY <3>1
  <2>5. ASSUME NEW e \in s.items, NEW f \in Feed!Published \ Sent, FeedNumber[f] <= FeedNumber[e]
        PROVE  f \in s.items
    <3>1. f \in Writers /\ FeedNumber[f] # 0 /\ f \notin Sent
      BY DEF Feed!Published
    <3>2. Seen(f) /\ event[f].at = "committed" /\ FeedNumber[f] = event[f].seq
      BY <3>1 DEF FeedNumber, Seen
    <3>3. ~(event[f].seq <= cursor)
      BY <3>1, <3>2 DEF IInv, NoEventSkipped, Sent, Seen
    <3>4. e \in Writers /\ FeedNumber[e] = event[e].seq /\ event[e].seq <= s.through
      BY <2>1 DEF ClosedWindow, Snapshots, FeedNumber, Seen
    <3>5. s.through \in Nat /\ event[f].seq <= s.through
      BY <2>1, <2>3, <2>5, <3>1, <3>2, <3>4 DEF Snapshots
    <3> QED
      BY <2>1, <2>3, <3>1, <3>2, <3>3, <3>5 DEF ClosedWindow
  <2>6. Feed!Deliver(s.items)
    BY <1>1, <2>2, <2>5 DEF Feed!Deliver, Sent, Feed!Published
  <2>7. s.items \in SUBSET (Feed!Published \ UNION {t.items : t \in delivered})
    BY <2>4 DEF Sent
  <2>8. \E S \in SUBSET (Feed!Published \ UNION {t.items : t \in delivered}) : Feed!Deliver(S)
    BY <2>6, <2>7 DEF Feed!Deliver
  <2> QED
    BY <2>8, Zenon DEF Feed!Next
<1> QED
  BY <1>2, <1>3 DEF Deliver

(* Every step of the digest is a step of the feed or changes nothing of    *)
(* it.                                                                     *)
LEMMA StepIsFeedStep ==
  ASSUME IInv, [Next]_vars
  PROVE  Feed!Next \/ UNCHANGED <<FeedNumber, Sent>>
<1>1. ASSUME NEW w \in Writers, LockStream(w) \/ InsertEvent(w)
      PROVE  UNCHANGED <<FeedNumber, Sent>>
  <2>1. \A v \in Writers :
          event'[v] = event[v] \/ (event'[v].at # "committed" /\ event[v].at # "committed")
    <3>1. CASE LockStream(w)
      BY <3>1 DEF IInv, TypeOK, LockStream
    <3>2. CASE InsertEvent(w)
      <4>1. event[w].at = "locked" /\ event'[w].at = "inserted"
        BY <3>2 DEF IInv, TypeOK, InsertEvent
      <4>2. \A v \in Writers : v # w => event'[v] = event[v]
        BY <3>2 DEF IInv, TypeOK, InsertEvent
      <4> QED
        BY <4>1, <4>2
    <3> QED
      BY <1>1, <3>1, <3>2
  <2>2. UNCHANGED FeedNumber
    <3>1. \A v \in Writers : FeedNumber'[v] = FeedNumber[v]
      BY <2>1 DEF FeedNumber
    <3> QED
      BY <3>1 DEF FeedNumber
  <2>3. UNCHANGED delivered
    BY <1>1 DEF LockStream, InsertEvent
  <2> QED
    BY <2>2, <2>3 DEF Sent
<1>2. ASSUME NEW b \in Briefings,
             \/ LockStreams(b) \/ ReadCursor(b) \/ FindPending(b) \/ TakeSnapshot(b)
             \/ Refuse(b) \/ DeliveryFails(b)
      PROVE  UNCHANGED <<FeedNumber, Sent>>
  BY <1>2 DEF LockStreams, ReadCursor, FindPending, TakeSnapshot, Refuse, DeliveryFails,
              FeedNumber, Sent
<1>3. CASE UNCHANGED vars
  BY <1>3 DEF vars, FeedNumber, Sent
<1> QED
  BY <1>1, <1>2, <1>3, EndTransactionPublishes, DeliverSends DEF Next, Append, Brief

(* The digest hands out the visible events in order, each once, none       *)
(* skipped: it implements EventFeed under the mapping of the committed     *)
(* visible events to the published ones.                                   *)
THEOREM DigestImplementsFeed == Spec => DeliversInOrder
<1>1. Init => Feed!Init
  BY DEF Init, Feed!Init, FeedNumber
<1>2. IInv /\ [Next]_vars => [Feed!Next]_<<FeedNumber, Sent>>
  BY StepIsFeedStep
<1>3. IInv /\ [Next]_vars => [Feed!Next]_<<FeedNumber, UNION {s.items : s \in delivered}>>
  BY <1>2 DEF Sent
<1> QED
  BY <1>1, <1>3, DigestInvariant, PTL DEF Spec, DeliversInOrder, Feed!Spec

-----------------------------------------------------------------------------
(* Reviews of learning candidates (LearningReview), for any number of      *)
(* candidates, reviewers and group limits.  The rows a transaction updates *)
(* were pending in its snapshot and are unchanged since, so what it decides*)
(* was open when it commits.                                               *)
CONSTANTS Candidates, Reviewers, Content, Source, Hidden, GroupLimit, MaxAttempts, MaxReviews

VARIABLES observed, state, basis, shown, review, answer, reviews

Learning == INSTANCE LearningReview

States == Learning!Verdicts \cup {"absent", "pending"}

(* The transactions of the reviewers, as a set of records.                 *)
ReviewRecords ==
  [of : Candidates, group : SUBSET Candidates, verdict : Learning!Verdicts,
   view : [Candidates -> States], attempt : 1 .. MaxAttempts]

ReviewTyped == review \in [Reviewers -> {Nil} \cup ReviewRecords]

LearningInv == Learning!TypeOK /\ ReviewTyped /\ Learning!OnlyShownAreDecided

(* The rows a decision updates are pending when it commits.                *)
LEMMA DecidedWerePending ==
  ASSUME LearningInv, NEW h \in Reviewers, Learning!Decide(h)
  PROVE  /\ review[h] \in ReviewRecords
         /\ \A c \in Learning!Members(review[h]) : c \in Candidates /\ state[c] = "pending"
<1>1. review[h] \in ReviewRecords
  BY DEF LearningInv, ReviewTyped, Learning!Decide
<1>2. ASSUME NEW c \in Learning!Members(review[h])
      PROVE  c \in Candidates /\ state[c] = "pending"
  <2>1. c \in Candidates /\ review[h].view[c] = "pending"
    BY <1>1, <1>2 DEF Learning!Members, Learning!Decide, Learning!Acceptable, ReviewRecords
  <2>2. state[c] = review[h].view[c]
    BY <1>2 DEF Learning!Decide, Learning!Conflicts
  <2> QED
    BY <2>1, <2>2
<1> QED
  BY <1>1, <1>2

(* No decision is overwritten.                                             *)
LEMMA DecisionsStay ==
  ASSUME LearningInv, [Learning!Next]_(Learning!vars)
  PROVE  Learning!FirstDecisionStands
<1> SUFFICES ASSUME NEW c \in Candidates, state[c] \in Learning!Verdicts
             PROVE  state'[c] = state[c]
  BY DEF Learning!FirstDecisionStands
<1>1. state \in [Candidates -> States] /\ state[c] # "pending" /\ state[c] # "absent"
  BY DEF LearningInv, Learning!TypeOK, States, Learning!Verdicts
<1>2. ASSUME NEW h \in Reviewers, Learning!Decide(h)
      PROVE  state'[c] = state[c]
  <2>1. c \notin Learning!Members(review[h])
    BY <1>1, <1>2, DecidedWerePending
  <2> QED
    BY <1>2, <2>1 DEF Learning!Decide
<1>3. ASSUME NEW d \in Candidates, Learning!CreateObservation(d) \/ Learning!CreateCandidate(d)
      PROVE  state'[c] = state[c]
  BY <1>1, <1>3 DEF Learning!CreateObservation, Learning!CreateCandidate
<1>4. ASSUME NEW h \in Reviewers, Learning!RefuseDecided(h) \/ Learning!RefuseGroup(h) \/ Learning!Retry(h)
      PROVE  state'[c] = state[c]
  BY <1>4 DEF Learning!RefuseDecided, Learning!RefuseGroup, Learning!Retry
<1>5. ASSUME NEW h \in Reviewers, NEW d \in Candidates, NEW group, NEW verdict,
             Learning!ShowAttention(h, d) \/ Learning!BeginReview(h, d, group, verdict)
      PROVE  state'[c] = state[c]
  BY <1>5 DEF Learning!ShowAttention, Learning!BeginReview
<1>6. CASE UNCHANGED Learning!vars
  BY <1>6 DEF Learning!vars
<1> QED
  BY <1>2, <1>3, <1>4, <1>5, <1>6 DEF Learning!Next

(* What answering a reviewer leaves well typed.                            *)
LEMMA AnswerTyped ==
  ASSUME LearningInv, NEW h \in Reviewers,
         NEW text \in {"none", "decided", "repeated", "already", "changed", "limit", "conflict"},
         Learning!Answer(h, text), state' \in [Candidates -> States],
         basis' \in [Candidates -> SUBSET Candidates]
  PROVE  Learning!TypeOK' /\ ReviewTyped'
<1>1. review' \in [Reviewers -> {Nil} \cup ReviewRecords]
  BY DEF LearningInv, ReviewTyped, Learning!Answer
<1>2. answer' \in [Reviewers -> {"none", "decided", "repeated", "already", "changed", "limit", "conflict"}]
  BY DEF LearningInv, Learning!TypeOK, Learning!Answer
<1>3. UNCHANGED <<observed, shown, reviews>>
  BY DEF Learning!Answer
<1>4. \A g \in Reviewers : review'[g] = Nil \/
        /\ review'[g].of \in Candidates /\ review'[g].group \subseteq Candidates
        /\ review'[g].verdict \in Learning!Verdicts /\ review'[g].attempt \in 1 .. MaxAttempts
        /\ review'[g].view \in [Candidates -> Learning!Verdicts \cup {"absent", "pending"}]
  BY <1>1 DEF ReviewRecords, States
<1> QED
  BY <1>1, <1>2, <1>3, <1>4 DEF LearningInv, Learning!TypeOK, ReviewTyped, States

(* The records stay well typed.                                            *)
LEMMA LearningTyped ==
  ASSUME Learning!ReviewAssumption, LearningInv, [Learning!Next]_(Learning!vars)
  PROVE  Learning!TypeOK' /\ ReviewTyped'
<1> USE DEF LearningInv
<1>0. ASSUME ReviewTyped'
      PROVE  \A g \in Reviewers : review'[g] = Nil \/
        /\ review'[g].of \in Candidates /\ review'[g].group \subseteq Candidates
        /\ review'[g].verdict \in Learning!Verdicts /\ review'[g].attempt \in 1 .. MaxAttempts
        /\ review'[g].view \in [Candidates -> Learning!Verdicts \cup {"absent", "pending"}]
  BY <1>0 DEF ReviewTyped, ReviewRecords, States
<1>1. ASSUME NEW c \in Candidates, Learning!CreateObservation(c) \/ Learning!CreateCandidate(c)
      PROVE  Learning!TypeOK' /\ ReviewTyped'
  <2>1. state' \in [Candidates -> Learning!Verdicts \cup {"absent", "pending"}] /\ observed' \subseteq Candidates
    BY <1>1 DEF Learning!TypeOK, Learning!CreateObservation, Learning!CreateCandidate
  <2>2. UNCHANGED <<basis, shown, review, answer, reviews>>
    BY <1>1 DEF Learning!CreateObservation, Learning!CreateCandidate
  <2>3. ReviewTyped'
    BY <2>2 DEF ReviewTyped
  <2> QED
    BY <1>0, <2>1, <2>2, <2>3 DEF Learning!TypeOK
<1>2. ASSUME NEW h \in Reviewers, NEW c \in Candidates, Learning!ShowAttention(h, c)
      PROVE  Learning!TypeOK' /\ ReviewTyped'
  <2>1. Learning!AttentionGroup(c) \subseteq Candidates
    BY DEF Learning!AttentionGroup
  <2>2. shown' \in [Reviewers -> SUBSET Candidates]
    BY <1>2, <2>1 DEF Learning!TypeOK, Learning!ShowAttention
  <2>3. UNCHANGED <<observed, state, basis, review, answer, reviews>>
    BY <1>2 DEF Learning!ShowAttention
  <2>4. ReviewTyped'
    BY <2>3 DEF ReviewTyped
  <2> QED
    BY <1>0, <2>2, <2>3, <2>4 DEF Learning!TypeOK
<1>3. ASSUME NEW h \in Reviewers, NEW c \in Candidates, NEW group \in {{}, shown[h]},
             NEW verdict \in Learning!Verdicts, Learning!BeginReview(h, c, group, verdict)
      PROVE  Learning!TypeOK' /\ ReviewTyped'
  <2>1. group \subseteq Candidates /\ 1 \in 1 .. MaxAttempts /\ state \in [Candidates -> States]
    BY DEF Learning!TypeOK, Learning!ReviewAssumption, States
  <2>2. [of |-> c, group |-> group, verdict |-> verdict, view |-> state, attempt |-> 1] \in ReviewRecords
    BY <2>1 DEF ReviewRecords
  <2>3. ReviewTyped'
    BY <1>3, <2>2 DEF ReviewTyped, Learning!BeginReview
  <2>4. answer' \in [Reviewers -> {"none", "decided", "repeated", "already", "changed", "limit", "conflict"}]
    BY <1>3 DEF Learning!TypeOK, Learning!BeginReview
  <2>5. reviews' \in 0 .. MaxReviews /\ UNCHANGED <<observed, state, basis, shown>>
    BY <1>3 DEF Learning!TypeOK, Learning!BeginReview, Learning!ReviewAssumption
  <2> QED
    BY <1>0, <2>3, <2>4, <2>5 DEF Learning!TypeOK
<1>4. state \in [Candidates -> States] /\ basis \in [Candidates -> SUBSET Candidates]
  BY DEF Learning!TypeOK, States
<1>5. ASSUME NEW h \in Reviewers, Learning!RefuseDecided(h)
      PROVE  Learning!TypeOK' /\ ReviewTyped'
  BY <1>4, <1>5, AnswerTyped DEF Learning!RefuseDecided
<1>6. ASSUME NEW h \in Reviewers, Learning!RefuseGroup(h)
      PROVE  Learning!TypeOK' /\ ReviewTyped'
  BY <1>4, <1>6, AnswerTyped DEF Learning!RefuseGroup
<1>7. ASSUME NEW h \in Reviewers, Learning!Retry(h)
      PROVE  Learning!TypeOK' /\ ReviewTyped'
  <2>1. CASE Learning!Answer(h, "conflict") /\ UNCHANGED <<state, basis>>
    BY <1>4, <2>1, AnswerTyped
  <2>2. CASE /\ review[h].attempt < MaxAttempts
             /\ review' = [review EXCEPT ![h].view = state, ![h].attempt = @ + 1]
             /\ UNCHANGED <<observed, state, basis, shown, answer, reviews>>
    <3>1. review[h] \in ReviewRecords
      BY <1>7 DEF ReviewTyped, Learning!Retry
    <3>2. review[h].attempt + 1 \in 1 .. MaxAttempts
      BY <2>2, <3>1 DEF ReviewRecords, Learning!ReviewAssumption
    <3>3. [review[h] EXCEPT !.view = state, !.attempt = @ + 1] \in ReviewRecords
      BY <1>4, <3>1, <3>2 DEF ReviewRecords
    <3>4. review' = [review EXCEPT ![h] = [review[h] EXCEPT !.view = state, !.attempt = @ + 1]]
      BY <2>2 DEF ReviewTyped
    <3>5. ReviewTyped'
      BY <3>3, <3>4 DEF ReviewTyped
    <3> QED
      BY <1>0, <2>2, <3>5 DEF Learning!TypeOK
  <2> QED
    BY <1>7, <2>1, <2>2 DEF Learning!Retry
<1>8. ASSUME NEW h \in Reviewers, Learning!Decide(h)
      PROVE  Learning!TypeOK' /\ ReviewTyped'
  <2>1. review[h] \in ReviewRecords
    BY <1>8, DecidedWerePending
  <2>2. state' \in [Candidates -> States]
    BY <1>4, <1>8, <2>1 DEF Learning!Decide, ReviewRecords, States
  <2>3. basis' \in [Candidates -> SUBSET Candidates]
    BY <1>4, <1>8, <2>1 DEF Learning!Decide, ReviewRecords
  <2> QED
    BY <1>8, <2>2, <2>3, AnswerTyped DEF Learning!Decide
<1>9. CASE UNCHANGED Learning!vars
  BY <1>9 DEF Learning!vars, Learning!TypeOK, ReviewTyped
<1> QED
  BY <1>1, <1>2, <1>3, <1>5, <1>6, <1>7, <1>8, <1>9 DEF Learning!Next

(* A decision decides its whole group and nothing of another one.          *)
LEMMA GroupsDecidedWhole ==
  ASSUME LearningInv, [Learning!Next]_(Learning!vars)
  PROVE  Learning!OnlyShownAreDecided'
<1>1. state \in [Candidates -> States] /\ basis \in [Candidates -> SUBSET Candidates]
  BY DEF LearningInv, Learning!TypeOK, States
<1>2. ASSUME UNCHANGED <<state, basis>>
      PROVE  Learning!OnlyShownAreDecided'
  BY <1>2 DEF LearningInv, Learning!OnlyShownAreDecided
<1>3. ASSUME NEW d \in Candidates, Learning!CreateObservation(d) \/ Learning!CreateCandidate(d)
      PROVE  Learning!OnlyShownAreDecided'
  <2>1. \A c \in Candidates : state[c] \in Learning!Verdicts \/ state'[c] \in Learning!Verdicts
                                => state'[c] = state[c]
    BY <1>1, <1>3 DEF Learning!CreateObservation, Learning!CreateCandidate, Learning!Verdicts
  <2>2. UNCHANGED basis
    BY <1>3 DEF Learning!CreateObservation, Learning!CreateCandidate
  <2> SUFFICES ASSUME NEW c \in Candidates, state'[c] \in Learning!Verdicts
               PROVE  c \in basis[c] /\ \A e \in basis[c] : state'[e] = state'[c]
    BY <2>2 DEF Learning!OnlyShownAreDecided
  <2>3. state[c] = state'[c] /\ c \in basis[c] /\ \A e \in basis[c] : e \in Candidates /\ state[e] = state[c]
    BY <1>1, <2>1 DEF LearningInv, Learning!OnlyShownAreDecided
  <2> QED
    BY <2>1, <2>3
<1>4. ASSUME NEW h \in Reviewers, Learning!Decide(h)
      PROVE  Learning!OnlyShownAreDecided'
  <2> DEFINE r == review[h]
             M == Learning!Members(r)
             B(c) == IF r.group = {} THEN {c} ELSE r.group
  <2>1. r \in ReviewRecords /\ \A c \in M : c \in Candidates /\ state[c] = "pending"
    BY <1>4, DecidedWerePending
  <2>2. \A c \in Candidates : state'[c] = IF c \in M THEN r.verdict ELSE state[c]
    BY <1>4 DEF Learning!Decide
  <2>3. \A c \in Candidates : basis'[c] = IF c \in M THEN B(c) ELSE basis[c]
    BY <1>4 DEF Learning!Decide
  <2>4. \A c \in M : c \in B(c) /\ B(c) \subseteq M
    BY <1>4 DEF Learning!Decide, Learning!Acceptable, Learning!GroupMatches, Learning!Members
  <2> SUFFICES ASSUME NEW c \in Candidates, state'[c] \in Learning!Verdicts
               PROVE  c \in basis'[c] /\ \A e \in basis'[c] : state'[e] = state'[c]
    BY DEF Learning!OnlyShownAreDecided
  <2> HIDE DEF r, M, B
  <2>5. CASE c \in M
    <3>1. basis'[c] = B(c) /\ state'[c] = r.verdict
      BY <2>2, <2>3, <2>5
    <3>2. \A e \in B(c) : e \in M /\ state'[e] = r.verdict
      BY <2>1, <2>2, <2>4, <2>5
    <3> QED
      BY <2>4, <2>5, <3>1, <3>2
  <2>6. CASE c \notin M
    <3>1. basis'[c] = basis[c] /\ state'[c] = state[c] /\ state[c] # "pending"
      BY <2>2, <2>3, <2>6 DEF Learning!Verdicts
    <3>2. c \in basis[c] /\ \A e \in basis[c] : e \in Candidates /\ state[e] = state[c]
      BY <1>1, <3>1 DEF LearningInv, Learning!OnlyShownAreDecided
    <3>3. \A e \in basis[c] : e \notin M
      BY <2>1, <3>1, <3>2
    <3> QED
      BY <2>2, <3>1, <3>2, <3>3
  <2> QED
    BY <2>5, <2>6
<1>5. ASSUME NEW h \in Reviewers, Learning!RefuseDecided(h) \/ Learning!RefuseGroup(h) \/ Learning!Retry(h)
      PROVE  UNCHANGED <<state, basis>>
  BY <1>5 DEF Learning!RefuseDecided, Learning!RefuseGroup, Learning!Retry
<1>6. ASSUME NEW h \in Reviewers, NEW d \in Candidates, NEW group, NEW verdict,
             Learning!ShowAttention(h, d) \/ Learning!BeginReview(h, d, group, verdict)
      PROVE  UNCHANGED <<state, basis>>
  BY <1>6 DEF Learning!ShowAttention, Learning!BeginReview
<1>7. CASE UNCHANGED Learning!vars
  BY <1>2, <1>7 DEF Learning!vars
<1> QED
  BY <1>2, <1>3, <1>4, <1>5, <1>6, <1>7 DEF Learning!Next

(* A group decision covers exactly the candidates its reviewer was shown,  *)
(* and the first decision of a candidate stands, whoever reviews at the    *)
(* same time and however often a serializable transaction is retried       *)
(* (reviewMemoryCandidate, reviewImprovementCandidate).                    *)
THEOREM ReviewsDecideWhatWasShown ==
  Learning!ReviewAssumption =>
    (Learning!Spec => /\ [](Learning!TypeOK /\ Learning!OnlyShownAreDecided)
                      /\ [][Learning!FirstDecisionStands]_(Learning!vars))
<1> SUFFICES ASSUME Learning!ReviewAssumption
             PROVE  Learning!Spec => /\ [](Learning!TypeOK /\ Learning!OnlyShownAreDecided)
                                     /\ [][Learning!FirstDecisionStands]_(Learning!vars)
  OBVIOUS
<1>1. Learning!Init => LearningInv
  <2>1. Learning!Init => Learning!TypeOK
    BY DEF Learning!Init, Learning!TypeOK, Learning!ReviewAssumption
  <2>2. Learning!Init => ReviewTyped /\ Learning!OnlyShownAreDecided
    BY DEF Learning!Init, ReviewTyped, Learning!OnlyShownAreDecided, Learning!Verdicts
  <2> QED
    BY <2>1, <2>2 DEF LearningInv
<1>2. LearningInv /\ [Learning!Next]_(Learning!vars) => LearningInv'
  BY LearningTyped, GroupsDecidedWhole DEF LearningInv
<1>3. LearningInv => Learning!TypeOK /\ Learning!OnlyShownAreDecided
  BY DEF LearningInv
<1>4. LearningInv /\ [Learning!Next]_(Learning!vars) => [Learning!FirstDecisionStands]_(Learning!vars)
  BY DecisionsStay
<1> QED
  BY <1>1, <1>2, <1>3, <1>4, PTL DEF Learning!Spec

-----------------------------------------------------------------------------
(* Schedules and their dispatches (AutomationScheduler), for any number of *)
(* processes and schedules, any policies, intervals, deduplication windows *)
(* and limits.                                                             *)
CONSTANTS Procs, Schedules, Tokens, Policy, Interval, Window, MaxCatchUp, WithGrant,
          WithDigest, Limit, Horizon, MaxMoves, MaxLost, MaxSlow

VARIABLES now, current, sched, dispatch, run, digest, tick, moves, lost, slow

Scheduler == INSTANCE AutomationScheduler

(* The rows that exist, and the ones some tick has claimed at some time.   *)
Rows    == {d \in Scheduler!Occurrences : dispatch[d].state # "absent"}
Claimed == {d \in Scheduler!Occurrences : dispatch[d].state \in {"processing", "run_created", "failed"}}
HasRun  == {k \in Scheduler!Keys : run[k] # Nil}

DispatchRecords ==
  [state : {"absent", "pending", "processing", "run_created", "failed"},
   token : Tokens \cup {Nil}, live : BOOLEAN, born : Scheduler!Times]

Busy  == {"checking", "inserting", "settling", "failing"}
Ticks ==
  [pc : {"idle", "claimed", "working"} \cup Busy, token : Tokens \cup {Nil},
   todo : SUBSET Scheduler!Occurrences, valid : SUBSET Scheduler!Occurrences,
   at : Scheduler!Occurrences \cup {Nil}, input : Nat]

(* A call of scheduleDue that claimed dispatches has a token, works only   *)
(* on dispatches that were claimed, and records a run that is there.       *)
TickGood(x, claimed, hasRun) ==
  /\ x \in Ticks /\ x.valid \subseteq x.todo /\ x.todo \subseteq claimed
  /\ x.pc = "idle" => x = Scheduler!Idle
  /\ x.pc # "idle" => x.token \in Tokens
  /\ x.pc \in Busy => x.at \in x.todo
  /\ x.pc = "settling" => Scheduler!Key(x.at) \in hasRun

TicksGood == tick \in [Procs -> Ticks] /\ \A p \in Procs : TickGood(tick[p], Claimed, HasRun)

(* A settled dispatch is held by nobody.                                   *)
DispatchGood ==
  /\ dispatch \in [Scheduler!Occurrences -> DispatchRecords]
  /\ \A d \in Scheduler!Occurrences :
       Scheduler!Settled(d) => dispatch[d].token = Nil /\ ~dispatch[d].live

ClockTyped ==
  /\ now \in Scheduler!Times /\ current \in BOOLEAN /\ digest \in Nat
  /\ sched \in [Schedules -> [state : {"new", "checked", "active", "paused"}, next : Nat]]

SchedulerInv ==
  /\ ClockTyped /\ DispatchGood /\ run \in [Scheduler!Keys -> {Nil} \cup Scheduler!Runs]
  /\ TicksGood /\ Scheduler!RunsAreDispatched

(* How many intervals before nextRunAt an occurrence lies that the policy  *)
(* keeps.                                                                  *)
KeptBack(s) ==
  CASE Policy[s] = "all" -> Nat \ {0} [] Policy[s] = "latest_only" -> {1} [] OTHER -> {}

Covered(rows, s, t) == \E e \in rows : Scheduler!Key(e) = Scheduler!Key(<<s, t>>)

RowsBeforeNext ==
  \A d \in Rows : d[2] < sched[d[1]].next /\ sched[d[1]].state \notin {"new", "checked"}

OneRowPerBucket == \A d, e \in Rows : Scheduler!Key(d) = Scheduler!Key(e) => d = e

KeptAreCovered ==
  \A s \in Schedules, d \in Rows : d[1] = s =>
    \A q \in KeptBack(s) :
      d[2] <= sched[s].next - q * Interval => Covered(Rows, s, sched[s].next - q * Interval)

CatchUpInv == RowsBeforeNext /\ OneRowPerBucket /\ KeptAreCovered

-----------------------------------------------------------------------------
(* Arithmetic of the occurrences.                                          *)

LEMMA SmallestOf ==
  ASSUME NEW T, T \subseteq Nat, T # {}
  PROVE  \E x \in T : \A y \in T : x <= y
<1>1. IsWellFoundedOn(OpToRel(<, Nat), Nat)
  BY NatLessThanWellFounded
<1>2. PICK x \in T : \A y \in T : ~(<<y, x>> \in OpToRel(<, Nat))
  BY <1>1, WFMin, Zenon
<1>3. \A y \in T : ~(y < x)
  BY <1>2 DEF OpToRel
<1> QED
  BY <1>3

(* The minimum of the library over numbers.                                *)
LEMMA MinOf ==
  ASSUME NEW T, T \subseteq Nat, T # {}
  PROVE  Scheduler!Min(T) \in T /\ \A y \in T : Scheduler!Min(T) <= y
BY SmallestOf DEF Scheduler!Min

(* Facts about quotients and multiples.                                    *)
LEMMA DivBelow ==
  ASSUME NEW a \in Nat, NEW b \in Nat \ {0}
  PROVE  a \div b \in Nat /\ (a \div b) * b <= a
OBVIOUS

LEMMA TimesMonotone ==
  ASSUME NEW i \in Nat, NEW k \in Nat, NEW b \in Nat, i <= k
  PROVE  i * b \in Nat /\ k * b \in Nat /\ i * b <= k * b
OBVIOUS

LEMMA Divides ==
  ASSUME NEW x \in Int, NEW b \in Nat \ {0}, x % b = 0
  PROVE  x \div b \in Int /\ x = (x \div b) * b
OBVIOUS

(* What planDueOccurrences returns for a due schedule.                     *)
Steps(s, next) ==
  IF Policy[s] = "all" THEN Scheduler!Min({Scheduler!DueCount(next), MaxCatchUp})
  ELSE Scheduler!DueCount(next)

(* A due schedule has at least one due occurrence, none of them later than *)
(* now, and takes at least one step.                                       *)
LEMMA StepsDue ==
  ASSUME Scheduler!ScheduleAssumption, NEW s \in Schedules, now \in Nat, NEW n \in Nat, n <= now
  PROVE  /\ Scheduler!DueCount(n) \in Nat \ {0} /\ (Scheduler!DueCount(n) - 1) * Interval <= now - n
         /\ Steps(s, n) \in Nat \ {0} /\ Steps(s, n) <= Scheduler!DueCount(n)
<1>1. Scheduler!DueCount(n) \in Nat \ {0} /\ (Scheduler!DueCount(n) - 1) * Interval <= now - n
  <2> DEFINE k == (now - n) \div Interval
  <2>1. k \in Nat /\ k * Interval <= now - n
    BY DivBelow DEF Scheduler!ScheduleAssumption
  <2>2. Scheduler!DueCount(n) = k + 1
    BY DEF Scheduler!DueCount
  <2> HIDE DEF k
  <2>3. Scheduler!DueCount(n) - 1 = k
    BY <2>1, <2>2
  <2> QED
    BY <2>1, <2>2, <2>3
<1>2. MaxCatchUp \in Nat \ {0}
  BY DEF Scheduler!ScheduleAssumption
<1>3. /\ Scheduler!Min({Scheduler!DueCount(n), MaxCatchUp}) \in {Scheduler!DueCount(n), MaxCatchUp}
      /\ Scheduler!Min({Scheduler!DueCount(n), MaxCatchUp}) <= Scheduler!DueCount(n)
  BY <1>1, <1>2, MinOf
<1> QED
  BY <1>1, <1>2, <1>3 DEF Steps

(* The planned occurrences lie between nextRunAt and now, before the new   *)
(* nextRunAt, and the kept ones among the steps are planned.               *)
LEMMA PlannedTimes ==
  ASSUME Scheduler!ScheduleAssumption, NEW s \in Schedules, now \in Nat, NEW n \in Nat, n <= now
  PROVE  /\ Scheduler!NextRunAt(s, n) = n + Steps(s, n) * Interval
         /\ Scheduler!NextRunAt(s, n) \in Nat
         /\ \A t \in Scheduler!Planned(s, n) :
              t \in Nat /\ n <= t /\ t <= now /\ t < Scheduler!NextRunAt(s, n)
         /\ \A q \in KeptBack(s) : q <= Steps(s, n) =>
              Scheduler!NextRunAt(s, n) - q * Interval \in Scheduler!Planned(s, n)
<1> DEFINE k == Steps(s, n)
           c == Scheduler!DueCount(n)
<1>1. k \in Nat \ {0} /\ k <= c /\ c \in Nat \ {0} /\ (c - 1) * Interval <= now - n
  BY StepsDue
<1>2. Interval \in Nat \ {0} /\ Policy[s] \in {"all", "latest_only", "none"}
  BY DEF Scheduler!ScheduleAssumption
<1>3. Scheduler!NextRunAt(s, n) = n + Interval * k
  BY DEF Scheduler!NextRunAt, Steps
<1>4. Scheduler!Planned(s, n) =
        CASE Policy[s] = "none"        -> {}
          [] Policy[s] = "latest_only" -> {n + (c - 1) * Interval}
          [] Policy[s] = "all"         -> {n + i * Interval : i \in 0 .. k - 1}
  BY <1>2 DEF Scheduler!Planned, Steps
<1>5. Policy[s] # "all" => k = c
  BY DEF Steps
<1> HIDE DEF k, c
<1>6. Interval * k = k * Interval /\ k * Interval \in Nat
  BY <1>1, <1>2
<1>7. \A t \in Scheduler!Planned(s, n) : \E i \in 0 .. k - 1 : t = n + i * Interval
  <2>1. CASE Policy[s] = "all"
    BY <1>4, <2>1
  <2>2. CASE Policy[s] = "latest_only"
    <3>1. c - 1 \in 0 .. k - 1 /\ Scheduler!Planned(s, n) = {n + (c - 1) * Interval}
      BY <1>1, <1>4, <1>5, <2>2
    <3> QED
      BY <3>1
  <2>3. CASE Policy[s] = "none"
    BY <1>4, <2>3
  <2> QED
    BY <1>2, <2>1, <2>2, <2>3
<1>8. ASSUME NEW i \in 0 .. k - 1
      PROVE  /\ i * Interval \in Nat /\ i * Interval <= now - n
             /\ i * Interval < k * Interval
  <2>1. i \in Nat /\ i + 1 \in Nat /\ c - 1 \in Nat /\ i <= c - 1 /\ i + 1 <= k
    BY <1>1, <1>8
  <2>2. i * Interval \in Nat /\ i * Interval <= (c - 1) * Interval /\ (c - 1) * Interval \in Nat
    BY <1>2, <2>1, TimesMonotone
  <2>3. (i + 1) * Interval <= k * Interval /\ (i + 1) * Interval \in Nat
    BY <1>1, <1>2, <2>1, TimesMonotone
  <2>4. (i + 1) * Interval = i * Interval + Interval
    BY <1>2, <2>1
  <2> QED
    BY <1>1, <1>2, <1>6, <2>2, <2>3, <2>4
<1>9. \A t \in Scheduler!Planned(s, n) :
        t \in Nat /\ n <= t /\ t <= now /\ t < n + k * Interval
  <2> TAKE t \in Scheduler!Planned(s, n)
  <2>1. PICK i \in 0 .. k - 1 : t = n + i * Interval
    BY <1>7
  <2>2. /\ i * Interval \in Nat /\ i * Interval <= now - n
        /\ i * Interval < k * Interval
    BY <1>8
  <2> QED
    BY <1>6, <2>1, <2>2
<1>10. ASSUME NEW q \in KeptBack(s), q <= k
       PROVE  (n + k * Interval) - q * Interval \in Scheduler!Planned(s, n)
  <2>1. q \in Nat \ {0} /\ (Policy[s] = "all" \/ (Policy[s] = "latest_only" /\ q = 1))
    BY <1>2, <1>10 DEF KeptBack
  <2>2. k - q \in 0 .. k - 1
    BY <1>1, <1>10, <2>1
  <2>3. k * Interval - q * Interval = (k - q) * Interval
    BY <1>1, <1>2, <2>1
  <2>4. k * Interval \in Nat /\ q * Interval \in Nat /\ (k - q) * Interval \in Nat
    BY <1>1, <1>2, <2>1, <2>2, TimesMonotone
  <2>5. (n + k * Interval) - q * Interval = n + (k - q) * Interval
    BY <2>3, <2>4
  <2> QED
    BY <1>4, <1>5, <2>1, <2>2, <2>5
<1>11. Scheduler!NextRunAt(s, n) = n + k * Interval /\ n + k * Interval \in Nat
  BY <1>3, <1>6
<1>13. Scheduler!NextRunAt(s, n) = n + Steps(s, n) * Interval /\ Scheduler!NextRunAt(s, n) \in Nat
  BY <1>11 DEF k
<1>14. \A t \in Scheduler!Planned(s, n) :
         t \in Nat /\ n <= t /\ t <= now /\ t < Scheduler!NextRunAt(s, n)
  BY <1>9, <1>11
<1>15. \A q \in KeptBack(s) : q <= Steps(s, n) =>
         Scheduler!NextRunAt(s, n) - q * Interval \in Scheduler!Planned(s, n)
  <2> SUFFICES ASSUME NEW q \in KeptBack(s), q <= k
               PROVE  Scheduler!NextRunAt(s, n) - q * Interval \in Scheduler!Planned(s, n)
    BY DEF k
  <2>1. Scheduler!NextRunAt(s, n) - q * Interval = (n + k * Interval) - q * Interval
    BY <1>11, Zenon
  <2> QED
    BY <1>10, <2>1, Zenon
<1> QED
  BY <1>13, <1>14, <1>15

-----------------------------------------------------------------------------
(* The steps.                                                              *)

(* The invariant includes the type invariant.                              *)
LEMMA SchedulerTypes == ASSUME SchedulerInv PROVE Scheduler!TypeOK
<1>1. \A k \in Scheduler!Keys : run[k] = Nil \/ run[k] \in Scheduler!Runs
  BY DEF SchedulerInv
<1>2. \A p \in Procs : TickGood(tick[p], Claimed, HasRun)
  BY DEF SchedulerInv, TicksGood
<1>3. \A p \in Procs :
        /\ tick[p].pc \in {"idle", "claimed", "working", "checking", "inserting", "settling", "failing"}
        /\ tick[p].todo \subseteq Scheduler!Occurrences /\ tick[p].valid \subseteq tick[p].todo
        /\ tick[p].pc = "idle" => tick[p] = Scheduler!Idle
  BY <1>2 DEF TickGood, Ticks, Busy
<1> QED
  BY <1>1, <1>3 DEF SchedulerInv, ClockTyped, DispatchGood, Scheduler!TypeOK, DispatchRecords

(* A step that changes one tick and takes back no claim and no run.        *)
LEMMA TickMoves ==
  ASSUME TicksGood, NEW p \in Procs, NEW y, TickGood(y, Claimed', HasRun'),
         tick' = [tick EXCEPT ![p] = y], Claimed \subseteq Claimed', HasRun \subseteq HasRun'
  PROVE  TicksGood'
<1>1. y \in Ticks
  BY DEF TickGood
<1>2. tick' \in [Procs -> Ticks]
  BY <1>1 DEF TicksGood
<1>3. ASSUME NEW q \in Procs
      PROVE  TickGood(tick'[q], Claimed', HasRun')
  <2>1. CASE q = p
    BY <2>1 DEF TicksGood
  <2>2. CASE q # p
    <3>1. tick'[q] = tick[q] /\ TickGood(tick[q], Claimed, HasRun)
      BY <2>2 DEF TicksGood
    <3> QED
      BY <3>1 DEF TickGood
  <2> QED
    BY <2>1, <2>2
<1> QED
  BY <1>2, <1>3 DEF TicksGood

(* A step that changes no tick and takes back no claim and no run.         *)
LEMMA TicksStay ==
  ASSUME TicksGood, UNCHANGED tick, Claimed \subseteq Claimed', HasRun \subseteq HasRun'
  PROVE  TicksGood'
<1>1. \A q \in Procs : tick'[q] = tick[q] /\ TickGood(tick[q], Claimed, HasRun)
  BY DEF TicksGood
<1>2. \A q \in Procs : TickGood(tick'[q], Claimed', HasRun')
  BY <1>1 DEF TickGood
<1> QED
  BY <1>2 DEF TicksGood

(* A dispatch that was claimed stays so, and a run stays; the second part  *)
(* of RunsAreDispatched is about the step that records a run.              *)
LEMMA RunsStayDispatched ==
  ASSUME SchedulerInv, Claimed \subseteq Claimed', HasRun \subseteq HasRun',
         \A k \in HasRun' \ HasRun : \E d \in Claimed' : Scheduler!Key(d) = k,
         \A d \in Scheduler!Occurrences : dispatch'[d].state = "run_created" =>
           dispatch[d].state = "run_created" \/ Scheduler!Key(d) \in HasRun'
  PROVE  Scheduler!RunsAreDispatched'
<1>1. ASSUME NEW k \in Scheduler!Keys, run'[k] # Nil
      PROVE  \E d \in Scheduler!Occurrences :
               Scheduler!Key(d) = k /\ dispatch'[d].state \in {"processing", "run_created", "failed"}
  <2>1. \E d \in Claimed' : Scheduler!Key(d) = k
    <3>1. CASE run[k] # Nil
      <4>1. \E d \in Claimed : Scheduler!Key(d) = k
        BY <3>1 DEF SchedulerInv, Scheduler!RunsAreDispatched, Claimed
      <4> QED
        BY <4>1
    <3>2. CASE run[k] = Nil
      <4>1. k \in HasRun' \ HasRun
        BY <1>1, <3>2 DEF HasRun
      <4> QED
        BY <4>1
    <3> QED
      BY <3>1, <3>2
  <2> QED
    BY <2>1 DEF Claimed
<1>2. ASSUME NEW d \in Scheduler!Occurrences, dispatch'[d].state = "run_created"
      PROVE  run'[Scheduler!Key(d)] # Nil
  <2>1. Scheduler!Key(d) \in Scheduler!Keys
    BY DEF Scheduler!Keys
  <2>2. dispatch[d].state = "run_created" => Scheduler!Key(d) \in HasRun
    BY <2>1 DEF SchedulerInv, Scheduler!RunsAreDispatched, HasRun
  <2>3. Scheduler!Key(d) \in HasRun'
    BY <1>2, <2>2
  <2> QED
    BY <2>3 DEF HasRun
<1> QED
  BY <1>1, <1>2 DEF Scheduler!RunsAreDispatched

(* A step that touches no dispatch, no run and no tick.                    *)
LEMMA ClockMoves ==
  ASSUME SchedulerInv, ClockTyped', UNCHANGED <<dispatch, run, tick>>
  PROVE  SchedulerInv' /\ Scheduler!SettlesOnce /\ Rows' = Rows
<1>1. Claimed' = Claimed /\ HasRun' = HasRun /\ Rows' = Rows
  BY DEF Claimed, HasRun, Rows
<1>2. TicksGood'
  BY <1>1, TicksStay DEF SchedulerInv
<1>3. Scheduler!RunsAreDispatched'
  BY <1>1, RunsStayDispatched
<1>4. DispatchGood'
  BY DEF SchedulerInv, DispatchGood, Scheduler!Settled
<1>5. run' \in [Scheduler!Keys -> {Nil} \cup Scheduler!Runs]
  BY DEF SchedulerInv
<1>6. Scheduler!SettlesOnce
  BY DEF Scheduler!SettlesOnce
<1> QED
  BY <1>1, <1>2, <1>3, <1>4, <1>5, <1>6 DEF SchedulerInv

(* A step that touches one tick only.                                      *)
LEMMA OnlyTickMoves ==
  ASSUME SchedulerInv, NEW p \in Procs, NEW y, TickGood(y, Claimed, HasRun),
         tick' = [tick EXCEPT ![p] = y],
         UNCHANGED <<now, current, sched, dispatch, run, digest>>
  PROVE  SchedulerInv' /\ Scheduler!SettlesOnce /\ Rows' = Rows
<1>1. Claimed' = Claimed /\ HasRun' = HasRun /\ Rows' = Rows
  BY DEF Claimed, HasRun, Rows
<1>2. TicksGood'
  BY <1>1, TickMoves DEF SchedulerInv
<1>3. Scheduler!RunsAreDispatched'
  BY <1>1, RunsStayDispatched
<1>4. DispatchGood'
  BY DEF SchedulerInv, DispatchGood, Scheduler!Settled
<1>5. run' \in [Scheduler!Keys -> {Nil} \cup Scheduler!Runs] /\ ClockTyped'
  BY DEF SchedulerInv, ClockTyped
<1>6. Scheduler!SettlesOnce
  BY DEF Scheduler!SettlesOnce
<1> QED
  BY <1>1, <1>2, <1>3, <1>4, <1>5, <1>6 DEF SchedulerInv

(* Humans and the clock touch no dispatch.                                 *)
LEMMA HumansAndClock ==
  ASSUME Scheduler!ScheduleAssumption, SchedulerInv,
         \/ \E s \in Schedules : \/ Scheduler!CheckSchedule(s) \/ Scheduler!InsertSchedule(s)
                                 \/ Scheduler!UpdateScheduleState(s)
         \/ Scheduler!MoveChannel \/ Scheduler!DeliverDigest \/ Scheduler!Clock
  PROVE  SchedulerInv' /\ Scheduler!SettlesOnce /\ Rows' = Rows
<1>1. UNCHANGED <<dispatch, run, tick>>
  BY DEF Scheduler!CheckSchedule, Scheduler!InsertSchedule, Scheduler!UpdateScheduleState,
         Scheduler!MoveChannel, Scheduler!DeliverDigest, Scheduler!Clock
<1>2. ClockTyped
  BY DEF SchedulerInv
<1>3. ASSUME NEW s \in Schedules, Scheduler!CheckSchedule(s)
      PROVE  ClockTyped'
  BY <1>2, <1>3 DEF ClockTyped, Scheduler!CheckSchedule
<1>4. ASSUME NEW s \in Schedules, Scheduler!InsertSchedule(s)
      PROVE  ClockTyped'
  BY <1>2, <1>4 DEF ClockTyped, Scheduler!InsertSchedule, Scheduler!Times
<1>5. ASSUME NEW s \in Schedules, Scheduler!UpdateScheduleState(s)
      PROVE  ClockTyped'
  BY <1>2, <1>5 DEF ClockTyped, Scheduler!UpdateScheduleState
<1>6. CASE Scheduler!MoveChannel \/ Scheduler!DeliverDigest
  <2>1. digest' \in Nat /\ UNCHANGED <<now, sched>>
    BY <1>2, <1>6 DEF ClockTyped, Scheduler!MoveChannel, Scheduler!DeliverDigest
  <2>2. current' \in BOOLEAN
    BY <1>2, <1>6, Zenon DEF ClockTyped, Scheduler!MoveChannel, Scheduler!DeliverDigest
  <2>3. ClockTyped'
    BY <1>2, <2>1, <2>2 DEF ClockTyped
  <2> QED
    BY <1>1, <2>3, ClockMoves
<1>7. CASE Scheduler!Clock
  <2>1. now' \in Scheduler!Times
    BY <1>2, <1>7 DEF ClockTyped, Scheduler!Clock, Scheduler!Times, Scheduler!ScheduleAssumption
  <2>2. ClockTyped'
    BY <1>2, <1>7, <2>1 DEF ClockTyped, Scheduler!Clock
  <2> QED
    BY <1>1, <2>2, ClockMoves
<1> QED
  BY <1>1, <1>3, <1>4, <1>5, <1>6, <1>7, ClockMoves

(* An approval changes the grant of a run that is there.                   *)
LEMMA ApprovalKeepsRuns ==
  ASSUME SchedulerInv, NEW k \in Scheduler!Keys, Scheduler!ScheduleAssumption, Scheduler!ApproveRun(k)
  PROVE  SchedulerInv' /\ Scheduler!SettlesOnce /\ Rows' = Rows
<1>1. run[k] \in Scheduler!Runs
  BY DEF SchedulerInv, Scheduler!ApproveRun
<1>2. [run[k] EXCEPT !.grant = "approved"] \in Scheduler!Runs
  BY <1>1 DEF Scheduler!Runs
<1>3. run' = [run EXCEPT ![k] = [run[k] EXCEPT !.grant = "approved"]]
  BY DEF SchedulerInv, Scheduler!ApproveRun
<1>4. run' \in [Scheduler!Keys -> {Nil} \cup Scheduler!Runs]
  BY <1>2, <1>3 DEF SchedulerInv
<1>5. HasRun' = HasRun
  BY <1>1, <1>2, <1>3 DEF SchedulerInv, HasRun, Scheduler!ScheduleAssumption
<1>6. UNCHANGED <<now, current, sched, dispatch, digest, tick>>
  BY DEF Scheduler!ApproveRun
<1>7. Claimed' = Claimed /\ Rows' = Rows
  BY <1>6 DEF Claimed, Rows
<1>8. TicksGood' /\ Scheduler!RunsAreDispatched'
  BY <1>5, <1>6, <1>7, TicksStay, RunsStayDispatched DEF SchedulerInv
<1>9. DispatchGood' /\ ClockTyped' /\ Scheduler!SettlesOnce
  BY <1>6 DEF SchedulerInv, DispatchGood, ClockTyped, Scheduler!Settled, Scheduler!SettlesOnce
<1> QED
  BY <1>4, <1>7, <1>8, <1>9 DEF SchedulerInv

(* The steps of a tick that write neither dispatches nor runs.             *)
LEMMA TickSteps ==
  ASSUME SchedulerInv, NEW p \in Procs,
         \/ Scheduler!ReadClaimed(p) \/ Scheduler!StartDispatch(p) \/ Scheduler!CheckRun(p)
         \/ Scheduler!SettleThrows(p) \/ Scheduler!Die(p) \/ Scheduler!EndTick(p)
  PROVE  SchedulerInv' /\ Scheduler!SettlesOnce /\ Rows' = Rows
<1> DEFINE x == tick[p]
<1>1. TickGood(x, Claimed, HasRun) /\ tick \in [Procs -> Ticks]
  BY DEF SchedulerInv, TicksGood
<1>2. UNCHANGED <<now, current, sched, dispatch, run, digest>>
  BY DEF Scheduler!ReadClaimed, Scheduler!StartDispatch, Scheduler!CheckRun, Scheduler!Goto,
         Scheduler!SettleThrows, Scheduler!Die, Scheduler!EndTick, Scheduler!bounds
<1>3. CASE Scheduler!ReadClaimed(p)
  <2> DEFINE mine == {d \in x.todo : dispatch[d].state = "processing" /\ dispatch[d].token = x.token}
             ok   == {d \in mine : sched[d[1]].state = "active" /\ current}
             y    == [x EXCEPT !.pc = "working", !.todo = mine, !.valid = ok]
  <2>1. tick' = [tick EXCEPT ![p] = y]
    BY <1>1, <1>3 DEF Scheduler!ReadClaimed
  <2>2. ok \subseteq mine /\ mine \subseteq x.todo /\ x.pc = "claimed"
    BY <1>3 DEF Scheduler!ReadClaimed
  <2>3. TickGood(y, Claimed, HasRun)
    <3> HIDE DEF mine, ok
    <3> QED
      BY <1>1, <2>2 DEF TickGood, Ticks, Busy
  <2> QED
    BY <1>2, <2>1, <2>3, OnlyTickMoves
<1>4. CASE Scheduler!StartDispatch(p)
  <2>1. PICK d \in x.todo :
          tick' = [tick EXCEPT ![p].at = d,
                     ![p].pc = IF d \in tick[p].valid THEN "checking" ELSE "failing",
                     ![p].input = IF d[1] \in WithDigest THEN digest ELSE 0]
    BY <1>4 DEF Scheduler!StartDispatch
  <2> DEFINE i == IF d[1] \in WithDigest THEN digest ELSE 0
             y == [x EXCEPT !.at = d, !.pc = IF d \in x.valid THEN "checking" ELSE "failing", !.input = i]
  <2>2. tick' = [tick EXCEPT ![p] = y]
    BY <1>1, <2>1
  <2>3. i \in Nat /\ x.pc = "working" /\ d \in Scheduler!Occurrences
    BY <1>1, <1>4 DEF SchedulerInv, ClockTyped, Scheduler!StartDispatch, TickGood, Ticks
  <2>4. TickGood(y, Claimed, HasRun)
    <3> HIDE DEF i
    <3> QED
      BY <1>1, <2>3 DEF TickGood, Ticks, Busy
  <2> QED
    BY <1>2, <2>2, <2>4, OnlyTickMoves
<1>5. CASE Scheduler!CheckRun(p)
  <2>1. PICK label \in {"settling", "failing", "inserting"} :
          /\ tick' = [tick EXCEPT ![p].pc = label]
          /\ label = "settling" => run[Scheduler!Key(x.at)] # Nil
    BY <1>5 DEF Scheduler!CheckRun, Scheduler!Goto
  <2> DEFINE y == [x EXCEPT !.pc = label]
  <2>2. tick' = [tick EXCEPT ![p] = y]
    BY <1>1, <2>1
  <2>3. x.pc = "checking"
    BY <1>5 DEF Scheduler!CheckRun
  <2>4. x.at \in x.todo /\ x.at \in Scheduler!Occurrences
    BY <1>1, <2>3 DEF TickGood, Ticks, Busy
  <2>5. label = "settling" => Scheduler!Key(x.at) \in HasRun
    BY <2>1, <2>4 DEF HasRun, Scheduler!Keys
  <2>6. TickGood(y, Claimed, HasRun)
    BY <1>1, <2>3, <2>4, <2>5 DEF TickGood, Ticks, Busy
  <2> QED
    BY <1>2, <2>2, <2>6, OnlyTickMoves
<1>6. CASE Scheduler!SettleThrows(p)
  <2>1. tick' = [tick EXCEPT ![p] = [x EXCEPT !.pc = "failing"]] /\ x.pc = "settling"
    BY <1>1, <1>6 DEF Scheduler!SettleThrows
  <2>2. TickGood([x EXCEPT !.pc = "failing"], Claimed, HasRun)
    BY <1>1, <2>1 DEF TickGood, Ticks, Busy
  <2> QED
    BY <1>2, <2>1, <2>2, OnlyTickMoves
<1>7. CASE Scheduler!Die(p) \/ Scheduler!EndTick(p)
  <2>1. tick' = [tick EXCEPT ![p] = Scheduler!Idle]
    BY <1>7 DEF Scheduler!Die, Scheduler!EndTick
  <2>2. TickGood(Scheduler!Idle, Claimed, HasRun)
    BY DEF TickGood, Ticks, Busy, Scheduler!Idle
  <2> QED
    BY <1>2, <2>1, <2>2, OnlyTickMoves
<1> QED
  BY <1>3, <1>4, <1>5, <1>6, <1>7

(* The insert of a run happens for a dispatch that was claimed.            *)
LEMMA InsertKeepsRuns ==
  ASSUME Scheduler!ScheduleAssumption, SchedulerInv, NEW p \in Procs, Scheduler!InsertRun(p)
  PROVE  SchedulerInv' /\ Scheduler!SettlesOnce /\ Rows' = Rows
<1> DEFINE x == tick[p]
           k == Scheduler!Key(x.at)
<1>1. TickGood(x, Claimed, HasRun) /\ tick \in [Procs -> Ticks] /\ x.pc = "inserting"
  BY DEF SchedulerInv, TicksGood, Scheduler!InsertRun
<1>2. x.at \in x.todo /\ x.at \in Claimed /\ x.at \in Scheduler!Occurrences /\ k \in Scheduler!Keys
  BY <1>1 DEF TickGood, Busy, Claimed, Scheduler!Keys
<1>3. UNCHANGED <<now, current, sched, dispatch, digest>>
  BY DEF Scheduler!InsertRun, Scheduler!Goto
<1>4. CASE UNCHANGED run /\ Scheduler!Goto(p, "failing")
  <2>1. tick' = [tick EXCEPT ![p] = [x EXCEPT !.pc = "failing"]]
    BY <1>1, <1>4 DEF Scheduler!Goto
  <2>2. TickGood([x EXCEPT !.pc = "failing"], Claimed, HasRun)
    BY <1>1, <1>2 DEF TickGood, Ticks, Busy
  <2> QED
    BY <1>3, <1>4, <2>1, <2>2, OnlyTickMoves
<1>5. CASE /\ \E grant \in {"none", Scheduler!Asked(p).grant} :
                run' = [run EXCEPT ![k] = [asked |-> Scheduler!Asked(p), grant |-> grant]]
           /\ Scheduler!Goto(p, "settling")
  <2>1. x.input \in Nat
    BY <1>1 DEF TickGood, Ticks
  <2>2. Scheduler!Asked(p) \in Scheduler!Requests
    BY <2>1 DEF Scheduler!Asked, Scheduler!Requests
  <2>3. PICK r \in Scheduler!Runs : run' = [run EXCEPT ![k] = r]
    BY <1>5, <2>2 DEF Scheduler!Runs, Scheduler!Requests
  <2>4. r # Nil
    BY DEF Scheduler!ScheduleAssumption
  <2>5. run' \in [Scheduler!Keys -> {Nil} \cup Scheduler!Runs]
    BY <2>3 DEF SchedulerInv
  <2>6. HasRun' = HasRun \cup {k}
    BY <1>2, <2>3, <2>4 DEF SchedulerInv, HasRun
  <2>7. Claimed' = Claimed /\ Rows' = Rows
    BY <1>3 DEF Claimed, Rows
  <2>8. TicksGood'
    <3>1. tick' = [tick EXCEPT ![p] = [x EXCEPT !.pc = "settling"]]
      BY <1>1, <1>5 DEF Scheduler!Goto
    <3>2. TickGood([x EXCEPT !.pc = "settling"], Claimed', HasRun')
      BY <1>1, <1>2, <2>6, <2>7 DEF TickGood, Ticks, Busy
    <3> QED
      BY <2>6, <2>7, <3>1, <3>2, TickMoves DEF SchedulerInv
  <2>9. Scheduler!RunsAreDispatched'
    BY <1>2, <1>3, <2>6, <2>7, RunsStayDispatched
  <2>10. DispatchGood' /\ ClockTyped' /\ Scheduler!SettlesOnce
    BY <1>3 DEF SchedulerInv, DispatchGood, ClockTyped, Scheduler!Settled, Scheduler!SettlesOnce
  <2> QED
    BY <2>5, <2>7, <2>8, <2>9, <2>10 DEF SchedulerInv
<1> QED
  BY <1>4, <1>5 DEF Scheduler!InsertRun

(* A tick settles only a dispatch that still has its token.                *)
LEMMA SettleOwned ==
  ASSUME Scheduler!ScheduleAssumption, SchedulerInv, NEW p \in Procs,
         Scheduler!RunCreated(p) \/ Scheduler!DispatchFailed(p)
  PROVE  SchedulerInv' /\ Scheduler!SettlesOnce /\ Rows' = Rows
<1> DEFINE x    == tick[p]
           a    == x.at
           rest == x.todo \ {a}
           y    == [x EXCEPT !.pc = "working", !.todo = rest, !.valid = @ \cap rest, !.at = Nil, !.input = 0]
<1>1. PICK outcome \in {"run_created", "failed"} :
        /\ Scheduler!Settle(p, outcome) /\ x.pc \in {"settling", "failing"}
        /\ outcome = "run_created" => x.pc = "settling"
  BY DEF Scheduler!RunCreated, Scheduler!DispatchFailed
<1>2. TickGood(x, Claimed, HasRun) /\ tick \in [Procs -> Ticks]
  BY DEF SchedulerInv, TicksGood
<1>3. a \in x.todo /\ a \in Claimed /\ a \in Scheduler!Occurrences /\ x.token \in Tokens
  BY <1>1, <1>2 DEF TickGood, Busy, Claimed
<1>4. UNCHANGED <<now, current, sched, run, digest>>
  BY <1>1 DEF Scheduler!Settle
<1>5. tick' = [tick EXCEPT ![p] = y]
  BY <1>1, <1>2 DEF Scheduler!Settle
<1>6. DispatchGood
  BY DEF SchedulerInv
<1>7. /\ \A d \in Scheduler!Occurrences : d # a => dispatch'[d] = dispatch[d]
      /\ dispatch'[a] = dispatch[a]
         \/ (~Scheduler!Settled(a) /\ dispatch'[a].state = outcome)
      /\ DispatchGood'
  <2>1. CASE ~Scheduler!Owned(p)
    BY <1>1, <1>6, <2>1 DEF Scheduler!Settle, DispatchGood, Scheduler!Settled
  <2>2. CASE Scheduler!Owned(p)
    <3> DEFINE row == [dispatch[a] EXCEPT !.state = outcome, !.token = Nil, !.live = FALSE]
    <3>1. dispatch' = [dispatch EXCEPT ![a] = row]
      BY <1>1, <2>2 DEF Scheduler!Settle
    <3>2. dispatch[a] \in DispatchRecords
      BY <1>3, <1>6 DEF DispatchGood
    <3>3. row \in DispatchRecords /\ row.state = outcome /\ row.token = Nil /\ row.live = FALSE
      BY <3>2 DEF DispatchRecords
    <3>4. ~Scheduler!Settled(a)
      BY <1>3, <1>6, <2>2 DEF Scheduler!Owned, DispatchGood, Scheduler!ScheduleAssumption
    <3> HIDE DEF row
    <3>5. dispatch' \in [Scheduler!Occurrences -> DispatchRecords]
      BY <1>3, <1>6, <3>1, <3>3 DEF DispatchGood
    <3>6. \A d \in Scheduler!Occurrences : dispatch'[d] = IF d = a THEN row ELSE dispatch[d]
      BY <1>3, <1>6, <3>1 DEF DispatchGood
    <3>7. DispatchGood'
      BY <1>6, <3>3, <3>5, <3>6 DEF DispatchGood, Scheduler!Settled
    <3> QED
      BY <1>3, <3>3, <3>4, <3>6, <3>7
  <2> QED
    BY <2>1, <2>2
<1> HIDE DEF a, rest, x
<1>8. Claimed' = Claimed /\ Rows' = Rows /\ HasRun' = HasRun
  <2>1. dispatch'[a].state \in {"processing", "run_created", "failed"}
    BY <1>3, <1>7 DEF Claimed
  <2> QED
    BY <1>3, <1>4, <1>7, <2>1 DEF Claimed, Rows, HasRun
<1>9. TicksGood'
  <2>1. TickGood(y, Claimed, HasRun)
    BY <1>2, <1>3 DEF TickGood, Ticks, Busy, rest
  <2> QED
    BY <1>5, <1>8, <2>1, TickMoves DEF SchedulerInv
<1>10. ASSUME NEW d \in Scheduler!Occurrences, dispatch'[d].state = "run_created"
       PROVE  dispatch[d].state = "run_created" \/ Scheduler!Key(d) \in HasRun'
  <2>1. CASE dispatch'[d] = dispatch[d]
    BY <1>10, <2>1
  <2>2. CASE dispatch'[d] # dispatch[d]
    <3>1. d = a /\ outcome = "run_created"
      BY <1>7, <1>10, <2>2
    <3> QED
      BY <1>1, <1>2, <1>8, <3>1 DEF TickGood, a
  <2> QED
    BY <2>1, <2>2
<1>11. Scheduler!RunsAreDispatched'
  BY <1>8, <1>10, RunsStayDispatched
<1>12. Scheduler!SettlesOnce
  BY <1>7 DEF Scheduler!SettlesOnce
<1>13. ClockTyped' /\ run' \in [Scheduler!Keys -> {Nil} \cup Scheduler!Runs]
  BY <1>4 DEF SchedulerInv, ClockTyped
<1> QED
  BY <1>7, <1>8, <1>9, <1>11, <1>12, <1>13 DEF SchedulerInv

(* A lease that runs out changes no outcome.                               *)
LEMMA ExpiryKeepsRows ==
  ASSUME SchedulerInv, NEW a \in Scheduler!Occurrences, Scheduler!LeaseExpires(a)
  PROVE  SchedulerInv' /\ Scheduler!SettlesOnce /\ Rows' = Rows
<1>1. DispatchGood /\ dispatch[a].live
  BY DEF SchedulerInv, Scheduler!LeaseExpires
<1>2. dispatch[a] \in DispatchRecords /\ ~Scheduler!Settled(a)
  BY <1>1 DEF DispatchGood
<1> DEFINE row == [dispatch[a] EXCEPT !.live = FALSE]
<1>3. dispatch' = [dispatch EXCEPT ![a] = row]
  BY <1>1 DEF Scheduler!LeaseExpires, DispatchGood
<1>4. row \in DispatchRecords /\ row.state = dispatch[a].state
  BY <1>2 DEF DispatchRecords
<1> HIDE DEF row
<1>5. /\ dispatch' \in [Scheduler!Occurrences -> DispatchRecords]
      /\ \A d \in Scheduler!Occurrences : dispatch'[d] = IF d = a THEN row ELSE dispatch[d]
  BY <1>1, <1>3, <1>4 DEF DispatchGood
<1>6. DispatchGood' /\ Scheduler!SettlesOnce
  BY <1>1, <1>2, <1>4, <1>5 DEF DispatchGood, Scheduler!Settled, Scheduler!SettlesOnce
<1>7. UNCHANGED <<now, current, sched, run, digest, tick>>
  BY DEF Scheduler!LeaseExpires
<1>8. Claimed' = Claimed /\ Rows' = Rows /\ HasRun' = HasRun
  BY <1>4, <1>5, <1>7 DEF Claimed, Rows, HasRun
<1>9. TicksGood'
  BY <1>7, <1>8, TicksStay DEF SchedulerInv
<1>10. Scheduler!RunsAreDispatched'
  BY <1>4, <1>5, <1>8, RunsStayDispatched
<1>11. ClockTyped' /\ run' \in [Scheduler!Keys -> {Nil} \cup Scheduler!Runs]
  BY <1>7 DEF SchedulerInv, ClockTyped
<1> QED
  BY <1>6, <1>8, <1>9, <1>10, <1>11 DEF SchedulerInv

(* What the transaction of scheduleDue does: the due schedules move on,    *)
(* their occurrences get rows, and D is claimed.                           *)
Serves(due, D, token, p) ==
  /\ \A s \in due : sched[s].state = "active" /\ sched[s].next <= now
  /\ sched' \in [Schedules -> [state : {"new", "checked", "active", "paused"}, next : Nat]]
  /\ \A s \in Schedules :
       /\ sched'[s].next = IF s \in due THEN Scheduler!NextRunAt(s, sched[s].next) ELSE sched[s].next
       /\ sched'[s].state = sched[s].state \/ (sched[s].state = "active" /\ sched'[s].state = "paused")
  /\ D \subseteq {d \in Rows : Scheduler!Claimable(d)} \cup Scheduler!Created(due, Rows)
  /\ dispatch' \in [Scheduler!Occurrences -> DispatchRecords]
  /\ \A d \in D : dispatch'[d].state = "processing"
  /\ \A d \in Scheduler!Created(due, Rows) \ D : dispatch'[d].state = "pending"
  /\ \A d \in Scheduler!Occurrences \ (D \cup Scheduler!Created(due, Rows)) : dispatch'[d] = dispatch[d]
  /\ tick' = [tick EXCEPT ![p] = [Scheduler!Idle EXCEPT !.pc = "claimed", !.token = token, !.todo = D]]
  /\ UNCHANGED <<now, current, run, digest>>

(* A row is created only where there is none.                              *)
LEMMA CreatedAreNew ==
  ASSUME NEW due \in SUBSET Schedules
  PROVE  Scheduler!Created(due, Rows) \subseteq Scheduler!Occurrences \ Rows
BY DEF Scheduler!Created, Scheduler!Occurrences

(* ScheduleDue does what Serves says.                                      *)
LEMMA ServiceSteps ==
  ASSUME Scheduler!ScheduleAssumption, SchedulerInv, NEW p \in Procs, Scheduler!ScheduleDue(p)
  PROVE  \E due \in SUBSET Schedules, D \in SUBSET Scheduler!Occurrences, token \in Tokens :
           Serves(due, D, token, p)
<1> DEFINE ready == {s \in Schedules : sched[s].state = "active" /\ sched[s].next <= now}
           dueAt == [s \in ready |-> sched[s].next]
           Due(chosen)  == IF current THEN chosen ELSE {}
           New(chosen)  == Scheduler!Created(Due(chosen), Rows)
           Able(chosen) == {d \in Rows : Scheduler!Claimable(d)} \cup New(chosen)
           Born(chosen) == [d \in Able(chosen) |-> IF d \in Rows THEN dispatch[d].born ELSE now]
           Most(chosen) == Scheduler!Max({Limit, Scheduler!Cardinality(New(chosen)), 1})
           Done(chosen, token, D) ==
             /\ chosen # {} \/ D # {}
             /\ sched' = [s \in Schedules |->
                  CASE s \in Due(chosen)          -> [sched[s] EXCEPT !.next = Scheduler!NextRunAt(s, @)]
                    [] s \in chosen \ Due(chosen) -> [sched[s] EXCEPT !.state = "paused"]
                    [] OTHER                      -> sched[s]]
             /\ dispatch' = [d \in Scheduler!Occurrences |->
                  CASE d \in D               -> [state |-> "processing", token |-> token, live |-> TRUE,
                                                 born |-> Born(chosen)[d]]
                    [] d \in New(chosen) \ D -> [state |-> "pending", token |-> Nil, live |-> FALSE, born |-> now]
                    [] OTHER                 -> dispatch[d]]
             /\ tick' = [tick EXCEPT ![p] =
                           [Scheduler!Idle EXCEPT !.pc = "claimed", !.token = token, !.todo = D]]
<1>1. PICK chosen \in Scheduler!Oldest(ready, dueAt, Limit) :
        \E token \in {CHOOSE t \in Scheduler!Fresh : TRUE},
           D \in Scheduler!Oldest(Able(chosen), Born(chosen), Most(chosen)) : Done(chosen, token, D)
  BY Zenon DEF Scheduler!ScheduleDue, Rows
<1>2. PICK token \in {CHOOSE t \in Scheduler!Fresh : TRUE},
           D \in Scheduler!Oldest(Able(chosen), Born(chosen), Most(chosen)) : Done(chosen, token, D)
  BY <1>1, Zenon
<1> DEFINE due == Due(chosen)
           new == New(chosen)
<1>3. chosen \subseteq ready /\ due \subseteq ready /\ D \subseteq Able(chosen)
  BY DEF Scheduler!Oldest
<1>4. token \in Tokens
  BY DEF Scheduler!ScheduleDue, Scheduler!Fresh
<1>5. new \subseteq Scheduler!Occurrences \ Rows /\ due \in SUBSET Schedules
  BY <1>3, CreatedAreNew
<1>6. UNCHANGED <<now, current, run, digest>>
  BY DEF Scheduler!ScheduleDue
<1>7. ClockTyped /\ DispatchGood /\ now \in Nat
  BY DEF SchedulerInv, ClockTyped, Scheduler!Times, Scheduler!ScheduleAssumption
<1>8. \A s \in Schedules :
        /\ s \in due => sched'[s] = [sched[s] EXCEPT !.next = Scheduler!NextRunAt(s, sched[s].next)]
        /\ s \in chosen \ due => sched'[s] = [sched[s] EXCEPT !.state = "paused"]
        /\ s \notin chosen => sched'[s] = sched[s]
  BY <1>2, Zenon
<1>9. \A s \in due : sched[s].state = "active" /\ sched[s].next <= now /\ sched[s].next \in Nat
                     /\ Scheduler!NextRunAt(s, sched[s].next) \in Nat
  <2> TAKE s \in due
  <2>1. s \in Schedules /\ sched[s].state = "active" /\ sched[s].next <= now /\ sched[s].next \in Nat
    BY <1>3, <1>7 DEF ClockTyped
  <2> QED
    BY <1>7, <2>1, PlannedTimes
<1>10. \A s \in Schedules :
         /\ sched'[s] \in [state : {"new", "checked", "active", "paused"}, next : Nat]
         /\ sched'[s].next = IF s \in due THEN Scheduler!NextRunAt(s, sched[s].next) ELSE sched[s].next
         /\ sched'[s].state = sched[s].state \/ (sched[s].state = "active" /\ sched'[s].state = "paused")
  <2> TAKE s \in Schedules
  <2>1. sched[s] \in [state : {"new", "checked", "active", "paused"}, next : Nat]
    BY <1>7 DEF ClockTyped
  <2>2. s \in chosen => sched[s].state = "active"
    BY <1>3
  <2>3. due \subseteq chosen
    OBVIOUS
  <2> HIDE DEF due
  <2>4. CASE s \in due
    BY <1>8, <1>9, <2>1, <2>4
  <2>5. CASE s \in chosen \ due
    BY <1>8, <2>1, <2>2, <2>5
  <2>6. CASE s \notin chosen
    BY <1>8, <2>1, <2>3, <2>6
  <2> QED
    BY <2>4, <2>5, <2>6
<1>11. sched' \in [Schedules -> [state : {"new", "checked", "active", "paused"}, next : Nat]]
  <2>1. sched' = [s \in Schedules |-> sched'[s]]
    BY <1>2
  <2> QED
    BY <1>10, <2>1, Zenon
<1>12. \A d \in Scheduler!Occurrences :
         /\ d \in D => dispatch'[d] = [state |-> "processing", token |-> token, live |-> TRUE,
                                       born |-> Born(chosen)[d]]
         /\ d \in new \ D => dispatch'[d] = [state |-> "pending", token |-> Nil, live |-> FALSE, born |-> now]
         /\ d \notin D \cup new => dispatch'[d] = dispatch[d]
  BY <1>2, Zenon
<1>13. \A d \in D : d \in Scheduler!Occurrences /\ Born(chosen)[d] \in Scheduler!Times
  <2> TAKE d \in D
  <2>1. d \in Able(chosen) /\ d \in Scheduler!Occurrences
    BY <1>3, <1>5 DEF Rows
  <2>2. Born(chosen)[d] = IF d \in Rows THEN dispatch[d].born ELSE now
    BY <2>1
  <2>3. dispatch[d].born \in Scheduler!Times /\ now \in Scheduler!Times
    BY <1>7, <2>1 DEF DispatchGood, DispatchRecords, ClockTyped
  <2> QED
    BY <2>1, <2>2, <2>3
<1> HIDE DEF due, new, Born, Able
<1>14. \A d \in Scheduler!Occurrences : dispatch'[d] \in DispatchRecords
  <2> TAKE d \in Scheduler!Occurrences
  <2>1. CASE d \in D
    <3>1. Born(chosen)[d] \in Scheduler!Times
      BY <1>13, <2>1
    <3>2. dispatch'[d] = [state |-> "processing", token |-> token, live |-> TRUE, born |-> Born(chosen)[d]]
      BY <1>12, <2>1
    <3> QED
      BY <1>4, <3>1, <3>2 DEF DispatchRecords
  <2>2. CASE d \in new \ D
    <3>1. dispatch'[d] = [state |-> "pending", token |-> Nil, live |-> FALSE, born |-> now]
      BY <1>12, <2>2
    <3> QED
      BY <1>7, <3>1 DEF DispatchRecords, ClockTyped
  <2>3. CASE d \notin D \cup new
    BY <1>7, <1>12, <2>3 DEF DispatchGood
  <2> QED
    BY <2>1, <2>2, <2>3
<1>15. dispatch' \in [Scheduler!Occurrences -> DispatchRecords]
  <2>1. dispatch' = [d \in Scheduler!Occurrences |-> dispatch'[d]]
    BY <1>2
  <2> QED
    BY <1>14, <2>1, Zenon
<1>16. D \subseteq {d \in Rows : Scheduler!Claimable(d)} \cup Scheduler!Created(due, Rows)
       /\ new = Scheduler!Created(due, Rows)
  BY <1>3 DEF Able, new, due
<1>17. /\ \A d \in D : dispatch'[d].state = "processing"
       /\ \A d \in new \ D : dispatch'[d].state = "pending"
       /\ \A d \in Scheduler!Occurrences \ (D \cup new) : dispatch'[d] = dispatch[d]
  <2>1. D \subseteq Scheduler!Occurrences /\ new \subseteq Scheduler!Occurrences
    BY <1>5, <1>13
  <2>2. \A d \in D : dispatch'[d].state = "processing"
    <3> TAKE d \in D
    <3>1. dispatch'[d] = [state |-> "processing", token |-> token, live |-> TRUE, born |-> Born(chosen)[d]]
      BY <1>12, <2>1
    <3> QED
      BY <3>1
  <2>3. \A d \in new \ D : dispatch'[d].state = "pending"
    <3> TAKE d \in new \ D
    <3>1. dispatch'[d] = [state |-> "pending", token |-> Nil, live |-> FALSE, born |-> now]
      BY <1>12, <2>1
    <3> QED
      BY <3>1
  <2>4. \A d \in Scheduler!Occurrences \ (D \cup new) : dispatch'[d] = dispatch[d]
    BY <1>12
  <2> QED
    BY <2>2, <2>3, <2>4
<1>18. Serves(due, D, token, p)
  <2>1. tick' = [tick EXCEPT ![p] = [Scheduler!Idle EXCEPT !.pc = "claimed", !.token = token, !.todo = D]]
    BY <1>2, Zenon
  <2>2. \A s \in due : sched[s].state = "active" /\ sched[s].next <= now
    BY <1>9
  <2> HIDE DEF Done
  <2> QED
    BY <1>6, <1>10, <1>11, <1>15, <1>16, <1>17, <2>1, <2>2, Zenon DEF Serves
<1>19. D \in SUBSET Scheduler!Occurrences
  BY <1>13
<1> QED
  BY <1>4, <1>5, <1>18, <1>19

(* The transaction claims no settled dispatch and creates the new rows.    *)
LEMMA ServiceKeepsRuns ==
  ASSUME SchedulerInv, NEW p \in Procs, NEW due \in SUBSET Schedules,
         NEW D \in SUBSET Scheduler!Occurrences, NEW token \in Tokens, Serves(due, D, token, p)
  PROVE  SchedulerInv' /\ Scheduler!SettlesOnce /\ Rows' = Rows \cup Scheduler!Created(due, Rows)
<1> DEFINE new == Scheduler!Created(due, Rows)
<1>1. new \subseteq Scheduler!Occurrences /\ new \cap Rows = {}
  BY CreatedAreNew
<1>2. /\ \A d \in D : dispatch'[d].state = "processing"
      /\ \A d \in new \ D : dispatch'[d].state = "pending"
      /\ \A d \in Scheduler!Occurrences \ (D \cup new) : dispatch'[d] = dispatch[d]
      /\ dispatch' \in [Scheduler!Occurrences -> DispatchRecords]
      /\ UNCHANGED <<now, current, run, digest>>
      /\ D \subseteq {d \in Rows : Scheduler!Claimable(d)} \cup new
  BY DEF Serves
<1>3. \A d \in D \cup new : ~Scheduler!Settled(d)
  <2>1. \A d \in new : dispatch[d].state = "absent"
    BY <1>1 DEF Rows
  <2>2. \A d \in Rows : Scheduler!Claimable(d) => ~Scheduler!Settled(d)
    BY DEF Scheduler!Claimable, Scheduler!Settled
  <2> HIDE DEF new
  <2> QED
    BY <1>2, <2>1, <2>2 DEF Scheduler!Settled
<1> HIDE DEF new
<1>4. Scheduler!SettlesOnce
  BY <1>2, <1>3 DEF Scheduler!SettlesOnce
<1>5. \A d \in D \cup new : d \in Scheduler!Occurrences /\ dispatch'[d].state \in {"processing", "pending"}
  BY <1>1, <1>2
<1>6. DispatchGood'
  <2>1. \A d \in Scheduler!Occurrences : Scheduler!Settled(d)' => dispatch'[d] = dispatch[d] /\ Scheduler!Settled(d)
    BY <1>2, <1>5 DEF Scheduler!Settled
  <2>2. \A d \in Scheduler!Occurrences : Scheduler!Settled(d)' => dispatch'[d].token = Nil /\ ~dispatch'[d].live
    BY <2>1 DEF SchedulerInv, DispatchGood
  <2> QED
    BY <1>2, <2>2 DEF DispatchGood
<1>7. Claimed \subseteq Claimed' /\ D \subseteq Claimed' /\ HasRun' = HasRun
  <2>1. \A d \in Claimed : d \notin new
    BY <1>1 DEF Claimed, Rows
  <2>2. D \subseteq Claimed'
    BY <1>2 DEF Claimed
  <2>3. Claimed \subseteq Claimed'
    BY <1>2, <2>1, <2>2 DEF Claimed
  <2> QED
    BY <1>2, <2>2, <2>3 DEF HasRun
<1>8. Rows' = Rows \cup new
  <2>1. \A d \in Scheduler!Occurrences : d \in Rows' <=> dispatch'[d].state # "absent"
    BY DEF Rows
  <2>2. \A d \in D \cup new : d \in Rows' /\ d \in Rows \cup new
    BY <1>2, <1>5, <2>1
  <2>3. \A d \in Scheduler!Occurrences \ (D \cup new) : d \in Rows' <=> d \in Rows
    BY <1>2, <2>1 DEF Rows
  <2> QED
    BY <2>2, <2>3 DEF Rows
<1>9. TicksGood'
  <2> DEFINE y == [Scheduler!Idle EXCEPT !.pc = "claimed", !.token = token, !.todo = D]
  <2>1. TickGood(y, Claimed', HasRun')
    BY <1>7 DEF TickGood, Ticks, Busy, Scheduler!Idle
  <2>2. tick' = [tick EXCEPT ![p] = y]
    BY DEF Serves
  <2> QED
    BY <1>7, <2>1, <2>2, TickMoves DEF SchedulerInv
<1>10. Scheduler!RunsAreDispatched'
  <2>1. \A d \in Scheduler!Occurrences : dispatch'[d].state = "run_created" => dispatch[d].state = "run_created"
    BY <1>2, <1>5
  <2> QED
    BY <1>7, <2>1, RunsStayDispatched
<1>11. ClockTyped' /\ run' \in [Scheduler!Keys -> {Nil} \cup Scheduler!Runs]
  BY <1>2 DEF SchedulerInv, ClockTyped, Serves
<1> QED
  BY <1>4, <1>6, <1>8, <1>9, <1>10, <1>11 DEF SchedulerInv, new

-----------------------------------------------------------------------------
(* Catching up.                                                            *)

(* Every planned occurrence has a row in its bucket after the transaction: *)
(* an older one, its own, or that of an earlier planned occurrence.        *)
LEMMA PlannedAreCovered ==
  ASSUME Scheduler!ScheduleAssumption, SchedulerInv, NEW due \in SUBSET Schedules, NEW s \in due,
         sched[s].next <= now, Rows' = Rows \cup Scheduler!Created(due, Rows),
         NEW t \in Scheduler!Planned(s, sched[s].next)
  PROVE  Covered(Rows', s, t)
<1> DEFINE n == sched[s].next
           P == Scheduler!Planned(s, n)
           T == {u \in P : Scheduler!Key(<<s, u>>) = Scheduler!Key(<<s, t>>)}
<1>1. s \in Schedules /\ n \in Nat /\ now \in Nat /\ now \in Scheduler!Times
  BY DEF SchedulerInv, ClockTyped, Scheduler!Times, Scheduler!ScheduleAssumption
<1>2. \A u \in P : u \in Nat /\ u <= now
  BY <1>1, PlannedTimes
<1>3. \A u \in P : u \in Scheduler!Times
  BY <1>1, <1>2 DEF Scheduler!Times, Scheduler!ScheduleAssumption
<1>4. CASE \E e \in Rows : Scheduler!Key(e) = Scheduler!Key(<<s, t>>)
  <2>1. PICK e \in Rows : Scheduler!Key(e) = Scheduler!Key(<<s, t>>)
    BY <1>4
  <2>2. e \in Rows'
    BY <2>1
  <2> QED
    BY <2>1, <2>2 DEF Covered, Scheduler!Key
<1>5. CASE \A e \in Rows : Scheduler!Key(e) # Scheduler!Key(<<s, t>>)
  <2>1. T \subseteq Nat /\ T # {}
    BY <1>2
  <2>2. PICK u \in T : \A v \in T : u <= v
    BY <2>1, SmallestOf
  <2>3. u \in P /\ u \in Scheduler!Times /\ Scheduler!Key(<<s, u>>) = Scheduler!Key(<<s, t>>)
    BY <1>3
  <2>4. \A v \in P : v < u => Scheduler!Key(<<s, v>>) # Scheduler!Key(<<s, u>>)
    BY <1>2, <2>2, <2>3
  <2>5. <<s, u>> \in Scheduler!Created(due, Rows)
    BY <1>5, <2>3, <2>4 DEF Scheduler!Created
  <2>6. <<s, u>> \in Rows'
    BY <2>5
  <2> QED
    BY <2>3, <2>6 DEF Covered, Scheduler!Key
<1> QED
  BY <1>4, <1>5

(* The transaction leaves every kept occurrence before the new nextRunAt   *)
(* covered.                                                                *)
LEMMA ServiceCatchesUp ==
  ASSUME Scheduler!ScheduleAssumption, SchedulerInv, CatchUpInv, NEW p \in Procs,
         NEW due \in SUBSET Schedules, NEW D, NEW token, Serves(due, D, token, p),
         Rows' = Rows \cup Scheduler!Created(due, Rows)
  PROVE  CatchUpInv'
<1> DEFINE new == Scheduler!Created(due, Rows)
           n(s) == sched[s].next
<1>1. now \in Nat /\ \A s \in Schedules : n(s) \in Nat
  BY DEF SchedulerInv, ClockTyped, Scheduler!Times, Scheduler!ScheduleAssumption
<1>2. /\ \A s \in due : sched[s].state = "active" /\ n(s) <= now
      /\ \A s \in Schedules :
           /\ sched'[s].next = IF s \in due THEN Scheduler!NextRunAt(s, n(s)) ELSE n(s)
           /\ sched'[s].state = sched[s].state \/ (sched[s].state = "active" /\ sched'[s].state = "paused")
  BY DEF Serves
<1>3. \A d \in new :
        /\ d[1] \in due /\ d[2] \in Scheduler!Planned(d[1], n(d[1])) /\ d = <<d[1], d[2]>>
        /\ \A e \in Rows : Scheduler!Key(e) # Scheduler!Key(d)
        /\ \A t \in Scheduler!Planned(d[1], n(d[1])) :
             t < d[2] => Scheduler!Key(<<d[1], t>>) # Scheduler!Key(d)
  BY DEF Scheduler!Created
<1>4. \A s \in due : /\ s \in Schedules /\ Scheduler!NextRunAt(s, n(s)) \in Nat
                     /\ \A t \in Scheduler!Planned(s, n(s)) :
                          t \in Nat /\ n(s) <= t /\ t < Scheduler!NextRunAt(s, n(s))
  <2> TAKE s \in due
  <2>1. s \in Schedules /\ n(s) \in Nat /\ n(s) <= now
    BY <1>1, <1>2
  <2> QED
    BY <1>1, <2>1, PlannedTimes
<1>5. \A d \in Rows : /\ d \in Scheduler!Occurrences /\ d[1] \in Schedules /\ d[2] \in Nat
                      /\ d[2] < n(d[1]) /\ sched[d[1]].state \notin {"new", "checked"}
  BY DEF Rows, Scheduler!Occurrences, Scheduler!Times, Scheduler!ScheduleAssumption, CatchUpInv,
         RowsBeforeNext
<1>6. \A s \in due : n(s) < Scheduler!NextRunAt(s, n(s))
  <2> TAKE s \in due
  <2>1. /\ s \in Schedules /\ n(s) \in Nat /\ n(s) <= now
        /\ Interval \in Nat \ {0}
    BY <1>1, <1>2 DEF Scheduler!ScheduleAssumption
  <2>2. Scheduler!NextRunAt(s, n(s)) = n(s) + Steps(s, n(s)) * Interval
    BY <1>1, <2>1, PlannedTimes
  <2>3. Steps(s, n(s)) \in Nat /\ 1 <= Steps(s, n(s))
    BY <1>1, <2>1, StepsDue
  <2>4. 1 * Interval <= Steps(s, n(s)) * Interval /\ Steps(s, n(s)) * Interval \in Nat
    BY <2>1, <2>3, TimesMonotone
  <2>5. 1 * Interval = Interval
    BY <2>1
  <2> QED
    BY <2>1, <2>2, <2>4, <2>5
<1> HIDE DEF new
<1>7. RowsBeforeNext'
  <2>1. ASSUME NEW d \in Rows'
        PROVE  d[2] < sched'[d[1]].next /\ sched'[d[1]].state \notin {"new", "checked"}
    <3>1. CASE d \in Rows
      <4>1. d[1] \in Schedules /\ n(d[1]) \in Nat /\ d[2] \in Nat /\ d[2] < n(d[1])
        BY <1>1, <1>5, <3>1
      <4>2. sched'[d[1]].next = n(d[1]) \/
              (n(d[1]) < sched'[d[1]].next /\ sched'[d[1]].next \in Nat)
        BY <1>2, <1>4, <1>6, <4>1
      <4>3. sched'[d[1]].state \notin {"new", "checked"}
        BY <1>2, <1>5, <3>1, <4>1
      <4> QED
        BY <4>1, <4>2, <4>3
    <3>2. CASE d \in new
      <4>1. d[1] \in due /\ d[1] \in Schedules /\ d[2] < Scheduler!NextRunAt(d[1], n(d[1]))
        BY <1>3, <1>4, <3>2
      <4> QED
        BY <1>2, <4>1
    <3> QED
      BY <2>1, <3>1, <3>2 DEF new
  <2> QED
    BY <2>1 DEF RowsBeforeNext
<1>8. OneRowPerBucket'
  <2>1. ASSUME NEW d \in new, NEW e \in new, Scheduler!Key(d) = Scheduler!Key(e)
        PROVE  d = e
    <3>1. d[1] = e[1]
      BY <2>1 DEF Scheduler!Key
    <3>2. d[2] \in Nat /\ e[2] \in Nat
      BY <1>3, <1>4
    <3>3. ~(d[2] < e[2])
      <4>1. d[2] \in Scheduler!Planned(e[1], n(e[1])) /\ Scheduler!Key(<<e[1], d[2]>>) = Scheduler!Key(d)
        BY <1>3, <3>1
      <4> QED
        BY <1>3, <2>1, <4>1
    <3>4. ~(e[2] < d[2])
      <4>1. e[2] \in Scheduler!Planned(d[1], n(d[1])) /\ Scheduler!Key(<<d[1], e[2]>>) = Scheduler!Key(e)
        BY <1>3, <3>1
      <4> QED
        BY <1>3, <2>1, <4>1
    <3>5. d[2] = e[2]
      BY <3>2, <3>3, <3>4
    <3> QED
      BY <1>3, <3>1, <3>5
  <2>2. \A d, e \in Rows' : Scheduler!Key(d) = Scheduler!Key(e) => d = e
    <3>1. \A d, e \in Rows : Scheduler!Key(d) = Scheduler!Key(e) => d = e
      BY DEF CatchUpInv, OneRowPerBucket
    <3>2. \A d \in new, e \in Rows : Scheduler!Key(e) # Scheduler!Key(d)
      BY <1>3
    <3>3. Rows' = Rows \cup new
      BY DEF new
    <3> QED
      BY <2>1, <3>1, <3>2, <3>3
  <2> QED
    BY <2>2 DEF OneRowPerBucket, Scheduler!Key
<1>9. KeptAreCovered'
  <2> SUFFICES ASSUME NEW s \in Schedules, NEW d \in Rows', d[1] = s, NEW q \in KeptBack(s),
                      d[2] <= sched'[s].next - q * Interval
               PROVE  Covered(Rows', s, sched'[s].next - q * Interval)
    BY DEF KeptAreCovered
  <2>1. q \in Nat \ {0} /\ Interval \in Nat \ {0} /\ q * Interval \in Nat
    BY DEF KeptBack, Scheduler!ScheduleAssumption
  <2>2. ASSUME NEW t, Covered(Rows, s, t)
        PROVE  Covered(Rows', s, t)
    <3>1. PICK e \in Rows : Scheduler!Key(e) = Scheduler!Key(<<s, t>>)
      BY <2>2 DEF Covered
    <3> QED
      BY <3>1 DEF Covered, Scheduler!Key
  <2>3. CASE s \notin due
    <3>1. sched'[s].next = n(s) /\ d \in Rows
      BY <1>2, <1>3, <2>3 DEF new
    <3>2. Covered(Rows, s, n(s) - q * Interval)
      BY <3>1 DEF CatchUpInv, KeptAreCovered
    <3> QED
      BY <2>2, <3>1, <3>2
  <2>4. CASE s \in due
    <3> DEFINE k == Steps(s, n(s))
    <3>1. n(s) \in Nat /\ n(s) <= now /\ sched'[s].next = Scheduler!NextRunAt(s, n(s))
      BY <1>1, <1>2, <2>4
    <3>2. /\ Scheduler!NextRunAt(s, n(s)) = n(s) + k * Interval
          /\ q <= k => Scheduler!NextRunAt(s, n(s)) - q * Interval \in Scheduler!Planned(s, n(s))
      BY <1>1, <3>1, PlannedTimes
    <3>3. k \in Nat \ {0}
      BY <1>1, <3>1, StepsDue
    <3>4. CASE q <= k
      BY <1>1, <2>4, <3>1, <3>2, <3>4, PlannedAreCovered
    <3>5. CASE k < q
      <4>1. q - k \in Nat \ {0} /\ Policy[s] = "all"
        BY <2>1, <3>3, <3>5 DEF KeptBack
      <4>2. q - k \in KeptBack(s)
        BY <4>1 DEF KeptBack
      <4> HIDE DEF k
      <4>3. q * Interval - k * Interval = (q - k) * Interval /\ k * Interval \in Nat
            /\ (q - k) * Interval \in Nat
        BY <2>1, <3>3, <4>1
      <4>4. (n(s) + k * Interval) - q * Interval = n(s) - (q - k) * Interval
        BY <2>1, <3>1, <4>3
      <4>5. d[2] <= n(s) - (q - k) * Interval
        BY <3>1, <3>2, <4>4
      <4>6. d \in Rows
        <5>1. n(s) - (q - k) * Interval < n(s)
          <6>1. 1 * Interval <= (q - k) * Interval
            BY <2>1, <4>1, TimesMonotone
          <6>2. 1 * Interval = Interval
            BY <2>1
          <6> QED
            BY <2>1, <3>1, <4>3, <6>1, <6>2
        <5>2. d \in new => d[2] \in Nat /\ n(s) <= d[2]
          BY <1>3, <1>4
        <5> QED
          BY <3>1, <4>3, <4>5, <5>1, <5>2 DEF new
      <4>7. Covered(Rows, s, n(s) - (q - k) * Interval)
        BY <4>2, <4>5, <4>6 DEF CatchUpInv, KeptAreCovered
      <4> QED
        BY <2>2, <3>1, <3>2, <4>4, <4>7
    <3> QED
      BY <2>1, <3>3, <3>4, <3>5
  <2> QED
    BY <2>3, <2>4
<1> QED
  BY <1>7, <1>8, <1>9 DEF CatchUpInv

(* A step that creates no row moves no schedule that has one.              *)
LEMMA NoServiceKeepsCatchUp ==
  ASSUME CatchUpInv, Rows' = Rows,
         \A d \in Rows : /\ sched'[d[1]].next = sched[d[1]].next
                         /\ sched'[d[1]].state \notin {"new", "checked"}
  PROVE  CatchUpInv'
<1>1. RowsBeforeNext'
  BY DEF CatchUpInv, RowsBeforeNext
<1>2. OneRowPerBucket'
  BY DEF CatchUpInv, OneRowPerBucket, Scheduler!Key
<1>3. KeptAreCovered'
  BY DEF CatchUpInv, KeptAreCovered
<1> QED
  BY <1>1, <1>2, <1>3 DEF CatchUpInv

(* Nothing but the transaction moves a schedule that has dispatches.       *)
LEMMA HumansKeepCatchUp ==
  ASSUME SchedulerInv, CatchUpInv, Rows' = Rows,
         \/ \E s \in Schedules : \/ Scheduler!CheckSchedule(s) \/ Scheduler!InsertSchedule(s)
                                 \/ Scheduler!UpdateScheduleState(s)
         \/ UNCHANGED sched
  PROVE  CatchUpInv'
<1>1. \A d \in Rows : d[1] \in Schedules /\ sched[d[1]].state \notin {"new", "checked"}
  BY DEF CatchUpInv, RowsBeforeNext, Rows, Scheduler!Occurrences
<1>2. sched \in [Schedules -> [state : {"new", "checked", "active", "paused"}, next : Nat]]
  BY DEF SchedulerInv, ClockTyped
<1>3. ASSUME NEW s \in Schedules, Scheduler!CheckSchedule(s) \/ Scheduler!InsertSchedule(s), NEW d \in Rows
      PROVE  sched'[d[1]] = sched[d[1]]
  BY <1>1, <1>2, <1>3 DEF Scheduler!CheckSchedule, Scheduler!InsertSchedule
<1>4. ASSUME NEW s \in Schedules, Scheduler!UpdateScheduleState(s), NEW d \in Rows
      PROVE  /\ sched'[d[1]].next = sched[d[1]].next
             /\ sched'[d[1]].state \notin {"new", "checked"}
  BY <1>1, <1>2, <1>4 DEF Scheduler!UpdateScheduleState
<1> QED
  BY <1>1, <1>3, <1>4, NoServiceKeepsCatchUp

(* Every step keeps the invariant and rewrites no settled dispatch.        *)
LEMMA SchedulerSteps ==
  ASSUME Scheduler!ScheduleAssumption, SchedulerInv, CatchUpInv, [Scheduler!Next]_(Scheduler!vars)
  PROVE  SchedulerInv' /\ CatchUpInv' /\ Scheduler!SettlesOnce
<1>1. CASE \/ \E s \in Schedules : \/ Scheduler!CheckSchedule(s) \/ Scheduler!InsertSchedule(s)
                                   \/ Scheduler!UpdateScheduleState(s)
           \/ Scheduler!MoveChannel \/ Scheduler!DeliverDigest \/ Scheduler!Clock
  <2>1. SchedulerInv' /\ Scheduler!SettlesOnce /\ Rows' = Rows
    BY <1>1, HumansAndClock
  <2>2. \/ \E s \in Schedules : \/ Scheduler!CheckSchedule(s) \/ Scheduler!InsertSchedule(s)
                                \/ Scheduler!UpdateScheduleState(s)
        \/ UNCHANGED sched
    BY <1>1 DEF Scheduler!MoveChannel, Scheduler!DeliverDigest, Scheduler!Clock
  <2> QED
    BY <2>1, <2>2, HumansKeepCatchUp
<1>2. ASSUME SchedulerInv' /\ Scheduler!SettlesOnce /\ Rows' = Rows, UNCHANGED sched
      PROVE  SchedulerInv' /\ CatchUpInv' /\ Scheduler!SettlesOnce
  BY <1>2, HumansKeepCatchUp
<1>3. ASSUME NEW k \in Scheduler!Keys, Scheduler!ApproveRun(k)
      PROVE  SchedulerInv' /\ CatchUpInv' /\ Scheduler!SettlesOnce
  <2>1. UNCHANGED sched
    BY <1>3 DEF Scheduler!ApproveRun
  <2> QED
    BY <1>2, <1>3, <2>1, ApprovalKeepsRuns
<1>4. ASSUME NEW d \in Scheduler!Occurrences, Scheduler!LeaseExpires(d)
      PROVE  SchedulerInv' /\ CatchUpInv' /\ Scheduler!SettlesOnce
  <2>1. UNCHANGED sched
    BY <1>4 DEF Scheduler!LeaseExpires
  <2> QED
    BY <1>2, <1>4, <2>1, ExpiryKeepsRows
<1>5. ASSUME NEW p \in Procs,
             \/ Scheduler!ReadClaimed(p) \/ Scheduler!StartDispatch(p) \/ Scheduler!CheckRun(p)
             \/ Scheduler!SettleThrows(p) \/ Scheduler!Die(p) \/ Scheduler!EndTick(p)
      PROVE  SchedulerInv' /\ CatchUpInv' /\ Scheduler!SettlesOnce
  <2>1. UNCHANGED sched
    BY <1>5 DEF Scheduler!ReadClaimed, Scheduler!StartDispatch, Scheduler!CheckRun, Scheduler!Goto,
                Scheduler!SettleThrows, Scheduler!Die, Scheduler!EndTick
  <2> QED
    BY <1>2, <1>5, <2>1, TickSteps
<1>6. ASSUME NEW p \in Procs, Scheduler!InsertRun(p)
      PROVE  SchedulerInv' /\ CatchUpInv' /\ Scheduler!SettlesOnce
  <2>1. UNCHANGED sched
    BY <1>6 DEF Scheduler!InsertRun, Scheduler!Goto
  <2> QED
    BY <1>2, <1>6, <2>1, InsertKeepsRuns
<1>7. ASSUME NEW p \in Procs, Scheduler!RunCreated(p) \/ Scheduler!DispatchFailed(p)
      PROVE  SchedulerInv' /\ CatchUpInv' /\ Scheduler!SettlesOnce
  <2>1. UNCHANGED sched
    BY <1>7 DEF Scheduler!RunCreated, Scheduler!DispatchFailed, Scheduler!Settle
  <2> QED
    BY <1>2, <1>7, <2>1, SettleOwned
<1>8. ASSUME NEW p \in Procs, Scheduler!ScheduleDue(p)
      PROVE  SchedulerInv' /\ CatchUpInv' /\ Scheduler!SettlesOnce
  <2>1. PICK due \in SUBSET Schedules, D \in SUBSET Scheduler!Occurrences, token \in Tokens :
          Serves(due, D, token, p)
    BY <1>8, ServiceSteps
  <2>2. SchedulerInv' /\ Scheduler!SettlesOnce /\ Rows' = Rows \cup Scheduler!Created(due, Rows)
    BY <2>1, ServiceKeepsRuns
  <2>3. CatchUpInv'
    BY <2>1, <2>2, ServiceCatchesUp
  <2> QED
    BY <2>2, <2>3
<1>9. CASE UNCHANGED Scheduler!vars
  <2>1. UNCHANGED <<dispatch, run, tick, sched>> /\ ClockTyped'
    BY <1>9 DEF Scheduler!vars, SchedulerInv, ClockTyped
  <2> QED
    BY <1>2, <2>1, ClockMoves
<1> QED
  BY <1>1, <1>3, <1>4, <1>5, <1>6, <1>7, <1>8, <1>9 DEF Scheduler!Next, Scheduler!ProcStep

(* The initial states satisfy the invariant.                               *)
LEMMA SchedulerStarts ==
  ASSUME Scheduler!ScheduleAssumption, Scheduler!Init
  PROVE  SchedulerInv /\ CatchUpInv
<1>1. ClockTyped
  BY DEF Scheduler!Init, ClockTyped, Scheduler!Times, Scheduler!ScheduleAssumption
<1>2. Scheduler!Absent \in DispatchRecords
  BY DEF Scheduler!Absent, DispatchRecords, Scheduler!Times, Scheduler!ScheduleAssumption
<1>3. \A d \in Scheduler!Occurrences : dispatch[d].state = "absent"
  BY DEF Scheduler!Init, Scheduler!Absent
<1>4. DispatchGood
  BY <1>2, <1>3 DEF Scheduler!Init, DispatchGood, Scheduler!Settled
<1>5. run \in [Scheduler!Keys -> {Nil} \cup Scheduler!Runs] /\ \A k \in Scheduler!Keys : run[k] = Nil
  BY DEF Scheduler!Init
<1>6. Rows = {} /\ Claimed = {} /\ HasRun = {}
  BY <1>3, <1>5 DEF Rows, Claimed, HasRun
<1>7. TicksGood
  <2>1. TickGood(Scheduler!Idle, Claimed, HasRun)
    BY DEF TickGood, Ticks, Busy, Scheduler!Idle
  <2>2. Scheduler!Idle \in Ticks
    BY <2>1 DEF TickGood
  <2> QED
    BY <2>1, <2>2 DEF Scheduler!Init, TicksGood
<1>8. Scheduler!RunsAreDispatched
  BY <1>3, <1>5 DEF Scheduler!RunsAreDispatched
<1>9. CatchUpInv
  BY <1>6 DEF CatchUpInv, RowsBeforeNext, OneRowPerBucket, KeptAreCovered
<1> QED
  BY <1>1, <1>4, <1>5, <1>7, <1>8, <1>9 DEF SchedulerInv

(* The cardinality of the instance is the cardinality.                     *)
LEMMA SameSize == ASSUME NEW S PROVE Scheduler!Cardinality(S) = Cardinality(S)
BY Zenon DEF Scheduler!Cardinality, Cardinality

(* The invariant gives the property: what lies after the first dispatch is *)
(* covered by a row, and by no second one.                                 *)
LEMMA CoveredExactly ==
  ASSUME Scheduler!ScheduleAssumption, SchedulerInv, CatchUpInv
  PROVE  Scheduler!CatchUpExact
<1> DEFINE n(s)     == sched[s].next
           mine(s)  == {e \in Scheduler!Occurrences : e[1] = s /\ dispatch[e].state # "absent"}
           times(s) == {d[2] : d \in mine(s)} \cup {n(s)}
           start(s) == Scheduler!Min(times(s))
           kept(s)  ==
             CASE Policy[s] = "all"         -> {t \in start(s) .. n(s) - 1 : (n(s) - t) % Interval = 0}
               [] Policy[s] = "latest_only" -> {n(s) - Interval} \cap (start(s) .. n(s) - 1)
               [] OTHER                     -> {}
           bucket(s, t) == {d \in Scheduler!Occurrences :
                              /\ d[1] = s /\ dispatch[d].state # "absent"
                              /\ Scheduler!Key(d) = Scheduler!Key(<<s, t>>)}
<1>1. ASSUME NEW s \in Schedules, NEW t \in kept(s)
      PROVE  Scheduler!Cardinality(bucket(s, t)) = 1
  <2>1. Interval \in Nat \ {0} /\ n(s) \in Nat
    BY DEF SchedulerInv, ClockTyped, Scheduler!ScheduleAssumption
  <2>2. times(s) \subseteq Nat /\ times(s) # {}
    BY <2>1 DEF Scheduler!Occurrences, Scheduler!Times, Scheduler!ScheduleAssumption
  <2>3. start(s) \in times(s) /\ start(s) \in Nat
    BY <2>2, MinOf
  <2>4. t \in start(s) .. n(s) - 1 /\ \E q \in KeptBack(s) : t = n(s) - q * Interval
    <3>1. CASE Policy[s] = "all"
      <4>1. t \in start(s) .. n(s) - 1 /\ (n(s) - t) % Interval = 0
        BY <1>1, <3>1
      <4> HIDE DEF start
      <4>2. t \in Int /\ n(s) - t \in Int /\ 0 < n(s) - t
        BY <2>1, <2>3, <4>1
      <4>3. (n(s) - t) \div Interval \in Int /\ n(s) - t = ((n(s) - t) \div Interval) * Interval
        BY <2>1, <4>1, <4>2, Divides
      <4> DEFINE q == (n(s) - t) \div Interval
      <4>4. q \in Int /\ n(s) - t = q * Interval
        BY <4>3
      <4> HIDE DEF q
      <4>5. q \in Nat \ {0}
        BY <2>1, <4>2, <4>4
      <4>6. t = n(s) - q * Interval
        BY <2>1, <4>2, <4>4, <4>5
      <4> QED
        BY <3>1, <4>1, <4>5, <4>6 DEF KeptBack
    <3>2. CASE Policy[s] = "latest_only"
      <4>1. t \in start(s) .. n(s) - 1 /\ t = n(s) - Interval
        BY <1>1, <3>2
      <4>2. n(s) - Interval = n(s) - 1 * Interval
        BY <2>1
      <4> QED
        BY <3>2, <4>1, <4>2 DEF KeptBack
    <3>3. CASE Policy[s] = "none"
      BY <1>1, <3>3
    <3> QED
      BY <3>1, <3>2, <3>3 DEF Scheduler!ScheduleAssumption
  <2> HIDE DEF kept
  <2>5. PICK d \in mine(s) : start(s) = d[2]
    <3> HIDE DEF start
    <3>1. start(s) # n(s)
      BY <2>1, <2>3, <2>4
    <3> QED
      BY <2>3, <3>1
  <2>6. PICK q \in KeptBack(s) : t = n(s) - q * Interval
    BY <2>4
  <2>7. d \in Rows /\ d[1] = s /\ d[2] <= t
    BY <2>3, <2>4, <2>5 DEF Rows
  <2>8. PICK e \in Rows : Scheduler!Key(e) = Scheduler!Key(<<s, t>>)
    BY <2>6, <2>7 DEF CatchUpInv, KeptAreCovered, Covered
  <2>9. bucket(s, t) = {e}
    <3>1. e \in bucket(s, t)
      BY <2>8 DEF Rows, Scheduler!Key
    <3>2. \A f \in bucket(s, t) : f = e
      BY <2>8 DEF CatchUpInv, OneRowPerBucket, Rows
    <3> QED
      BY <3>1, <3>2
  <2> QED
    BY <2>9, FS_Singleton, SameSize
<1> QED
  BY <1>1, Zenon DEF Scheduler!CatchUpExact

(* Every occurrence the policy keeps has exactly one dispatch in its       *)
(* deduplication bucket, a run answers a claimed occurrence, a dispatch    *)
(* recorded as run_created has its run, and a settled dispatch is never    *)
(* rewritten, through lost leases, crashes of a tick and schedules paused  *)
(* meanwhile (scheduleDue, planDueOccurrences).                            *)
THEOREM SchedulesCatchUpExactly ==
  Scheduler!ScheduleAssumption =>
    (Scheduler!Spec => /\ [](Scheduler!TypeOK /\ Scheduler!RunsAreDispatched /\ Scheduler!CatchUpExact)
                       /\ [][Scheduler!SettlesOnce]_(Scheduler!vars))
<1> SUFFICES ASSUME Scheduler!ScheduleAssumption
             PROVE  Scheduler!Spec =>
                      /\ [](Scheduler!TypeOK /\ Scheduler!RunsAreDispatched /\ Scheduler!CatchUpExact)
                      /\ [][Scheduler!SettlesOnce]_(Scheduler!vars)
  OBVIOUS
<1>1. Scheduler!Init => SchedulerInv /\ CatchUpInv
  BY SchedulerStarts
<1>2. SchedulerInv /\ CatchUpInv /\ [Scheduler!Next]_(Scheduler!vars) => (SchedulerInv /\ CatchUpInv)'
  BY SchedulerSteps
<1>3. SchedulerInv /\ CatchUpInv =>
        Scheduler!TypeOK /\ Scheduler!RunsAreDispatched /\ Scheduler!CatchUpExact
  BY SchedulerTypes, CoveredExactly DEF SchedulerInv
<1>4. SchedulerInv /\ CatchUpInv /\ [Scheduler!Next]_(Scheduler!vars)
        => [Scheduler!SettlesOnce]_(Scheduler!vars)
  BY SchedulerSteps
<1> QED
  BY <1>1, <1>2, <1>3, <1>4, PTL DEF Scheduler!Spec

=============================================================================
