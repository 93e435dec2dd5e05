------------------------ MODULE AutomationScheduler ------------------------
(***************************************************************************)
(* The automation clock of the backend processes and the schedule service  *)
(* of AutomationLearningService: due occurrences become dispatches, a      *)
(* dispatch is claimed under a lease and turned into one ExecutionRun by   *)
(* ExecutionService.createRun.  A schedule, its occurrences and the clock  *)
(* use one unit of time; a lease is live or expired.  An idempotency key   *)
(* is a schedule and the deduplication bucket of an occurrence.            *)
(***************************************************************************)
EXTENDS Integers, FiniteSets, FiniteSetsExt

CONSTANTS
  Procs,        \* backend processes
  Schedules,
  Tokens,       \* values of claimToken; a claim takes one nobody holds
  Policy,       \* catchUpPolicy of a schedule: "all", "latest_only", "none"
  Interval,     \* intervalSeconds
  Window,       \* deduplicationWindowSeconds
  MaxCatchUp,   \* maxCatchUpRuns
  WithGrant,    \* schedules with an authorityGrantId
  WithDigest,   \* schedules with includePlatformDigest
  Limit,        \* AUTOMATION_SCHEDULER_BATCH_SIZE
  Horizon,      \* bound on the clock
  MaxMoves,     \* bound on channel moves, state changes by humans and digest deliveries
  MaxLost,      \* bound on ticks that die with dispatches in hand
  MaxSlow,      \* bound on leases that expire under a live tick
  Nil

(* Request: what createRun is asked for; grant: the stored authorityGrantId. *)
Requests == [input : Nat, grant : {"none", "given"}]
Runs     == [asked : Requests, grant : {"none", "given", "approved"}]

ScheduleAssumption ==
  /\ Interval \in Nat \ {0} /\ Window \in Nat \ {0} /\ MaxCatchUp \in Nat \ {0}
  /\ Limit \in Nat \ {0} /\ Horizon \in Nat /\ MaxMoves \in Nat /\ MaxLost \in Nat /\ MaxSlow \in Nat
  /\ Policy \in [Schedules -> {"all", "latest_only", "none"}]
  /\ WithGrant \subseteq Schedules /\ WithDigest \subseteq Schedules
  /\ Nil \notin Tokens \cup Runs

VARIABLES
  now,
  current,   \* the release of every schedule is the current release of its channel
  sched,     \* AutomationSchedule rows
  dispatch,  \* AutomationDispatch rows by <<schedule, scheduledFor>>
  run,       \* ExecutionRun rows by idempotency key
  digest,    \* id of the digest snapshot that awaits delivery
  tick,      \* the scheduleDue call of a process
  moves, lost, slow

bounds == <<moves, lost, slow>>
vars   == <<now, current, sched, dispatch, run, digest, tick, bounds>>

Times       == 0 .. Horizon
Occurrences == Schedules \X Times

Key(d) == <<d[1], d[2] \div Window>>

Keys == {Key(d) : d \in Occurrences}

Idle   == [pc |-> "idle", token |-> Nil, todo |-> {}, valid |-> {}, at |-> Nil, input |-> 0]
Absent == [state |-> "absent", token |-> Nil, live |-> FALSE, born |-> 0]

TypeOK ==
  /\ now \in Times /\ current \in BOOLEAN /\ digest \in Nat
  /\ sched \in [Schedules -> [state : {"new", "checked", "active", "paused"}, next : Nat]]
  /\ dispatch \in [Occurrences -> [state : {"absent", "pending", "processing", "run_created", "failed"},
                                   token : Tokens \cup {Nil}, live : BOOLEAN, born : Times]]
  /\ \A k \in Keys : run[k] = Nil \/ run[k] \in Runs
  /\ \A p \in Procs :
       /\ tick[p].pc \in {"idle", "claimed", "working", "checking", "inserting", "settling", "failing"}
       /\ tick[p].todo \subseteq Occurrences /\ tick[p].valid \subseteq tick[p].todo
       /\ tick[p].pc = "idle" => tick[p] = Idle

Init ==
  /\ now = 0 /\ current = TRUE /\ digest = 1
  /\ sched = [s \in Schedules |-> [state |-> "new", next |-> 0]]
  /\ dispatch = [d \in Occurrences |-> Absent]
  /\ run = [k \in Keys |-> Nil]
  /\ tick = [p \in Procs |-> Idle]
  /\ moves = 0 /\ lost = 0 /\ slow = 0

-----------------------------------------------------------------------------
(* Humans.                                                                 *)

(* createSchedule reads the channel outside the transaction that inserts.  *)
CheckSchedule(s) ==
  /\ sched[s].state = "new" /\ current
  /\ sched' = [sched EXCEPT ![s].state = "checked"]
  /\ UNCHANGED <<now, current, dispatch, run, digest, tick, bounds>>

InsertSchedule(s) ==
  /\ sched[s].state = "checked"
  /\ sched' = [sched EXCEPT ![s] = [state |-> "active", next |-> now]]
  /\ UNCHANGED <<now, current, dispatch, run, digest, tick, bounds>>

Moving == moves < MaxMoves /\ moves' = moves + 1

UpdateScheduleState(s) ==
  /\ Moving
  /\ \/ sched[s].state = "active" /\ sched' = [sched EXCEPT ![s].state = "paused"]
     \/ sched[s].state = "paused" /\ sched' = [sched EXCEPT ![s].state = "active"]
  /\ UNCHANGED <<now, current, dispatch, run, digest, tick, lost, slow>>

(* Another release is promoted on the channel. *)
MoveChannel ==
  /\ Moving /\ current /\ current' = FALSE
  /\ UNCHANGED <<now, sched, dispatch, run, digest, tick, lost, slow>>

(* The pending snapshot is delivered; the next tick gets another one. *)
DeliverDigest ==
  /\ Moving /\ digest' = digest + 1
  /\ UNCHANGED <<now, current, sched, dispatch, run, tick, lost, slow>>

(* approveRun binds a new grant to the run. *)
ApproveRun(k) ==
  /\ Moving /\ run[k] # Nil /\ run[k].grant = "none"
  /\ run' = [run EXCEPT ![k].grant = "approved"]
  /\ UNCHANGED <<now, current, sched, dispatch, digest, tick, lost, slow>>

Clock ==
  /\ now < Horizon /\ now' = now + 1
  /\ UNCHANGED <<current, sched, dispatch, run, digest, tick, bounds>>

-----------------------------------------------------------------------------
(* planDueOccurrences: the occurrences that get a dispatch and the new     *)
(* nextRunAt.                                                              *)

DueCount(next) == (now - next) \div Interval + 1

Planned(s, next) ==
  CASE Policy[s] = "none"        -> {}
    [] Policy[s] = "latest_only" -> {next + (DueCount(next) - 1) * Interval}
    [] Policy[s] = "all"         -> {next + i * Interval : i \in 0 .. Min({DueCount(next), MaxCatchUp}) - 1}

NextRunAt(s, next) ==
  next + Interval * (IF Policy[s] = "all" THEN Min({DueCount(next), MaxCatchUp}) ELSE DueCount(next))

MutantCreated(due, rows) ==
  {d \in {<<s, t>> : s \in due, t \in Times} :
     d[2] \in Planned(d[1], sched[d[1]].next) /\ d \notin rows}

(* createMany with skipDuplicates over the unique (scheduleId, key): of    *)
(* several occurrences in one bucket the earliest gets the row.            *)
Created(due, rows) ==
  {d \in {<<s, t>> : s \in due, t \in Times} :
     /\ d[2] \in Planned(d[1], sched[d[1]].next)
     /\ \A e \in rows : Key(e) # Key(d)
     /\ \A t \in Planned(d[1], sched[d[1]].next) : t < d[2] => Key(<<d[1], t>>) # Key(d)}

(* ORDER BY age LIMIT n over a set. *)
Oldest(S, age, n) ==
  {D \in SUBSET S : /\ Cardinality(D) = Min({n, Cardinality(S)})
                    /\ \A d \in D, e \in S \ D : age[d] <= age[e]}

MutantClaimable(d) == dispatch[d].state = "pending"

Claimable(d) == \/ dispatch[d].state = "pending"
                \/ dispatch[d].state = "processing" /\ ~dispatch[d].live

Fresh == {t \in Tokens : (\A d \in Occurrences : dispatch[d].token # t) /\ (\A p \in Procs : tick[p].token # t)}

(* The transaction of scheduleDue, under the workspace's advisory lock.    *)
(* A tick that misses the lock or finds nothing returns and changes        *)
(* nothing.                                                                *)
ScheduleDue(p) ==
  LET ready == {s \in Schedules : sched[s].state = "active" /\ sched[s].next <= now}
      rows  == {d \in Occurrences : dispatch[d].state # "absent"}
      dueAt == [s \in ready |-> sched[s].next]
  IN /\ tick[p].pc = "idle" /\ Fresh # {}
     /\ \E chosen \in Oldest(ready, dueAt, Limit) :
        LET due == IF current THEN chosen ELSE {}
            new == Created(due, rows)
            claimable == {d \in rows : Claimable(d)} \cup new
            born == [d \in claimable |-> IF d \in rows THEN dispatch[d].born ELSE now]
        IN \E token \in {CHOOSE t \in Fresh : TRUE},
              D \in Oldest(claimable, born, Max({Limit, Cardinality(new), 1})) :
             /\ chosen # {} \/ D # {}
             /\ sched' = [s \in Schedules |->
                  CASE s \in due          -> [sched[s] EXCEPT !.next = NextRunAt(s, @)]
                    [] s \in chosen \ due -> [sched[s] EXCEPT !.state = "paused"]
                    [] OTHER              -> sched[s]]
             /\ dispatch' = [d \in Occurrences |->
                  CASE d \in D       -> [state |-> "processing", token |-> token, live |-> TRUE, born |-> born[d]]
                    [] d \in new \ D -> [state |-> "pending", token |-> Nil, live |-> FALSE, born |-> now]
                    [] OTHER         -> dispatch[d]]
             /\ tick' = [tick EXCEPT ![p] = [Idle EXCEPT !.pc = "claimed", !.token = token, !.todo = D]]
     /\ UNCHANGED <<now, current, run, digest, bounds>>

(* findMany of the claimed dispatches with their schedules as they are now. *)
ReadClaimed(p) ==
  /\ tick[p].pc = "claimed"
  /\ LET mine == {d \in tick[p].todo : dispatch[d].state = "processing" /\ dispatch[d].token = tick[p].token}
     IN tick' = [tick EXCEPT ![p].pc = "working", ![p].todo = mine,
                             ![p].valid = {d \in mine : sched[d[1]].state = "active" /\ current}]
  /\ UNCHANGED <<now, current, sched, dispatch, run, digest, bounds>>

(* The next dispatch of the loop: an inactive schedule throws; otherwise   *)
(* the digest snapshot is taken.                                           *)
StartDispatch(p) ==
  /\ tick[p].pc = "working"
  /\ \E d \in tick[p].todo :
       /\ \A e \in tick[p].todo : dispatch[d].born <= dispatch[e].born
       /\ tick' = [tick EXCEPT ![p].at = d,
                     ![p].pc = IF d \in tick[p].valid THEN "checking" ELSE "failing",
                     ![p].input = IF d[1] \in WithDigest THEN digest ELSE 0]
  /\ UNCHANGED <<now, current, sched, dispatch, run, digest, bounds>>

-----------------------------------------------------------------------------
(* ExecutionService.createRun.                                             *)

Asked(p) == [input |-> tick[p].input, grant |-> IF tick[p].at[1] \in WithGrant THEN "given" ELSE "none"]

SameRequest(p) ==
  LET r == run[Key(tick[p].at)] IN r.asked.input = Asked(p).input /\ r.grant = Asked(p).grant

Goto(p, label) ==
  /\ tick' = [tick EXCEPT ![p].pc = label]
  /\ UNCHANGED <<now, current, sched, dispatch, digest, bounds>>

(* The lookup by idempotency key, then the checks of a new run.            *)
CheckRun(p) ==
  /\ tick[p].pc = "checking"
  /\ LET r == run[Key(tick[p].at)]
     IN \/ r # Nil /\ SameRequest(p) /\ Goto(p, "settling")
        \/ r # Nil /\ ~SameRequest(p) /\ Goto(p, "failing")
        \/ r = Nil /\ current /\ Goto(p, "inserting")
        \/ r = Nil /\ Goto(p, "failing")   \* not the current release, or another check refuses
  /\ UNCHANGED run

(* The insert: (workspaceId, idempotencyKey) is unique.  A run that needs  *)
(* approval is stored without its grant.                                   *)
InsertRun(p) ==
  /\ tick[p].pc = "inserting"
  /\ \/ /\ run[Key(tick[p].at)] # Nil
        /\ Goto(p, "failing") /\ UNCHANGED run
     \/ /\ run[Key(tick[p].at)] = Nil
        /\ \E grant \in {"none", Asked(p).grant} :
             run' = [run EXCEPT ![Key(tick[p].at)] = [asked |-> Asked(p), grant |-> grant]]
        /\ Goto(p, "settling")

-----------------------------------------------------------------------------
MutantOwned(p) == TRUE

Owned(p) == dispatch[tick[p].at].token = tick[p].token

(* updateMany where id and claimToken, and on to the next dispatch.        *)
Settle(p, outcome) ==
  /\ dispatch' = IF Owned(p)
                   THEN [dispatch EXCEPT ![tick[p].at] = [@ EXCEPT !.state = outcome, !.token = Nil, !.live = FALSE]]
                   ELSE dispatch
  /\ LET rest == tick[p].todo \ {tick[p].at}
     IN tick' = [tick EXCEPT ![p].pc = "working", ![p].todo = rest, ![p].valid = @ \cap rest,
                             ![p].at = Nil, ![p].input = 0]
  /\ UNCHANGED <<now, current, sched, run, digest>>

RunCreated(p) == tick[p].pc = "settling" /\ Settle(p, "run_created") /\ UNCHANGED bounds

DispatchFailed(p) == tick[p].pc = "failing" /\ Settle(p, "failed") /\ UNCHANGED bounds

Lose(n) == lost + n <= MaxLost /\ lost' = lost + n

(* The transaction that records the run throws; the run is there. *)
SettleThrows(p) ==
  /\ tick[p].pc = "settling" /\ Lose(1)
  /\ tick' = [tick EXCEPT ![p].pc = "failing"]
  /\ UNCHANGED <<now, current, sched, dispatch, run, digest, moves, slow>>

(* The process crashes and boots again, or the catch block throws: the     *)
(* dispatches it holds wait for their lease.                               *)
Die(p) ==
  /\ tick[p].pc # "idle" /\ Lose(1)
  /\ tick' = [tick EXCEPT ![p] = Idle]
  /\ UNCHANGED <<now, current, sched, dispatch, run, digest, moves, slow>>

EndTick(p) ==
  /\ tick[p].pc = "working" /\ tick[p].todo = {}
  /\ tick' = [tick EXCEPT ![p] = Idle]
  /\ UNCHANGED <<now, current, sched, dispatch, run, digest, bounds>>

LeaseExpires(d) ==
  LET held == \E p \in Procs : tick[p].token = dispatch[d].token
  IN /\ dispatch[d].live
     /\ held => slow < MaxSlow
     /\ slow' = IF held THEN slow + 1 ELSE slow
     /\ dispatch' = [dispatch EXCEPT ![d].live = FALSE]
     /\ UNCHANGED <<now, current, sched, run, digest, tick, moves, lost>>

ProcStep(p) ==
  \/ ScheduleDue(p) \/ ReadClaimed(p) \/ StartDispatch(p) \/ CheckRun(p) \/ InsertRun(p)
  \/ RunCreated(p) \/ DispatchFailed(p) \/ EndTick(p)

Next ==
  \/ \E s \in Schedules : CheckSchedule(s) \/ InsertSchedule(s) \/ UpdateScheduleState(s)
  \/ MoveChannel \/ DeliverDigest \/ Clock
  \/ \E k \in Keys : ApproveRun(k)
  \/ \E p \in Procs : ProcStep(p) \/ SettleThrows(p) \/ Die(p)
  \/ \E d \in Occurrences : LeaseExpires(d)

Spec == Init /\ [][Next]_vars

(* The timer of a live process fires, its awaits return, and time passes.  *)
FairSpec ==
  /\ Spec
  /\ \A p \in Procs : WF_vars(ProcStep(p))
  /\ \A d \in Occurrences : WF_vars(LeaseExpires(d))

-----------------------------------------------------------------------------
(* Properties.                                                             *)

Settled(d) == dispatch[d].state \in {"run_created", "failed"}

(* A dispatch is settled once: a process that lost its lease while it was  *)
(* creating the run never overwrites what its successor recorded           *)
(* (updateMany where claimToken, scheduleDue).                             *)
SettlesOnce == \A d \in Occurrences : Settled(d) => dispatch'[d] = dispatch[d]

(* Catching up skips nothing the policy keeps: from its first dispatch on, *)
(* every occurrence of an "all" schedule before nextRunAt, and the last    *)
(* one of a "latest_only" schedule, shares its bucket with exactly one     *)
(* dispatch (planDueOccurrences, dispatchKey).                             *)
CatchUpExact ==
  \A s \in Schedules : sched[s].next > 0 =>
    LET start == Min({d[2] : d \in {e \in Occurrences : e[1] = s /\ dispatch[e].state # "absent"}} \cup {sched[s].next})
        kept  == CASE Policy[s] = "all"         -> {t \in start .. sched[s].next - 1 : (sched[s].next - t) % Interval = 0}
                   [] Policy[s] = "latest_only" -> {sched[s].next - Interval} \cap (start .. sched[s].next - 1)
                   [] OTHER                     -> {}
    IN \A t \in kept : Cardinality({d \in Occurrences : d[1] = s /\ dispatch[d].state # "absent" /\ Key(d) = Key(<<s, t>>)}) = 1

(* A run of the clock answers one claimed occurrence: its key has a        *)
(* dispatch that was claimed, and a dispatch recorded as run_created has   *)
(* its run (createRun before the update, both under one key).              *)
RunsAreDispatched ==
  /\ \A k \in Keys : run[k] # Nil =>
       \E d \in Occurrences : Key(d) = k /\ dispatch[d].state \in {"processing", "run_created", "failed"}
  /\ \A d \in Occurrences : dispatch[d].state = "run_created" => run[Key(d)] # Nil

(* A dispatch that was written is settled in the end, also when the        *)
(* process that claimed it dies (leases, reclaiming in scheduleDue).       *)
DispatchSettles ==
  \A d \in Occurrences : dispatch[d].state \in {"pending", "processing"} ~> Settled(d)

(* An active schedule that is due is served: its nextRunAt moves past the  *)
(* clock or it is paused, although a tick serves at most Limit schedules.  *)
DueIsServed ==
  \A s \in Schedules : (sched[s].state = "active" /\ sched[s].next <= now) ~>
                         (sched[s].state = "paused" \/ sched[s].next > now)

=============================================================================
