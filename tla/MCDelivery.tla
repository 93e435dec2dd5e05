----------------------------- MODULE MCDelivery -----------------------------
(***************************************************************************)
(* What is handed to a person: events through the digest cursor,           *)
(* occurrences of schedules through their dispatches, learning candidates  *)
(* through reviews and the attention queue through decisions.              *)
(***************************************************************************)
EXTENDS DigestDelivery, TLC

CONSTANTS w1, w2, w3, b1, b2, c1, c2, c3, h1, h2, p1, p2

(* A workspace stream, the stream of the actor's department and one of     *)
(* another department.                                                     *)
AllStreams == {"workspace", "own", "other"}
Seen       == {"workspace", "own"}
Spread     == [w \in Writers |-> IF w = w1 THEN "workspace" ELSE IF w = w2 THEN "own" ELSE "other"]
Together   == [w \in Writers |-> IF w = w1 THEN "workspace" ELSE "own"]

VARIABLES case, now, current, sched, dispatch, schedulerRun, digest, tick, moves, lost, slow,
          observed, state, basis, learningShown, review, answer, reviews, queueRun, version,
          plugin, evals, live, resolved, queueShown, reviewed

schedulerVars == <<now, current, sched, dispatch, schedulerRun, digest, tick, moves, lost, slow>>
learningVars == <<observed, state, basis, learningShown, review, answer, reviews>>
queueVars == <<queueRun, version, plugin, evals, live, resolved, queueShown, reviewed>>

Scheduler == INSTANCE AutomationScheduler WITH
  Procs <- {p1, p2}, Schedules <- {"s1"}, Tokens <- 1..4, Policy <- [s \in {"s1"} |-> "all"],
  Interval <- 1, Window <- 1, MaxCatchUp <- 2, WithGrant <- {"s1"}, WithDigest <- {},
  Limit <- 1, Horizon <- 1, MaxMoves <- 1, MaxLost <- 1, MaxSlow <- 1, run <- schedulerRun
Learning == INSTANCE LearningReview WITH
  Candidates <- {c1, c2, c3}, Reviewers <- {h1, h2}, Content <- [c \in {c1, c2, c3} |-> "a"],
  Source <- [c \in {c1, c2, c3} |-> "run"], Hidden <- {}, GroupLimit <- 2, MaxAttempts <- 2,
  MaxReviews <- 2, shown <- learningShown
Shelves == INSTANCE AttentionQueue WITH
  Semantics <- [r \in {"r1", "r2", "r3"} |-> "brief"], Runs <- {"r1", "r2", "r3"},
  Reviewers <- {}, Plugins <- {"p1"}, PerRun <- {"r1"}, Named <- {"r1", "r2"}, Global <- {"r2"},
  Admin <- FALSE, Owner <- TRUE, MaxEvals <- 2, MaxVersion <- 1, run <- queueRun,
  shown <- queueShown
Decisions == INSTANCE AttentionQueue WITH
  Semantics <- [r \in {"r1", "r2"} |-> "brief"], Runs <- {"r1", "r2"}, Reviewers <- {"h1"},
  Plugins <- {}, PerRun <- {}, Named <- {"r1", "r2"}, Global <- {}, Admin <- TRUE,
  Owner <- TRUE, MaxEvals <- 0, MaxVersion <- 2, run <- queueRun, shown <- queueShown

(* What the components assume of their constants. *)
ASSUME SchedulerScheduleAssumption == Scheduler!ScheduleAssumption
ASSUME LearningReviewAssumption == Learning!ReviewAssumption
ASSUME ShelvesQueueAssumption == Shelves!QueueAssumption

(* `case` names the component that moves; the others stay switched off. *)
SuiteInit ==
  /\ case \in {"digest", "takeover", "learning", "shelves", "decisions"}
  /\ Init
  /\ IF case = "takeover" THEN Scheduler!Init ELSE
       /\ now = 0 /\ current = 0 /\ sched = 0 /\ dispatch = 0 /\ schedulerRun = 0 /\ digest = 0
       /\ tick = 0 /\ moves = 0 /\ lost = 0 /\ slow = 0
  /\ IF case = "learning" THEN Learning!Init ELSE
       /\ observed = 0 /\ state = 0 /\ basis = 0 /\ learningShown = 0 /\ review = 0
       /\ answer = 0 /\ reviews = 0
  /\ IF case = "shelves" THEN Shelves!Init ELSE IF case = "decisions" THEN Decisions!Init ELSE
       /\ queueRun = 0 /\ version = 0 /\ plugin = 0 /\ evals = 0 /\ live = 0 /\ resolved = 0
       /\ queueShown = 0 /\ reviewed = 0

SuiteNext ==
  \/ case = "digest" /\ Next /\ UNCHANGED <<case, schedulerVars, learningVars, queueVars>>
  \/ case = "takeover" /\ Scheduler!Next /\ UNCHANGED <<case, vars, learningVars, queueVars>>
  \/ case = "learning" /\ Learning!Next /\ UNCHANGED <<case, vars, schedulerVars, queueVars>>
  \/ case = "shelves" /\ Shelves!Next /\ UNCHANGED <<case, vars, schedulerVars, learningVars>>
  \/ case = "decisions" /\ Decisions!Next /\ UNCHANGED
       <<case, vars, schedulerVars, learningVars>>

suiteVars == <<case, vars, schedulerVars, learningVars, queueVars>>

SuiteSpec == SuiteInit /\ [][SuiteNext]_suiteVars

(* Every matter that waits for a person is on the attention queue exactly  *)
(* once (list); an acknowledgement hides a failure and nothing else        *)
(* (resolveItem); and a group decision binds only what the reviewer was    *)
(* shown, in the generation of the request that is decided (groupKey).     *)
QueueIsHonest ==
  /\ case = "shelves" => Shelves!NothingIsHidden
  /\ case = "decisions" => /\ Decisions!TypeOK
                           /\ Decisions!OnlyFailuresAreResolved
                           /\ Decisions!DecidedAsReviewed

(* A run of the clock answers one claimed occurrence, and a dispatch is    *)
(* settled once: a process that lost its lease while it was creating the   *)
(* run never overwrites what its successor recorded (updateMany where      *)
(* claimToken, scheduleDue).                                               *)
OccurrencesSettleOnce ==
  /\ [](case = "takeover" => /\ Scheduler!TypeOK
                             /\ Scheduler!RunsAreDispatched)
  /\ [][case = "takeover" => Scheduler!SettlesOnce]_suiteVars

(* A group decision covers exactly the candidates a reviewer was shown,    *)
(* not one staged or decided in between, and the first decision stands:    *)
(* two reviewers who decide overlapping groups at once never overwrite     *)
(* each other (reviewMemoryCandidate, reviewImprovementCandidate).         *)
ReviewsStand ==
  /\ [](case = "learning" => /\ Learning!TypeOK
                             /\ Learning!OnlyShownAreDecided)
  /\ [][case = "learning" => Learning!FirstDecisionStands]_suiteVars

(* Candidates of one content, reviewers and processes are interchangeable. *)
Interchangeable == Permutations({c1, c2, c3}) \cup Permutations({h1, h2}) \cup Permutations({p1, p2})

(* The digest alone, with the fairness of its writers and briefings. *)
DigestSpec == SuiteSpec /\ case = "digest" /\ Fairness

=============================================================================
