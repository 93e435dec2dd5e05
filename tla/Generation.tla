----------------------------- MODULE Generation -----------------------------
(***************************************************************************)
(* From a specification to a shadow deployment: GenerationService accepts  *)
(* a job for a ready specification, a process's GenerationDispatcher runs  *)
(* it under a semaphore through the generator, DeploymentService recovers  *)
(* failed agents and deploys ready ones. Processes stop and boot; sections *)
(* are saved meanwhile (SpecDrafting).                                     *)
(*                                                                         *)
(* succeed and fail run under READ COMMITTED: they read the job without a  *)
(* lock and then update it by id, so what one of them reads may have ended *)
(* when it writes. The writes of one transaction are one step: they start  *)
(* with the row of the job, which the others wait for.                     *)
(***************************************************************************)
EXTENDS SpecDrafting, Sequences

CONSTANTS
  Jobs,         \* generation jobs
  Processes,    \* backend processes
  Concurrency,  \* permits of a process's semaphore
  MaxCrashes    \* bound on stops of processes

ConcurrencyAssumption == Concurrency \in Nat \ {0}

VARIABLES
  agent,     \* lifecycle of each specification's agent and its manifest's revision
  job,       \* the generation jobs
  proc,      \* the processes' dispatchers
  ending,    \* open transactions that have read a job as one they may end
  crashes    \* how often a process has stopped

genVars == <<agent, job, proc, ending, crashes>>
vars == <<draftVars, genVars>>

NoJob == [state |-> "none"]
Up == [phase |-> "up", reap |-> {}, waiting |-> <<>>, granted |-> {}, running |-> {}]
Active == {"queued", "running"}

Init ==
  /\ DraftInit
  /\ agent = [s \in Specs |-> [status |-> "draft", manifest |-> 0]]
  /\ job = [j \in Jobs |-> NoJob]
  /\ proc = [p \in Processes |-> Up]
  /\ ending = {}
  /\ crashes = 0

ActiveJobs(s) == {j \in Jobs : job[j] # NoJob /\ job[j].spec = s /\ job[j].state \in Active}

(* enqueue, and Semaphore.acquire: a permit if one is free, else wait.     *)
Enqueue(d, j) ==
  IF Cardinality(d.granted \union d.running) < Concurrency
  THEN [d EXCEPT !.granted = @ \union {j}] ELSE [d EXCEPT !.waiting = Append(@, j)]

(* Semaphore.release hands the permit to the first that waits.             *)
Release(d, j) ==
  LET free == [d EXCEPT !.granted = @ \ {j}, !.running = @ \ {j}] IN
  IF free.waiting = <<>> THEN free
  ELSE [free EXCEPT !.granted = @ \union {Head(free.waiting)}, !.waiting = Tail(@)]

-----------------------------------------------------------------------------
(* GenerationService.accept, then enqueue in the process that serves it.   *)
ReadyToGenerate(s) ==
  /\ ActiveJobs(s) = {} /\ spec[s].sections = Sections /\ spec[s].status = "ready"
  /\ agent[s].status = "draft"

Accept(p, j, s) ==
  /\ proc[p].phase = "up" /\ job[j] = NoJob /\ spec[s] # NoSpec /\ ReadyToGenerate(s)
  /\ spec' = [spec EXCEPT ![s].status = "generating"]
  /\ agent' = [agent EXCEPT ![s].status = "generating"]
  /\ job' = [job EXCEPT ![j] = [state |-> "queued", spec |-> s, revision |-> spec[s].revision,
                                 made |-> FALSE, over |-> FALSE]]
  /\ proc' = [proc EXCEPT ![p] = Enqueue(@, j)]
  /\ UNCHANGED <<interp, asked, editor, doomed, ending, crashes>>

(* Dispatcher.run claims the job; one that is not queued any more is left. *)
Claim(p, j) ==
  /\ proc[p].phase = "up" /\ j \in proc[p].granted
  /\ IF job[j].state = "queued"
     THEN /\ job' = [job EXCEPT ![j].state = "running"]
          /\ proc' = [proc EXCEPT ![p].granted = @ \ {j}, ![p].running = @ \union {j}]
     ELSE UNCHANGED job /\ proc' = [proc EXCEPT ![p] = Release(@, j)]
  /\ UNCHANGED <<draftVars, agent, ending, crashes>>

(* succeed reads the job: one that is not running any more is left alone.  *)
MutantStillRunning(j) == TRUE

StillRunning(j) == job[j].state = "running"

Reader(p, j, as) == [by |-> p, job |-> j, as |-> as]

BeginSucceed(p, j) ==
  /\ j \in proc[p].running /\ \A t \in ending : t.by = p => t.job # j
  /\ IF StillRunning(j)
     THEN ending' = ending \union {Reader(p, j, "succeed")} /\ UNCHANGED proc
     ELSE UNCHANGED ending /\ proc' = [proc EXCEPT ![p] = Release(@, j)]
  /\ UNCHANGED <<draftVars, agent, job, crashes>>

(* Job, agent and specification are then updated by id. made: the job has  *)
(* a manifest, which nothing removes; over: it had ended and was written   *)
(* again (history).                                                        *)
Ended(j, state, made) ==
  [job[j] EXCEPT !.state = state, !.made = @ \/ made, !.over = @ \/ job[j].state \notin Active]

EndSucceed(p, j) ==
  /\ j \in proc[p].running /\ Reader(p, j, "succeed") \in ending
  /\ ending' = ending \ {Reader(p, j, "succeed")}
  /\ job' = [job EXCEPT ![j] = Ended(j, "succeeded", TRUE)]
  /\ agent' = [agent EXCEPT ![job[j].spec] = [status |-> "ready", manifest |-> job[j].revision]]
  /\ spec' = [spec EXCEPT ![job[j].spec].status = "generated"]
  /\ proc' = [proc EXCEPT ![p] = Release(@, j)]
  /\ UNCHANGED <<interp, asked, editor, doomed, crashes>>

(* fail reads a job that has not ended; the job is updated by id, agent    *)
(* and specification are released if they still wait.                      *)
Fail(j) ==
  /\ job' = [job EXCEPT ![j] = Ended(j, "failed", FALSE)]
  /\ agent' = [agent EXCEPT ![job[j].spec].status = IF @ = "generating" THEN "failed" ELSE @]
  /\ spec' = [spec EXCEPT ![job[j].spec].status = IF @ = "generating" THEN "ready" ELSE @]

(* The generator's timeout, output limit, malformed progress, exit code or *)
(* bad manifest, whichever settles the run first, or a success that the    *)
(* database refuses.                                                       *)
BeginError(p, j) ==
  /\ j \in proc[p].running /\ Reader(p, j, "fail") \notin ending
  /\ LET others == ending \ {Reader(p, j, "succeed")} IN
     IF job[j].state \in Active
     THEN ending' = others \union {Reader(p, j, "fail")} /\ UNCHANGED proc
     ELSE ending' = others /\ proc' = [proc EXCEPT ![p] = Release(@, j)]
  /\ UNCHANGED <<draftVars, agent, job, crashes>>

EndError(p, j) ==
  /\ j \in proc[p].running /\ Reader(p, j, "fail") \in ending /\ Fail(j)
  /\ ending' = ending \ {Reader(p, j, "fail")}
  /\ proc' = [proc EXCEPT ![p] = Release(@, j)]
  /\ UNCHANGED <<interp, asked, editor, doomed, crashes>>

(* A process stops; a boot reads the running jobs, fails them one by one,  *)
(* also those another process runs, and resumes the queued ones.           *)
Crash(p) ==
  /\ crashes < MaxCrashes
  /\ crashes' = crashes + 1
  /\ proc' = [proc EXCEPT ![p] = [Up EXCEPT !.phase = "down"]]
  /\ ending' = {t \in ending : t.by # p}
  /\ UNCHANGED <<draftVars, agent, job>>

Boot(p) ==
  /\ proc[p].phase = "down"
  /\ proc' = [proc EXCEPT ![p].phase = "boot", ![p].reap = {j \in Jobs : job[j].state = "running"}]
  /\ UNCHANGED <<draftVars, agent, job, ending, crashes>>

BeginReap(p, j) ==
  /\ proc[p].phase = "boot" /\ j \in proc[p].reap /\ \A t \in ending : t.by # p
  /\ IF job[j].state \in Active
     THEN ending' = ending \union {Reader(p, j, "fail")} /\ UNCHANGED proc
     ELSE UNCHANGED ending /\ proc' = [proc EXCEPT ![p].reap = @ \ {j}]
  /\ UNCHANGED <<draftVars, agent, job, crashes>>

EndReap(p, j) ==
  /\ proc[p].phase = "boot" /\ Reader(p, j, "fail") \in ending /\ Fail(j)
  /\ ending' = ending \ {Reader(p, j, "fail")}
  /\ proc' = [proc EXCEPT ![p].reap = @ \ {j}]
  /\ UNCHANGED <<interp, asked, editor, doomed, crashes>>

Resume(p) ==
  /\ proc[p].phase = "boot" /\ proc[p].reap = {}
  /\ \E order \in [1..Cardinality({j \in Jobs : job[j].state = "queued"}) -> {j \in Jobs : job[j].state = "queued"}] :
       /\ \A m, n \in DOMAIN order : order[m] = order[n] => m = n
       /\ LET queue[n \in 0..Len(order)] == IF n = 0 THEN Up ELSE Enqueue(queue[n - 1], order[n])
          IN proc' = [proc EXCEPT ![p] = queue[Len(order)]]
  /\ UNCHANGED <<draftVars, agent, job, ending, crashes>>

-----------------------------------------------------------------------------
(* DeploymentService.                                                      *)

Recover(s) ==
  /\ ActiveJobs(s) = {} /\ agent[s].status = "failed"
  /\ agent' = [agent EXCEPT ![s].status = "draft"]
  /\ UNCHANGED <<draftVars, job, proc, ending, crashes>>

ShadowDeploy(s) ==
  /\ agent[s].status = "ready"
  /\ agent' = [agent EXCEPT ![s].status = "shadow"]
  /\ UNCHANGED <<draftVars, job, proc, ending, crashes>>

Work(p) ==
  \/ \E j \in Jobs : \/ Claim(p, j) \/ BeginSucceed(p, j) \/ EndSucceed(p, j)
                     \/ BeginError(p, j) \/ EndError(p, j) \/ BeginReap(p, j) \/ EndReap(p, j)
  \/ Boot(p) \/ Resume(p)

Next ==
  \/ DraftNext /\ UNCHANGED genVars
  \/ \E p \in Processes : Work(p) \/ Crash(p) \/ \E j \in Jobs, s \in Specs : Accept(p, j, s)
  \/ \E s \in Specs : Recover(s) \/ ShadowDeploy(s)

Spec == Init /\ [][Next]_vars

(* A stopped process is started again, the generator ends (its timer kills *)
(* it), and the event loop runs what has a permit.                         *)
FairSpec == Spec /\ \A p \in Processes : WF_vars(Work(p))

-----------------------------------------------------------------------------
(* Properties.                                                             *)

(* The transactions that have read a job as one they may end.              *)
Deciding(j) == {t \in ending : t.job = j}

(* A job of the specification had ended and was written again.             *)
Overtaken(s) == \E j \in Jobs : job[j] # NoJob /\ job[j].spec = s /\ job[j].over

(* At most one job of an agent is queued or running, and an agent that is  *)
(* generating has one: no crash, reap or late answer leaves it stuck. The  *)
(* agent waits for that job unless a transaction on an earlier job, open   *)
(* since before that one ended, has moved it (accept, succeed, fail).      *)
GeneratingHasJob ==
  \A s \in Specs : /\ Cardinality(ActiveJobs(s)) <= 1
                   /\ agent[s].status = "generating" => ActiveJobs(s) # {}
                   /\ ActiveJobs(s) # {} => agent[s].status = "generating" \/ Overtaken(s)

(* A generated agent's manifest was made by a job of it, and that job has  *)
(* succeeded unless a reap that had read it as running failed it late.     *)
ManifestOfSucceeded ==
  \A s \in Specs : agent[s].status \in {"ready", "shadow"} =>
    \E j \in Jobs : /\ job[j] # NoJob /\ job[j].spec = s /\ job[j].made
                    /\ agent[s].manifest = job[j].revision
                    /\ job[j].state = "succeeded" \/ job[j].over

(* A job that has ended stays ended: nothing that reads it then writes it, *)
(* and each transaction that had read it before writes it at most once. It *)
(* does not change at all while no process has stopped (succeed, fail).    *)
OutcomeIsFinal ==
  \A j \in Jobs : job[j].state \in {"succeeded", "failed"} =>
    /\ job'[j].state \in {"succeeded", "failed"}
    /\ job'[j].spec = job[j].spec /\ job'[j].revision = job[j].revision
    /\ Deciding(j)' \subseteq Deciding(j)
    /\ job'[j] # job[j] => Deciding(j)' # Deciding(j) /\ crashes > 0

(* What the Build surface relies on, with editors that save sections while *)
(* jobs run: specifications keep their form, each section they have was    *)
(* confirmed, an interpretation serves one of them; an agent that is       *)
(* generating has one job queued or running, its manifest was made by a    *)
(* job of it, and a job that has ended is only written by a transaction    *)
(* that read it before, of a runner whose job a booting process reaps or   *)
(* of that process (updateSection, accept, succeed, fail,                  *)
(* reapRunningJobs).                                                       *)
GenerationIsExact ==
  /\ [](/\ TypeOK /\ SectionsConfirmed /\ OneSpecPerInterpretation
        /\ GeneratingHasJob /\ ManifestOfSucceeded)
  /\ [][OutcomeIsFinal]_vars

(* No more generators run in a process than the semaphore has permits.     *)
WithinConcurrency == \A p \in Processes : Cardinality(proc[p].granted \union proc[p].running) <= Concurrency

(* Every accepted job ends, also one that waits for a permit or whose      *)
(* process stops.                                                          *)
JobsEnd == \A j \in Jobs : job[j].state = "queued" ~> job[j].state \in {"succeeded", "failed"}

=============================================================================
