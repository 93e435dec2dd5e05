---------------------------- MODULE Certification ----------------------------
(* CertificationService, its dispatcher, PromotionService, the published   *)
(* gate configurations and corpora, and the nightly maintenance, for one   *)
(* family of agent versions. A certification run is executed case by case  *)
(* in a backend process; the process may crash, the run may time out while *)
(* its execution goes on, and another process that boots reaps every run   *)
(* that is marked running.                                                 *)
EXTENDS Naturals, Sequences, FiniteSets

CONSTANTS Agents, Runs, Processes, None,
          Cases,      \* cases of the corpus
          MinCorrect, \* cases the factual-accuracy gate asks for
          MaxVersion, \* published versions of the corpus and of the gates
          MaxReboots

CertificationAssumption == None \notin Agents /\ Cases \in Nat

VARIABLES status,   \* lifecycle of each agent version
          degraded, \* champions whose re-certification did not pass
          champion, \* the family's champion
          run,      \* certification runs
          exec,     \* the run each process executes, with the scores it holds
          corpus, gates, \* current versions
          reboots

vars == <<status, degraded, champion, run, exec, corpus, gates, reboots>>
published == <<corpus, gates>>

NoRun == [state |-> "absent"]
Idle == [run |-> None, scores |-> <<>>]
Active == {"queued", "running"}
Terminal == {"passed", "failed", "error"}

Init ==
  /\ status = [a \in Agents |-> "shadow"] /\ degraded = {} /\ champion = None
  /\ run = [r \in Runs |-> NoRun]
  /\ exec = [p \in Processes |-> Idle]
  /\ corpus = 1 /\ gates = 1 /\ reboots = 0

RunsOf(a) == {r \in Runs : run[r] # NoRun /\ run[r].agent = a}
Busy(a) == \E r \in RunsOf(a) : run[r].state \in Active

(* createRunInternal: a Serializable transaction snapshots what the run is *)
(* measured against and takes a challenger to certifying.                  *)
CreateRun(r, a) ==
  /\ run[r] = NoRun /\ ~Busy(a)
  /\ \/ status[a] \in {"shadow", "certified"}
     \/ status[a] = "active" /\ champion = a
  /\ run' = [run EXCEPT ![r] =
               [agent |-> a, state |-> "queued",
                kind |-> IF champion = a THEN "recertification" ELSE "challenger",
                champion |-> IF champion = a THEN None ELSE champion,
                corpus |-> corpus, gates |-> gates, results |-> {},
                total |-> 0, fresh |-> FALSE, detail |-> "full", decided |-> FALSE]]
  /\ status' = [status EXCEPT ![a] = IF champion = a THEN @ ELSE "certifying"]
  /\ UNCHANGED <<degraded, champion, exec, published, reboots>>

(* executeRun's claim; the dispatcher gives a process the queued runs.     *)
Start(p, r) ==
  /\ exec[p] = Idle /\ run[r].state = "queued"
  /\ run' = [run EXCEPT ![r].state = "running"]
  /\ exec' = [exec EXCEPT ![p] = [run |-> r, scores |-> <<>>]]
  /\ UNCHANGED <<status, degraded, champion, published, reboots>>

(* failRun leaves a run that is terminal alone; the challenger goes back   *)
(* to shadow, the champion is degraded.                                    *)
MutantFailRun(r) == UNCHANGED <<run, status, degraded>>

FailRun(r) ==
  IF run[r].state \in Active
  THEN /\ run' = [run EXCEPT ![r].state = "error", ![r].total = Cardinality(run[r].results)]
       /\ status' = IF run[r].kind = "challenger" /\ status[run[r].agent] = "certifying"
                    THEN [status EXCEPT ![run[r].agent] = "shadow"] ELSE status
       /\ degraded' = IF run[r].kind = "challenger" THEN degraded ELSE degraded \union {run[r].agent}
  ELSE UNCHANGED <<run, status, degraded>>

(* One case: its result is stored if the run is still running; if not, the *)
(* execution throws and the dispatcher fails the run.                      *)
MutantStillRunning(r) == TRUE

StillRunning(r) == run[r].state = "running"

EvaluateCase(p) ==
  LET r == exec[p].run
      n == Len(exec[p].scores) + 1 IN
  /\ r # None /\ n <= Cases
  /\ IF StillRunning(r)
     THEN \E correct \in BOOLEAN :
            /\ run' = [run EXCEPT ![r].results = @ \union {<<n, correct>>}]
            /\ exec' = [exec EXCEPT ![p].scores = Append(@, correct)]
            /\ UNCHANGED <<status, degraded>>
     ELSE FailRun(r) /\ exec' = [exec EXCEPT ![p] = Idle]
  /\ UNCHANGED <<champion, published, reboots>>

Correct(scores) == Cardinality({i \in DOMAIN scores : scores[i]})

(* The gates: factual accuracy, and no regression against the champion,    *)
(* which answers every case, where there is one.                           *)
GatesPass(r, scores) ==
  /\ Correct(scores) >= MinCorrect
  /\ run[r].champion # None => Correct(scores) = Cases

(* The last transaction of executeRun: it changes nothing unless the run   *)
(* is still running.                                                       *)
Finish(p) ==
  LET r == exec[p].run
      passed == GatesPass(r, exec[p].scores) IN
  /\ r # None /\ Len(exec[p].scores) = Cases
  /\ exec' = [exec EXCEPT ![p] = Idle]
  /\ IF ~StillRunning(r) THEN UNCHANGED <<run, status, degraded>>
     ELSE /\ run' = [run EXCEPT ![r].state = IF passed THEN "passed" ELSE "failed",
                                ![r].total = Len(exec[p].scores),
                                ![r].fresh = passed /\ run[r].kind = "challenger"]
          /\ status' = IF run[r].kind = "challenger" /\ status[run[r].agent] = "certifying"
                       THEN [status EXCEPT ![run[r].agent] = IF passed THEN "certified" ELSE "rejected"]
                       ELSE status
          /\ degraded' = IF run[r].kind = "challenger" THEN degraded
                         ELSE IF passed THEN degraded \ {run[r].agent}
                         ELSE degraded \union {run[r].agent}
  /\ UNCHANGED <<champion, published, reboots>>

(* The dispatcher's timer, or an executor error: the run fails. After a    *)
(* timeout the execution goes on and keeps its permit.                     *)
Timeout(p) ==
  /\ exec[p].run # None /\ FailRun(exec[p].run)
  /\ UNCHANGED <<exec, champion, published, reboots>>

ExecutionError(p) ==
  /\ exec[p].run # None /\ FailRun(exec[p].run)
  /\ exec' = [exec EXCEPT ![p] = Idle]
  /\ UNCHANGED <<champion, published, reboots>>

(* A process stops, and one that boots reaps all running runs, those of    *)
(* other processes too (recoverAndResume).                                 *)
Reboot(p) ==
  /\ reboots < MaxReboots
  /\ reboots' = reboots + 1
  /\ exec' = [exec EXCEPT ![p] = Idle]
  /\ LET reaped == {r \in Runs : run[r].state = "running"} IN
     /\ run' = [r \in Runs |-> IF r \in reaped
                               THEN [run[r] EXCEPT !.state = "error", !.total = Cardinality(run[r].results)]
                               ELSE run[r]]
     /\ status' = [a \in Agents |-> IF status[a] = "certifying" /\ \E r \in reaped :
                                          run[r].agent = a /\ run[r].kind = "challenger"
                                    THEN "shadow" ELSE status[a]]
     /\ degraded' = degraded \union {run[r].agent : r \in {x \in reaped : run[x].kind # "challenger"}}
  /\ UNCHANGED <<champion, published>>

-----------------------------------------------------------------------------
(* Promotion, retirement, publications, maintenance.                       *)

Eligible(a, r) ==
  /\ run[r] # NoRun /\ run[r].agent = a /\ status[a] = "certified"
  /\ run[r].kind = "challenger" /\ run[r].state = "passed" /\ ~run[r].decided
  /\ run[r].detail = "full" /\ run[r].fresh
  /\ run[r].total > 0 /\ Cardinality(run[r].results) = run[r].total
  /\ run[r].corpus = corpus /\ run[r].gates = gates /\ run[r].champion = champion

(* The champion and every other certified version are retired in the same  *)
(* transaction.                                                            *)
Superseded(a) == {b \in Agents \ {a} : b = champion \/ status[b] = "certified"}

Promote(a, r) ==
  /\ Eligible(a, r)
  /\ run' = [run EXCEPT ![r].decided = TRUE, ![r].detail = "evidence"]
  /\ status' = [b \in Agents |-> IF b = a THEN "active"
                                 ELSE IF b \in Superseded(a) THEN "retired" ELSE status[b]]
  /\ champion' = a
  /\ UNCHANGED <<degraded, exec, published, reboots>>

Retire(a) ==
  /\ status[a] \in {"shadow", "certified", "rejected", "active"} /\ ~Busy(a)
  /\ status' = [status EXCEPT ![a] = "retired"]
  /\ champion' = IF champion = a THEN None ELSE champion
  /\ UNCHANGED <<degraded, run, exec, published, reboots>>

PublishCorpus ==
  /\ corpus < MaxVersion /\ corpus' = corpus + 1
  /\ UNCHANGED <<status, degraded, champion, run, exec, gates, reboots>>

PublishGates ==
  /\ gates < MaxVersion /\ gates' = gates + 1
  /\ UNCHANGED <<status, degraded, champion, run, exec, corpus, reboots>>

(* promotionExpiresAt passes. *)
Expire(r) ==
  /\ run[r] # NoRun /\ run[r].fresh
  /\ run' = [run EXCEPT ![r].fresh = FALSE]
  /\ UNCHANGED <<status, degraded, champion, exec, published, reboots>>

(* pruneRunDetails, with no full run retained beyond the fresh ones.       *)
Prunable(r) == run[r].state \in Terminal /\ ~run[r].fresh /\ run[r].detail = "full"
Prune(r) ==
  /\ run[r] # NoRun /\ Prunable(r)
  /\ run' = [run EXCEPT ![r].results = {}, ![r].detail = "summary"]
  /\ UNCHANGED <<status, degraded, champion, exec, published, reboots>>

Work(p) == EvaluateCase(p) \/ Finish(p) \/ \E r \in Runs : Start(p, r)

Next ==
  \/ \E r \in Runs, a \in Agents : CreateRun(r, a) \/ Promote(a, r)
  \/ \E p \in Processes : Work(p) \/ Timeout(p) \/ ExecutionError(p) \/ Reboot(p)
  \/ \E r \in Runs : Expire(r) \/ Prune(r)
  \/ \E a \in Agents : Retire(a)
  \/ PublishCorpus \/ PublishGates

Spec == Init /\ [][Next]_vars

(* The dispatcher of a process that is up gives it its queued runs and the *)
(* executor answers.                                                       *)
FairSpec == Spec /\ \A p \in Processes : WF_vars(Work(p))

-----------------------------------------------------------------------------
(* Properties.                                                             *)

TypeOK ==
  /\ status \in [Agents -> {"shadow", "certifying", "certified", "rejected", "active", "retired"}]
  /\ champion \in Agents \union {None}
  /\ \A r \in Runs : run[r] = NoRun \/ run[r].state \in Active \union Terminal
  /\ \A p \in Processes : Len(exec[p].scores) <= Cases

(* The family's champion is its one active version (promote, retire).      *)
ChampionIsActive == \A a \in Agents : status[a] = "active" <=> a = champion

(* A version is certifying exactly while one challenger run of it is       *)
(* queued or running, through timeouts, reboots and late executions, so no *)
(* version is stuck there (createRunInternal, failRun, executeRun).        *)
CertifyingHasRun ==
  \A a \in Agents :
    LET live == {r \in RunsOf(a) : run[r].state \in Active /\ run[r].kind = "challenger"} IN
    /\ Cardinality(live) <= 1
    /\ status[a] = "certifying" <=> live # {}

(* A certified or active version has passed as a challenger.               *)
CertifiedHasPassed ==
  \A a \in Agents : status[a] \in {"certified", "active"} =>
    \E r \in RunsOf(a) : run[r].kind = "challenger" /\ run[r].state = "passed"

(* "CertificationService's terminal CAS prevents a late result from        *)
(* changing the persisted timeout outcome": once a run has ended, neither  *)
(* its outcome nor its counts change, and results only by pruning.         *)
OutcomeIsFinal ==
  \A r \in Runs : run[r] # NoRun /\ run[r].state \in Terminal =>
    /\ run'[r].state = run[r].state /\ run'[r].total = run[r].total
    /\ run'[r].results \in {run[r].results, {}}

(* The evidence a promotion rested on stays: all of its case results       *)
(* (pruneRunDetails).                                                      *)
EvidenceKept ==
  \A r \in Runs : run[r] # NoRun /\ run[r].decided => Cardinality(run[r].results) = Cases

(* The whole of it: what certification promises about versions, runs and   *)
(* the evidence of promotions (CertificationService, PromotionService).    *)
CertificationIsSound ==
  /\ [](TypeOK /\ ChampionIsActive /\ CertifyingHasRun /\ CertifiedHasPassed /\ EvidenceKept)
  /\ [][OutcomeIsFinal]_vars

(* Every accepted run ends.                                                *)
RunsEnd == \A r \in Runs : run[r].state = "queued" ~> run[r].state \in Terminal
=============================================================================
