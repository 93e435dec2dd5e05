---------------------------- MODULE DatabaseSeed ----------------------------
(***************************************************************************)
(* prisma/seed.ts.  The seed runs when the stack boots, on a database      *)
(* where it may have run before, completely or up to any statement: only   *)
(* its last statements share a transaction.  Between two boots people      *)
(* promote and retire agents, revoke roles, and days pass; the evidence    *)
(* the seed writes for its two champions is fresh for one day.  Not every  *)
(* decision of a person outlives a boot: the bindings of the local user    *)
(* and of the system are given again, and the local user is active again.  *)
(***************************************************************************)
EXTENDS Naturals, Sequences, FiniteSets

CONSTANTS MaxDay, MaxBoots, None

VARIABLES
  db,    \* the database, see Empty
  step,  \* the statement the seed executes next, 0 when it does not run
  read,  \* what the running seed read: corpora that exist, runs that are evidence
  day, boots,
  done,  \* the last seed that started reached its end
  failed \* a seed stopped with an error

vars == <<db, step, read, day, boots, done, failed>>

SeedAssumption == None \notin {"certified", "active", "retired", "first", "later"}

Families == {"supplier", "inventory"}

Empty ==
  [rows      |-> {},                              \* tables that are only upserted
   role      |-> FALSE,                           \* the local user's role binding
   corpora   |-> {},                              \* corpus versions, one for each family
   members   |-> {},                              \* those that have their cases
   runs      |-> [f \in Families |-> None],       \* certification runs, by the day they expire
   results   |-> {},                              \* those with gate and case results
   evidence  |-> {},                              \* those marked as promotion evidence
   decisions |-> {},                              \* promotion decisions of the seed
   status    |-> [f \in Families |-> None],       \* the first version of each family
   activated |-> {},                              \* those with an activation decision
   champion  |-> [f \in Families |-> None]]

-----------------------------------------------------------------------------
(* What each statement, or run of statements without a condition, does.    *)
SeedLocalScope(d) == [d EXCEPT !.rows = @ \union {"workspace", "principals", "project"}]
BindRoles(d)      == [d EXCEPT !.role = TRUE]
SeedFamilies(d)   == [d EXCEPT !.rows = @ \union {"families"}]

(* An existing version keeps its status: the update does not name it.      *)
SeedVersions(d) ==
  [d EXCEPT !.status = [f \in Families |-> IF @[f] = None THEN "certified" ELSE @[f]]]

SeedSpecs(d)   == [d EXCEPT !.rows = @ \union {"specs"}]
SeedSources(d) == [d EXCEPT !.rows = @ \union {"sources"}]
SeedGates(d)   == [d EXCEPT !.rows = @ \union {"gates"}]
SeedCases(d)   == [d EXCEPT !.rows = @ \union {"cases"}]

(* A corpus is looked up by its version, created, then given its cases.    *)
CreateCorpus(d, f) == IF f \in read.corpora THEN d ELSE [d EXCEPT !.corpora = @ \union {f}]
FillCorpus(d, f)   == IF f \in read.corpora THEN d ELSE [d EXCEPT !.members = @ \union {f}]

(* createMany with skipDuplicates: the first run's expiry stays.           *)
SeedRun(d, f) == [d EXCEPT !.runs[f] = IF @ = None THEN day + 1 ELSE @]

SeedResults(d, f) ==
  IF f \in read.evidence THEN d ELSE [d EXCEPT !.results = @ \union {f}]

SeedInventoryRun(d)     == SeedRun(d, "inventory")
SeedInventoryResults(d) == SeedResults(d, "inventory")

MarkEvidence(d) == [d EXCEPT !.evidence = @ \union {f \in Families : d.runs[f] # None}]
SeedAudit(d)    == [d EXCEPT !.rows = @ \union {"audit"}]

(* The transaction at the end: decisions, then the champions.  A new       *)
(* decision is refused by a trigger when its evidence is no longer fresh.  *)
StaleDecision(d) == \E f \in Families \ d.decisions : f \notin d.evidence \/ day > d.runs[f]

MutantUncrowned(d) == {f \in Families : d.champion[f] = None}

Uncrowned(d) ==
  {f \in Families : d.status[f] = "certified" /\ f \notin d.activated /\ d.champion[f] = None}

EnsureDecisions(d) == [d EXCEPT !.decisions = Families]

ReconcileChampions(d) ==
  [d EXCEPT !.status    = [f \in Families |-> IF f \in Uncrowned(d) THEN "active" ELSE @[f]],
            !.activated = @ \union Uncrowned(d),
            !.champion  = [f \in Families |-> IF f \in Uncrowned(d) THEN "first" ELSE @[f]]]

SeedPlatformResources(d) == [d EXCEPT !.rows = @ \union {"resources", "release"}]

Statements ==
  <<"scope", "roles", "families", "versions", "specs", "sources", "gates", "cases",
    "read inventory corpus", "inventory corpus", "inventory members",
    "read supplier corpus", "supplier corpus", "supplier members",
    "supplier runs", "read evidence", "supplier results",
    "inventory run", "inventory results",
    "evidence", "audit", "promotion", "resources">>

Effect(s, d) ==
  CASE s = "scope"             -> SeedLocalScope(d)
    [] s = "roles"             -> BindRoles(d)
    [] s = "families"          -> SeedFamilies(d)
    [] s = "versions"          -> SeedVersions(d)
    [] s = "specs"             -> SeedSpecs(d)
    [] s = "sources"           -> SeedSources(d)
    [] s = "gates"             -> SeedGates(d)
    [] s = "cases"             -> SeedCases(d)
    [] s = "inventory corpus"  -> CreateCorpus(d, "inventory")
    [] s = "inventory members" -> FillCorpus(d, "inventory")
    [] s = "supplier corpus"   -> CreateCorpus(d, "supplier")
    [] s = "supplier members"  -> FillCorpus(d, "supplier")
    [] s = "supplier runs"     -> SeedRun(d, "supplier")
    [] s = "supplier results"  -> SeedResults(d, "supplier")
    [] s = "inventory run"     -> SeedInventoryRun(d)
    [] s = "inventory results" -> SeedInventoryResults(d)
    [] s = "evidence"          -> MarkEvidence(d)
    [] s = "audit"             -> SeedAudit(d)
    [] s = "promotion"         -> ReconcileChampions(EnsureDecisions(d))
    [] s = "resources"         -> SeedPlatformResources(d)
    [] OTHER                   -> d

Reads(s) ==
  CASE s = "read inventory corpus" -> [read EXCEPT !.corpora = db.corpora \intersect {"inventory"}]
    [] s = "read supplier corpus"  -> [read EXCEPT !.corpora = db.corpora \intersect {"supplier"}]
    [] s = "read evidence"         -> [read EXCEPT !.evidence = db.evidence]
    [] OTHER                       -> read

-----------------------------------------------------------------------------
Init ==
  /\ db = Empty /\ step = 0 /\ read = [corpora |-> {}, evidence |-> {}]
  /\ day = 0 /\ boots = 0 /\ done = FALSE /\ failed = FALSE

Boot ==
  /\ step = 0 /\ boots < MaxBoots
  /\ step' = 1 /\ boots' = boots + 1 /\ done' = FALSE
  /\ UNCHANGED <<db, read, day, failed>>

Execute ==
  /\ step > 0
  /\ LET s == Statements[step] IN
     IF s = "promotion" /\ StaleDecision(db)
     THEN step' = 0 /\ failed' = TRUE /\ UNCHANGED <<db, read, done>>
     ELSE /\ db' = Effect(s, db) /\ read' = Reads(s)
          /\ step' = (step + 1) % (Len(Statements) + 1)
          /\ done' = (step = Len(Statements))
          /\ UNCHANGED failed
  /\ UNCHANGED <<day, boots>>

(* The container is stopped, or the connection lost, between statements.   *)
Crash == step > 0 /\ step' = 0 /\ UNCHANGED <<db, read, day, boots, done, failed>>

DayPasses ==
  /\ day < MaxDay /\ step = 0 /\ day' = day + 1
  /\ UNCHANGED <<db, step, read, boots, done, failed>>

(* PromotionService: a later version replaces the champion, or it retires. *)
Replace(f) ==
  /\ step = 0 /\ db.champion[f] = "first"
  /\ \E c \in {"later", None} :
       db' = [db EXCEPT !.champion[f] = c, !.status[f] = "retired"]
  /\ UNCHANGED <<step, read, day, boots, done, failed>>

Revoke ==
  /\ step = 0 /\ db.role /\ db' = [db EXCEPT !.role = FALSE]
  /\ UNCHANGED <<step, read, day, boots, done, failed>>

Next == Boot \/ Execute \/ Crash \/ DayPasses \/ Revoke \/ \E f \in Families : Replace(f)

Spec == Init /\ [][Next]_vars

-----------------------------------------------------------------------------
(* A run that is promotion evidence has its results, and a decision has    *)
(* evidence, wherever the seed was interrupted and whenever it was run     *)
(* again: the mark comes last and makes the results immutable.             *)
EvidenceHasResults ==
  db.evidence \subseteq db.results /\ db.decisions \subseteq db.evidence

(* Booting again undoes no decision about an agent: a retired version is   *)
(* not revived, and neither a champion nor the empty place of a retired    *)
(* one is filled.  (seed.ts, the promotion transaction: only a certified   *)
(* version without a recorded activation becomes a champion.)  It is about *)
(* agents alone; a revoked role is bound again, see BindRoles.             *)
RebootKeepsAgents ==
  step > 0 => \A f \in Families :
    /\ db.status[f] = "retired" => db'.status[f] = "retired" /\ db'.champion[f] = db.champion[f]
    /\ db.champion[f] # None => db'.champion[f] = db.champion[f]

(* An active version is its family's champion, by a recorded decision.     *)
ActiveIsChampion ==
  \A f \in Families : db.status[f] = "active" <=> db.champion[f] = "first" /\ f \in db.activated

=============================================================================
