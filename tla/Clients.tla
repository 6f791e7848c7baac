------------------------------- MODULE Clients -------------------------------
(***************************************************************************)
(* What a run asks of an instance and concludes from the answers: the REST *)
(* client, the ATF runner and the results it reads, the target guard, the  *)
(* provisioner, the verdict, and the state sync of the checks CLI.  They   *)
(* share nothing, so a behaviour is one of them ("which") and the others   *)
(* are off.                                                                *)
(***************************************************************************)
EXTENDS Naturals, Sequences, FiniteSets

CONSTANTS
  Parts,                                                      \* what is explored
  Calls, Writers, MaxConcurrent, MaxRetries,                  \* RestClient
  MaxFlights, MaxAnswers, MaxUpsets,
  Suites, Tests, Worlds, MaxPolls,                            \* AtfRunner
  RowsPerTest, MaxSuiteDepth, MaxSuiteResults,                \* AtfResults
  Executions, Listed,       \* executions whose results are read, and for which tests
  Hosts, NonProdAllowlist, ProdInstances, NamedProd, MaxAsks, \* TargetGuard
  Preconditions, Remedied, MaxDrifts,                         \* Provisioner
  Plans, Demands, Reported, RawOutcomes, Coverages,           \* Verdict
  MaxOutcomes,
  SysIds, Hideable, Scopes, Names, Slug, PageSize,            \* StateSync
  MaxChanges, MaxSyncs

VARIABLES which,
  call, active, waiters, cached, inFlight, generation, flight, dead, applied,
  journalled, warned, answers, upsets,
  exec, pc, group, polls, halted, outcome, aborted, late,
  world, read,
  acknowledgeProd, audit, asked, probing, said, cls, acked, ledger, writes,
  mode, required, row, phase, finding, todo, plan, edited, steps, stopped,
  drifts, sent, seen,
  planned, demanded, overrides, coverage, outcomes, verdict,
  test, members, suited, hidden, counted, allowEmpty, manifest,
  stage, page, pulled, total, linked, changes, syncs

Rest == INSTANCE RestClient
Atf == INSTANCE AtfRunner
Guard == INSTANCE TargetGuard WITH journalled <- acked
Setup == INSTANCE Provisioner WITH pc <- phase, applied <- steps, aborted <- stopped
Gate == INSTANCE Verdict
Sync == INSTANCE StateSync WITH pc <- stage

ASSUME RestAssumption == Writers \subseteq Calls /\ MaxFlights \in Nat \ {0}

(* A spec is projected onto one suite.                                     *)
ASSUME AtfAssumption ==
  /\ Suites \in Nat /\ MaxPolls \in Nat
  /\ \A g, h \in 1 .. Suites : g # h => Tests[g] \cap Tests[h] = {}

(* What the tables of results hold.                                        *)
ASSUME ResultsAssumption ==
  /\ RowsPerTest \in Nat /\ MaxSuiteDepth \in Nat /\ IsFiniteSet(Listed)
  /\ \A w \in Executions :
       /\ \A rows \in {w.suites, w.rows} :
            IsFiniteSet(rows) /\ \A r \in rows : r.at \in Nat /\ r.readable \in BOOLEAN
       /\ \A r \in w.rows : r.status \in {"pass", "fail", "error", "skipped"}

ASSUME SyncAssumption == IsFiniteSet(SysIds)

(* Counts of specs, and a floor in hundredths.                             *)
ASSUME GateAssumption == Coverages \subseteq [confirmed : Nat, impacted : Nat, floor : Nat]

-----------------------------------------------------------------------------
(* The results of an execution are read for the tests it was run with.     *)
ReadResults ==
  /\ read = {}
  /\ read' = {Listed} /\ UNCHANGED world

restVars == <<call, active, waiters, cached, inFlight, generation, flight, dead,
              applied, journalled, warned, answers, upsets>>
atfVars == <<exec, pc, group, polls, halted, outcome, aborted, late>>
resultVars == <<world, read>>
guardVars == <<acknowledgeProd, audit, asked, probing, said, cls, acked, ledger, writes>>
setupVars == <<mode, required, row, phase, finding, todo, plan, edited, steps,
               stopped, drifts, sent, seen>>
gateVars == <<planned, demanded, overrides, coverage, outcomes, verdict>>
syncVars == <<test, members, suited, hidden, counted, allowEmpty, manifest,
              stage, page, pulled, total, linked, changes, syncs>>
vars == <<which, restVars, atfVars, resultVars, guardVars, setupVars, gateVars, syncVars>>

RestOff ==
  /\ call = 0 /\ active = 0 /\ waiters = 0 /\ cached = 0 /\ inFlight = 0
  /\ generation = 0 /\ flight = 0 /\ dead = 0 /\ applied = 0 /\ journalled = 0
  /\ warned = 0 /\ answers = 0 /\ upsets = 0
AtfOff ==
  /\ exec = 0 /\ pc = 0 /\ group = 0 /\ polls = 0 /\ halted = 0 /\ outcome = 0
  /\ aborted = 0 /\ late = 0
GuardOff ==
  /\ acknowledgeProd = 0 /\ audit = 0 /\ asked = 0 /\ probing = 0 /\ said = 0
  /\ cls = 0 /\ acked = 0 /\ ledger = 0 /\ writes = 0
SetupOff ==
  /\ mode = 0 /\ required = 0 /\ row = 0 /\ phase = 0 /\ finding = 0 /\ todo = 0
  /\ plan = 0 /\ edited = 0 /\ steps = 0 /\ stopped = 0 /\ drifts = 0 /\ sent = 0
  /\ seen = 0
GateOff ==
  /\ planned = 0 /\ demanded = 0 /\ overrides = 0 /\ coverage = 0 /\ outcomes = 0
  /\ verdict = 0
SyncOff ==
  /\ test = 0 /\ members = 0 /\ suited = 0 /\ hidden = 0 /\ counted = 0
  /\ allowEmpty = 0 /\ manifest = 0 /\ stage = 0 /\ page = 0 /\ pulled = 0
  /\ total = 0 /\ linked = 0 /\ changes = 0 /\ syncs = 0

Init ==
  /\ which \in Parts
  /\ IF which = "rest" THEN Rest!Init ELSE RestOff
  /\ IF which = "atf" THEN Atf!Init ELSE AtfOff
  /\ IF which = "results" THEN world \in Executions /\ read = {}
     ELSE world = 0 /\ read = {}
  /\ IF which = "guard" THEN Guard!Init ELSE GuardOff
  /\ IF which = "setup" THEN Setup!Init ELSE SetupOff
  /\ IF which = "gate" THEN Gate!Init ELSE GateOff
  /\ IF which = "sync" THEN Sync!Init ELSE SyncOff

RestStep == which = "rest" /\ Rest!Next
            /\ UNCHANGED <<which, atfVars, resultVars, guardVars, setupVars, gateVars, syncVars>>
AtfStep == which = "atf" /\ Atf!Next
           /\ UNCHANGED <<which, restVars, resultVars, guardVars, setupVars, gateVars, syncVars>>
ResultStep == which = "results" /\ ReadResults
              /\ UNCHANGED <<which, restVars, atfVars, guardVars, setupVars, gateVars, syncVars>>
GuardStep == which = "guard" /\ Guard!Next
             /\ UNCHANGED <<which, restVars, atfVars, resultVars, setupVars, gateVars, syncVars>>
SetupStep == which = "setup" /\ Setup!Next
             /\ UNCHANGED <<which, restVars, atfVars, resultVars, guardVars, gateVars, syncVars>>
GateStep == which = "gate" /\ Gate!Next
            /\ UNCHANGED <<which, restVars, atfVars, resultVars, guardVars, setupVars, syncVars>>
SyncStep == which = "sync" /\ Sync!Next
            /\ UNCHANGED <<which, restVars, atfVars, resultVars, guardVars, setupVars, gateVars>>

Next == RestStep \/ AtfStep \/ ResultStep \/ GuardStep \/ SetupStep \/ GateStep \/ SyncStep
Spec == Init /\ [][Next]_vars

(* The fairness of the two modules that state it, for the one that runs.   *)
RestProgress == which = "rest" /\ Rest!Progress /\ UNCHANGED which
AtfRun == which = "atf" /\ Atf!Run /\ UNCHANGED which
FairSpec == Spec /\ WF_<<which, restVars>>(RestProgress) /\ WF_<<which, atfVars>>(AtfRun)

(* The properties of the modules, at the lines that state them.            *)
TokensSound == which = "rest" => Rest!TokensSound
WriteAppliedOnce == which = "rest" => Rest!WriteAppliedOnce
CallsEnd == <>(which = "rest" => \A c \in Calls : Rest!Ended(c))
EverySpecAccounted == which = "atf" => Atf!EverySpecAccounted
RunReturns == <>(which = "atf" => Atf!Returned)
PassProven == which = "results" => \A tests \in read : Atf!PassProven(world, tests)
WritesCleared == which = "guard" => Guard!WritesCleared
ToldAsWritten == which = "setup" => Setup!ToldAsWritten
VerdictEarned == which = "gate" => Gate!VerdictEarned
ManifestFollows == [][which = "sync" => Sync!ManifestStep]_vars
IdsDistinct == which = "sync" => Sync!IdsDistinct
=============================================================================
