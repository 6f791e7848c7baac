------------------------------- MODULE AtfStore -------------------------------
(***************************************************************************)
(* The runner instance as a run sees it, and the two operations of the ATF *)
(* test store on it: project (teststore-atf/src/store.ts, 629-725) creates *)
(* a run's suite, tests, links, steps and step inputs one POST at a time;  *)
(* teardown (727-908) discovers the run's namespace with a sequence of     *)
(* reads, holds it to the DEV-17 gate, and deletes what it found one       *)
(* DELETE at a time.  Every request is a step of its own, so requests of   *)
(* two processes interleave, and any request may fail.                     *)
(*                                                                         *)
(* The instance side (a trigger arriving, a result row appearing, a suite  *)
(* ending) is external: it is modelled from how the store and the ATF      *)
(* runner use it.                                                          *)
(***************************************************************************)
EXTENDS Integers, FiniteSets

CONSTANTS
  Runs,          \* run ids
  Owners,        \* processes that drive a run (runPipeline)
  Cleaners,      \* processes that execute `tess cleanup --mode apply`
  RunOf,         \* RunOf[o]: the run id owner o was started with
  NSpecs,        \* specs projected by a run
  NGroups,       \* runner groups of a run: one trigger entry each
  NoOwner,       \* the projection lock is free
  ForeignRows,   \* which rows of somebody else may sit in a run's namespace
  LateLanding,   \* may a POST its client gave up on still be applied?
  MaxFaults      \* bound on failed requests and failed ledger calls

ASSUME RunOfAssumption == RunOf \in [Owners -> Runs]
ASSUME CountsAssumption ==
  NSpecs \in Nat \ {0} /\ NGroups \in Nat /\ MaxFaults \in Nat
ASSUME ActorsAssumption == Owners \cap Cleaners = {} /\ NoOwner \notin Owners
ASSUME ForeignAssumption == ForeignRows \subseteq {"test", "suite"}
ASSUME LateAssumption == LateLanding \in BOOLEAN

Specs  == 1..NSpecs
Groups == 1..NGroups
Actors == Owners \cup Cleaners

(***************************************************************************)
(* The rows of one run.  They are created in the lexicographic order of    *)
(* <<spec, kind>>, the suite first, and deleted kind by kind in the        *)
(* reverse of that order of kinds (DEV-13).                                *)
(***************************************************************************)
Kinds == {"test", "link", "step", "input"}
Suite == <<"suite", 0>>
Rows  == {Suite} \cup (Kinds \X Specs)

CreateRank ==
  [suite |-> 0, test |-> 1, link |-> 2, step |-> 3, input |-> 4]
\* Faulty variant: the suite goes before its tests.
DeleteRankSuiteFirst ==
  [link |-> 0, suite |-> 1, input |-> 2, step |-> 3, test |-> 4]
DeleteRank ==
  [link |-> 0, input |-> 1, step |-> 2, test |-> 3, suite |-> 4]

CreatedBefore(p, q) ==
  \/ p[2] < q[2]
  \/ p[2] = q[2] /\ CreateRank[p[1]] < CreateRank[q[1]]

OfKind(S, k) == { p \in S : p[1] = k }

\* Result rows are counted and read; a queued execution has none yet.
ExecState == {"none", "sent", "queued", "running", "ended"}
Live      == {"sent", "queued", "running"}
HasResult == {"running", "ended"}

\* A trigger count the ledger could not supply (null in the code).
Unknown == -1

VARIABLES
  rows,      \* rows[r]: run r's own rows on the instance
  foreign,   \* foreign[r]: rows in r's namespace without its ownership marker
  late,      \* late[r]: POSTs given up on by their client, still in flight
  exec,      \* exec[o][g]: the execution owner o triggered for runner group g
  lock,      \* holder of the projection lock file
  made,      \* made[o]: rows o's projection has created so far
  sweep,     \* sweep[a]: actor a's teardown call in progress
  faults     \* failures so far

storeVars == <<rows, foreign, late, exec, lock, made, sweep, faults>>

SweepPc ==
  {"off", "tests", "suites", "links", "gate", "unlink", "inputs", "delete",
   "ok", "refused", "fault"}

NoSweep(r) ==
  [pc |-> "off", run |-> r, never |-> FALSE, recorded |-> 0, found |-> {}]

SweepRecord ==
  [pc : SweepPc, run : Runs, never : BOOLEAN,
   recorded : 0..NGroups \cup {Unknown}, found : SUBSET Rows]

StoreTypeOK ==
  /\ rows \in [Runs -> SUBSET Rows]
  /\ foreign \in [Runs -> SUBSET ForeignRows]
  /\ late \in [Runs -> SUBSET Rows]
  /\ exec \in [Owners -> [Groups -> ExecState]]
  /\ lock \in Owners \cup {NoOwner}
  /\ made \in [Owners -> SUBSET Rows]
  /\ sweep \in [Actors -> SweepRecord]
  /\ faults \in 0..MaxFaults

StoreInit ==
  /\ rows = [r \in Runs |-> {}]
  /\ foreign \in [Runs -> SUBSET ForeignRows]
  /\ late = [r \in Runs |-> {}]
  /\ exec = [o \in Owners |-> [g \in Groups |-> "none"]]
  /\ lock = NoOwner
  /\ made = [o \in Owners |-> {}]
  /\ \E r \in Runs : sweep = [a \in Actors |-> NoSweep(r)]
  /\ faults = 0

MayFail == faults < MaxFaults
Fail    == MayFail /\ faults' = faults + 1

Executions(r) == { x \in Owners \X Groups : RunOf[x[1]] = r }
ResultRows(r) == { x \in Executions(r) : exec[x[1]][x[2]] \in HasResult }
LiveRun(r)    == \E x \in Executions(r) : exec[x[1]][x[2]] \in Live

------------------------------------------------------------------------------
(* project *)

\* Faulty variant: a held lock is taken over.
TakeLockOver(o) ==
  /\ lock' = o
  /\ made' = [made EXCEPT ![o] = {}]

\* acquireProjectionLock, an exclusive create: a held lock is never stolen.
TakeLock(o) ==
  /\ lock = NoOwner
  /\ lock' = o
  /\ made' = [made EXCEPT ![o] = {}]

\* release is idempotent and only ever removes the store's own lock.
FreeLock(o) == lock' = IF lock = o THEN NoOwner ELSE lock

NamespaceOccupied(r) ==
  OfKind(rows[r], "test") # {} \/ "test" \in foreign[r]

NextRow(o) ==
  { p \in Rows \ made[o] :
      \A q \in Rows : CreatedBefore(q, p) => q \in made[o] }

\* The abort is looked at before the suite and before each test.
AbortPoint(p) == p[1] \in {"suite", "test"}

CreateRow(o, p) ==
  /\ rows' = [rows EXCEPT ![RunOf[o]] = @ \cup {p}]
  /\ made' = [made EXCEPT ![o] = @ \cup {p}]

(***************************************************************************)
(* The client gives up on a POST (timeout, transport error, 5xx) without   *)
(* knowing its outcome and never replays it (sn-client/src/core/http.ts).  *)
(* It was not applied, was applied, or is still on its way.                *)
(***************************************************************************)
LoseRow(o, p) ==
  /\ Fail
  /\ \/ UNCHANGED <<rows, late>>
     \/ rows' = [rows EXCEPT ![RunOf[o]] = @ \cup {p}] /\ UNCHANGED late
     \/ /\ LateLanding
        /\ late' = [late EXCEPT ![RunOf[o]] = @ \cup {p}]
        /\ UNCHANGED rows

------------------------------------------------------------------------------
(* teardown *)

Sweeping(a) == sweep[a].pc \notin {"off", "ok", "refused", "fault"}

(***************************************************************************)
(* The context is validated before the first request: an unknown trigger   *)
(* count is refused, and so is one that contradicts neverTriggered.        *)
(***************************************************************************)
SweepStarted(r, never, recorded) ==
  [pc |-> IF recorded = Unknown \/ (recorded > 0 /\ never)
          THEN "refused" ELSE "tests",
   run |-> r, never |-> never, recorded |-> recorded, found |-> {}]

StartSweep(a, r, never, recorded) ==
  sweep' = [sweep EXCEPT ![a] = SweepStarted(r, never, recorded)]

EndSweep(a) == sweep' = [sweep EXCEPT ![a] = NoSweep(sweep[a].run)]

onlySweep == <<rows, foreign, late, exec, lock, made, faults>>

ReadTests(a) ==
  /\ sweep[a].pc = "tests"
  /\ sweep' = [sweep EXCEPT
       ![a].found = OfKind(rows[sweep[a].run], "test"), ![a].pc = "suites"]
  /\ UNCHANGED onlySweep

ReadSuites(a) ==
  /\ sweep[a].pc = "suites"
  /\ sweep' = [sweep EXCEPT
       ![a].found = @ \cup OfKind(rows[sweep[a].run], "suite"),
       ![a].pc = "links"]
  /\ UNCHANGED onlySweep

\* Faulty variant: the ownership markers are not looked at.
OwnedByName(s, links) == links # {} => Suite \in s.found

\* Every namespaced row carries the run's marker and every link its suite.
RunOwned(s, links) ==
  /\ foreign[s.run] = {}
  /\ links # {} => Suite \in s.found

(***************************************************************************)
(* Links are found from both ends.  Any row that is not the run's own      *)
(* refuses the whole teardown before the first DELETE.                     *)
(***************************************************************************)
ReadLinks(a) ==
  LET r     == sweep[a].run
      links == { p \in OfKind(rows[r], "link") :
                   \/ Suite \in sweep[a].found
                   \/ <<"test", p[2]>> \in sweep[a].found }
  IN  /\ sweep[a].pc = "links"
      /\ sweep' = [sweep EXCEPT
           ![a].found = @ \cup links,
           ![a].pc = IF RunOwned(sweep[a], links) THEN "gate" ELSE "refused"]
      /\ UNCHANGED onlySweep

\* Faulty variant: one terminal row is enough.
ProvablyTerminalUncounted(s) ==
  IF Suite \in s.found
  THEN /\ ResultRows(s.run) = {} => s.never
       /\ \A x \in ResultRows(s.run) : exec[x[1]][x[2]] = "ended"
  ELSE OfKind(s.found, "test") # {} => s.never

\* Faulty variant: rows are counted and not read.
ProvablyTerminalUnread(s) ==
  IF Suite \in s.found
  THEN /\ Cardinality(ResultRows(s.run)) >= s.recorded
       /\ ResultRows(s.run) = {} => s.never
  ELSE OfKind(s.found, "test") # {} => s.never

(***************************************************************************)
(* DEV-17: never delete under a run that is not provably terminal.  Every  *)
(* recorded trigger owes a result row, no result row at all needs the      *)
(* caller's word that nothing was triggered, and every row must read       *)
(* terminal.  Tests without a suite have lost their evidence.              *)
(***************************************************************************)
ProvablyTerminal(s) ==
  IF Suite \in s.found
  THEN /\ Cardinality(ResultRows(s.run)) >= s.recorded
       /\ ResultRows(s.run) = {} => s.never
       /\ \A x \in ResultRows(s.run) : exec[x[1]][x[2]] = "ended"
  ELSE OfKind(s.found, "test") # {} => s.never

PassGate(a) ==
  /\ sweep[a].pc = "gate"
  /\ sweep' = [sweep EXCEPT ![a].pc =
       IF ProvablyTerminal(sweep[a]) THEN "unlink" ELSE "refused"]
  /\ UNCHANGED onlySweep

\* Steps and their inputs are owned by derivation, through the run's tests.
ReadSteps(a) ==
  /\ sweep[a].pc = "unlink"
  /\ OfKind(sweep[a].found, "link") = {}
  /\ sweep' = [sweep EXCEPT
       ![a].found = @ \cup { p \in OfKind(rows[sweep[a].run], "step") :
                               <<"test", p[2]>> \in sweep[a].found },
       ![a].pc = "inputs"]
  /\ UNCHANGED onlySweep

ReadInputs(a) ==
  /\ sweep[a].pc = "inputs"
  /\ sweep' = [sweep EXCEPT
       ![a].found = @ \cup { p \in OfKind(rows[sweep[a].run], "input") :
                               <<"step", p[2]>> \in sweep[a].found },
       ![a].pc = "delete"]
  /\ UNCHANGED onlySweep

Doomed(a) ==
  LET S == IF sweep[a].pc = "unlink" THEN OfKind(sweep[a].found, "link")
           ELSE IF sweep[a].pc = "delete" THEN sweep[a].found ELSE {}
  IN  { p \in S : \A q \in S : DeleteRank[p[1]] <= DeleteRank[q[1]] }

\* DELETE; a row that is already gone (404) counts as deleted.
DeleteRow(a) ==
  /\ \E p \in Doomed(a) :
       /\ rows' = [rows EXCEPT ![sweep[a].run] = @ \ {p}]
       /\ sweep' = [sweep EXCEPT ![a].found = @ \ {p}]
  /\ UNCHANGED <<foreign, late, exec, lock, made, faults>>

\* A successful teardown gives the projection lock back.
FinishSweep(a) ==
  /\ sweep[a].pc = "delete"
  /\ sweep[a].found = {}
  /\ sweep' = [sweep EXCEPT ![a].pc = "ok"]
  /\ FreeLock(a)
  /\ UNCHANGED <<rows, foreign, late, exec, made, faults>>

\* Any request of a teardown may fail; a failed DELETE may have been applied.
FailSweep(a) ==
  /\ Sweeping(a)
  /\ Fail
  /\ sweep' = [sweep EXCEPT ![a].pc = "fault"]
  /\ \/ UNCHANGED rows
     \/ \E p \in Doomed(a) :
          rows' = [rows EXCEPT ![sweep[a].run] = @ \ {p}]
  /\ UNCHANGED <<foreign, late, exec, lock, made>>

SweepStep(a) ==
  \/ ReadTests(a) \/ ReadSuites(a) \/ ReadLinks(a) \/ PassGate(a)
  \/ ReadSteps(a) \/ ReadInputs(a) \/ DeleteRow(a) \/ FinishSweep(a)

------------------------------------------------------------------------------
(* The instance: external to the repository. *)

InstanceStep(o, g) ==
  /\ \/ /\ exec[o][g] = "sent"                       \* the trigger arrives
        /\ exec' = [exec EXCEPT ![o][g] = "queued"]
     \/ /\ exec[o][g] = "queued"                     \* its result row appears
        /\ exec' = [exec EXCEPT ![o][g] = "running"]
     \/ /\ exec[o][g] = "running"                    \* the row reads terminal
        /\ exec' = [exec EXCEPT ![o][g] = "ended"]
  /\ UNCHANGED <<rows, foreign, late, lock, made, sweep, faults>>

\* A trigger that never arrives: refused by the instance or lost on the way.
LoseTrigger(o, g) ==
  /\ exec[o][g] = "sent"
  /\ Fail
  /\ exec' = [exec EXCEPT ![o][g] = "none"]
  /\ UNCHANGED <<rows, foreign, late, lock, made, sweep>>

LandLate(r) ==
  /\ \E p \in late[r] :
       /\ rows' = [rows EXCEPT ![r] = @ \cup {p}]
       /\ late' = [late EXCEPT ![r] = @ \ {p}]
  /\ UNCHANGED <<foreign, exec, lock, made, sweep, faults>>

==============================================================================
