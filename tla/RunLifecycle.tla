----------------------------- MODULE RunLifecycle -----------------------------
(***************************************************************************)
(* The whole life of a preflight run: the owners that drive it             *)
(* (core/src/runPipeline.ts with runner-atf's AtfRunner), the cleaners     *)
(* that execute `tess cleanup --mode apply` on it                          *)
(* (cli/src/commands/runState.ts), and the run record and write entries    *)
(* they share through the intent ledger, all against the runner instance   *)
(* of AtfStore.  Every await is a boundary between two steps.              *)
(*                                                                         *)
(* A ledger call is one atomic step here: it runs under the ledger's       *)
(* per-run lock and every actor is a client of one ledger process.  Every  *)
(* run has the same scope and the same runner.                             *)
(***************************************************************************)
EXTENDS AtfStore, RunStates

CONSTANTS
  RemoteCleaners,   \* cleaners with a ledger of their own: no local record
  Lifecycles,       \* lifecycles the runs are started with
  LedgerFaults,     \* may a ledger call fail?
  MaxCrashes        \* bound on process crashes

ASSUME LifecycleAssumption ==
  /\ RemoteCleaners \subseteq Cleaners
  /\ Lifecycles \subseteq Lifecycle
  /\ LedgerFaults \in BOOLEAN
  /\ MaxCrashes \in Nat

VARIABLES
  rec,      \* rec[r]: run.json of run r, or Absent
  entry,    \* entry[r][w]: ledger state of write w, or "none"
  own,      \* own[o]: local state of the pipeline owner o drives
  cl,       \* cl[c]: local state of cleaner c
  crashes   \* crashes so far

(***************************************************************************)
(* A run journals one write per spec and one per trigger, always in this   *)
(* order, so the seq of a write is its rank.  The idempotency key is the   *)
(* write itself.                                                           *)
(***************************************************************************)
Writes == ({"project"} \X Specs) \cup ({"trigger"} \X Groups)
Seq(w) == IF w[1] = "project" THEN w[2] ELSE NSpecs + w[2]

Triggers(r)  == { g \in Groups : entry[r][<<"trigger", g>>] # "none" }
\* Faulty variant: the orphans are forgotten.
UnsettledApplied(r) == { w \in Writes : entry[r][w] = "applied" }

Unsettled(r) == { w \in Writes : entry[r][w] \in {"intended", "applied"} }

\* Faulty variant: every journalled write is counted.
RecordedWrites(r) == Cardinality({ w \in Writes : entry[r][w] # "none" })

\* recordedTriggerCount: a write counts in every state it can be in.
RecordedTriggers(r) == Cardinality(Triggers(r))

\* Faulty variant: one trigger per run.
UnrecordedTriggerBoundOfOne == 1

\* UNRECORDED_TRIGGER_BOUND: the most triggers a run of this runner makes.
UnrecordedTriggerBound == NGroups

OwnPc ==
  {"scan", "open", "fresh", "read", "provision", "verify", "project",
   "intend", "lock", "namespace", "create", "confirm", "enter", "next",
   "call", "wait", "answered", "abandon", "abandoned", "collect", "flush",
   "teardown", "count", "sweep", "recover", "compensate", "readback",
   "settle", "report", "finished", "refused", "dead"}

\* The two ends of a teardown: settleDone and settleFailed.
TeardownEnds == {"done", "failed"}

\* todo holds the writes still to compensate, goal the state settle drives to.
OwnRecord ==
  [pc : OwnPc, at : Nat, view : RunState, aborted : BOOLEAN,
   attempted : BOOLEAN, entered : BOOLEAN, closed : BOOLEAN,
   todo : SUBSET Writes, goal : TeardownEnds]

ClPc == {"idle", "count", "begin", "sweep", "compensate"}

ClRecord ==
  [pc : ClPc, run : Runs, known : RunState \cup {"absent"},
   never : BOOLEAN, recorded : 0..NGroups \cup {Unknown},
   todo : SUBSET Writes]

LifeTypeOK ==
  /\ rec \in [Runs -> RunRecord \cup {Absent}]
  /\ entry \in [Runs -> [Writes -> EntryState \cup {"none"}]]
  /\ own \in [Owners -> OwnRecord]
  /\ cl \in [Cleaners -> ClRecord]
  /\ crashes \in 0..MaxCrashes

TypeOK == StoreTypeOK /\ LifeTypeOK

lifeVars == <<rec, entry, own, cl, crashes>>
vars     == <<storeVars, lifeVars>>
instance == <<rows, foreign, late, exec, lock, made, sweep>>

Init ==
  /\ StoreInit
  /\ rec = [r \in Runs |-> Absent]
  /\ entry = [r \in Runs |-> [w \in Writes |-> "none"]]
  /\ own = [o \in Owners |->
       [pc |-> "scan", at |-> 1, view |-> "planned", aborted |-> FALSE,
        attempted |-> FALSE, entered |-> FALSE, closed |-> FALSE,
        todo |-> {}, goal |-> "done"]]
  /\ \E r \in Runs : cl = [c \in Cleaners |->
       [pc |-> "idle", run |-> r, known |-> "absent", never |-> FALSE,
        recorded |-> 0, todo |-> {}]]
  /\ crashes = 0

LedgerFail == LedgerFaults /\ Fail

Owner(o, s)  == own' = [own EXCEPT ![o] = s]
Goto(o, p)   == own' = [own EXCEPT ![o].pc = p]
AtPc(o, p)   == own[o].pc = p
To(o, p)     == [own[o] EXCEPT !.pc = p]
Ephemeral(r) == rec[r].lifecycle = "ephemeral"

(***************************************************************************)
(* The outer catch: from running the run is abandoned, from any other      *)
(* state it is collected and torn down.                                    *)
(***************************************************************************)
Thrown(o) == To(o, IF own[o].view = "running" THEN "abandon" ELSE "collect")

\* ledger.transition of o's run: it lands, is refused by the table, or fails.
Drive(o, to, landed, refused) ==
  LET r == RunOf[o] IN
  /\ \/ /\ MayTransition(rec[r], to)
        /\ rec' = [rec EXCEPT ![r] = Transitioned(@, to)]
        /\ Owner(o, [landed EXCEPT !.view = to])
        /\ UNCHANGED faults
     \/ /\ ~MayTransition(rec[r], to)
        /\ Owner(o, refused)
        /\ UNCHANGED <<rec, faults>>
     \/ /\ LedgerFail
        /\ Owner(o, refused)
        /\ UNCHANGED rec
  /\ UNCHANGED <<instance, entry>>

(***************************************************************************)
(* One journalled flip of write w (intend, confirm, compensate): the log   *)
(* line is appended first and run.json refreshed second, so a call that    *)
(* fails may have landed.                                                  *)
(***************************************************************************)
Journal(o, w, allowed, state, landed, thrown) ==
  LET r       == RunOf[o]
      written == [entry EXCEPT ![r][w] = state]
  IN
  /\ \/ allowed /\ entry' = written /\ Owner(o, landed) /\ UNCHANGED faults
     \/ ~allowed /\ Owner(o, thrown) /\ UNCHANGED <<entry, faults>>
     \/ /\ LedgerFail
        /\ Owner(o, thrown)
        /\ \/ UNCHANGED entry
           \/ allowed /\ entry' = written
  /\ UNCHANGED <<instance, rec>>

\* intend is refused on a planned or terminal record; a known key is reused.
Intend(o, w, landed) ==
  LET r == RunOf[o] IN
  Journal(o, w, rec[r].state \notin TerminalRunStates \cup {"planned"},
          IF entry[r][w] = "none" THEN "intended" ELSE entry[r][w],
          landed, Thrown(o))

(***************************************************************************)
(* A compensated write cannot be confirmed, and a create that is already   *)
(* applied was confirmed by somebody else with another sys_id.             *)
(***************************************************************************)
Confirm(o, w, landed) ==
  LET state == entry[RunOf[o]][w] IN
  Journal(o, w,
          IF w[1] = "project" THEN state = "intended" ELSE state # "compensated",
          "applied", landed, Thrown(o))

------------------------------------------------------------------------------
(* runPipeline: before the first write *)

\* An open record of another run on this scope and runner refuses the run.
Scan(o) ==
  /\ AtPc(o, "scan")
  /\ \/ /\ \A r \in Runs \ {RunOf[o]} : rec[r].state \notin OpenRunStates
        /\ Goto(o, "open")
        /\ UNCHANGED faults
     \/ /\ \E r \in Runs \ {RunOf[o]} : rec[r].state \in OpenRunStates
        /\ Goto(o, "refused")
        /\ UNCHANGED faults
     \/ /\ LedgerFail
        /\ Goto(o, "refused")
  /\ UNCHANGED <<instance, rec, entry>>

\* openRun resolves to an existing record of the same parameters.
Open(o) ==
  LET r == RunOf[o] IN
  /\ AtPc(o, "open")
  /\ \/ \E l \in Lifecycles :
          /\ rec[r] = Absent
          /\ rec' = [rec EXCEPT ![r] =
               [state |-> "planned", ran |-> FALSE, lifecycle |-> l]]
          /\ Owner(o, [To(o, "fresh") EXCEPT !.view = "planned"])
          /\ UNCHANGED faults
     \/ /\ rec[r] # Absent
        /\ Owner(o, [To(o, "fresh") EXCEPT !.view = rec[r].state])
        /\ UNCHANGED <<rec, faults>>
     \/ /\ LedgerFail
        /\ Goto(o, "refused")
        /\ UNCHANGED rec
  /\ UNCHANGED <<instance, entry>>

\* assertFreshRun: planned, or provisioning with nothing journalled.
IsFresh(o) ==
  \/ own[o].view = "planned"
  \/ /\ own[o].view = "provisioning"
     /\ \A w \in Writes : entry[RunOf[o]][w] = "none"

AssertFresh(o) ==
  /\ AtPc(o, "fresh")
  /\ \/ Goto(o, IF IsFresh(o) THEN "read" ELSE "refused") /\ UNCHANGED faults
     \/ Goto(o, "refused") /\ LedgerFail
  /\ UNCHANGED <<instance, rec, entry>>

\* resolve, impact and generate read the source; any of them may throw.
ReadStages(o) ==
  /\ AtPc(o, "read")
  /\ \/ ~own[o].aborted /\ Goto(o, "provision")
     \/ Owner(o, Thrown(o))
  /\ UNCHANGED <<instance, faults, rec, entry>>

\* assertNotAborted at the head of a stage.
Aborted(o, p) ==
  /\ AtPc(o, p)
  /\ own[o].aborted
  /\ Owner(o, Thrown(o))
  /\ UNCHANGED <<instance, faults, rec, entry>>

Provision(o) ==
  \/ Aborted(o, "provision")
  \/ /\ AtPc(o, "provision")
     /\ ~own[o].aborted
     /\ Drive(o, "provisioning", To(o, "verify"), Thrown(o))

\* A provisioner with actions to plan, or one that fails, ends the run.
VerifyInfra(o) ==
  /\ AtPc(o, "verify")
  /\ Goto(o, "project") \/ Owner(o, Thrown(o))
  /\ UNCHANGED <<instance, faults, rec, entry>>

------------------------------------------------------------------------------
(* runPipeline: projection *)

\* Faulty variant: the store projects before anything is journalled.
BeginProjectionUnjournalled(o) ==
  \/ Aborted(o, "project")
  \/ /\ AtPc(o, "project")
     /\ ~own[o].aborted
     /\ Drive(o, "projecting",
              [To(o, "lock") EXCEPT !.attempted = TRUE, !.at = 1], Thrown(o))

BeginProjection(o) ==
  \/ Aborted(o, "project")
  \/ /\ AtPc(o, "project")
     /\ ~own[o].aborted
     /\ Drive(o, "projecting",
              [To(o, "intend") EXCEPT !.attempted = TRUE, !.at = 1], Thrown(o))

Advance(o, last, here, next) ==
  IF own[o].at < last THEN [To(o, here) EXCEPT !.at = @ + 1]
  ELSE [To(o, next) EXCEPT !.at = 1]

IntendSpec(o) ==
  /\ AtPc(o, "intend")
  /\ Intend(o, <<"project", own[o].at>>, Advance(o, NSpecs, "intend", "lock"))

\* Faulty variant: a retry adopts the projection somebody else is making.
AcquireLockAdopting(o) ==
  /\ AtPc(o, "lock")
  /\ \/ /\ lock = NoOwner
        /\ TakeLock(o)
        /\ Goto(o, "namespace")
     \/ /\ lock # NoOwner
        /\ Goto(o, "enter")
        /\ UNCHANGED <<lock, made>>
  /\ UNCHANGED <<rows, foreign, late, exec, sweep, faults, rec, entry>>

\* The ATF store projects ephemeral runs only and never waits for the lock.
AcquireLock(o) ==
  /\ AtPc(o, "lock")
  /\ \/ /\ Ephemeral(RunOf[o])
        /\ TakeLock(o)
        /\ Goto(o, "namespace")
     \/ /\ ~Ephemeral(RunOf[o]) \/ lock # NoOwner
        /\ Owner(o, Thrown(o))
        /\ UNCHANGED <<lock, made>>
  /\ UNCHANGED <<rows, foreign, late, exec, sweep, faults, rec, entry>>

CheckNamespace(o) ==
  /\ AtPc(o, "namespace")
  /\ \/ /\ ~own[o].aborted /\ ~NamespaceOccupied(RunOf[o])
        /\ Goto(o, "create")
        /\ UNCHANGED lock
     \/ FreeLock(o) /\ Owner(o, Thrown(o))
  /\ UNCHANGED <<rows, foreign, late, exec, made, sweep, faults, rec, entry>>

\* One POST of project; its failure releases the lock.
Create(o) ==
  /\ AtPc(o, "create")
  /\ \E p \in NextRow(o) :
       \/ /\ ~(own[o].aborted /\ AbortPoint(p))
          /\ CreateRow(o, p)
          /\ UNCHANGED <<late, lock, own, faults>>
       \/ /\ ~(own[o].aborted /\ AbortPoint(p))
          /\ LoseRow(o, p)
          /\ FreeLock(o) /\ Owner(o, Thrown(o))
          /\ UNCHANGED made
       \/ /\ own[o].aborted /\ AbortPoint(p)
          /\ FreeLock(o) /\ Owner(o, Thrown(o))
          /\ UNCHANGED <<rows, late, made, faults>>
  /\ UNCHANGED <<foreign, exec, sweep, rec, entry>>

Projected(o) ==
  /\ AtPc(o, "create")
  /\ NextRow(o) = {}
  /\ Owner(o, [To(o, "confirm") EXCEPT !.at = 1])
  /\ UNCHANGED <<instance, faults, rec, entry>>

ConfirmSpec(o) ==
  /\ AtPc(o, "confirm")
  /\ Confirm(o, <<"project", own[o].at>>,
             Advance(o, NSpecs, "confirm", "enter"))

------------------------------------------------------------------------------
(* runPipeline: running *)

\* runStageEntered is set before the transition is attempted.
EnterRunning(o) ==
  \/ Aborted(o, "enter")
  \/ /\ AtPc(o, "enter")
     /\ ~own[o].aborted
     /\ LET entered(p) == [To(o, p) EXCEPT !.entered = TRUE, !.at = 1]
        IN  Drive(o, "running", entered("next"), entered("collect"))

RunLoop(o) ==
  /\ AtPc(o, "next")
  /\ \/ own[o].at > NGroups /\ Goto(o, "collect")
     \/ own[o].at <= NGroups /\ own[o].aborted /\ Goto(o, "abandon")
  /\ UNCHANGED <<instance, faults, rec, entry>>

IntendTrigger(o) ==
  /\ AtPc(o, "next")
  /\ own[o].at <= NGroups
  /\ ~own[o].aborted
  /\ Intend(o, <<"trigger", own[o].at>>, To(o, "call"))

\* A runner called after the abort resolves without having triggered.
CallRunner(o) ==
  /\ AtPc(o, "call")
  /\ \/ /\ ~own[o].aborted
        /\ exec' = [exec EXCEPT ![o][own[o].at] = "sent"]
        /\ Goto(o, "wait")
     \/ /\ own[o].aborted
        /\ Goto(o, "answered")
        /\ UNCHANGED exec
  /\ UNCHANGED <<rows, foreign, late, lock, made, sweep, faults, rec, entry>>

(***************************************************************************)
(* The runner resolves once the execution has ended, and also when its own *)
(* budget runs out while it has not.  It rejects on an infrastructure      *)
(* fault, and an abort overtakes it; both abandon the run.                 *)
(***************************************************************************)
RunnerSettles(o) ==
  /\ AtPc(o, "wait")
  /\ \/ exec[o][own[o].at] \in {"queued", "running", "ended"}
        /\ Goto(o, "answered")
     \/ Goto(o, "abandon")
  /\ UNCHANGED <<instance, faults, rec, entry>>

ConfirmTrigger(o) ==
  /\ AtPc(o, "answered")
  /\ Confirm(o, <<"trigger", own[o].at>>, [To(o, "next") EXCEPT !.at = @ + 1])

------------------------------------------------------------------------------
(* runPipeline: the end of a run *)

\* Faulty variant: nothing is flushed.
CloseUnflushed(o, p, next) ==
  /\ AtPc(o, p)
  /\ Goto(o, next)
  /\ UNCHANGED <<instance, faults, rec, entry>>

Close(o, p, next) ==
  /\ AtPc(o, p)
  /\ Owner(o, [To(o, next) EXCEPT !.closed = TRUE])
  /\ UNCHANGED <<instance, faults, rec, entry>>

Abandon(o) ==
  \/ Close(o, "abandon", "abandoned")
  \/ /\ AtPc(o, "abandoned")
     /\ Drive(o, "abandoned", To(o, "report"), To(o, "report"))

\* Faulty variant: the collecting edge is left out.
CollectAtOnce(o) ==
  /\ AtPc(o, "collect")
  /\ Goto(o, "flush")
  /\ UNCHANGED <<instance, faults, rec, entry>>

Collect(o) ==
  /\ AtPc(o, "collect")
  /\ IF own[o].view = "running"
     THEN Drive(o, "collecting", To(o, "flush"), To(o, "flush"))
     ELSE Goto(o, "flush") /\ UNCHANGED <<instance, faults, rec, entry>>

FlushReporters(o) == Close(o, "flush", "teardown")

\* Nothing projected, or a persistent projection: nothing to delete.
BeginTeardown(o) ==
  /\ AtPc(o, "teardown")
  /\ Drive(o, "tearing-down",
           To(o, IF own[o].attempted /\ Ephemeral(RunOf[o]) THEN "count"
                 ELSE "readback"),
           To(o, "report"))

CountTriggers(o) ==
  LET r    == RunOf[o]
      S(n) == StartSweep(o, r, ~own[o].entered, n)
  IN
  /\ AtPc(o, "count")
  /\ Goto(o, "sweep")
  /\ \/ S(RecordedTriggers(r)) /\ UNCHANGED faults
     \/ S(Unknown) /\ LedgerFail
  /\ UNCHANGED <<rows, foreign, late, exec, lock, made, rec, entry>>

SettleTo(o, goal) == [To(o, "settle") EXCEPT !.goal = goal]

\* Faulty variant: a refused teardown passes for a finished one.
SweptAnyway(o) ==
  /\ AtPc(o, "sweep")
  /\ sweep[o].pc \in {"ok", "refused", "fault"}
  /\ Goto(o, "recover")
  /\ EndSweep(o)
  /\ UNCHANGED <<rows, foreign, late, exec, lock, made, faults, rec, entry>>

Swept(o) ==
  /\ AtPc(o, "sweep")
  /\ \/ sweep[o].pc = "ok" /\ Goto(o, "recover")
     \/ sweep[o].pc \in {"refused", "fault"} /\ Owner(o, SettleTo(o, "failed"))
  /\ EndSweep(o)
  /\ UNCHANGED <<rows, foreign, late, exec, lock, made, faults, rec, entry>>

Recover(o) ==
  /\ AtPc(o, "recover")
  /\ \/ /\ Owner(o, [To(o, "compensate") EXCEPT !.todo = Unsettled(RunOf[o])])
        /\ UNCHANGED faults
     \/ LedgerFail /\ Owner(o, SettleTo(o, "failed"))
  /\ UNCHANGED <<instance, rec, entry>>

Last(S) == { w \in S : \A v \in S : Seq(v) <= Seq(w) }

Compensate(o) ==
  /\ AtPc(o, "compensate")
  /\ \E w \in Last(own[o].todo) :
       Journal(o, w, TRUE, "compensated",
               [own[o] EXCEPT !.todo = @ \ {w}],
               [SettleTo(o, "failed") EXCEPT !.todo = {}])

Compensated(o) ==
  /\ AtPc(o, "compensate")
  /\ own[o].todo = {}
  /\ Goto(o, "readback")
  /\ UNCHANGED <<instance, faults, rec, entry>>

\* settleDone: done only when nothing is left that compensation is due for.
NothingDue(r) == ~Ephemeral(r) \/ Unsettled(r) = {}

ReadBack(o) ==
  /\ AtPc(o, "readback")
  /\ \/ /\ Owner(o, SettleTo(o, IF NothingDue(RunOf[o]) THEN "done" ELSE "failed"))
        /\ UNCHANGED faults
     \/ LedgerFail /\ Owner(o, SettleTo(o, "failed"))
  /\ UNCHANGED <<instance, rec, entry>>

Settle(o) ==
  /\ AtPc(o, "settle")
  /\ Drive(o, own[o].goal, To(o, "report"), To(o, "report"))

\* runLive's finally releases the store.
Report(o) ==
  /\ AtPc(o, "report")
  /\ Owner(o, [To(o, "finished") EXCEPT !.closed = TRUE])
  /\ FreeLock(o)
  /\ UNCHANGED <<rows, foreign, late, exec, made, sweep, faults, rec, entry>>

OwnerStep(o) ==
  /\ \/ Scan(o) \/ Open(o) \/ AssertFresh(o) \/ ReadStages(o) \/ Provision(o)
     \/ VerifyInfra(o) \/ BeginProjection(o) \/ IntendSpec(o)
     \/ AcquireLock(o) \/ CheckNamespace(o) \/ Create(o) \/ Projected(o)
     \/ ConfirmSpec(o) \/ EnterRunning(o) \/ RunLoop(o) \/ IntendTrigger(o)
     \/ CallRunner(o) \/ RunnerSettles(o) \/ ConfirmTrigger(o) \/ Abandon(o)
     \/ Collect(o) \/ FlushReporters(o) \/ BeginTeardown(o)
     \/ CountTriggers(o) \/ Swept(o) \/ Recover(o) \/ Compensate(o)
     \/ Compensated(o) \/ ReadBack(o) \/ Settle(o) \/ Report(o)
  /\ UNCHANGED <<cl, crashes>>

Interruptible ==
  {"read", "provision", "verify", "project", "intend", "lock", "namespace",
   "create", "confirm", "enter", "next", "call", "wait", "answered"}

\* SIGINT, or the run deadline.
Abort(o) ==
  /\ own[o].pc \in Interruptible
  /\ ~own[o].aborted
  /\ own' = [own EXCEPT ![o].aborted = TRUE]
  /\ UNCHANGED <<storeVars, rec, entry, cl, crashes>>

\* The lock file and whatever is in flight outlive the process.
Orphaned(o) ==
  IF LateLanding /\ AtPc(o, "create") THEN SUBSET NextRow(o) ELSE {{}}

Crash(o) ==
  /\ own[o].pc \notin {"scan", "finished", "refused", "dead"}
  /\ crashes < MaxCrashes
  /\ crashes' = crashes + 1
  /\ Goto(o, "dead")
  /\ EndSweep(o)
  /\ \E P \in Orphaned(o) : late' = [late EXCEPT ![RunOf[o]] = @ \cup P]
  /\ UNCHANGED <<rows, foreign, exec, lock, made, faults, rec, entry, cl>>

------------------------------------------------------------------------------
(* tess cleanup --mode apply *)

(***************************************************************************)
(* A refused cleanup changes nothing, so only the ones that go on are      *)
(* steps.  An operator sweeps a run id without a local record only when    *)
(* the run lives under another ledger; the sweep then relies on the bound. *)
(***************************************************************************)
CleanRead(c) ==
  /\ cl[c].pc = "idle"
  /\ \E r \in Runs :
       LET known == IF c \in RemoteCleaners THEN Absent ELSE rec[r] IN
       /\ c \in RemoteCleaners \/ known.state \in TerminalRunStates
       /\ known.lifecycle = "ephemeral"
       /\ cl' = [cl EXCEPT ![c] =
            [pc |-> "count", run |-> r, known |-> known.state,
             never |-> known # Absent /\ NeverReachedRunning(known),
             recorded |-> 0, todo |-> {}]]
  /\ UNCHANGED <<storeVars, rec, entry>>

CleanCount(c) ==
  /\ cl[c].pc = "count"
  /\ \/ /\ cl' = [cl EXCEPT ![c].pc = "begin", ![c].recorded =
             IF cl[c].known = "absent" THEN UnrecordedTriggerBound
             ELSE RecordedTriggers(cl[c].run)]
        /\ UNCHANGED faults
     \/ /\ LedgerFail
        /\ cl[c].known # "absent"
        /\ cl' = [cl EXCEPT ![c].pc = "begin", ![c].recorded = Unknown]
  /\ UNCHANGED <<instance, rec, entry>>

\* Faulty variant: an abandoned record is not re-entered.
ReentersFailed(c) == cl[c].known = "failed"

\* Only a failed or abandoned record is re-entered; done is swept as it is.
Reenters(c) == cl[c].known \notin {"absent", "done"}

Exit(c) == cl' = [cl EXCEPT ![c].pc = "idle", ![c].todo = {}]

\* ledger.transition of c's run; a throw ends the command.
CleanDrive(c, to, next) ==
  LET r == cl[c].run IN
  \/ /\ Reenters(c) /\ MayTransition(rec[r], to)
     /\ rec' = [rec EXCEPT ![r] = Transitioned(@, to)]
     /\ next
     /\ UNCHANGED faults
  \/ /\ ~Reenters(c)
     /\ next
     /\ UNCHANGED <<rec, faults>>

CleanDriveThrows(c, to) ==
  /\ Reenters(c)
  /\ \/ ~MayTransition(rec[cl[c].run], to) /\ UNCHANGED faults
     \/ LedgerFail
  /\ Exit(c)
  /\ UNCHANGED rec

CleanBegin(c) ==
  /\ cl[c].pc = "begin"
  /\ \/ CleanDrive(c, "tearing-down",
          /\ cl' = [cl EXCEPT ![c].pc = "sweep"]
          /\ StartSweep(c, cl[c].run, cl[c].never, cl[c].recorded))
     \/ CleanDriveThrows(c, "tearing-down") /\ UNCHANGED sweep
  /\ UNCHANGED <<rows, foreign, late, exec, lock, made, entry>>

\* Refused or failed: the record goes to failed and the command ends.
CleanRefused(c) ==
  /\ cl[c].pc = "sweep"
  /\ sweep[c].pc \in {"refused", "fault"}
  /\ EndSweep(c)
  /\ CleanDrive(c, "failed", Exit(c)) \/ CleanDriveThrows(c, "failed")
  /\ UNCHANGED <<rows, foreign, late, exec, lock, made, entry>>

CleanRecover(c) ==
  /\ cl[c].pc = "sweep"
  /\ sweep[c].pc = "ok"
  /\ EndSweep(c)
  /\ \/ cl[c].known = "absent" /\ Exit(c) /\ UNCHANGED faults
     \/ /\ cl[c].known # "absent"
        /\ cl' = [cl EXCEPT ![c].pc = "compensate",
                            ![c].todo = Unsettled(cl[c].run)]
        /\ UNCHANGED faults
     \/ cl[c].known # "absent" /\ LedgerFail /\ Exit(c)
  /\ UNCHANGED <<rows, foreign, late, exec, lock, made, rec, entry>>

CleanCompensate(c) ==
  /\ cl[c].pc = "compensate"
  /\ \E w \in Last(cl[c].todo) :
       LET written == [entry EXCEPT ![cl[c].run][w] = "compensated"] IN
       \/ /\ entry' = written
          /\ cl' = [cl EXCEPT ![c].todo = @ \ {w}]
          /\ UNCHANGED faults
       \/ /\ LedgerFail
          /\ entry' \in {entry, written}
          /\ Exit(c)
  /\ UNCHANGED <<instance, rec>>

CleanDone(c) ==
  /\ cl[c].pc = "compensate"
  /\ cl[c].todo = {}
  /\ CleanDrive(c, "done", Exit(c)) \/ CleanDriveThrows(c, "done")
  /\ UNCHANGED <<instance, entry>>

CleanerStep(c) ==
  /\ \/ CleanRead(c) \/ CleanCount(c) \/ CleanBegin(c) \/ CleanRefused(c)
     \/ CleanRecover(c) \/ CleanCompensate(c) \/ CleanDone(c)
  /\ UNCHANGED <<own, crashes>>

CleanCrash(c) ==
  /\ cl[c].pc # "idle"
  /\ crashes < MaxCrashes
  /\ crashes' = crashes + 1
  /\ Exit(c)
  /\ EndSweep(c)
  /\ UNCHANGED <<rows, foreign, late, exec, lock, made, faults, rec, entry, own>>

------------------------------------------------------------------------------
InstanceNext ==
  \/ \E o \in Owners, g \in Groups : InstanceStep(o, g) \/ LoseTrigger(o, g)
  \/ \E r \in Runs : LandLate(r)

Next ==
  \/ \E o \in Owners : OwnerStep(o) \/ Abort(o) \/ Crash(o)
  \/ \E c \in Cleaners : CleanerStep(c) \/ CleanCrash(c)
  \/ \E a \in Actors : (SweepStep(a) \/ FailSweep(a)) /\ UNCHANGED lifeVars
  \/ InstanceNext /\ UNCHANGED lifeVars

Spec == Init /\ [][Next]_vars

(***************************************************************************)
(* A live process keeps taking its steps, the instance keeps executing     *)
(* what it accepted, and an operator keeps retrying the cleanup.  Nobody   *)
(* is bound to abort, to crash or to fail.                                 *)
(***************************************************************************)
Fairness ==
  /\ \A o \in Owners :
       WF_vars(OwnerStep(o)) /\ WF_vars(SweepStep(o) /\ UNCHANGED lifeVars)
  /\ \A c \in Cleaners :
       WF_vars(CleanerStep(c)) /\ WF_vars(SweepStep(c) /\ UNCHANGED lifeVars)
  /\ \A o \in Owners, g \in Groups :
       WF_vars(InstanceStep(o, g) /\ UNCHANGED lifeVars)

FairSpec == Spec /\ Fairness

==============================================================================
