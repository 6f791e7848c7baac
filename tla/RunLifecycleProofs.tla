-------------------------- MODULE RunLifecycleProofs --------------------------
(***************************************************************************)
(* Proofs about RunLifecycle for every number of runs, owners, cleaners,   *)
(* specs, groups, faults and crashes: its types, and NeverTriggeredIsProof *)
(* and WriteAhead, which go through the invariants of RunClaims.           *)
(***************************************************************************)
EXTENDS RunClaims, FiniteSetTheorems, TLAPS

(***************************************************************************)
(* Types of the values the actions put together.                           *)
(***************************************************************************)

LEMMA ToType ==
  ASSUME own \in [Owners -> OwnRecord], NEW o \in Owners, NEW p \in OwnPc
  PROVE  To(o, p) \in OwnRecord
BY DEF To, OwnRecord

LEMMA ThrownType ==
  ASSUME own \in [Owners -> OwnRecord], NEW o \in Owners
  PROVE  Thrown(o) \in OwnRecord
BY ToType DEF Thrown, OwnPc

LEMMA OwnerType ==
  ASSUME own \in [Owners -> OwnRecord], NEW o \in Owners,
         NEW s \in OwnRecord, Owner(o, s)
  PROVE  own' \in [Owners -> OwnRecord]
BY DEF Owner

LEMMA GotoType ==
  ASSUME own \in [Owners -> OwnRecord], NEW o \in Owners,
         NEW p \in OwnPc, Goto(o, p)
  PROVE  own' \in [Owners -> OwnRecord]
BY DEF Goto, OwnRecord

LEMMA SettleToType ==
  ASSUME own \in [Owners -> OwnRecord], NEW o \in Owners,
         NEW goal \in TeardownEnds
  PROVE  SettleTo(o, goal) \in OwnRecord
<1>1. To(o, "settle") \in OwnRecord
  BY ToType DEF OwnPc
<1> QED
  BY <1>1 DEF SettleTo, OwnRecord

LEMMA TransitionedType ==
  ASSUME NEW record \in RunRecord \cup {Absent}, NEW to \in RunState,
         MayTransition(record, to)
  PROVE  Transitioned(record, to) \in RunRecord
<1>1. record.state \in RunState
  BY DEF MayTransition
<1>2. record \in RunRecord
  BY <1>1 DEF Absent, RunState
<1> QED
  BY <1>2 DEF Transitioned, RunRecord

LEMMA RecordedTriggersType ==
  ASSUME NEW r \in Runs
  PROVE  RecordedTriggers(r) \in 0..NGroups
<1>1. NGroups \in Nat
  BY CountsAssumption
<1>2. IsFiniteSet(1..NGroups) /\ Cardinality(1..NGroups) = NGroups
  BY <1>1, FS_Interval
<1>3. Triggers(r) \subseteq 1..NGroups
  BY DEF Triggers, Groups
<1>4. Cardinality(Triggers(r)) \in Nat /\ Cardinality(Triggers(r)) <= NGroups
  BY <1>2, <1>3, FS_Subset, FS_CardinalityType
<1> QED
  BY <1>1, <1>4 DEF RecordedTriggers

LEMMA FreeLockType ==
  ASSUME StoreTypeOK, NEW a, FreeLock(a)
  PROVE  lock' \in Owners \cup {NoOwner}
BY DEF StoreTypeOK, FreeLock

LEMMA FailType ==
  ASSUME faults \in 0..MaxFaults, Fail \/ LedgerFail \/ UNCHANGED faults
  PROVE  faults' \in 0..MaxFaults
BY CountsAssumption DEF Fail, MayFail, LedgerFail

LEMMA DriveType ==
  ASSUME TypeOK, NEW o \in Owners, NEW to \in RunState,
         NEW landed \in OwnRecord, NEW refused \in OwnRecord,
         Drive(o, to, landed, refused), UNCHANGED <<cl, crashes>>
  PROVE  TypeOK'
<1> DEFINE r == RunOf[o]
<1>1. r \in Runs
  BY RunOfAssumption
<1>2. [landed EXCEPT !.view = to] \in OwnRecord
  BY DEF OwnRecord
<1>3. own' \in [Owners -> OwnRecord]
  BY <1>2, OwnerType DEF TypeOK, LifeTypeOK, Drive
<1>4. rec' \in [Runs -> RunRecord \cup {Absent}]
  <2>1. CASE UNCHANGED rec
    BY <2>1 DEF TypeOK, LifeTypeOK
  <2>2. CASE /\ MayTransition(rec[r], to)
             /\ rec' = [rec EXCEPT ![r] = Transitioned(@, to)]
    <3>1. Transitioned(rec[r], to) \in RunRecord
      BY <1>1, <2>2, TransitionedType DEF TypeOK, LifeTypeOK
    <3> QED
      BY <1>1, <2>2, <3>1 DEF TypeOK, LifeTypeOK
  <2> QED
    BY <2>1, <2>2 DEF Drive
<1>5. faults' \in 0..MaxFaults
  BY FailType DEF Drive, TypeOK, StoreTypeOK
<1> QED
  BY <1>3, <1>4, <1>5
  DEF Drive, TypeOK, LifeTypeOK, StoreTypeOK, instance

LEMMA JournalType ==
  ASSUME TypeOK, NEW o \in Owners, NEW w, NEW allowed \in BOOLEAN,
         NEW state, w \in Writes => state \in EntryState \cup {"none"},
         NEW landed \in OwnRecord, NEW thrown \in OwnRecord,
         Journal(o, w, allowed, state, landed, thrown), UNCHANGED <<cl, crashes>>
  PROVE  TypeOK'
<1> DEFINE r == RunOf[o]
<1>1. r \in Runs
  BY RunOfAssumption
<1>2. own' \in [Owners -> OwnRecord]
  BY OwnerType DEF TypeOK, LifeTypeOK, Journal
<1>3. entry' \in [Runs -> [Writes -> EntryState \cup {"none"}]]
  BY <1>1 DEF Journal, TypeOK, LifeTypeOK
<1>4. faults' \in 0..MaxFaults
  BY FailType DEF Journal, TypeOK, StoreTypeOK
<1> QED
  BY <1>2, <1>3, <1>4
  DEF Journal, TypeOK, LifeTypeOK, StoreTypeOK, instance

\* A step that changes nothing but o's local state and the fault count.
LEMMA LocalType ==
  ASSUME TypeOK, NEW o \in Owners, NEW s \in OwnRecord, Owner(o, s),
         Fail \/ LedgerFail \/ UNCHANGED faults,
         UNCHANGED <<instance, rec, entry, cl, crashes>>
  PROVE  TypeOK'
<1>1. own' \in [Owners -> OwnRecord]
  BY OwnerType DEF TypeOK, LifeTypeOK
<1>2. faults' \in 0..MaxFaults
  BY FailType DEF TypeOK, StoreTypeOK
<1> QED
  BY <1>1, <1>2 DEF TypeOK, LifeTypeOK, StoreTypeOK, instance

LEMMA GotoIsOwner ==
  ASSUME NEW o, NEW p
  PROVE  Goto(o, p) <=> Owner(o, To(o, p))
BY DEF Goto, Owner, To

LEMMA StartSweepType ==
  ASSUME TypeOK, NEW a, NEW r \in Runs, NEW never \in BOOLEAN,
         NEW n \in 0..NGroups \cup {Unknown}, StartSweep(a, r, never, n)
  PROVE  sweep' \in [Actors -> SweepRecord]
<1>1. SweepStarted(r, never, n) \in SweepRecord
  BY DEF SweepStarted, SweepRecord, SweepPc
<1> QED
  BY <1>1 DEF StartSweep, TypeOK, StoreTypeOK

LEMMA EndSweepType ==
  ASSUME TypeOK, NEW a \in Actors, EndSweep(a)
  PROVE  sweep' \in [Actors -> SweepRecord]
<1>1. NoSweep(sweep[a].run) \in SweepRecord
  BY CountsAssumption DEF NoSweep, SweepRecord, SweepPc, TypeOK, StoreTypeOK
<1> QED
  BY <1>1 DEF EndSweep, TypeOK, StoreTypeOK


LEMMA AdvanceType ==
  ASSUME own \in [Owners -> OwnRecord], NEW o \in Owners,
         NEW last, NEW here \in OwnPc, NEW next \in OwnPc
  PROVE  Advance(o, last, here, next) \in OwnRecord
<1>1. To(o, here) \in OwnRecord /\ To(o, next) \in OwnRecord
  BY ToType
<1> QED
  BY <1>1 DEF Advance, OwnRecord

LEMMA OwnerStepType ==
  ASSUME TypeOK, NEW o \in Owners, OwnerStep(o)
  PROVE  TypeOK'
<1>t. own \in [Owners -> OwnRecord] /\ own[o] \in OwnRecord
  BY DEF TypeOK, LifeTypeOK
<1>r. RunOf[o] \in Runs
  BY RunOfAssumption
<1>q. UNCHANGED <<cl, crashes>>
  BY DEF OwnerStep
<1>0. \A p \in OwnPc : To(o, p) \in OwnRecord
  BY <1>t, ToType
<1>n. Thrown(o) \in OwnRecord
  BY <1>t, ThrownType
<1> USE <1>t, <1>r, <1>q, <1>0, <1>n
<1>1. CASE Scan(o)
  BY <1>1, LocalType, GotoIsOwner DEF Scan, OwnPc
<1>2. CASE Open(o)
  <2>1. CASE UNCHANGED rec
    <3>1. To(o, "fresh") \in OwnRecord /\ To(o, "refused") \in OwnRecord
      BY DEF OwnPc
    <3>2. CASE /\ rec[RunOf[o]] # Absent
               /\ Owner(o, [To(o, "fresh") EXCEPT !.view = rec[RunOf[o]].state])
               /\ UNCHANGED <<instance, faults, rec, entry>>
      <4>1. rec[RunOf[o]] \in RunRecord
        BY <3>2 DEF TypeOK, LifeTypeOK
      <4>2. [To(o, "fresh") EXCEPT !.view = rec[RunOf[o]].state] \in OwnRecord
        BY <3>1, <4>1 DEF OwnRecord, RunRecord
      <4> QED
        BY <3>2, <4>2, LocalType
    <3>3. CASE LedgerFail /\ Goto(o, "refused") /\ UNCHANGED <<instance, rec, entry>>
      BY <3>1, <3>3, LocalType, GotoIsOwner
    <3>4. CASE \E l \in Lifecycles :
                 /\ rec[RunOf[o]] = Absent
                 /\ rec' = [rec EXCEPT ![RunOf[o]] =
                      [state |-> "planned", ran |-> FALSE, lifecycle |-> l]]
      BY <2>1, <3>4 DEF Absent, TypeOK, LifeTypeOK
    <3> QED
      BY <1>2, <2>1, <3>2, <3>3, <3>4 DEF Open
  <2>2. CASE \E l \in Lifecycles :
               /\ rec' = [rec EXCEPT ![RunOf[o]] =
                    [state |-> "planned", ran |-> FALSE, lifecycle |-> l]]
               /\ Owner(o, [To(o, "fresh") EXCEPT !.view = "planned"])
               /\ UNCHANGED <<instance, faults, entry>>
    <3>1. [To(o, "fresh") EXCEPT !.view = "planned"] \in OwnRecord
      BY DEF OwnRecord, OwnPc, RunState
    <3>2. own' \in [Owners -> OwnRecord]
      BY <2>2, <3>1, OwnerType
    <3>3. rec' \in [Runs -> RunRecord \cup {Absent}]
      BY <2>2, LifecycleAssumption
      DEF TypeOK, LifeTypeOK, RunRecord, RunState
    <3> QED
      BY <2>2, <3>2, <3>3 DEF TypeOK, LifeTypeOK, StoreTypeOK, instance
  <2> QED
    BY <1>2, <2>1, <2>2 DEF Open
<1>3. CASE AssertFresh(o)
  BY <1>3, LocalType, GotoIsOwner DEF AssertFresh, OwnPc
<1>4. CASE ReadStages(o)
  BY <1>4, LocalType, GotoIsOwner DEF ReadStages, OwnPc
<1>5. CASE Provision(o)
  BY <1>5, LocalType, DriveType DEF Provision, Aborted, OwnPc, RunState
<1>6. CASE VerifyInfra(o)
  BY <1>6, LocalType, GotoIsOwner DEF VerifyInfra, OwnPc
<1>7. CASE BeginProjection(o)
  <2>1. [To(o, "intend") EXCEPT !.attempted = TRUE, !.at = 1] \in OwnRecord
    <3>1. To(o, "intend") \in OwnRecord
      BY DEF OwnPc
    <3> QED
      BY <3>1 DEF OwnRecord
  <2> QED
    BY <1>7, <2>1, LocalType, DriveType DEF BeginProjection, Aborted, RunState
<1>8. CASE IntendSpec(o)
  <2> DEFINE w == <<"project", own[o].at>>
             allowed == rec[RunOf[o]].state \notin
                          TerminalRunStates \cup {"planned"}
             state == IF entry[RunOf[o]][w] = "none" THEN "intended"
                      ELSE entry[RunOf[o]][w]
  <2>1. w \in Writes => state \in EntryState \cup {"none"}
    BY DEF TypeOK, LifeTypeOK, EntryState
  <2>2. Advance(o, NSpecs, "intend", "lock") \in OwnRecord
    BY AdvanceType DEF OwnPc
  <2>3. allowed \in BOOLEAN
    OBVIOUS
  <2>4. Journal(o, w, allowed, state,
                Advance(o, NSpecs, "intend", "lock"), Thrown(o))
    BY <1>8 DEF IntendSpec, Intend
  <2> HIDE DEF w, allowed, state
  <2> QED
    BY <2>1, <2>2, <2>3, <2>4, JournalType
<1>9. CASE AcquireLock(o)
  <2>1. own' \in [Owners -> OwnRecord]
    BY <1>9, OwnerType, GotoIsOwner DEF AcquireLock, OwnPc
  <2>2. lock' \in Owners \cup {NoOwner} /\ made' \in [Owners -> SUBSET Rows]
    BY <1>9 DEF AcquireLock, TakeLock, TypeOK, StoreTypeOK
  <2> QED
    BY <1>9, <2>1, <2>2 DEF AcquireLock, TypeOK, LifeTypeOK, StoreTypeOK
<1>10. CASE CheckNamespace(o)
  <2>1. own' \in [Owners -> OwnRecord]
    BY <1>10, OwnerType, GotoIsOwner DEF CheckNamespace, OwnPc
  <2>2. lock' \in Owners \cup {NoOwner}
    BY <1>10, FreeLockType DEF CheckNamespace, TypeOK, StoreTypeOK
  <2> QED
    BY <1>10, <2>1, <2>2 DEF CheckNamespace, TypeOK, LifeTypeOK, StoreTypeOK
<1>11. CASE Create(o)
  <2>1. own' \in [Owners -> OwnRecord]
    BY <1>11, OwnerType DEF Create
  <2>2. lock' \in Owners \cup {NoOwner}
    BY <1>11, FreeLockType DEF Create, TypeOK, StoreTypeOK
  <2>3. faults' \in 0..MaxFaults
    BY <1>11, FailType DEF Create, LoseRow, TypeOK, StoreTypeOK
  <2>4. PICK p \in Rows :
          \/ CreateRow(o, p) /\ UNCHANGED late
          \/ LoseRow(o, p) /\ UNCHANGED made
          \/ UNCHANGED <<rows, late, made>>
    BY <1>11 DEF Create, NextRow
  <2>5. /\ rows' \in [Runs -> SUBSET Rows]
        /\ late' \in [Runs -> SUBSET Rows]
        /\ made' \in [Owners -> SUBSET Rows]
    <3>1. CASE CreateRow(o, p) /\ UNCHANGED late
      BY <3>1 DEF CreateRow, TypeOK, StoreTypeOK
    <3>2. CASE LoseRow(o, p) /\ UNCHANGED made
      <4>1. rows' \in [Runs -> SUBSET Rows]
        BY <3>2 DEF LoseRow, TypeOK, StoreTypeOK
      <4>2. late' \in [Runs -> SUBSET Rows]
        BY <3>2 DEF LoseRow, TypeOK, StoreTypeOK
      <4> QED
        BY <3>2, <4>1, <4>2 DEF TypeOK, StoreTypeOK
    <3>3. CASE UNCHANGED <<rows, late, made>>
      BY <3>3 DEF TypeOK, StoreTypeOK
    <3> QED
      BY <2>4, <3>1, <3>2, <3>3
  <2> QED
    BY <1>11, <2>1, <2>2, <2>3, <2>5
    DEF Create, TypeOK, LifeTypeOK, StoreTypeOK
<1>12. CASE Projected(o)
  <2>1. [To(o, "confirm") EXCEPT !.at = 1] \in OwnRecord
    <3>1. To(o, "confirm") \in OwnRecord
      BY DEF OwnPc
    <3> QED
      BY <3>1 DEF OwnRecord
  <2> QED
    BY <1>12, <2>1, LocalType DEF Projected
<1>13. CASE ConfirmSpec(o)
  <2>1. Advance(o, NSpecs, "confirm", "enter") \in OwnRecord
    BY AdvanceType DEF OwnPc
  <2> QED
    BY <1>13, <2>1, JournalType DEF ConfirmSpec, Confirm, EntryState
<1>14. CASE EnterRunning(o)
  <2>1. \A p \in OwnPc :
          [To(o, p) EXCEPT !.entered = TRUE, !.at = 1] \in OwnRecord
    BY DEF OwnRecord
  <2> QED
    BY <1>14, <2>1, LocalType, DriveType
    DEF EnterRunning, Aborted, OwnPc, RunState
<1>15. CASE RunLoop(o)
  BY <1>15, LocalType, GotoIsOwner DEF RunLoop, OwnPc
<1>16. CASE IntendTrigger(o)
  <2> DEFINE w == <<"trigger", own[o].at>>
             allowed == rec[RunOf[o]].state \notin
                          TerminalRunStates \cup {"planned"}
             state == IF entry[RunOf[o]][w] = "none" THEN "intended"
                      ELSE entry[RunOf[o]][w]
  <2>1. w \in Writes => state \in EntryState \cup {"none"}
    BY DEF TypeOK, LifeTypeOK, EntryState
  <2>2. To(o, "call") \in OwnRecord
    BY DEF OwnPc
  <2>3. allowed \in BOOLEAN
    OBVIOUS
  <2>4. Journal(o, w, allowed, state, To(o, "call"), Thrown(o))
    BY <1>16 DEF IntendTrigger, Intend
  <2> HIDE DEF w, allowed, state
  <2> QED
    BY <2>1, <2>2, <2>3, <2>4, JournalType
<1>17. CASE CallRunner(o)
  <2>1. own' \in [Owners -> OwnRecord]
    BY <1>17, OwnerType, GotoIsOwner DEF CallRunner, OwnPc
  <2>2. exec' \in [Owners -> [Groups -> ExecState]]
    <3>1. exec[o] \in [Groups -> ExecState]
      BY DEF TypeOK, StoreTypeOK
    <3>2. [exec[o] EXCEPT ![own[o].at] = "sent"] \in [Groups -> ExecState]
      BY <3>1 DEF ExecState
    <3> QED
      BY <1>17, <3>2 DEF CallRunner, TypeOK, StoreTypeOK
  <2> QED
    BY <1>17, <2>1, <2>2 DEF CallRunner, TypeOK, LifeTypeOK, StoreTypeOK
<1>18. CASE RunnerSettles(o)
  BY <1>18, LocalType, GotoIsOwner DEF RunnerSettles, OwnPc
<1>19. CASE ConfirmTrigger(o)
  <2>1. [To(o, "next") EXCEPT !.at = @ + 1] \in OwnRecord
    <3>1. To(o, "next") \in OwnRecord
      BY DEF OwnPc
    <3> QED
      BY <3>1 DEF OwnRecord
  <2> QED
    BY <1>19, <2>1, JournalType DEF ConfirmTrigger, Confirm, EntryState
<1>20. CASE Abandon(o)
  <2>1. [To(o, "abandoned") EXCEPT !.closed = TRUE] \in OwnRecord
    <3>1. To(o, "abandoned") \in OwnRecord
      BY DEF OwnPc
    <3> QED
      BY <3>1 DEF OwnRecord
  <2> QED
    BY <1>20, <2>1, LocalType, DriveType DEF Abandon, Close, OwnPc, RunState
<1>21. CASE Collect(o)
  BY <1>21, LocalType, GotoIsOwner, DriveType DEF Collect, OwnPc, RunState
<1>22. CASE FlushReporters(o)
  <2>1. [To(o, "teardown") EXCEPT !.closed = TRUE] \in OwnRecord
    <3>1. To(o, "teardown") \in OwnRecord
      BY DEF OwnPc
    <3> QED
      BY <3>1 DEF OwnRecord
  <2> QED
    BY <1>22, <2>1, LocalType DEF FlushReporters, Close
<1>23. CASE BeginTeardown(o)
  BY <1>23, DriveType DEF BeginTeardown, OwnPc, RunState
<1>24. CASE CountTriggers(o)
  <2>1. own' \in [Owners -> OwnRecord]
    BY <1>24, OwnerType, GotoIsOwner DEF CountTriggers, OwnPc
  <2>2. faults' \in 0..MaxFaults
    BY <1>24, FailType DEF CountTriggers, TypeOK, StoreTypeOK
  <2>3. \E n \in 0..NGroups \cup {Unknown} :
          StartSweep(o, RunOf[o], ~own[o].entered, n)
    BY <1>24, RecordedTriggersType DEF CountTriggers
  <2>4. sweep' \in [Actors -> SweepRecord]
    BY <2>3, StartSweepType DEF OwnRecord
  <2> QED
    BY <1>24, <2>1, <2>2, <2>4
    DEF CountTriggers, TypeOK, LifeTypeOK, StoreTypeOK
<1>25. CASE Swept(o)
  <2>1. SettleTo(o, "failed") \in OwnRecord
    BY SettleToType DEF TeardownEnds
  <2>2. own' \in [Owners -> OwnRecord]
    BY <1>25, <2>1, OwnerType, GotoIsOwner DEF Swept, OwnPc
  <2>3. sweep' \in [Actors -> SweepRecord]
    BY <1>25, EndSweepType DEF Swept, Actors
  <2> QED
    BY <1>25, <2>2, <2>3 DEF Swept, TypeOK, LifeTypeOK, StoreTypeOK
<1>26. CASE Recover(o)
  <2>1. SettleTo(o, "failed") \in OwnRecord
    BY SettleToType DEF TeardownEnds
  <2>2. [To(o, "compensate") EXCEPT !.todo = Unsettled(RunOf[o])] \in OwnRecord
    <3>1. To(o, "compensate") \in OwnRecord
      BY DEF OwnPc
    <3> QED
      BY <3>1 DEF OwnRecord, Unsettled
  <2> QED
    BY <1>26, <2>1, <2>2, LocalType DEF Recover
<1>27. CASE Compensate(o)
  <2>1. [SettleTo(o, "failed") EXCEPT !.todo = {}] \in OwnRecord
    BY SettleToType DEF TeardownEnds, OwnRecord
  <2>2. \A w : [own[o] EXCEPT !.todo = @ \ {w}] \in OwnRecord
    BY DEF OwnRecord
  <2> QED
    BY <1>27, <2>1, <2>2, JournalType DEF Compensate, EntryState
<1>28. CASE Compensated(o)
  BY <1>28, LocalType, GotoIsOwner DEF Compensated, OwnPc
<1>29. CASE ReadBack(o)
  <2>1. SettleTo(o, "failed") \in OwnRecord /\ SettleTo(o, "done") \in OwnRecord
    BY SettleToType DEF TeardownEnds
  <2> QED
    BY <1>29, <2>1, LocalType DEF ReadBack
<1>30. CASE Settle(o)
  <2>1. own[o].goal \in RunState
    BY DEF OwnRecord, TeardownEnds, RunState
  <2> QED
    BY <1>30, <2>1, DriveType DEF Settle, OwnPc
<1>31. CASE Report(o)
  <2>1. [To(o, "finished") EXCEPT !.closed = TRUE] \in OwnRecord
    <3>1. To(o, "finished") \in OwnRecord
      BY DEF OwnPc
    <3> QED
      BY <3>1 DEF OwnRecord
  <2>2. own' \in [Owners -> OwnRecord]
    BY <1>31, <2>1, OwnerType DEF Report
  <2>3. lock' \in Owners \cup {NoOwner}
    BY <1>31, FreeLockType DEF Report, TypeOK
  <2> QED
    BY <1>31, <2>2, <2>3 DEF Report, TypeOK, LifeTypeOK, StoreTypeOK
<1> QED
  BY <1>1, <1>2, <1>3, <1>4, <1>5, <1>6, <1>7, <1>8, <1>9, <1>10, <1>11, <1>12, <1>13, <1>14, <1>15, <1>16, <1>17, <1>18, <1>19, <1>20, <1>21, <1>22, <1>23, <1>24, <1>25, <1>26, <1>27, <1>28, <1>29, <1>30, <1>31
  DEF OwnerStep

------------------------------------------------------------------------------
(* The steps of the others preserve the types, too. *)

LEMMA InterruptType ==
  ASSUME TypeOK, NEW o \in Owners, Abort(o) \/ Crash(o)
  PROVE  TypeOK'
<1>t. own \in [Owners -> OwnRecord] /\ RunOf[o] \in Runs
  BY RunOfAssumption DEF TypeOK, LifeTypeOK
<1>1. CASE Abort(o)
  <2>1. own' \in [Owners -> OwnRecord]
    BY <1>t, <1>1 DEF Abort, OwnRecord
  <2> QED
    BY <1>1, <2>1 DEF Abort, TypeOK, LifeTypeOK, StoreTypeOK, storeVars
<1>2. CASE Crash(o)
  <2>1. own' \in [Owners -> OwnRecord]
    BY <1>t, <1>2, GotoType DEF Crash, OwnPc
  <2>2. sweep' \in [Actors -> SweepRecord]
    BY <1>2, EndSweepType DEF Crash, Actors
  <2>3. late' \in [Runs -> SUBSET Rows]
    <3>1. PICK P \in SUBSET Rows : late' = [late EXCEPT ![RunOf[o]] = @ \cup P]
      BY <1>2 DEF Crash, Orphaned, NextRow
    <3> QED
      BY <1>t, <3>1 DEF TypeOK, StoreTypeOK
  <2>4. crashes' \in 0..MaxCrashes
    BY <1>2, LifecycleAssumption DEF Crash, TypeOK, LifeTypeOK
  <2> QED
    BY <1>2, <2>1, <2>2, <2>3, <2>4 DEF Crash, TypeOK, LifeTypeOK, StoreTypeOK
<1> QED
  BY <1>1, <1>2

\* A step of the store changes rows, lock, sweeps and faults at most.
LEMMA SweepTypes ==
  ASSUME StoreTypeOK, NEW a \in Actors, SweepStep(a) \/ FailSweep(a)
  PROVE  StoreTypeOK'
<1>t. sweep[a] \in SweepRecord /\ rows[sweep[a].run] \in SUBSET Rows
  BY DEF StoreTypeOK, SweepRecord
<1>1. CASE ReadTests(a)
  <2>1. sweep' \in [Actors -> SweepRecord]
    BY <1>t, <1>1 DEF ReadTests, StoreTypeOK, SweepRecord, SweepPc, OfKind
  <2> QED
    BY <1>1, <2>1 DEF ReadTests, onlySweep, StoreTypeOK
<1>2. CASE ReadSuites(a)
  <2>1. sweep' \in [Actors -> SweepRecord]
    BY <1>t, <1>2 DEF ReadSuites, StoreTypeOK, SweepRecord, SweepPc, OfKind
  <2> QED
    BY <1>2, <2>1 DEF ReadSuites, onlySweep, StoreTypeOK
<1>3. CASE ReadLinks(a)
  <2>1. sweep' \in [Actors -> SweepRecord]
    BY <1>t, <1>3 DEF ReadLinks, StoreTypeOK, SweepRecord, SweepPc, OfKind
  <2> QED
    BY <1>3, <2>1 DEF ReadLinks, onlySweep, StoreTypeOK
<1>4. CASE PassGate(a)
  <2>1. sweep' \in [Actors -> SweepRecord]
    BY <1>t, <1>4 DEF PassGate, StoreTypeOK, SweepRecord, SweepPc
  <2> QED
    BY <1>4, <2>1 DEF PassGate, onlySweep, StoreTypeOK
<1>5. CASE ReadSteps(a)
  <2>1. sweep' \in [Actors -> SweepRecord]
    BY <1>t, <1>5 DEF ReadSteps, StoreTypeOK, SweepRecord, SweepPc, OfKind
  <2> QED
    BY <1>5, <2>1 DEF ReadSteps, onlySweep, StoreTypeOK
<1>9. CASE ReadInputs(a)
  <2>1. sweep' \in [Actors -> SweepRecord]
    BY <1>t, <1>9 DEF ReadInputs, StoreTypeOK, SweepRecord, SweepPc, OfKind
  <2> QED
    BY <1>9, <2>1 DEF ReadInputs, onlySweep, StoreTypeOK
<1>6. CASE DeleteRow(a)
  <2>1. PICK p :
          /\ rows' = [rows EXCEPT ![sweep[a].run] = @ \ {p}]
          /\ sweep' = [sweep EXCEPT ![a].found = @ \ {p}]
    BY <1>6 DEF DeleteRow
  <2>2. sweep' \in [Actors -> SweepRecord]
    BY <1>t, <2>1 DEF StoreTypeOK, SweepRecord
  <2>3. rows' \in [Runs -> SUBSET Rows]
    BY <1>t, <2>1 DEF StoreTypeOK
  <2> QED
    BY <1>6, <2>2, <2>3 DEF DeleteRow, StoreTypeOK
<1>7. CASE FinishSweep(a)
  <2>1. sweep' \in [Actors -> SweepRecord]
    BY <1>t, <1>7 DEF FinishSweep, StoreTypeOK, SweepRecord, SweepPc
  <2>2. lock' \in Owners \cup {NoOwner}
    BY <1>7, FreeLockType DEF FinishSweep
  <2> QED
    BY <1>7, <2>1, <2>2 DEF FinishSweep, StoreTypeOK
<1>8. CASE FailSweep(a)
  <2>1. sweep' \in [Actors -> SweepRecord]
    BY <1>t, <1>8 DEF FailSweep, StoreTypeOK, SweepRecord, SweepPc
  <2>2. rows' \in [Runs -> SUBSET Rows]
    BY <1>t, <1>8 DEF FailSweep, StoreTypeOK
  <2>3. faults' \in 0..MaxFaults
    BY <1>8, FailType DEF FailSweep, StoreTypeOK
  <2> QED
    BY <1>8, <2>1, <2>2, <2>3 DEF FailSweep, StoreTypeOK
<1> QED
  BY <1>1, <1>2, <1>3, <1>4, <1>5, <1>6, <1>7, <1>8, <1>9 DEF SweepStep

LEMMA InstanceTypes ==
  ASSUME StoreTypeOK, InstanceNext
  PROVE  StoreTypeOK'
<1>1. CASE \E o \in Owners, g \in Groups : InstanceStep(o, g) \/ LoseTrigger(o, g)
  <2>1. PICK o \in Owners, g \in Groups : InstanceStep(o, g) \/ LoseTrigger(o, g)
    BY <1>1
  <2>2. exec[o] \in [Groups -> ExecState]
    BY DEF StoreTypeOK
  <2>3. \A x \in ExecState : [exec[o] EXCEPT ![g] = x] \in [Groups -> ExecState]
    BY <2>2
  <2>4. PICK x \in ExecState : exec' = [exec EXCEPT ![o][g] = x]
    BY <2>1 DEF InstanceStep, LoseTrigger, ExecState
  <2>5. exec' \in [Owners -> [Groups -> ExecState]]
    BY <2>3, <2>4 DEF StoreTypeOK
  <2>6. faults' \in 0..MaxFaults
    BY <2>1, FailType DEF InstanceStep, LoseTrigger, StoreTypeOK
  <2> QED
    BY <2>1, <2>5, <2>6 DEF InstanceStep, LoseTrigger, StoreTypeOK
<1>2. CASE \E r \in Runs : LandLate(r)
  <2>1. PICK r \in Runs : LandLate(r)
    BY <1>2
  <2>2. PICK p \in late[r] :
          /\ rows' = [rows EXCEPT ![r] = @ \cup {p}]
          /\ late' = [late EXCEPT ![r] = @ \ {p}]
    BY <2>1 DEF LandLate
  <2>3. rows' \in [Runs -> SUBSET Rows] /\ late' \in [Runs -> SUBSET Rows]
    BY <2>2 DEF StoreTypeOK
  <2> QED
    BY <2>1, <2>3 DEF LandLate, StoreTypeOK
<1> QED
  BY <1>1, <1>2 DEF InstanceNext

LEMMA ExitType ==
  ASSUME cl \in [Cleaners -> ClRecord], NEW c \in Cleaners, Exit(c)
  PROVE  cl' \in [Cleaners -> ClRecord]
<1>1. cl[c] \in ClRecord
  OBVIOUS
<1>2. [cl[c] EXCEPT !.pc = "idle"] \in ClRecord
  BY <1>1 DEF ClRecord, ClPc
<1>3. [cl[c] EXCEPT !.pc = "idle", !.todo = {}] \in ClRecord
  BY <1>1, <1>2 DEF ClRecord, ClPc
<1>4. cl' = [cl EXCEPT ![c] = [cl[c] EXCEPT !.pc = "idle", !.todo = {}]]
  BY DEF Exit
<1> QED
  BY <1>3, <1>4

LEMMA CleanerStepType ==
  ASSUME TypeOK, NEW c \in Cleaners, CleanerStep(c)
  PROVE  TypeOK'
<1>t. /\ cl \in [Cleaners -> ClRecord] /\ cl[c] \in ClRecord
      /\ cl[c].run \in Runs /\ c \in Actors
  BY DEF TypeOK, LifeTypeOK, ClRecord, Actors
<1>q. UNCHANGED <<own, crashes>>
  BY DEF CleanerStep
<1>x. Exit(c) => cl' \in [Cleaners -> ClRecord]
  BY <1>t, ExitType
<1>d. \A to \in RunState, next \in BOOLEAN :
        CleanDrive(c, to, next) \/ CleanDriveThrows(c, to) =>
          rec' \in [Runs -> RunRecord \cup {Absent}] /\ faults' \in 0..MaxFaults
  <2> SUFFICES ASSUME NEW to \in RunState, NEW next \in BOOLEAN,
                      CleanDrive(c, to, next) \/ CleanDriveThrows(c, to)
               PROVE  /\ rec' \in [Runs -> RunRecord \cup {Absent}]
                      /\ faults' \in 0..MaxFaults
    OBVIOUS
  <2>1. faults' \in 0..MaxFaults
    BY FailType DEF CleanDrive, CleanDriveThrows, TypeOK, StoreTypeOK
  <2>2. CASE UNCHANGED rec
    BY <2>1, <2>2 DEF TypeOK, LifeTypeOK
  <2>3. CASE /\ MayTransition(rec[cl[c].run], to)
             /\ rec' = [rec EXCEPT ![cl[c].run] = Transitioned(@, to)]
    <3>1. Transitioned(rec[cl[c].run], to) \in RunRecord
      BY <1>t, <2>3, TransitionedType DEF TypeOK, LifeTypeOK
    <3> QED
      BY <2>1, <2>3, <3>1 DEF TypeOK, LifeTypeOK
  <2> QED
    BY <2>2, <2>3 DEF CleanDrive, CleanDriveThrows
<1>1. CASE CleanRead(c)
  <2>1. PICK r \in Runs, known \in RunState \cup {"absent"}, never \in BOOLEAN :
          cl' = [cl EXCEPT ![c] =
            [pc |-> "count", run |-> r, known |-> known, never |-> never,
             recorded |-> 0, todo |-> {}]]
    <3>1. PICK r \in Runs, known \in RunRecord \cup {Absent} :
            cl' = [cl EXCEPT ![c] =
              [pc |-> "count", run |-> r, known |-> known.state,
               never |-> known # Absent /\ NeverReachedRunning(known),
               recorded |-> 0, todo |-> {}]]
      BY <1>1 DEF CleanRead, TypeOK, LifeTypeOK
    <3>2. known.state \in RunState \cup {"absent"}
      BY DEF RunRecord, Absent
    <3>3. (known # Absent /\ NeverReachedRunning(known)) \in BOOLEAN
      OBVIOUS
    <3> HIDE DEF Absent
    <3> QED
      BY <3>1, <3>2, <3>3
  <2>2. cl' \in [Cleaners -> ClRecord]
    BY <1>t, <2>1, CountsAssumption DEF ClRecord, ClPc
  <2> QED
    BY <1>1, <1>q, <2>2 DEF CleanRead, TypeOK, LifeTypeOK, StoreTypeOK, storeVars
<1>2. CASE CleanCount(c)
  <2>1. PICK n \in 0..NGroups \cup {Unknown} :
          cl' = [cl EXCEPT ![c].pc = "begin", ![c].recorded = n]
    BY <1>t, <1>2, RecordedTriggersType, CountsAssumption
    DEF CleanCount, UnrecordedTriggerBound
  <2>2. cl' \in [Cleaners -> ClRecord]
    BY <1>t, <2>1 DEF ClRecord, ClPc
  <2>3. faults' \in 0..MaxFaults
    BY <1>2, FailType DEF CleanCount, TypeOK, StoreTypeOK
  <2> QED
    BY <1>2, <1>q, <2>2, <2>3
    DEF CleanCount, TypeOK, LifeTypeOK, StoreTypeOK, instance
<1>3. CASE CleanBegin(c)
  <2>1. rec' \in [Runs -> RunRecord \cup {Absent}] /\ faults' \in 0..MaxFaults
    BY <1>3, <1>d DEF CleanBegin, RunState
  <2>2. CASE /\ cl' = [cl EXCEPT ![c].pc = "sweep"]
             /\ StartSweep(c, cl[c].run, cl[c].never, cl[c].recorded)
    <3>1. sweep' \in [Actors -> SweepRecord]
      BY <1>t, <2>2, StartSweepType DEF ClRecord
    <3>2. cl' \in [Cleaners -> ClRecord]
      BY <1>t, <2>2 DEF ClRecord, ClPc
    <3> QED
      BY <1>3, <1>q, <2>1, <3>1, <3>2
      DEF CleanBegin, TypeOK, LifeTypeOK, StoreTypeOK
  <2>3. CASE Exit(c) /\ UNCHANGED sweep
    BY <1>3, <1>q, <1>x, <2>1, <2>3
    DEF CleanBegin, TypeOK, LifeTypeOK, StoreTypeOK
  <2> QED
    BY <1>3, <2>2, <2>3 DEF CleanBegin, CleanDrive, CleanDriveThrows
<1>4. CASE CleanRefused(c)
  <2>1. rec' \in [Runs -> RunRecord \cup {Absent}] /\ faults' \in 0..MaxFaults
    BY <1>4, <1>d DEF CleanRefused, RunState, Exit
  <2>2. cl' \in [Cleaners -> ClRecord]
    BY <1>4, <1>x DEF CleanRefused, CleanDrive, CleanDriveThrows
  <2>3. sweep' \in [Actors -> SweepRecord]
    BY <1>t, <1>4, EndSweepType DEF CleanRefused
  <2> QED
    BY <1>4, <1>q, <2>1, <2>2, <2>3
    DEF CleanRefused, TypeOK, LifeTypeOK, StoreTypeOK
<1>5. CASE CleanRecover(c)
  <2>1. cl' \in [Cleaners -> ClRecord]
    <3>1. Unsettled(cl[c].run) \in SUBSET Writes
      BY DEF Unsettled
    <3> QED
      BY <1>t, <1>5, <1>x, <3>1 DEF CleanRecover, ClRecord, ClPc
  <2>2. faults' \in 0..MaxFaults
    BY <1>5, FailType DEF CleanRecover, TypeOK, StoreTypeOK
  <2>3. sweep' \in [Actors -> SweepRecord]
    BY <1>t, <1>5, EndSweepType DEF CleanRecover
  <2> QED
    BY <1>5, <1>q, <2>1, <2>2, <2>3
    DEF CleanRecover, TypeOK, LifeTypeOK, StoreTypeOK
<1>6. CASE CleanCompensate(c)
  <2>1. PICK w \in Last(cl[c].todo) :
          \/ /\ entry' = [entry EXCEPT ![cl[c].run][w] = "compensated"]
             /\ cl' = [cl EXCEPT ![c].todo = @ \ {w}]
             /\ UNCHANGED faults
          \/ /\ LedgerFail
             /\ entry' \in {entry,
                  [entry EXCEPT ![cl[c].run][w] = "compensated"]}
             /\ Exit(c)
    BY <1>6 DEF CleanCompensate
  <2>2. cl' \in [Cleaners -> ClRecord]
    <3>0. cl[c].todo \ {w} \in SUBSET Writes
      BY <1>t DEF ClRecord
    <3>1. [cl[c] EXCEPT !.todo = @ \ {w}] \in ClRecord
      BY <1>t, <3>0 DEF ClRecord
    <3>2. CASE cl' = [cl EXCEPT ![c].todo = @ \ {w}]
      BY <1>t, <3>1, <3>2
    <3> QED
      BY <1>x, <2>1, <3>2
  <2>3. entry' \in [Runs -> [Writes -> EntryState \cup {"none"}]]
    <3> DEFINE written == [entry EXCEPT ![cl[c].run][w] = "compensated"]
    <3>1. [entry[cl[c].run] EXCEPT ![w] = "compensated"]
            \in [Writes -> EntryState \cup {"none"}]
      BY <1>t DEF TypeOK, LifeTypeOK, EntryState
    <3>2. written \in [Runs -> [Writes -> EntryState \cup {"none"}]]
      BY <1>t, <3>1 DEF TypeOK, LifeTypeOK
    <3>3. entry' \in {entry, written}
      BY <2>1
    <3> HIDE DEF written
    <3> QED
      BY <3>2, <3>3 DEF TypeOK, LifeTypeOK
  <2>4. faults' \in 0..MaxFaults
    BY <2>1, FailType DEF TypeOK, StoreTypeOK
  <2> QED
    BY <1>6, <1>q, <2>2, <2>3, <2>4
    DEF CleanCompensate, TypeOK, LifeTypeOK, StoreTypeOK, instance
<1>7. CASE CleanDone(c)
  <2>1. rec' \in [Runs -> RunRecord \cup {Absent}] /\ faults' \in 0..MaxFaults
    BY <1>7, <1>d DEF CleanDone, RunState, Exit
  <2>2. cl' \in [Cleaners -> ClRecord]
    BY <1>7, <1>x DEF CleanDone, CleanDrive, CleanDriveThrows
  <2> QED
    BY <1>7, <1>q, <2>1, <2>2
    DEF CleanDone, TypeOK, LifeTypeOK, StoreTypeOK, instance
<1> QED
  BY <1>1, <1>2, <1>3, <1>4, <1>5, <1>6, <1>7 DEF CleanerStep

LEMMA CleanCrashType ==
  ASSUME TypeOK, NEW c \in Cleaners, CleanCrash(c)
  PROVE  TypeOK'
<1>1. cl' \in [Cleaners -> ClRecord]
  BY ExitType DEF CleanCrash, TypeOK, LifeTypeOK
<1>2. sweep' \in [Actors -> SweepRecord]
  BY EndSweepType DEF CleanCrash, Actors
<1>3. crashes' \in 0..MaxCrashes
  BY LifecycleAssumption DEF CleanCrash, TypeOK, LifeTypeOK
<1> QED
  BY <1>1, <1>2, <1>3 DEF CleanCrash, TypeOK, LifeTypeOK, StoreTypeOK

LEMMA InitType ==
  ASSUME Init
  PROVE  TypeOK
<1>1. StoreTypeOK
  <2>1. sweep \in [Actors -> SweepRecord]
    BY CountsAssumption
    DEF Init, StoreInit, NoSweep, SweepRecord, SweepPc
  <2>2. exec \in [Owners -> [Groups -> ExecState]]
    BY DEF Init, StoreInit, ExecState
  <2> QED
    BY <2>1, <2>2, CountsAssumption DEF Init, StoreInit, StoreTypeOK
<1>2. own \in [Owners -> OwnRecord]
  BY DEF Init, OwnRecord, OwnPc, RunState, TeardownEnds
<1>3. cl \in [Cleaners -> ClRecord]
  BY CountsAssumption DEF Init, ClRecord, ClPc
<1>4. rec \in [Runs -> RunRecord \cup {Absent}]
  BY DEF Init
<1>5. entry \in [Runs -> [Writes -> EntryState \cup {"none"}]]
  BY DEF Init
<1>6. crashes \in 0..MaxCrashes
  BY LifecycleAssumption DEF Init
<1> QED
  BY <1>1, <1>2, <1>3, <1>4, <1>5, <1>6 DEF TypeOK, LifeTypeOK

LEMMA NextType ==
  ASSUME TypeOK, [Next]_vars
  PROVE  TypeOK'
<1>1. CASE \E o \in Owners : OwnerStep(o) \/ Abort(o) \/ Crash(o)
  BY <1>1, OwnerStepType, InterruptType
<1>2. CASE \E c \in Cleaners : CleanerStep(c) \/ CleanCrash(c)
  BY <1>2, CleanerStepType, CleanCrashType
<1>3. CASE \E a \in Actors : (SweepStep(a) \/ FailSweep(a)) /\ UNCHANGED lifeVars
  BY <1>3, SweepTypes DEF TypeOK, LifeTypeOK, lifeVars
<1>4. CASE InstanceNext /\ UNCHANGED lifeVars
  BY <1>4, InstanceTypes DEF TypeOK, LifeTypeOK, lifeVars
<1>5. CASE UNCHANGED vars
  BY <1>5 DEF vars, storeVars, lifeVars, TypeOK, LifeTypeOK, StoreTypeOK
<1> QED
  BY <1>1, <1>2, <1>3, <1>4, <1>5 DEF Next

(***************************************************************************)
(* Type correctness of the whole lifecycle: every value an actor, the      *)
(* ledger or the instance holds is one the code can give it.               *)
(***************************************************************************)
THEOREM TypeCorrect == Spec => []TypeOK
<1>1. Init => TypeOK
  BY InitType
<1>2. TypeOK /\ [Next]_vars => TypeOK'
  BY NextType
<1> QED
  BY <1>1, <1>2, PTL DEF Spec


------------------------------------------------------------------------------
(* What a step of an owner does to its own local state and to its record. *)

LEMMA OwnerEffect ==
  ASSUME own \in [Owners -> OwnRecord], NEW o \in Owners,
         NEW s, Owner(o, s)
  PROVE  /\ own'[o] = s
         /\ \A p \in Owners \ {o} : own'[p] = own[p]
BY DEF Owner

LEMMA GotoEffect ==
  ASSUME own \in [Owners -> OwnRecord], NEW o \in Owners,
         NEW p, Goto(o, p)
  PROVE  /\ own'[o].pc = p /\ own'[o].at = own[o].at
         /\ \A q \in Owners \ {o} : own'[q] = own[q]
BY DEF Goto, OwnRecord

LEMMA ToEffect ==
  ASSUME own \in [Owners -> OwnRecord], NEW o \in Owners, NEW p
  PROVE  To(o, p).pc = p /\ To(o, p).at = own[o].at
BY DEF To, OwnRecord

LEMMA ThrownEffect ==
  ASSUME own \in [Owners -> OwnRecord], NEW o \in Owners
  PROVE  Thrown(o).pc \in {"abandon", "collect"}
BY ToEffect DEF Thrown

LEMMA TransitionedKeeps ==
  ASSUME NEW record \in RunRecord \cup {Absent}, NEW to
  PROVE  /\ record.ran => Transitioned(record, to).ran
         /\ to = "running" => Transitioned(record, to).ran
BY DEF Transitioned, RunRecord, Absent

LEMMA AdvanceEffect ==
  ASSUME own \in [Owners -> OwnRecord], NEW o \in Owners, NEW last,
         NEW here \in OwnPc, NEW next \in OwnPc
  PROVE  LET s == Advance(o, last, here, next) IN
         \/ own[o].at < last /\ s.pc = here /\ s.at = own[o].at + 1
         \/ ~(own[o].at < last) /\ s.pc = next
<1>1. /\ To(o, here) \in OwnRecord /\ To(o, here).at = own[o].at
      /\ To(o, next) \in OwnRecord
      /\ To(o, here).pc = here /\ To(o, next).pc = next
  BY ToType, ToEffect
<1>2. /\ [To(o, here) EXCEPT !.at = @ + 1].pc = here
      /\ [To(o, here) EXCEPT !.at = @ + 1].at = own[o].at + 1
      /\ [To(o, next) EXCEPT !.at = 1].pc = next
  BY <1>1 DEF OwnRecord
<1> QED
  BY <1>2 DEF Advance

\* Local steps that overwrite other fields leave the pc of To(o, p) alone.
LEMMA FieldsKeepPc ==
  ASSUME NEW s \in OwnRecord
  PROVE  /\ \A x : [s EXCEPT !.view = x].pc = s.pc
         /\ \A x : [s EXCEPT !.at = x].pc = s.pc
         /\ \A x : [s EXCEPT !.closed = x].pc = s.pc
         /\ \A x : [s EXCEPT !.todo = x].pc = s.pc
         /\ \A x : [s EXCEPT !.goal = x].pc = s.pc
         /\ \A x, y : [s EXCEPT !.attempted = x, !.at = y].pc = s.pc
BY DEF OwnRecord

\* A transition of the ledger moves the record forward and nothing else.
LEMMA DriveEffect ==
  ASSUME TypeOK, NEW o \in Owners, NEW to, NEW landed \in OwnRecord,
         NEW refused \in OwnRecord, Drive(o, to, landed, refused)
  PROVE  /\ \A r \in Runs : rec[r].ran => rec'[r].ran
         /\ \/ own'[o] = refused
            \/ /\ own'[o] = [landed EXCEPT !.view = to]
               /\ to = "running" => rec'[RunOf[o]].ran
         /\ \A p \in Owners \ {o} : own'[p] = own[p]
         /\ UNCHANGED <<rows, late, exec, entry>>
<1>t. /\ own \in [Owners -> OwnRecord] /\ RunOf[o] \in Runs
      /\ rec \in [Runs -> RunRecord \cup {Absent}]
  BY RunOfAssumption DEF TypeOK, LifeTypeOK
<1>1. \/ /\ rec' = [rec EXCEPT ![RunOf[o]] = Transitioned(@, to)]
         /\ Owner(o, [landed EXCEPT !.view = to])
      \/ UNCHANGED rec /\ Owner(o, refused)
  BY DEF Drive
<1>2. UNCHANGED <<rows, late, exec, entry>>
  BY DEF Drive, instance
<1>3. CASE /\ rec' = [rec EXCEPT ![RunOf[o]] = Transitioned(@, to)]
           /\ Owner(o, [landed EXCEPT !.view = to])
  <2>1. \A r \in Runs : rec[r].ran => rec'[r].ran
    BY <1>t, <1>3, TransitionedKeeps
  <2>2. to = "running" => rec'[RunOf[o]].ran
    BY <1>t, <1>3, TransitionedKeeps
  <2> QED
    BY <1>t, <1>2, <1>3, <2>1, <2>2, OwnerEffect
<1>4. CASE UNCHANGED rec /\ Owner(o, refused)
  BY <1>t, <1>2, <1>4, OwnerEffect
<1> QED
  BY <1>1, <1>3, <1>4

\* A journalled flip changes one entry and leaves the instance alone.
LEMMA JournalEffect ==
  ASSUME TypeOK, NEW o \in Owners, NEW w, NEW allowed, NEW state,
         NEW landed, NEW thrown, state # "none",
         Journal(o, w, allowed, state, landed, thrown)
  PROVE  /\ \A r \in Runs, v \in Writes :
              entry[r][v] # "none" => entry'[r][v] # "none"
         /\ \/ own'[o] = thrown
            \/ /\ own'[o] = landed
               /\ w \in Writes => entry'[RunOf[o]][w] # "none"
         /\ \A p \in Owners \ {o} : own'[p] = own[p]
         /\ UNCHANGED <<rows, late, exec, rec>>
<1> DEFINE written == [entry EXCEPT ![RunOf[o]][w] = state]
<1>t. /\ own \in [Owners -> OwnRecord] /\ RunOf[o] \in Runs
      /\ \A r \in Runs : entry[r] \in [Writes -> EntryState \cup {"none"}]
      /\ entry \in [Runs -> [Writes -> EntryState \cup {"none"}]]
  BY RunOfAssumption DEF TypeOK, LifeTypeOK
<1>1. \/ entry' = written /\ Owner(o, landed)
      \/ entry' \in {entry, written} /\ Owner(o, thrown)
  BY DEF Journal
<1>2. UNCHANGED <<rows, late, exec, rec>>
  BY DEF Journal, instance
<1>3. \A r \in Runs, v \in Writes :
        entry[r][v] # "none" => written[r][v] # "none"
  BY <1>t
<1>4. w \in Writes => written[RunOf[o]][w] # "none"
  BY <1>t
<1> HIDE DEF written
<1> QED
  BY <1>t, <1>1, <1>2, <1>3, <1>4, OwnerEffect

------------------------------------------------------------------------------
(* The stamp. *)

\* The steps of a driving owner that go through the ledger's transition.
Drives(o) ==
  \/ Provision(o) \/ BeginProjection(o) \/ EnterRunning(o) \/ Abandon(o)
  \/ Collect(o) \/ BeginTeardown(o) \/ Settle(o)

\* The steps that flip an entry.
Journals(o) ==
  \/ IntendSpec(o) \/ ConfirmSpec(o) \/ IntendTrigger(o)
  \/ ConfirmTrigger(o) \/ Compensate(o)

\* No step of an owner takes the runningAt stamp back.
LEMMA OwnerKeepsStamp ==
  ASSUME TypeOK, NEW o \in Owners, OwnerStep(o), NEW r \in Runs
  PROVE  rec[r].ran => rec'[r].ran
<1>t. /\ own \in [Owners -> OwnRecord] /\ own[o] \in OwnRecord
      /\ RunOf[o] \in Runs /\ rec \in [Runs -> RunRecord \cup {Absent}]
  BY RunOfAssumption DEF TypeOK, LifeTypeOK
<1>n. Thrown(o) \in OwnRecord /\ \A p \in OwnPc : To(o, p) \in OwnRecord
  BY <1>t, ThrownType, ToType
<1>1. CASE Open(o)
  <2>1. CASE rec[RunOf[o]] = Absent
    <3>1. ~rec[RunOf[o]].ran
      BY <2>1 DEF Absent
    <3>2. UNCHANGED rec \/ \E x : rec' = [rec EXCEPT ![RunOf[o]] = x]
      BY <1>1 DEF Open
    <3> QED
      BY <1>t, <3>1, <3>2
  <2>2. CASE rec[RunOf[o]] # Absent
    BY <1>1, <2>2 DEF Open
  <2> QED
    BY <2>1, <2>2
<1>2. CASE Drives(o)
  <2>1. UNCHANGED rec \/ \E to : rec' = [rec EXCEPT ![RunOf[o]] =
                                          Transitioned(@, to)]
    BY <1>2 DEF Drives, Provision, BeginProjection, EnterRunning, Abandon,
                Collect, BeginTeardown, Settle, Aborted, Close, Drive
  <2> QED
    BY <1>t, <2>1, TransitionedKeeps
<1>3. CASE ~Open(o) /\ ~Drives(o)
  <2>1. UNCHANGED rec
    BY <1>3 DEF OwnerStep, Drives, Scan, AssertFresh, ReadStages, VerifyInfra,
       IntendSpec, AcquireLock, CheckNamespace, Create, Projected,
       ConfirmSpec, RunLoop, IntendTrigger, CallRunner, RunnerSettles,
       ConfirmTrigger, FlushReporters, CountTriggers, Swept, Recover,
       Compensate, Compensated, ReadBack, Report, Close, Intend, Confirm,
       Journal
  <2> QED
    BY <2>1
<1> QED
  BY <1>1, <1>2, <1>3

(***************************************************************************)
(* Local states outside the projection and the trigger loop, and the steps *)
(* that lead to one.                                                       *)
(***************************************************************************)
Staged == TriggerLoop \cup Projection

Outside == { s \in OwnRecord : s.pc \notin Staged }

LEMMA OutsideTo ==
  ASSUME own \in [Owners -> OwnRecord], NEW o \in Owners
  PROVE  /\ \A p \in OwnPc \ Staged : To(o, p) \in Outside
         /\ Thrown(o) \in Outside
BY ToType, ToEffect, ThrownType, ThrownEffect DEF Outside, Staged, TriggerLoop, Projection

LEMMA OutsideFields ==
  ASSUME NEW s \in Outside
  PROVE  /\ \A x \in RunState : [s EXCEPT !.view = x] \in Outside
         /\ \A x \in Nat : [s EXCEPT !.at = x] \in Outside
         /\ [s EXCEPT !.closed = TRUE] \in Outside
         /\ \A x \in SUBSET Writes : [s EXCEPT !.todo = x] \in Outside
         /\ \A x \in TeardownEnds : [s EXCEPT !.goal = x] \in Outside
         /\ \A x \in Nat :
              [s EXCEPT !.attempted = TRUE, !.at = x] \in Outside
<1>1. s \in OwnRecord /\ s.pc \notin Staged
  BY DEF Outside
<1>2. /\ \A x \in RunState : [s EXCEPT !.view = x] \in OwnRecord
      /\ \A x \in Nat : [s EXCEPT !.at = x] \in OwnRecord
      /\ [s EXCEPT !.closed = TRUE] \in OwnRecord
      /\ \A x \in SUBSET Writes : [s EXCEPT !.todo = x] \in OwnRecord
      /\ \A x \in TeardownEnds : [s EXCEPT !.goal = x] \in OwnRecord
      /\ \A x \in Nat :
           [s EXCEPT !.attempted = TRUE, !.at = x] \in OwnRecord
  BY <1>1 DEF OwnRecord
<1> QED
  BY <1>1, <1>2, FieldsKeepPc DEF Outside, OwnRecord

LEMMA OwnerLeaves ==
  ASSUME own \in [Owners -> OwnRecord], NEW o \in Owners,
         NEW s \in Outside, Owner(o, s)
  PROVE  own'[o].pc \notin Staged
BY OwnerEffect DEF Outside

LEMMA GotoLeaves ==
  ASSUME own \in [Owners -> OwnRecord], NEW o \in Owners,
         NEW p \in OwnPc \ Staged, Goto(o, p)
  PROVE  own'[o].pc \notin Staged
BY GotoEffect

LEMMA DriveLeaves ==
  ASSUME TypeOK, NEW o \in Owners, NEW to \in RunState, NEW landed \in Outside,
         NEW refused \in Outside, Drive(o, to, landed, refused)
  PROVE  own'[o].pc \notin Staged
<1>1. own \in [Owners -> OwnRecord]
  BY DEF TypeOK, LifeTypeOK
<1>2. Owner(o, refused) \/ Owner(o, [landed EXCEPT !.view = to])
  BY DEF Drive
<1>3. [landed EXCEPT !.view = to] \in Outside
  BY OutsideFields
<1> QED
  BY <1>1, <1>2, <1>3, OwnerLeaves

LEMMA JournalLeaves ==
  ASSUME own \in [Owners -> OwnRecord], NEW o \in Owners, NEW w, NEW allowed,
         NEW state, NEW landed \in Outside, NEW thrown \in Outside,
         Journal(o, w, allowed, state, landed, thrown)
  PROVE  own'[o].pc \notin Staged
BY OwnerLeaves DEF Journal

\* The steps inside the projection and the trigger loop.
Stages(o) ==
  \/ BeginProjection(o) \/ IntendSpec(o) \/ AcquireLock(o)
  \/ CheckNamespace(o) \/ Create(o) \/ EnterRunning(o) \/ RunLoop(o)
  \/ IntendTrigger(o) \/ CallRunner(o) \/ RunnerSettles(o)
  \/ ConfirmTrigger(o)

LEMMA Elsewhere ==
  ASSUME TypeOK, NEW o \in Owners, OwnerStep(o), ~Stages(o)
  PROVE  own'[o].pc \notin Staged
<1>t. /\ own \in [Owners -> OwnRecord] /\ own[o] \in OwnRecord
      /\ RunOf[o] \in Runs
  BY RunOfAssumption DEF TypeOK, LifeTypeOK
<1>f. /\ \A p \in OwnPc \ Staged : To(o, p) \in Outside
      /\ Thrown(o) \in Outside
  BY <1>t, OutsideTo
<1>g. \A goal \in TeardownEnds : SettleTo(o, goal) \in Outside
  BY <1>f, OutsideFields DEF SettleTo, OwnPc, Staged, TriggerLoop, Projection
<1>h. TypeOK /\ own \in [Owners -> OwnRecord]
  BY <1>t
<1>3. CASE Drives(o)
  <2>1. CASE Provision(o)
    BY <1>f, <1>h, <2>1, OwnerLeaves, DriveLeaves
    DEF Provision, Aborted, Staged, TriggerLoop, Projection, OwnPc, RunState
  <2>3. CASE Abandon(o)
    <3>1. [To(o, "abandoned") EXCEPT !.closed = TRUE] \in Outside
      BY <1>f, OutsideFields DEF OwnPc, Staged, TriggerLoop, Projection
    <3> QED
      BY <1>f, <1>h, <2>3, <3>1, OwnerLeaves, DriveLeaves
      DEF Abandon, Close, Staged, TriggerLoop, Projection, OwnPc, RunState
  <2>4. CASE Collect(o)
    BY <1>f, <1>h, <2>4, GotoLeaves, DriveLeaves
    DEF Collect, Staged, TriggerLoop, Projection, OwnPc, RunState
  <2>5. CASE BeginTeardown(o)
    BY <1>f, <1>h, <2>5, DriveLeaves
    DEF BeginTeardown, Staged, TriggerLoop, Projection, OwnPc, RunState
  <2>6. CASE Settle(o)
    <3>1. own[o].goal \in RunState
      BY <1>t DEF OwnRecord, TeardownEnds, RunState
    <3> QED
      BY <1>f, <1>h, <2>6, <3>1, DriveLeaves DEF Settle, Staged, TriggerLoop, Projection, OwnPc
  <2> QED
    BY <1>3, <2>1, <2>3, <2>4, <2>5, <2>6 DEF Drives, Stages
<1>4. CASE ConfirmSpec(o) \/ Compensate(o)
  <2>1. ASSUME NEW last, NEW here \in OwnPc \ Staged,
               NEW next \in OwnPc \ Staged
        PROVE  Advance(o, last, here, next) \in Outside
    <3>1. Advance(o, last, here, next) \in OwnRecord
      BY <1>t, AdvanceType
    <3> QED
      BY <1>t, <3>1, AdvanceEffect DEF Outside
  <2>3. CASE ConfirmSpec(o)
    <3>1. Advance(o, NSpecs, "confirm", "enter") \in Outside
      BY <2>1 DEF Staged, TriggerLoop, Projection, OwnPc
    <3> QED
      BY <1>f, <1>h, <2>3, <3>1, JournalLeaves DEF ConfirmSpec, Confirm
  <2>4. CASE Compensate(o)
    <3>1. own[o] \in Outside
      BY <1>t, <2>4
      DEF Compensate, AtPc, Outside, Staged, TriggerLoop, Projection
    <3>2. \A w : own[o].todo \ {w} \in SUBSET Writes
      BY <1>t DEF OwnRecord
    <3>3. \A w : [own[o] EXCEPT !.todo = @ \ {w}] \in Outside
      BY <3>1, <3>2, OutsideFields
    <3>4. SettleTo(o, "failed") \in Outside
      BY <1>g DEF TeardownEnds
    <3>5. [SettleTo(o, "failed") EXCEPT !.todo = {}] \in Outside
      BY <3>4, OutsideFields
    <3> QED
      BY <1>h, <2>4, <3>3, <3>5, JournalLeaves DEF Compensate
  <2> QED
    BY <1>4, <2>3, <2>4
<1>5. CASE \/ Scan(o) \/ Open(o) \/ AssertFresh(o) \/ ReadStages(o)
           \/ VerifyInfra(o) \/ Projected(o)
  <2>1. CASE Scan(o) \/ AssertFresh(o) \/ ReadStages(o) \/ VerifyInfra(o)
    BY <1>f, <1>h, <2>1, GotoLeaves, OwnerLeaves
    DEF Scan, AssertFresh, ReadStages, VerifyInfra, Staged, TriggerLoop, Projection, OwnPc
  <2>2. CASE Open(o)
    <3>1. To(o, "fresh") \in Outside
      BY <1>f DEF OwnPc, Staged, TriggerLoop, Projection
    <3>2. rec[RunOf[o]] # Absent => rec[RunOf[o]].state \in RunState
      BY <1>t DEF TypeOK, LifeTypeOK, RunRecord
    <3>3. "planned" \in RunState
      BY DEF RunState
    <3>4. \/ Goto(o, "refused")
          \/ Owner(o, [To(o, "fresh") EXCEPT !.view = "planned"])
          \/ /\ rec[RunOf[o]] # Absent
             /\ Owner(o, [To(o, "fresh") EXCEPT !.view = rec[RunOf[o]].state])
      BY <2>2 DEF Open
    <3> QED
      BY <1>h, <3>1, <3>2, <3>3, <3>4, OutsideFields, GotoLeaves, OwnerLeaves
      DEF OwnPc, Staged, TriggerLoop, Projection
  <2>5. CASE Projected(o)
    <3>1. [To(o, "confirm") EXCEPT !.at = 1] \in Outside
      BY <1>f, OutsideFields DEF OwnPc, Staged, TriggerLoop, Projection
    <3> QED
      BY <1>h, <2>5, <3>1, OwnerLeaves DEF Projected
  <2> QED
    BY <1>5, <2>1, <2>2, <2>5
<1>6. CASE \/ FlushReporters(o) \/ CountTriggers(o) \/ Swept(o) \/ Recover(o)
           \/ Compensated(o) \/ ReadBack(o) \/ Report(o)
  <2>1. CASE FlushReporters(o) \/ Report(o)
    <3>1. /\ [To(o, "teardown") EXCEPT !.closed = TRUE] \in Outside
          /\ [To(o, "finished") EXCEPT !.closed = TRUE] \in Outside
      BY <1>f, OutsideFields DEF OwnPc, Staged, TriggerLoop, Projection
    <3> QED
      BY <1>h, <2>1, <3>1, OwnerLeaves DEF FlushReporters, Close, Report
  <2>2. CASE CountTriggers(o) \/ Compensated(o)
    BY <1>h, <2>2, GotoLeaves
    DEF CountTriggers, Compensated, Staged, TriggerLoop, Projection, OwnPc
  <2>3. CASE Swept(o) \/ ReadBack(o)
    BY <1>g, <1>h, <2>3, GotoLeaves, OwnerLeaves
    DEF Swept, ReadBack, Staged, TriggerLoop, Projection, OwnPc, TeardownEnds
  <2>4. CASE Recover(o)
    <3>1. [To(o, "compensate") EXCEPT !.todo = Unsettled(RunOf[o])] \in Outside
      BY <1>f, OutsideFields DEF OwnPc, Staged, TriggerLoop, Projection, Unsettled
    <3> QED
      BY <1>g, <1>h, <2>4, <3>1, OwnerLeaves DEF Recover, TeardownEnds
  <2> QED
    BY <1>6, <2>1, <2>2, <2>3, <2>4
<1> QED
  BY <1>3, <1>4, <1>5, <1>6 DEF OwnerStep, Drives, Stages

\* An owner enters the trigger loop with the transition to running only.
LEMMA LoopIsStamped ==
  ASSUME TypeOK, StampedInLoop, NEW o \in Owners, OwnerStep(o),
         own'[o].pc \in TriggerLoop
  PROVE  rec'[RunOf[o]].ran /\ own'[o].at >= 1
<1>t. /\ own \in [Owners -> OwnRecord] /\ own[o] \in OwnRecord
      /\ RunOf[o] \in Runs /\ own[o].at \in Nat
  BY RunOfAssumption DEF TypeOK, LifeTypeOK, OwnRecord
<1>n. Thrown(o).pc \notin TriggerLoop
  BY <1>t, ThrownEffect DEF TriggerLoop
<1>1. CASE EnterRunning(o)
  <2>1. CASE Aborted(o, "enter")
    BY <1>t, <1>n, <2>1, OwnerEffect DEF Aborted
  <2>2. CASE ~Aborted(o, "enter")
    <3> DEFINE entered(p) == [To(o, p) EXCEPT !.entered = TRUE, !.at = 1]
    <3>1. Drive(o, "running", entered("next"), entered("collect"))
      BY <1>1, <2>2 DEF EnterRunning
    <3>2. \A p \in OwnPc : To(o, p) \in OwnRecord
      BY <1>t, ToType
    <3>3. /\ To(o, "next") \in OwnRecord /\ To(o, "collect") \in OwnRecord
          /\ To(o, "next").pc = "next" /\ To(o, "collect").pc = "collect"
      BY <1>t, <3>2, ToEffect DEF OwnPc
    <3>4. /\ entered("next") \in OwnRecord /\ entered("collect") \in OwnRecord
          /\ entered("next").at = 1 /\ entered("collect").pc = "collect"
      BY <3>3 DEF OwnRecord
    <3>5. [entered("next") EXCEPT !.view = "running"].at = 1
      BY <3>4 DEF OwnRecord
    <3> HIDE DEF entered
    <3>6. \/ own'[o] = entered("collect")
          \/ /\ own'[o] = [entered("next") EXCEPT !.view = "running"]
             /\ rec'[RunOf[o]].ran
      BY <3>1, <3>4, DriveEffect
    <3>7. own'[o] # entered("collect")
      BY <3>4 DEF TriggerLoop
    <3>8. own'[o].at = 1
      BY <3>5, <3>6, <3>7
    <3>9. own'[o].at >= 1
      BY <3>8
    <3> QED
      BY <3>6, <3>7, <3>9
  <2> QED
    BY <2>1, <2>2
<1>2. CASE RunLoop(o) \/ IntendTrigger(o) \/ CallRunner(o) \/ RunnerSettles(o)
           \/ ConfirmTrigger(o)
  <2>1. own[o].pc \in TriggerLoop
    BY <1>2 DEF RunLoop, IntendTrigger, CallRunner, RunnerSettles,
                ConfirmTrigger, AtPc, TriggerLoop
  <2>2. own'[o].at >= own[o].at
    <3>1. CASE RunLoop(o) \/ CallRunner(o) \/ RunnerSettles(o)
      BY <1>t, <3>1, GotoEffect DEF RunLoop, CallRunner, RunnerSettles
    <3>2. CASE IntendTrigger(o)
      <4>1. Owner(o, To(o, "call")) \/ Owner(o, Thrown(o))
        BY <3>2 DEF IntendTrigger, Intend, Journal
      <4> QED
        BY <1>t, <1>n, <4>1, OwnerEffect, ToEffect
    <3>3. CASE ConfirmTrigger(o)
      <4>1. \/ Owner(o, [To(o, "next") EXCEPT !.at = @ + 1])
            \/ Owner(o, Thrown(o))
        BY <3>3 DEF ConfirmTrigger, Confirm, Journal
      <4>2. To(o, "next") \in OwnRecord
        BY <1>t, ToType DEF OwnPc
      <4>3. [To(o, "next") EXCEPT !.at = @ + 1].at = own[o].at + 1
        BY <1>t, <4>2, ToEffect DEF OwnRecord
      <4>4. \/ own'[o] = [To(o, "next") EXCEPT !.at = @ + 1]
            \/ own'[o] = Thrown(o)
        BY <1>t, <4>1, OwnerEffect
      <4>5. own[o].at + 1 >= own[o].at
        BY <1>t
      <4> QED
        BY <1>n, <4>3, <4>4, <4>5
    <3> QED
      BY <1>2, <3>1, <3>2, <3>3
  <2>3. rec[RunOf[o]].ran /\ own[o].at >= 1
    BY <2>1 DEF StampedInLoop
  <2>4. own'[o].at \in Nat
    BY OwnerStepType DEF TypeOK, LifeTypeOK, OwnRecord
  <2> QED
    BY <1>t, <2>2, <2>3, <2>4, OwnerKeepsStamp
<1>3. CASE \/ BeginProjection(o) \/ IntendSpec(o) \/ AcquireLock(o)
           \/ CheckNamespace(o) \/ Create(o)
  <2>1. CASE BeginProjection(o)
    <3> DEFINE s == [To(o, "intend") EXCEPT !.attempted = TRUE, !.at = 1]
    <3>1. To(o, "intend") \in OwnRecord /\ To(o, "intend").pc = "intend"
      BY <1>t, ToType, ToEffect DEF OwnPc
    <3>2. s.pc = "intend" /\ s \in OwnRecord
      BY <3>1 DEF OwnRecord
    <3>3. [s EXCEPT !.view = "projecting"].pc = "intend"
      BY <3>2, FieldsKeepPc
    <3>4. \/ Owner(o, [s EXCEPT !.view = "projecting"])
          \/ Owner(o, Thrown(o))
      BY <2>1 DEF BeginProjection, Aborted, Drive
    <3> HIDE DEF s
    <3> QED
      BY <1>t, <1>n, <3>3, <3>4, OwnerEffect DEF TriggerLoop
  <2>2. CASE IntendSpec(o)
    <3>1. \/ Owner(o, Advance(o, NSpecs, "intend", "lock"))
          \/ Owner(o, Thrown(o))
      BY <2>2 DEF IntendSpec, Intend, Journal
    <3>2. "intend" \in OwnPc /\ "lock" \in OwnPc
      BY DEF OwnPc
    <3>3. \/ Advance(o, NSpecs, "intend", "lock").pc = "intend"
          \/ Advance(o, NSpecs, "intend", "lock").pc = "lock"
      BY <1>t, <3>2, AdvanceEffect
    <3> QED
      BY <1>t, <1>n, <3>1, <3>3, OwnerEffect DEF TriggerLoop
  <2>3. CASE AcquireLock(o) \/ CheckNamespace(o)
    BY <1>t, <1>n, <2>3, GotoEffect, OwnerEffect
    DEF AcquireLock, CheckNamespace, TriggerLoop
  <2>4. CASE Create(o)
    <3>1. UNCHANGED own \/ Owner(o, Thrown(o))
      BY <2>4 DEF Create
    <3> QED
      BY <1>t, <1>n, <2>4, <3>1, OwnerEffect DEF Create, AtPc, TriggerLoop
  <2> QED
    BY <1>3, <2>1, <2>2, <2>3, <2>4
<1>4. CASE ~Stages(o)
  BY <1>4, Elsewhere DEF Staged
<1> QED
  BY <1>1, <1>2, <1>3, <1>4 DEF Stages

------------------------------------------------------------------------------
(* Who triggers, and who cannot take a claim back. *)

\* Only the runner call of an owner starts an execution.
LEMMA OwnerTriggers ==
  ASSUME TypeOK, NEW o \in Owners, OwnerStep(o)
  PROVE  \/ UNCHANGED exec
         \/ /\ own[o].pc = "call"
            /\ exec' = [exec EXCEPT ![o][own[o].at] = "sent"]
            /\ UNCHANGED <<rec, entry>>
<1>1. CASE CallRunner(o)
  BY <1>1 DEF CallRunner, AtPc
<1>2. CASE Drives(o) \/ Journals(o)
  BY <1>2
  DEF Drives, Provision, BeginProjection, EnterRunning, Abandon, Collect,
      BeginTeardown, Settle, Aborted, Close, Drive, Journals, IntendSpec,
      ConfirmSpec, IntendTrigger, ConfirmTrigger, Compensate, Intend, Confirm,
      Journal, instance
<1>3. CASE ~CallRunner(o) /\ ~Drives(o) /\ ~Journals(o)
  BY <1>3
  DEF OwnerStep, Drives, Journals, Scan, Open, AssertFresh, ReadStages,
      VerifyInfra, AcquireLock, CheckNamespace, Create, Projected, RunLoop,
      RunnerSettles, FlushReporters, Close, CountTriggers, Swept, Recover,
      Compensated, ReadBack, Report, instance
<1> QED
  BY <1>1, <1>2, <1>3

LEMMA OthersStay ==
  ASSUME TypeOK, NEW o \in Owners, OwnerStep(o), NEW p \in Owners \ {o}
  PROVE  own'[p] = own[p]
<1>t. own \in [Owners -> OwnRecord]
  BY DEF TypeOK, LifeTypeOK
<1>1. UNCHANGED own \/ (\E s : Owner(o, s)) \/ (\E q : Goto(o, q))
  <2>1. CASE Drives(o) \/ Journals(o)
    BY <2>1
    DEF Drives, Provision, BeginProjection, EnterRunning, Abandon, Collect,
        BeginTeardown, Settle, Aborted, Close, Drive, Journals, IntendSpec,
        ConfirmSpec, IntendTrigger, ConfirmTrigger, Compensate, Intend,
        Confirm, Journal
  <2>2. CASE ~Drives(o) /\ ~Journals(o)
    BY <2>2
    DEF OwnerStep, Drives, Journals, Scan, Open, AssertFresh, ReadStages,
        VerifyInfra, AcquireLock, CheckNamespace, Create, Projected, RunLoop,
        CallRunner, RunnerSettles, FlushReporters, Close, CountTriggers,
        Swept, Recover, Compensated, ReadBack, Report
  <2> QED
    BY <2>1, <2>2
<1> QED
  BY <1>t, <1>1 DEF Owner, Goto

\* Abort and Crash touch neither the record nor the instance's executions.
LEMMA InterruptEffect ==
  ASSUME TypeOK, NEW o \in Owners, Abort(o) \/ Crash(o)
  PROVE  /\ UNCHANGED <<rec, entry, exec, rows>>
         /\ \A p \in Owners : \/ own'[p].pc = "dead"
                              \/ own'[p].pc = own[p].pc /\ own'[p].at = own[p].at
<1>t. own \in [Owners -> OwnRecord]
  BY DEF TypeOK, LifeTypeOK
<1>1. CASE Abort(o)
  BY <1>t, <1>1 DEF Abort, storeVars, OwnRecord
<1>2. CASE Crash(o)
  BY <1>t, <1>2, GotoEffect DEF Crash
<1> QED
  BY <1>1, <1>2

\* A cleaner moves a record by the same transitions.
LEMMA CleanerKeepsStamp ==
  ASSUME TypeOK, NEW c \in Cleaners, CleanerStep(c) \/ CleanCrash(c)
  PROVE  /\ \A r \in Runs : rec[r].ran => rec'[r].ran
         /\ UNCHANGED <<own, exec, late, rows>>
<1>t. cl[c].run \in Runs /\ rec \in [Runs -> RunRecord \cup {Absent}]
  BY DEF TypeOK, LifeTypeOK, ClRecord
<1>1. UNCHANGED rec \/ \E to : rec' = [rec EXCEPT ![cl[c].run] =
                                        Transitioned(@, to)]
  BY DEF CleanerStep, CleanCrash, CleanRead, CleanCount, CleanBegin,
         CleanRefused, CleanRecover, CleanCompensate, CleanDone, CleanDrive,
         CleanDriveThrows
<1>2. \A r \in Runs : rec[r].ran => rec'[r].ran
  BY <1>t, <1>1, TransitionedKeeps
<1>3. UNCHANGED <<own, exec, late, rows>>
  BY DEF CleanerStep, CleanCrash, CleanRead, CleanCount, CleanBegin,
         CleanRefused, CleanRecover, CleanCompensate, CleanDone, storeVars,
         instance
<1> QED
  BY <1>2, <1>3

------------------------------------------------------------------------------
(* A record without the stamp belongs to a run nobody triggered. *)

LEMMA StampOwner ==
  ASSUME TypeOK, StampInv, NEW o \in Owners,
         OwnerStep(o) \/ Abort(o) \/ Crash(o)
  PROVE  StampInv'
<1>r. RunOf \in [Owners -> Runs]
  BY RunOfAssumption
<1>1. CASE OwnerStep(o)
  <2>1. ASSUME NEW p \in Owners, own'[p].pc \in TriggerLoop
        PROVE  rec'[RunOf[p]].ran /\ own'[p].at >= 1
    <3>1. CASE p = o
      BY <1>1, <2>1, <3>1, LoopIsStamped DEF StampInv
    <3>2. CASE p # o
      <4>1. own'[p] = own[p]
        BY <1>1, <3>2, OthersStay
      <4>2. rec[RunOf[p]].ran /\ own[p].at >= 1
        BY <2>1, <4>1 DEF StampInv, StampedInLoop
      <4> QED
        BY <1>1, <1>r, <4>1, <4>2, OwnerKeepsStamp
    <3> QED
      BY <3>1, <3>2
  <2>2. ASSUME NEW r \in Runs, ~rec'[r].ran, NEW x \in Executions(r)
        PROVE  exec'[x[1]][x[2]] = "none"
    <3>1. ~rec[r].ran
      BY <1>1, <2>2, OwnerKeepsStamp
    <3>2. exec[x[1]][x[2]] = "none"
      BY <3>1 DEF StampInv, NeverTriggeredIsProof, NeverReachedRunning
    <3>3. x[1] \in Owners /\ x[2] \in Groups /\ RunOf[x[1]] = r
      BY DEF Executions
    <3>4. CASE UNCHANGED exec
      BY <3>2, <3>4
    <3>5. CASE own[o].pc = "call" /\ exec' = [exec EXCEPT ![o][own[o].at] = "sent"]
      <4>1. rec[RunOf[o]].ran
        BY <3>5 DEF StampInv, StampedInLoop, TriggerLoop
      <4>2. x[1] # o
        BY <3>1, <3>3, <4>1
      <4> QED
        BY <3>2, <3>3, <3>5, <4>2 DEF TypeOK, StoreTypeOK
    <3> QED
      BY <1>1, <3>4, <3>5, OwnerTriggers
  <2> QED
    BY <2>1, <2>2
    DEF StampInv, StampedInLoop, NeverTriggeredIsProof, NeverReachedRunning,
        Executions
<1>2. CASE Abort(o) \/ Crash(o)
  BY <1>2, InterruptEffect
  DEF StampInv, StampedInLoop, NeverTriggeredIsProof, NeverReachedRunning,
      Executions, TriggerLoop
<1> QED
  BY <1>1, <1>2

LEMMA StampCleaner ==
  ASSUME TypeOK, StampInv, NEW c \in Cleaners, CleanerStep(c) \/ CleanCrash(c)
  PROVE  StampInv'
<1>r. RunOf \in [Owners -> Runs]
  BY RunOfAssumption
<1>1. UNCHANGED <<own, exec>> /\ \A r \in Runs : rec[r].ran => rec'[r].ran
  BY <1>r, CleanerKeepsStamp
<1> QED
  BY <1>r, <1>1
  DEF StampInv, StampedInLoop, NeverTriggeredIsProof, NeverReachedRunning,
      Executions

\* The instance only moves executions that were triggered.
LEMMA InstanceKeepsNone ==
  ASSUME TypeOK, InstanceNext, NEW o \in Owners, NEW g \in Groups,
         exec[o][g] = "none"
  PROVE  exec'[o][g] = "none"
<1>t. exec \in [Owners -> [Groups -> ExecState]]
  BY DEF TypeOK, StoreTypeOK
<1>1. CASE UNCHANGED exec
  BY <1>1
<1>2. CASE \E p \in Owners, h \in Groups :
             exec[p][h] # "none" /\ \E x : exec' = [exec EXCEPT ![p][h] = x]
  BY <1>t, <1>2
<1> QED
  BY <1>1, <1>2 DEF InstanceNext, InstanceStep, LoseTrigger, LandLate

LEMMA StampStore ==
  ASSUME TypeOK, StampInv,
         \/ \E a \in Actors : (SweepStep(a) \/ FailSweep(a)) /\ UNCHANGED lifeVars
         \/ InstanceNext /\ UNCHANGED lifeVars
  PROVE  StampInv'
<1>1. UNCHANGED <<own, rec>>
  BY DEF lifeVars
<1>2. \A o \in Owners, g \in Groups : exec[o][g] = "none" => exec'[o][g] = "none"
  <2>1. CASE InstanceNext
    BY <2>1, InstanceKeepsNone
  <2>2. CASE \E a \in Actors : SweepStep(a) \/ FailSweep(a)
    BY <2>2
    DEF SweepStep, ReadTests, ReadSuites, ReadLinks, PassGate, ReadSteps,
        ReadInputs, DeleteRow, FinishSweep, FailSweep, onlySweep
  <2> QED
    BY <2>1, <2>2
<1>3. \A r \in Runs : \A x \in Executions(r) : x[1] \in Owners /\ x[2] \in Groups
  BY DEF Executions
<1> QED
  BY <1>1, <1>2, <1>3
  DEF StampInv, StampedInLoop, NeverTriggeredIsProof, NeverReachedRunning,
      Executions

LEMMA StampInit ==
  ASSUME Init
  PROVE  StampInv
<1>1. \A o \in Owners : own[o].pc \notin TriggerLoop
  BY DEF Init, TriggerLoop
<1>2. \A o \in Owners, g \in Groups : exec[o][g] = "none"
  BY DEF Init, StoreInit
<1>3. \A r \in Runs : \A x \in Executions(r) : x[1] \in Owners /\ x[2] \in Groups
  BY DEF Executions
<1> QED
  BY <1>1, <1>2, <1>3 DEF StampInv, StampedInLoop, NeverTriggeredIsProof

LEMMA StampNext ==
  ASSUME TypeOK, StampInv, [Next]_vars
  PROVE  StampInv'
<1>1. CASE UNCHANGED vars
  BY <1>1
  DEF vars, storeVars, lifeVars, StampInv, StampedInLoop,
      NeverTriggeredIsProof, NeverReachedRunning, Executions
<1> QED
  BY <1>1, StampOwner, StampCleaner, StampStore DEF Next

LEMMA StampHolds == Spec => []StampInv
<1>1. Init => StampInv
  BY StampInit
<1>2. TypeOK /\ StampInv /\ [Next]_vars => StampInv'
  BY StampNext
<1> QED
  BY <1>1, <1>2, TypeCorrect, PTL DEF Spec

(***************************************************************************)
(* A record without the runningAt stamp is proof that its run was never    *)
(* triggered, by whatever owner: the claim cleanup hands the store past    *)
(* the zero-result gate of DEV-17 (runState.ts, neverTriggered).           *)
(***************************************************************************)
THEOREM NeverTriggeredHolds == Spec => []NeverTriggeredIsProof
<1>1. StampInv => NeverTriggeredIsProof
  BY DEF StampInv
<1> QED
  BY <1>1, StampHolds, PTL

------------------------------------------------------------------------------
(* Entries are never forgotten. *)

LEMMA IntendedState ==
  ASSUME NEW r, NEW w
  PROVE  (IF entry[r][w] = "none" THEN "intended" ELSE entry[r][w]) # "none"
OBVIOUS

LEMMA OwnerKeepsEntries ==
  ASSUME TypeOK, NEW o \in Owners, OwnerStep(o)
  PROVE  \A r \in Runs, w \in Writes :
           entry[r][w] # "none" => entry'[r][w] # "none"
<1>1. CASE IntendSpec(o)
  BY <1>1, IntendedState, JournalEffect DEF IntendSpec, Intend
<1>2. CASE IntendTrigger(o)
  BY <1>2, IntendedState, JournalEffect DEF IntendTrigger, Intend
<1>3. CASE ConfirmSpec(o) \/ ConfirmTrigger(o)
  BY <1>3, JournalEffect DEF ConfirmSpec, ConfirmTrigger, Confirm
<1>4. CASE Compensate(o)
  BY <1>4, JournalEffect DEF Compensate
<1>5. CASE ~Journals(o)
  <2>1. UNCHANGED entry
    <3>1. CASE Drives(o)
      BY <3>1
      DEF Drives, Provision, BeginProjection, EnterRunning, Abandon, Collect,
          BeginTeardown, Settle, Aborted, Close, Drive
    <3>2. CASE ~Drives(o)
      BY <1>5, <3>2
      DEF OwnerStep, Drives, Journals, Scan, Open, AssertFresh, ReadStages,
          VerifyInfra, AcquireLock, CheckNamespace, Create, Projected,
          RunLoop, CallRunner, RunnerSettles, FlushReporters, Close,
          CountTriggers, Swept, Recover, Compensated, ReadBack, Report
    <3> QED
      BY <3>1, <3>2
  <2> QED
    BY <2>1
<1> QED
  BY <1>1, <1>2, <1>3, <1>4, <1>5 DEF Journals

LEMMA CleanerKeepsEntries ==
  ASSUME TypeOK, NEW c \in Cleaners, CleanerStep(c) \/ CleanCrash(c)
  PROVE  \A r \in Runs, w \in Writes :
           entry[r][w] # "none" => entry'[r][w] # "none"
<1>t. entry \in [Runs -> [Writes -> EntryState \cup {"none"}]]
  BY DEF TypeOK, LifeTypeOK
<1>1. \/ UNCHANGED entry
      \/ \E w : entry' = [entry EXCEPT ![cl[c].run][w] = "compensated"]
  BY DEF CleanerStep, CleanCrash, CleanRead, CleanCount, CleanBegin,
         CleanRefused, CleanRecover, CleanCompensate, CleanDone, storeVars
<1>2. CASE UNCHANGED entry
  BY <1>2
<1>3. CASE \E w : entry' = [entry EXCEPT ![cl[c].run][w] = "compensated"]
  <2>1. PICK v : entry' = [entry EXCEPT ![cl[c].run][v] = "compensated"]
    BY <1>3
  <2>2. \A r \in Runs, w \in Writes :
          entry'[r][w] = entry[r][w] \/ entry'[r][w] = "compensated"
    BY <1>t, <2>1
  <2> QED
    BY <2>2
<1> QED
  BY <1>1, <1>2, <1>3

------------------------------------------------------------------------------
(* Where the owners stand. *)

\* The intend loop journals the spec it stands at and moves on.
LEMMA IntendSpecEffect ==
  ASSUME TypeOK, SpecsJournalled, NEW o \in Owners, IntendSpec(o),
         NEW s \in Specs,
         \/ own'[o].pc \in {"lock", "namespace", "create"}
         \/ own'[o].pc = "intend" /\ s < own'[o].at
  PROVE  entry'[RunOf[o]][<<"project", s>>] # "none"
<1>t. /\ own \in [Owners -> OwnRecord] /\ RunOf[o] \in Runs
      /\ own[o].at \in Nat /\ NSpecs \in Nat /\ s \in 1..NSpecs
  BY RunOfAssumption, CountsAssumption
  DEF TypeOK, LifeTypeOK, OwnRecord, Specs
<1>w. <<"project", s>> \in Writes
  BY DEF Writes
<1> DEFINE next == Advance(o, NSpecs, "intend", "lock")
           w    == <<"project", own[o].at>>
<1>1. own[o].pc = "intend"
  BY DEF IntendSpec, AtPc
<1>2. /\ \A r \in Runs, v \in Writes :
           entry[r][v] # "none" => entry'[r][v] # "none"
      /\ \/ own'[o] = Thrown(o)
         \/ /\ own'[o] = next
            /\ w \in Writes => entry'[RunOf[o]][w] # "none"
  BY IntendedState, JournalEffect DEF IntendSpec, Intend
<1>3. Thrown(o).pc \in {"abandon", "collect"}
  BY <1>t, ThrownEffect
<1>4. /\ own'[o] = next
      /\ w \in Writes => entry'[RunOf[o]][w] # "none"
  BY <1>2, <1>3
<1>5. "intend" \in OwnPc /\ "lock" \in OwnPc
  BY DEF OwnPc
<1>6. \/ own[o].at < NSpecs /\ next.pc = "intend" /\ next.at = own[o].at + 1
      \/ ~(own[o].at < NSpecs) /\ next.pc = "lock"
  BY <1>t, <1>5, AdvanceEffect
<1>7. s < own[o].at \/ s = own[o].at
  <2>1. CASE ~(own[o].at < NSpecs)
    BY <1>t, <2>1
  <2>2. CASE next.pc = "intend" /\ next.at = own[o].at + 1
    <3>1. s < own[o].at + 1
      BY <1>4, <2>2
    <3> QED
      BY <1>t, <3>1
  <2> QED
    BY <1>6, <2>1, <2>2
<1>8. CASE s < own[o].at
  <2>1. entry[RunOf[o]][<<"project", s>>] # "none"
    BY <1>1, <1>8 DEF SpecsJournalled
  <2> QED
    BY <1>t, <1>w, <1>2, <2>1
<1>9. CASE s = own[o].at
  BY <1>w, <1>4, <1>9
<1> QED
  BY <1>7, <1>8, <1>9

LEMMA BeginProjectionEffect ==
  ASSUME TypeOK, NEW o \in Owners, BeginProjection(o)
  PROVE  \/ own'[o].pc = "intend" /\ own'[o].at = 1
         \/ own'[o].pc \in {"abandon", "collect"}
<1>t. own \in [Owners -> OwnRecord]
  BY DEF TypeOK, LifeTypeOK
<1>n. Thrown(o).pc \in {"abandon", "collect"}
  BY <1>t, ThrownEffect
<1> DEFINE s == [To(o, "intend") EXCEPT !.attempted = TRUE, !.at = 1]
<1>1. To(o, "intend") \in OwnRecord /\ To(o, "intend").pc = "intend"
  BY <1>t, ToType, ToEffect DEF OwnPc
<1>2. s \in OwnRecord /\ s.pc = "intend" /\ s.at = 1
  BY <1>1 DEF OwnRecord
<1>3. /\ [s EXCEPT !.view = "projecting"].pc = "intend"
      /\ [s EXCEPT !.view = "projecting"].at = 1
  BY <1>2 DEF OwnRecord
<1>4. \/ Owner(o, [s EXCEPT !.view = "projecting"])
      \/ Owner(o, Thrown(o))
  BY DEF BeginProjection, Aborted, Drive
<1> HIDE DEF s
<1> QED
  BY <1>t, <1>n, <1>3, <1>4, OwnerEffect

\* The steps of the trigger loop leave the projection behind.
LEMMA LoopPc ==
  ASSUME TypeOK, NEW o \in Owners,
         EnterRunning(o) \/ RunLoop(o) \/ IntendTrigger(o) \/ CallRunner(o)
           \/ RunnerSettles(o) \/ ConfirmTrigger(o)
  PROVE  /\ own'[o].pc \notin Projection
         /\ own'[o].pc = "call" => IntendTrigger(o)
<1>t. own \in [Owners -> OwnRecord] /\ own[o] \in OwnRecord
  BY DEF TypeOK, LifeTypeOK
<1>n. Thrown(o).pc \in {"abandon", "collect"}
  BY <1>t, ThrownEffect
<1>1. CASE EnterRunning(o)
  <2> DEFINE s(p) == [To(o, p) EXCEPT !.entered = TRUE, !.at = 1]
  <2>1. \A p \in OwnPc : To(o, p) \in OwnRecord /\ To(o, p).pc = p
    BY <1>t, ToType, ToEffect
  <2>2. To(o, "next") \in OwnRecord /\ To(o, "next").pc = "next"
    BY <2>1 DEF OwnPc
  <2>3. To(o, "collect") \in OwnRecord /\ To(o, "collect").pc = "collect"
    BY <2>1 DEF OwnPc
  <2>4. s("next") \in OwnRecord /\ s("next").pc = "next"
    BY <2>2 DEF OwnRecord
  <2>5. s("collect").pc = "collect"
    BY <2>3 DEF OwnRecord
  <2>6. [s("next") EXCEPT !.view = "running"].pc = "next"
    BY <2>4 DEF OwnRecord
  <2>7. \/ Owner(o, [s("next") EXCEPT !.view = "running"])
        \/ Owner(o, s("collect"))
        \/ Owner(o, Thrown(o))
    BY <1>1 DEF EnterRunning, Aborted, Drive
  <2> HIDE DEF s
  <2> QED
    BY <1>t, <1>n, <2>5, <2>6, <2>7, OwnerEffect DEF Projection
<1>2. CASE RunLoop(o) \/ CallRunner(o) \/ RunnerSettles(o)
  BY <1>t, <1>2, GotoEffect DEF RunLoop, CallRunner, RunnerSettles, Projection
<1>3. CASE IntendTrigger(o)
  <2>1. Owner(o, To(o, "call")) \/ Owner(o, Thrown(o))
    BY <1>3 DEF IntendTrigger, Intend, Journal
  <2> QED
    BY <1>t, <1>n, <1>3, <2>1, OwnerEffect, ToEffect DEF Projection
<1>4. CASE ConfirmTrigger(o)
  <2>1. Owner(o, [To(o, "next") EXCEPT !.at = @ + 1]) \/ Owner(o, Thrown(o))
    BY <1>4 DEF ConfirmTrigger, Confirm, Journal
  <2>2. To(o, "next") \in OwnRecord /\ To(o, "next").pc = "next"
    BY <1>t, ToType, ToEffect DEF OwnPc
  <2>3. [To(o, "next") EXCEPT !.at = @ + 1].pc = "next"
    BY <2>2, FieldsKeepPc
  <2> QED
    BY <1>t, <1>n, <2>1, <2>3, OwnerEffect DEF Projection
<1> QED
  BY <1>1, <1>2, <1>3, <1>4

------------------------------------------------------------------------------
(* Who creates. *)

\* An owner puts rows on the instance, or on their way, in project only.
LEMMA OwnerCreates ==
  ASSUME TypeOK, NEW o \in Owners, OwnerStep(o) \/ Crash(o),
         NEW r \in Runs, NEW p \in rows'[r] \cup late'[r]
  PROVE  \/ p \in rows[r] \cup late[r]
         \/ own[o].pc = "create" /\ r = RunOf[o]
<1>t. /\ rows \in [Runs -> SUBSET Rows] /\ late \in [Runs -> SUBSET Rows]
      /\ RunOf[o] \in Runs
  BY RunOfAssumption DEF TypeOK, StoreTypeOK
<1>1. CASE Create(o)
  <2>1. own[o].pc = "create"
    BY <1>1 DEF Create, AtPc
  <2>2. \A q \in Runs \ {RunOf[o]} : rows'[q] = rows[q] /\ late'[q] = late[q]
    BY <1>t, <1>1 DEF Create, CreateRow, LoseRow
  <2> QED
    BY <2>1, <2>2
<1>2. CASE Crash(o)
  <2>1. PICK P \in Orphaned(o) : late' = [late EXCEPT ![RunOf[o]] = @ \cup P]
    BY <1>2 DEF Crash
  <2>2. own[o].pc = "create" \/ P = {}
    BY <2>1 DEF Orphaned, AtPc
  <2>3. UNCHANGED rows
    BY <1>2 DEF Crash
  <2> QED
    BY <1>t, <2>1, <2>2, <2>3
<1>3. CASE OwnerStep(o) /\ ~Create(o)
  <2>1. UNCHANGED <<rows, late>>
    <3>1. CASE Drives(o) \/ Journals(o)
      BY <3>1
      DEF Drives, Provision, BeginProjection, EnterRunning, Abandon, Collect,
          BeginTeardown, Settle, Aborted, Close, Drive, Journals, IntendSpec,
          ConfirmSpec, IntendTrigger, ConfirmTrigger, Compensate, Intend,
          Confirm, Journal, instance
    <3>2. CASE ~Drives(o) /\ ~Journals(o)
      BY <1>3, <3>2
      DEF OwnerStep, Drives, Journals, Scan, Open, AssertFresh, ReadStages,
          VerifyInfra, AcquireLock, CheckNamespace, Projected, RunLoop,
          CallRunner, RunnerSettles, FlushReporters, Close, CountTriggers,
          Swept, Recover, Compensated, ReadBack, Report, instance
    <3> QED
      BY <3>1, <3>2
  <2> QED
    BY <2>1
<1> QED
  BY <1>1, <1>2, <1>3

\* Sweeps only take rows away; the instance lands what was on its way.
LEMMA StoreCreatesNothing ==
  ASSUME TypeOK,
         \/ \E a \in Actors : SweepStep(a) \/ FailSweep(a)
         \/ InstanceNext,
         NEW r \in Runs
  PROVE  rows'[r] \cup late'[r] \subseteq rows[r] \cup late[r]
<1>t. rows \in [Runs -> SUBSET Rows] /\ late \in [Runs -> SUBSET Rows]
  BY DEF TypeOK, StoreTypeOK
<1>1. CASE \E a \in Actors : SweepStep(a) \/ FailSweep(a)
  <2>1. PICK a \in Actors : SweepStep(a) \/ FailSweep(a)
    BY <1>1
  <2>2. UNCHANGED late
    BY <2>1
    DEF SweepStep, ReadTests, ReadSuites, ReadLinks, PassGate, ReadSteps,
        ReadInputs, DeleteRow, FinishSweep, FailSweep, onlySweep
  <2>3. \/ UNCHANGED rows
        \/ \E p : rows' = [rows EXCEPT ![sweep[a].run] = @ \ {p}]
    BY <2>1
    DEF SweepStep, ReadTests, ReadSuites, ReadLinks, PassGate, ReadSteps,
        ReadInputs, DeleteRow, FinishSweep, FailSweep, onlySweep
  <2> QED
    BY <1>t, <2>2, <2>3
<1>2. CASE \E q \in Runs : LandLate(q)
  <2>1. PICK q \in Runs, p \in Rows :
          /\ p \in late[q]
          /\ rows' = [rows EXCEPT ![q] = @ \cup {p}]
          /\ late' = [late EXCEPT ![q] = @ \ {p}]
    BY <1>t, <1>2 DEF LandLate
  <2> QED
    BY <1>t, <2>1
<1>3. CASE \E o \in Owners, g \in Groups : InstanceStep(o, g) \/ LoseTrigger(o, g)
  BY <1>3 DEF InstanceStep, LoseTrigger
<1> QED
  BY <1>1, <1>2, <1>3 DEF InstanceNext

\* A row names a spec the run journals, the suite names them all.
LEMMA SpecOfRow ==
  ASSUME NEW p \in Rows, NEW s \in IF p = Suite THEN Specs ELSE {p[2]}
  PROVE  s \in Specs /\ <<"project", s>> \in Writes
<1>1. s \in Specs
  BY DEF Rows
<1> QED
  BY <1>1 DEF Writes

------------------------------------------------------------------------------
(* The invariant. *)

EntriesKept ==
  \A r \in Runs, w \in Writes : entry[r][w] # "none" => entry'[r][w] # "none"

\* What is already there, or already sent, stays journalled.
LEMMA OldStaysJournalled ==
  ASSUME TypeOK, WriteAhead, EntriesKept
  PROVE  \A r \in Runs :
           /\ \A p \in rows[r] \cup late[r] :
                \A s \in IF p = Suite THEN Specs ELSE {p[2]} :
                  entry'[r][<<"project", s>>] # "none"
           /\ \A x \in Executions(r) :
                exec[x[1]][x[2]] # "none" =>
                  entry'[r][<<"trigger", x[2]>>] # "none"
<1>1. ASSUME NEW r \in Runs, NEW p \in rows[r] \cup late[r],
             NEW s \in IF p = Suite THEN Specs ELSE {p[2]}
      PROVE  entry'[r][<<"project", s>>] # "none"
  <2>1. p \in Rows
    BY DEF TypeOK, StoreTypeOK
  <2>2. <<"project", s>> \in Writes
    BY <2>1, SpecOfRow
  <2>3. entry[r][<<"project", s>>] # "none"
    BY DEF WriteAhead
  <2> QED
    BY <2>2, <2>3 DEF EntriesKept
<1>2. ASSUME NEW r \in Runs, NEW x \in Executions(r), exec[x[1]][x[2]] # "none"
      PROVE  entry'[r][<<"trigger", x[2]>>] # "none"
  <2>1. <<"trigger", x[2]>> \in Writes
    BY DEF Executions, Writes
  <2>2. entry[r][<<"trigger", x[2]>>] # "none"
    BY <1>2 DEF WriteAhead
  <2> QED
    BY <2>1, <2>2 DEF EntriesKept
<1> QED
  BY <1>1, <1>2

LEMMA JournalOwner ==
  ASSUME TypeOK, StampInv, JournalInv, NEW o \in Owners, OwnerStep(o)
  PROVE  JournalInv'
<1>t. /\ own \in [Owners -> OwnRecord] /\ RunOf \in [Owners -> Runs]
      /\ own[o].at \in Nat /\ NGroups \in Nat
  BY RunOfAssumption, CountsAssumption DEF TypeOK, LifeTypeOK, OwnRecord
<1>k. EntriesKept
  BY OwnerKeepsEntries DEF EntriesKept
<1>w. \A s \in Specs : <<"project", s>> \in Writes
  BY DEF Writes
<1>1. WriteAhead'
  <2>1. ASSUME NEW r \in Runs, NEW p \in rows'[r] \cup late'[r],
               NEW s \in IF p = Suite THEN Specs ELSE {p[2]}
        PROVE  entry'[r][<<"project", s>>] # "none"
    <3>1. CASE p \in rows[r] \cup late[r]
      BY <1>k, <3>1, OldStaysJournalled DEF JournalInv
    <3>2. CASE own[o].pc = "create" /\ r = RunOf[o]
      <4>1. p \in Rows
        BY OwnerStepType DEF TypeOK, StoreTypeOK
      <4>2. s \in Specs /\ <<"project", s>> \in Writes
        BY <4>1, SpecOfRow
      <4>3. entry[r][<<"project", s>>] # "none"
        BY <3>2, <4>2 DEF JournalInv, SpecsJournalled
      <4> QED
        BY <1>k, <4>2, <4>3 DEF EntriesKept
    <3> QED
      BY <3>1, <3>2, OwnerCreates
  <2>2. ASSUME NEW r \in Runs, NEW x \in Executions(r), exec'[x[1]][x[2]] # "none"
        PROVE  entry'[r][<<"trigger", x[2]>>] # "none"
    <3>1. CASE exec[x[1]][x[2]] # "none"
      BY <1>k, <3>1, OldStaysJournalled DEF JournalInv
    <3>2. CASE exec[x[1]][x[2]] = "none"
      <4>1. /\ own[o].pc = "call"
            /\ exec' = [exec EXCEPT ![o][own[o].at] = "sent"]
            /\ UNCHANGED <<rec, entry>>
        BY <2>2, <3>2, OwnerTriggers
      <4>2. x[1] \in Owners /\ x[2] \in Groups /\ RunOf[x[1]] = r
        BY DEF Executions
      <4>3. x[1] = o /\ x[2] = own[o].at
        BY <2>2, <3>2, <4>1, <4>2 DEF TypeOK, StoreTypeOK
      <4> QED
        BY <4>1, <4>2, <4>3 DEF JournalInv, CallJournalled
    <3> QED
      BY <3>1, <3>2
  <2> QED
    BY <2>1, <2>2 DEF WriteAhead, Executions
<1>2. SpecsJournalled'
  <2> SUFFICES ASSUME NEW p \in Owners, NEW s \in Specs,
                      \/ own'[p].pc \in {"lock", "namespace", "create"}
                      \/ own'[p].pc = "intend" /\ s < own'[p].at
               PROVE  entry'[RunOf[p]][<<"project", s>>] # "none"
    BY DEF SpecsJournalled
  <2>s. s \in Nat /\ s >= 1
    BY CountsAssumption DEF Specs
  <2>1. CASE p # o
    <3>1. own'[p] = own[p]
      BY <2>1, OthersStay
    <3>2. entry[RunOf[p]][<<"project", s>>] # "none"
      BY <3>1 DEF JournalInv, SpecsJournalled
    <3> QED
      BY <1>t, <1>k, <1>w, <3>2 DEF EntriesKept
  <2>2. CASE p = o /\ IntendSpec(o)
    BY <2>2, IntendSpecEffect DEF JournalInv
  <2>3. CASE p = o /\ BeginProjection(o)
    BY <2>3, <2>s, BeginProjectionEffect
  <2>4. CASE p = o /\ (AcquireLock(o) \/ CheckNamespace(o) \/ Create(o))
    <3>1. own[o].pc \in {"lock", "namespace", "create"}
      BY <2>4 DEF AcquireLock, CheckNamespace, Create, AtPc
    <3>2. entry[RunOf[o]][<<"project", s>>] # "none"
      BY <3>1 DEF JournalInv, SpecsJournalled
    <3> QED
      BY <1>t, <1>k, <1>w, <2>4, <3>2 DEF EntriesKept
  <2>5. CASE p = o /\ ~Stages(o)
    BY <2>5, Elsewhere DEF Staged, Projection
  <2>6. CASE /\ p = o
             /\ EnterRunning(o) \/ RunLoop(o) \/ IntendTrigger(o)
                  \/ CallRunner(o) \/ RunnerSettles(o) \/ ConfirmTrigger(o)
    BY <2>6, LoopPc DEF Projection
  <2> QED
    BY <2>1, <2>2, <2>3, <2>4, <2>5, <2>6 DEF Stages
<1>3. CallJournalled'
  <2> SUFFICES ASSUME NEW p \in Owners, own'[p].pc = "call"
               PROVE  /\ own'[p].at \in Groups
                      /\ entry'[RunOf[p]][<<"trigger", own'[p].at>>] # "none"
    BY DEF CallJournalled
  <2>1. CASE p # o
    <3>1. own'[p] = own[p]
      BY <2>1, OthersStay
    <3>2. /\ own[p].at \in Groups
          /\ entry[RunOf[p]][<<"trigger", own[p].at>>] # "none"
      BY <3>1 DEF JournalInv, CallJournalled
    <3>3. <<"trigger", own[p].at>> \in Writes
      BY <3>2 DEF Writes
    <3> QED
      BY <1>t, <1>k, <3>1, <3>2, <3>3 DEF EntriesKept
  <2>2. CASE p = o
    <3>1. IntendTrigger(o)
      <4>1. Stages(o)
        BY <2>2, Elsewhere DEF Staged, TriggerLoop
      <4>2. CASE BeginProjection(o)
        BY <2>2, <4>2, BeginProjectionEffect
      <4>3. CASE IntendSpec(o)
        <5>1. \/ Owner(o, Advance(o, NSpecs, "intend", "lock"))
              \/ Owner(o, Thrown(o))
          BY <4>3 DEF IntendSpec, Intend, Journal
        <5>2. "intend" \in OwnPc /\ "lock" \in OwnPc
          BY DEF OwnPc
        <5>3. \/ Advance(o, NSpecs, "intend", "lock").pc = "intend"
              \/ Advance(o, NSpecs, "intend", "lock").pc = "lock"
          BY <1>t, <5>2, AdvanceEffect
        <5> QED
          BY <1>t, <2>2, <5>1, <5>3, ThrownEffect, OwnerEffect
      <4>4. CASE AcquireLock(o) \/ CheckNamespace(o)
        BY <1>t, <2>2, <4>4, ThrownEffect, GotoEffect, OwnerEffect
        DEF AcquireLock, CheckNamespace
      <4>5. CASE Create(o)
        <5>1. UNCHANGED own \/ Owner(o, Thrown(o))
          BY <4>5 DEF Create
        <5> QED
          BY <1>t, <2>2, <4>5, <5>1, ThrownEffect, OwnerEffect
          DEF Create, AtPc
      <4> QED
        BY <2>2, <4>1, <4>2, <4>3, <4>4, <4>5, LoopPc DEF Stages
    <3> DEFINE w == <<"trigger", own[o].at>>
    <3>2. own[o].at \in Groups
      <4>1. own[o].pc = "next" /\ own[o].at <= NGroups
        BY <3>1 DEF IntendTrigger, AtPc
      <4>2. own[o].at >= 1
        BY <4>1 DEF StampInv, StampedInLoop, TriggerLoop
      <4> QED
        BY <1>t, <4>1, <4>2 DEF Groups
    <3>3. w \in Writes
      BY <3>2 DEF Writes
    <3>4. \/ own'[o] = Thrown(o)
          \/ own'[o] = To(o, "call") /\ (w \in Writes => entry'[RunOf[o]][w] # "none")
      BY <3>1, IntendedState, JournalEffect DEF IntendTrigger, Intend
    <3>5. own'[o] # Thrown(o)
      BY <1>t, <2>2, ThrownEffect
    <3>6. own'[o].at = own[o].at
      BY <1>t, <3>4, <3>5, ToEffect
    <3> QED
      BY <2>2, <3>2, <3>3, <3>4, <3>5, <3>6
  <2> QED
    BY <2>1, <2>2
<1> QED
  BY <1>1, <1>2, <1>3 DEF JournalInv

LEMMA JournalInterrupt ==
  ASSUME TypeOK, JournalInv, NEW o \in Owners, Abort(o) \/ Crash(o)
  PROVE  JournalInv'
<1>1. UNCHANGED <<rec, entry, exec, rows>>
  BY InterruptEffect
<1>2. \A p \in Owners : \/ own'[p].pc = "dead"
                        \/ own'[p].pc = own[p].pc /\ own'[p].at = own[p].at
  BY InterruptEffect
<1>3. SpecsJournalled' /\ CallJournalled'
  BY <1>1, <1>2 DEF JournalInv, SpecsJournalled, CallJournalled
<1>4. ASSUME NEW r \in Runs, NEW p \in rows'[r] \cup late'[r],
             NEW s \in IF p = Suite THEN Specs ELSE {p[2]}
      PROVE  entry'[r][<<"project", s>>] # "none"
  <2>1. CASE p \in rows[r] \cup late[r]
    BY <1>1, <2>1 DEF JournalInv, WriteAhead
  <2>2. CASE own[o].pc = "create" /\ r = RunOf[o]
    <3>1. p \in Rows
      BY InterruptType DEF TypeOK, StoreTypeOK
    <3>2. s \in Specs
      BY <3>1, SpecOfRow
    <3> QED
      BY <1>1, <2>2, <3>2 DEF JournalInv, SpecsJournalled
  <2>3. CASE Abort(o)
    <3>1. UNCHANGED <<rows, late>>
      BY <2>3 DEF Abort, storeVars
    <3> QED
      BY <2>1, <3>1
  <2> QED
    BY <2>1, <2>2, <2>3, OwnerCreates
<1>5. WriteAhead'
  BY <1>1, <1>4 DEF JournalInv, WriteAhead, Executions
<1> QED
  BY <1>3, <1>5 DEF JournalInv

\* Cleaners, sweeps and the instance leave the owners where they are.
LEMMA JournalOthers ==
  ASSUME TypeOK, JournalInv, UNCHANGED own, EntriesKept,
         \A r \in Runs : rows'[r] \cup late'[r] \subseteq rows[r] \cup late[r],
         \A o \in Owners, g \in Groups :
           exec[o][g] = "none" => exec'[o][g] = "none"
  PROVE  JournalInv'
<1>r. RunOf \in [Owners -> Runs]
  BY RunOfAssumption
<1>1. WriteAhead'
  <2>1. ASSUME NEW r \in Runs, NEW p \in rows'[r] \cup late'[r],
               NEW s \in IF p = Suite THEN Specs ELSE {p[2]}
        PROVE  entry'[r][<<"project", s>>] # "none"
    BY OldStaysJournalled DEF JournalInv
  <2>2. ASSUME NEW r \in Runs, NEW x \in Executions(r), exec'[x[1]][x[2]] # "none"
        PROVE  entry'[r][<<"trigger", x[2]>>] # "none"
    <3>1. exec[x[1]][x[2]] # "none"
      BY <2>2 DEF Executions
    <3> QED
      BY <3>1, OldStaysJournalled DEF JournalInv
  <2> QED
    BY <2>1, <2>2 DEF WriteAhead, Executions
<1>2. SpecsJournalled'
  <2>1. \A s \in Specs : <<"project", s>> \in Writes
    BY DEF Writes
  <2> QED
    BY <1>r, <2>1 DEF JournalInv, SpecsJournalled, EntriesKept
<1>3. CallJournalled'
  <2>1. \A g \in Groups : <<"trigger", g>> \in Writes
    BY DEF Writes
  <2> QED
    BY <1>r, <2>1 DEF JournalInv, CallJournalled, EntriesKept
<1> QED
  BY <1>1, <1>2, <1>3 DEF JournalInv

LEMMA JournalInit ==
  ASSUME Init
  PROVE  JournalInv
<1>1. \A o \in Owners : own[o].pc = "scan"
  BY DEF Init
<1>2. \A r \in Runs : rows[r] \cup late[r] = {}
  BY DEF Init, StoreInit
<1>3. \A o \in Owners, g \in Groups : exec[o][g] = "none"
  BY DEF Init, StoreInit
<1>4. SpecsJournalled /\ CallJournalled
  BY <1>1 DEF SpecsJournalled, CallJournalled
<1>5. WriteAhead
  BY <1>2, <1>3 DEF WriteAhead, Executions
<1> QED
  BY <1>4, <1>5 DEF JournalInv

LEMMA JournalNext ==
  ASSUME TypeOK, StampInv, JournalInv, [Next]_vars
  PROVE  JournalInv'
<1>1. CASE \E o \in Owners : OwnerStep(o) \/ Abort(o) \/ Crash(o)
  BY <1>1, JournalOwner, JournalInterrupt
<1>2. CASE \E c \in Cleaners : CleanerStep(c) \/ CleanCrash(c)
  <2>1. PICK c \in Cleaners : CleanerStep(c) \/ CleanCrash(c)
    BY <1>2
  <2>2. EntriesKept
    BY <2>1, CleanerKeepsEntries DEF EntriesKept
  <2>3. UNCHANGED <<own, exec, late, rows>>
    BY <2>1, CleanerKeepsStamp
  <2> QED
    BY <2>2, <2>3, JournalOthers
<1>3. CASE /\ \/ \E a \in Actors : SweepStep(a) \/ FailSweep(a)
              \/ InstanceNext
           /\ UNCHANGED lifeVars
  <2>1. EntriesKept /\ UNCHANGED own
    BY <1>3 DEF lifeVars, EntriesKept
  <2>2. \A r \in Runs : rows'[r] \cup late'[r] \subseteq rows[r] \cup late[r]
    BY <1>3, StoreCreatesNothing
  <2>3. \A o \in Owners, g \in Groups :
          exec[o][g] = "none" => exec'[o][g] = "none"
    <3>1. CASE InstanceNext
      BY <3>1, InstanceKeepsNone
    <3>2. CASE \E a \in Actors : SweepStep(a) \/ FailSweep(a)
      BY <3>2
      DEF SweepStep, ReadTests, ReadSuites, ReadLinks, PassGate, ReadSteps,
          ReadInputs, DeleteRow, FinishSweep, FailSweep, onlySweep
    <3> QED
      BY <1>3, <3>1, <3>2
  <2> QED
    BY <2>1, <2>2, <2>3, JournalOthers
<1>4. CASE UNCHANGED vars
  <2>1. UNCHANGED <<own, entry, exec, rows, late>>
    BY <1>4 DEF vars, storeVars, lifeVars
  <2>2. EntriesKept
    BY <2>1 DEF EntriesKept
  <2> QED
    BY <2>1, <2>2, JournalOthers
<1> QED
  BY <1>1, <1>2, <1>3, <1>4 DEF Next

(***************************************************************************)
(* Write-ahead: whatever a run has on the instance, or on its way there,   *)
(* was journalled by its ledger first (runPipeline.ts, projecting and      *)
(* running; ledger.intend), so the sweep and the recovery after a crash    *)
(* know of it.                                                             *)
(***************************************************************************)
THEOREM WriteAheadHolds == Spec => []WriteAhead
<1>1. Init => JournalInv
  BY JournalInit
<1>2. TypeOK /\ StampInv /\ JournalInv /\ [Next]_vars => JournalInv'
  BY JournalNext
<1>3. JournalInv => WriteAhead
  BY DEF JournalInv
<1> QED
  BY <1>1, <1>2, <1>3, TypeCorrect, StampHolds, PTL DEF Spec

==============================================================================
