-------------------------- MODULE RunSettlementProofs --------------------------
(***************************************************************************)
(* What a run that keeps apart leaves behind: a teardown finds everything, *)
(* deletes the suite last and after the reporters, nothing is called       *)
(* compensated or done while a row is left, and the lifecycle implements   *)
(* RunContract.                                                            *)
(***************************************************************************)
EXTENDS RunTeardownProofs

------------------------------------------------------------------------------
(* The control flow of an owner once more: the conditions under which it   *)
(* takes the steps that matter here.                                       *)

LEMMA StepAt ==
  ASSUME NEW o, OwnerStep(o)
  PROVE  /\ own[o].pc = "open" => Open(o)
         /\ own[o].pc = "project" => BeginProjection(o)
         /\ own[o].pc = "lock" => AcquireLock(o)
         /\ own[o].pc = "namespace" => CheckNamespace(o)
         /\ own[o].pc = "create" => Create(o) \/ Projected(o)
         /\ own[o].pc = "call" => CallRunner(o)
         /\ own[o].pc = "flush" => FlushReporters(o)
         /\ own[o].pc = "teardown" => BeginTeardown(o)
         /\ own[o].pc = "sweep" => Swept(o)
         /\ own[o].pc = "recover" => Recover(o)
         /\ own[o].pc = "compensate" => Compensate(o) \/ Compensated(o)
         /\ own[o].pc = "readback" => ReadBack(o)
         /\ own[o].pc = "settle" => Settle(o)
<1> DEFINE pc == own[o].pc
<1>1. \A p : AtPc(o, p) => p = pc
  BY DEF AtPc
<1> HIDE DEF pc
<1>2. /\ Create(o) \/ Projected(o) => pc = "create"
      /\ Compensate(o) \/ Compensated(o) => pc = "compensate"
      /\ BeginProjection(o) => pc = "project"
      /\ FlushReporters(o) => pc = "flush"
  BY <1>1 DEF Create, Projected, Compensate, Compensated, BeginProjection,
              Aborted, FlushReporters, Close
<1>3. /\ Open(o) => pc = "open"
      /\ AcquireLock(o) => pc = "lock"
      /\ CheckNamespace(o) => pc = "namespace"
      /\ CallRunner(o) => pc = "call"
      /\ BeginTeardown(o) => pc = "teardown"
      /\ Swept(o) => pc = "sweep"
      /\ Recover(o) => pc = "recover"
      /\ ReadBack(o) => pc = "readback"
      /\ Settle(o) => pc = "settle"
  BY <1>1 DEF Open, AcquireLock, CheckNamespace, CallRunner, BeginTeardown,
              Swept, Recover, ReadBack, Settle
<1> DEFINE Here == {"open", "project", "lock", "namespace", "create", "call",
                    "flush", "teardown", "sweep", "recover", "compensate", "readback",
                    "settle"}
<1>4. Scan(o) \/ AssertFresh(o) \/ ReadStages(o) => pc \notin Here
  BY <1>1 DEF Scan, AssertFresh, ReadStages
<1>5. Provision(o) \/ VerifyInfra(o) \/ IntendSpec(o) \/ ConfirmSpec(o) => pc \notin Here
  BY <1>1 DEF Provision, Aborted, VerifyInfra, IntendSpec, ConfirmSpec
<1>6. EnterRunning(o) \/ RunLoop(o) \/ IntendTrigger(o) \/ RunnerSettles(o) => pc \notin Here
  BY <1>1 DEF EnterRunning, Aborted, RunLoop, IntendTrigger, RunnerSettles
<1>7. ConfirmTrigger(o) \/ Abandon(o) \/ Collect(o) \/ CountTriggers(o) \/ Report(o) => pc \notin Here
  BY <1>1 DEF ConfirmTrigger, Abandon, Close, Collect, CountTriggers, Report
<1> QED
  BY <1>2, <1>3, <1>4, <1>5, <1>6, <1>7 DEF OwnerStep, pc

(***************************************************************************)
(* What was marked stays marked: an attempted projection is never          *)
(* forgotten, and reporters that are closed are not opened again.          *)
(***************************************************************************)
Keeps(s, t) == (s.attempted => t.attempted) /\ (s.closed => t.closed)
Kept(o)     == { s \in OwnRecord : Keeps(own[o], s) }

LEMMA KeptTo ==
  ASSUME own \in [Owners -> OwnRecord], NEW o \in Owners
  PROVE  /\ \A p \in OwnPc : To(o, p) \in Kept(o)
         /\ Thrown(o) \in Kept(o)
         /\ own[o] \in Kept(o)
<1>1. \A p \in OwnPc : To(o, p) \in Kept(o)
  <2> TAKE p \in OwnPc
  <2>1. To(o, p) \in OwnRecord
    BY ToType
  <2> QED
    BY <2>1 DEF To, OwnRecord, Kept, Keeps
<1>2. Thrown(o) \in Kept(o)
  BY <1>1 DEF Thrown, OwnPc
<1> QED
  BY <1>1, <1>2 DEF Kept, Keeps

LEMMA KeptFields ==
  ASSUME NEW o \in Owners, NEW s \in Kept(o)
  PROVE  /\ \A x \in RunState : [s EXCEPT !.view = x] \in Kept(o)
         /\ \A x \in Nat : [s EXCEPT !.at = x] \in Kept(o)
         /\ [s EXCEPT !.closed = TRUE] \in Kept(o)
         /\ \A x \in SUBSET Writes : [s EXCEPT !.todo = x] \in Kept(o)
         /\ \A x \in TeardownEnds : [s EXCEPT !.goal = x] \in Kept(o)
         /\ \A x \in Nat : [s EXCEPT !.attempted = TRUE, !.at = x] \in Kept(o)
         /\ \A x \in Nat : [s EXCEPT !.entered = TRUE, !.at = x] \in Kept(o)
<1>1. s \in OwnRecord /\ Keeps(own[o], s)
  BY DEF Kept
<1>2. /\ \A x \in RunState : [s EXCEPT !.view = x] \in OwnRecord
      /\ \A x \in Nat : [s EXCEPT !.at = x] \in OwnRecord
      /\ [s EXCEPT !.closed = TRUE] \in OwnRecord
      /\ \A x \in SUBSET Writes : [s EXCEPT !.todo = x] \in OwnRecord
      /\ \A x \in TeardownEnds : [s EXCEPT !.goal = x] \in OwnRecord
      /\ \A x \in Nat : [s EXCEPT !.attempted = TRUE, !.at = x] \in OwnRecord
      /\ \A x \in Nat : [s EXCEPT !.entered = TRUE, !.at = x] \in OwnRecord
  BY <1>1 DEF OwnRecord
<1>3. /\ \A x : Keeps(s, [s EXCEPT !.view = x])
      /\ \A x : Keeps(s, [s EXCEPT !.at = x])
      /\ Keeps(s, [s EXCEPT !.closed = TRUE])
      /\ \A x : Keeps(s, [s EXCEPT !.todo = x])
      /\ \A x : Keeps(s, [s EXCEPT !.goal = x])
      /\ \A x : Keeps(s, [s EXCEPT !.attempted = TRUE, !.at = x])
      /\ \A x : Keeps(s, [s EXCEPT !.entered = TRUE, !.at = x])
  BY <1>1 DEF OwnRecord, Keeps
<1>4. \A t \in OwnRecord : Keeps(s, t) => t \in Kept(o)
  BY <1>1 DEF Kept, Keeps
<1> QED
  BY <1>2, <1>3, <1>4

\* A step of an owner writes a local state that keeps the marks.
Keeping(o) == \E s \in Kept(o) : own'[o] = s

LEMMA KeepingSteps ==
  ASSUME TypeOK, NEW o \in Owners
  PROVE  /\ \A s \in Kept(o) : Owner(o, s) => Keeping(o)
         /\ \A p \in OwnPc : Goto(o, p) => Keeping(o)
         /\ \A to \in RunState, landed \in Kept(o), refused \in Kept(o) :
              Drive(o, to, landed, refused) => Keeping(o)
         /\ UNCHANGED own => Keeping(o)
<1>t. own \in [Owners -> OwnRecord]
  BY DEF TypeOK, LifeTypeOK
<1>1. \A s \in Kept(o) : Owner(o, s) => Keeping(o)
  BY <1>t, OwnerEffect DEF Keeping
<1>2. \A p \in OwnPc : Goto(o, p) => Keeping(o)
  <2> TAKE p \in OwnPc
  <2> HAVE Goto(o, p)
  <2>1. Owner(o, To(o, p))
    BY <1>t, GotoIsOwner
  <2> QED
    BY <1>t, <1>1, <2>1, KeptTo
<1>3. \A to \in RunState, landed \in Kept(o), refused \in Kept(o) :
        Drive(o, to, landed, refused) => Keeping(o)
  <2> TAKE to \in RunState, landed \in Kept(o), refused \in Kept(o)
  <2> HAVE Drive(o, to, landed, refused)
  <2>1. Owner(o, refused) \/ Owner(o, [landed EXCEPT !.view = to])
    BY DEF Drive
  <2> QED
    BY <1>1, <2>1, KeptFields
<1>5. UNCHANGED own => Keeping(o)
  BY <1>t, KeptTo DEF Keeping
<1> QED
  BY <1>1, <1>2, <1>3, <1>5

LEMMA MarksKept ==
  ASSUME TypeOK, NEW o \in Owners, OwnerStep(o)
  PROVE  Keeps(own[o], own'[o])
<1> SUFFICES Keeping(o)
  BY DEF Keeping, Kept
<1>t. own \in [Owners -> OwnRecord] /\ own[o] \in OwnRecord
  BY DEF TypeOK, LifeTypeOK
<1>k. /\ \A p \in OwnPc : To(o, p) \in Kept(o)
      /\ Thrown(o) \in Kept(o)
      /\ own[o] \in Kept(o)
  BY <1>t, KeptTo
<1>ow. \A s \in Kept(o) : Owner(o, s) => Keeping(o)
  BY KeepingSteps
<1>go. \A p \in OwnPc : Goto(o, p) => Keeping(o)
  BY KeepingSteps
<1>dr. \A to \in RunState, landed \in Kept(o), refused \in Kept(o) :
         Drive(o, to, landed, refused) => Keeping(o)
  BY KeepingSteps
<1>un. UNCHANGED own => Keeping(o)
  BY KeepingSteps
<1>ab. \A p : Aborted(o, p) => Keeping(o)
  BY <1>k, <1>ow DEF Aborted
<1>cl. \A p, next \in OwnPc : Close(o, p, next) => Keeping(o)
  <2> TAKE p, next \in OwnPc
  <2> HAVE Close(o, p, next)
  <2>1. [To(o, next) EXCEPT !.closed = TRUE] \in Kept(o)
    BY <1>k, KeptFields
  <2> QED
    BY <1>ow, <2>1 DEF Close
<1>se. \A goal \in TeardownEnds : SettleTo(o, goal) \in Kept(o)
  BY <1>k, KeptFields DEF SettleTo, OwnPc
<1>ad. \A last : \A here, next \in OwnPc : Advance(o, last, here, next) \in Kept(o)
  <2> TAKE last
  <2> TAKE here, next \in OwnPc
  <2>1. To(o, here) \in Kept(o) /\ To(o, next) \in Kept(o)
    BY <1>k
  <2>2. To(o, here).at \in Nat
    BY <2>1 DEF Kept, OwnRecord
  <2> DEFINE n == To(o, here).at + 1
  <2>5. n \in Nat
    BY <2>2
  <2>3. [To(o, next) EXCEPT !.at = 1] \in Kept(o)
    BY <2>1, KeptFields
  <2> HIDE DEF n
  <2>4. [To(o, here) EXCEPT !.at = n] \in Kept(o)
    BY <2>1, <2>5, KeptFields
  <2> QED
    BY <2>3, <2>4 DEF Advance, n
<1>1. CASE Scan(o) \/ AssertFresh(o) \/ ReadStages(o) \/ VerifyInfra(o)
  BY <1>1, <1>k, <1>ow, <1>go DEF Scan, AssertFresh, ReadStages, VerifyInfra, OwnPc
<1>2. CASE Open(o)
  <2>1. CASE Goto(o, "refused")
    BY <2>1, <1>go DEF OwnPc
  <2>2. ASSUME NEW v \in RunState, Owner(o, [To(o, "fresh") EXCEPT !.view = v])
        PROVE  Keeping(o)
    BY <1>k, <1>ow, <2>2, KeptFields DEF OwnPc
  <2>3. rec[RunOf[o]] # Absent => rec[RunOf[o]].state \in RunState
    BY RunOfAssumption DEF TypeOK, LifeTypeOK, RunRecord
  <2> QED
    BY <1>2, <2>1, <2>2, <2>3 DEF Open, RunState
<1>3. CASE Provision(o)
  BY <1>3, <1>k, <1>ab, <1>dr DEF Provision, OwnPc, RunState
<1>4. CASE BeginProjection(o)
  <2>1. [To(o, "intend") EXCEPT !.attempted = TRUE, !.at = 1] \in Kept(o)
    BY <1>k, KeptFields DEF OwnPc
  <2> QED
    BY <1>4, <2>1, <1>k, <1>ab, <1>dr DEF BeginProjection, OwnPc, RunState
<1>5. CASE IntendSpec(o)
  <2> DEFINE s == Advance(o, NSpecs, "intend", "lock")
  <2>1. Owner(o, s) \/ Owner(o, Thrown(o))
    BY <1>5 DEF IntendSpec, Intend, Journal
  <2>2. s \in Kept(o)
    BY <1>ad DEF OwnPc
  <2> HIDE DEF s
  <2> QED
    BY <1>k, <1>ow, <2>1, <2>2
<1>6. CASE AcquireLock(o) \/ CheckNamespace(o) \/ Create(o)
  BY <1>6, <1>k, <1>ow, <1>go, <1>un DEF AcquireLock, CheckNamespace, Create, OwnPc
<1>7. CASE Projected(o)
  BY <1>7, <1>k, <1>ow, KeptFields DEF Projected, OwnPc
<1>8. CASE ConfirmSpec(o)
  <2> DEFINE s == Advance(o, NSpecs, "confirm", "enter")
  <2>1. Owner(o, s) \/ Owner(o, Thrown(o))
    BY <1>8 DEF ConfirmSpec, Confirm, Journal
  <2>2. s \in Kept(o)
    BY <1>ad DEF OwnPc
  <2> HIDE DEF s
  <2> QED
    BY <1>k, <1>ow, <2>1, <2>2
<1>9. CASE EnterRunning(o)
  <2>1. /\ [To(o, "next") EXCEPT !.entered = TRUE, !.at = 1] \in Kept(o)
        /\ [To(o, "collect") EXCEPT !.entered = TRUE, !.at = 1] \in Kept(o)
    BY <1>k, KeptFields DEF OwnPc
  <2> QED
    BY <1>9, <2>1, <1>ab, <1>dr DEF EnterRunning, RunState
<1>10. CASE RunLoop(o) \/ CallRunner(o) \/ RunnerSettles(o)
  BY <1>10, <1>go DEF RunLoop, CallRunner, RunnerSettles, OwnPc
<1>11. CASE IntendTrigger(o)
  BY <1>11, <1>k, <1>ow DEF IntendTrigger, Intend, Journal, OwnPc
<1>12. CASE ConfirmTrigger(o)
  <2>1. To(o, "next") \in Kept(o) /\ To(o, "next").at \in Nat
    BY <1>k DEF OwnPc, Kept, OwnRecord
  <2> DEFINE n == To(o, "next").at + 1
  <2>3. n \in Nat
    BY <2>1
  <2> HIDE DEF n
  <2>2. [To(o, "next") EXCEPT !.at = n] \in Kept(o)
    BY <2>1, <2>3, KeptFields
  <2> QED
    BY <1>12, <1>k, <1>ow, <2>2 DEF n, ConfirmTrigger, Confirm, Journal
<1>13. CASE Abandon(o) \/ FlushReporters(o)
  BY <1>13, <1>cl, <1>k, <1>dr DEF Abandon, FlushReporters, OwnPc, RunState
<1>14. CASE Collect(o)
  BY <1>14, <1>k, <1>go, <1>dr DEF Collect, OwnPc, RunState
<1>15. CASE BeginTeardown(o)
  BY <1>15, <1>k, <1>dr DEF BeginTeardown, OwnPc, RunState
<1>16. CASE CountTriggers(o) \/ Compensated(o)
  BY <1>16, <1>go DEF CountTriggers, Compensated, OwnPc
<1>17. CASE Swept(o) \/ ReadBack(o)
  BY <1>17, <1>go, <1>se, <1>ow DEF Swept, ReadBack, OwnPc, TeardownEnds
<1>18. CASE Recover(o)
  <2>1. Unsettled(RunOf[o]) \in SUBSET Writes
    BY DEF Unsettled
  <2>2. [To(o, "compensate") EXCEPT !.todo = Unsettled(RunOf[o])] \in Kept(o)
    BY <1>k, <2>1, KeptFields DEF OwnPc
  <2> QED
    BY <1>18, <1>se, <1>ow, <2>2 DEF Recover, TeardownEnds
<1>19. CASE Compensate(o)
  <2>1. own[o].todo \in SUBSET Writes
    BY <1>t DEF OwnRecord
  <2>2. \A w : [own[o] EXCEPT !.todo = own[o].todo \ {w}] \in Kept(o)
    BY <1>k, <2>1, KeptFields
  <2>3. [SettleTo(o, "failed") EXCEPT !.todo = {}] \in Kept(o)
    BY <1>se, KeptFields DEF TeardownEnds
  <2> QED
    BY <1>19, <1>ow, <2>2, <2>3 DEF Compensate, Journal
<1>20. CASE Settle(o)
  <2>1. own[o].goal \in RunState
    BY <1>t DEF OwnRecord, TeardownEnds, RunState
  <2> QED
    BY <1>20, <1>k, <1>dr, <2>1 DEF Settle, OwnPc
<1>21. CASE Report(o)
  BY <1>21, <1>k, <1>ow, KeptFields DEF Report, OwnPc
<1> QED
  BY <1>1, <1>2, <1>3, <1>4, <1>5, <1>6, <1>7, <1>8, <1>9, <1>10, <1>11,
     <1>12, <1>13, <1>14, <1>15, <1>16, <1>17, <1>18, <1>19, <1>20, <1>21
  DEF OwnerStep

(***************************************************************************)
(* The conditions under which an owner takes the steps on which the rest   *)
(* relies.                                                                 *)
(***************************************************************************)
Conditions(o) ==
  LET s == own[o]
      t == own'[o]
      r == RunOf[o]
  IN /\ s.pc = "open" /\ t.pc = "fresh" => rec[r] # Absent \/ Opened(r)
     /\ s.pc = "project" /\ t.pc = "intend" => t.attempted
     /\ s.pc = "lock" /\ t.pc = "namespace" => Ephemeral(r) /\ made'[o] = {}
     /\ s.pc = "namespace" /\ t.pc = "create" => UNCHANGED made
     /\ s.pc = "create" /\ t.pc = "confirm" => NextRow(o) = {}
     /\ s.pc = "flush" => t.closed
     /\ s.pc = "teardown" /\ t.pc = "readback" => ~(s.attempted /\ Ephemeral(r))
     /\ s.pc = "sweep" /\ t.pc = "recover" => sweep[o].pc = "ok"
     /\ s.pc = "compensate" /\ t.pc = "readback" => s.todo = {}
     /\ t.pc = "settle" /\ t.goal = "done" => s.pc = "readback" /\ NothingDue(r)
     /\ s.pc = "settle" => rec' = rec \/ Moved(r, s.goal)

LEMMA GoalOfSettle ==
  ASSUME own \in [Owners -> OwnRecord], NEW o \in Owners, NEW goal \in TeardownEnds
  PROVE  /\ SettleTo(o, goal) \in OwnRecord
         /\ SettleTo(o, goal).pc = "settle" /\ SettleTo(o, goal).goal = goal
         /\ LET t == [SettleTo(o, goal) EXCEPT !.todo = {}] IN
            t.pc = "settle" /\ t.goal = goal
<1>1. To(o, "settle") \in OwnRecord /\ To(o, "settle").pc = "settle"
  BY ToFields DEF OwnPc
<1>2. /\ SettleTo(o, goal) \in OwnRecord
      /\ SettleTo(o, goal).pc = "settle" /\ SettleTo(o, goal).goal = goal
  BY <1>1 DEF SettleTo, OwnRecord
<1> QED
  BY <1>2 DEF OwnRecord

LEMMA OwnerConditions ==
  ASSUME TypeOK, NEW o \in Owners, OwnerStep(o)
  PROVE  Conditions(o)
<1>t. own \in [Owners -> OwnRecord] /\ own[o] \in OwnRecord
  BY DEF TypeOK, LifeTypeOK
<1>n. own'[o].pc \in {"abandon", "collect"} \/ ~Owner(o, Thrown(o))
  BY <1>t, OwnerEffect, ThrownEffect
<1>1. own[o].pc = "open" /\ own'[o].pc = "fresh"
        => rec[RunOf[o]] # Absent \/ Opened(RunOf[o])
  <2> SUFFICES ASSUME Open(o), own'[o].pc = "fresh"
               PROVE  rec[RunOf[o]] # Absent \/ Opened(RunOf[o])
    BY StepAt
  <2>1. ~Goto(o, "refused")
    BY <1>t, GotoEffect
  <2> QED
    BY <2>1 DEF Open, Opened
<1>2. own[o].pc = "project" /\ own'[o].pc = "intend" => own'[o].attempted
  <2> SUFFICES ASSUME BeginProjection(o), own'[o].pc = "intend"
               PROVE  own'[o].attempted
    BY StepAt
  <2> DEFINE s == [To(o, "intend") EXCEPT !.attempted = TRUE, !.at = 1]
  <2>1. Drive(o, "projecting", s, Thrown(o))
    BY <1>n DEF BeginProjection, Aborted
  <2>2. s \in OwnRecord /\ s.attempted
    <3>1. To(o, "intend") \in OwnRecord
      BY <1>t, ToType DEF OwnPc
    <3> QED
      BY <3>1 DEF OwnRecord
  <2> HIDE DEF s
  <2>3. own'[o] = [s EXCEPT !.view = "projecting"]
    BY <1>t, <1>n, <2>1, OwnerEffect DEF Drive
  <2> QED
    BY <2>2, <2>3 DEF OwnRecord
<1>3. own[o].pc = "lock" /\ own'[o].pc = "namespace"
        => Ephemeral(RunOf[o]) /\ made'[o] = {}
  <2>1. made \in [Owners -> SUBSET Rows]
    BY DEF TypeOK, StoreTypeOK
  <2> QED
    BY <1>n, <2>1, StepAt DEF AcquireLock, TakeLock
<1>4. own[o].pc = "namespace" /\ own'[o].pc = "create" => UNCHANGED made
  BY StepAt DEF CheckNamespace
<1>5. own[o].pc = "create" /\ own'[o].pc = "confirm" => NextRow(o) = {}
  <2>1. Create(o) => own'[o].pc # "confirm"
    BY <1>n DEF Create, AtPc
  <2> QED
    BY <2>1, StepAt DEF Projected
<1>6. own[o].pc = "flush" => own'[o].closed
  <2> SUFFICES ASSUME FlushReporters(o) PROVE own'[o].closed
    BY StepAt
  <2>1. own'[o] = [To(o, "teardown") EXCEPT !.closed = TRUE]
    BY <1>t, OwnerEffect DEF FlushReporters, Close
  <2>2. To(o, "teardown") \in OwnRecord
    BY <1>t, ToType DEF OwnPc
  <2> QED
    BY <2>1, <2>2 DEF OwnRecord
<1>7. own[o].pc = "teardown" /\ own'[o].pc = "readback"
        => ~(own[o].attempted /\ Ephemeral(RunOf[o]))
  <2> SUFFICES ASSUME BeginTeardown(o), own[o].attempted, Ephemeral(RunOf[o])
               PROVE  own'[o].pc # "readback"
    BY StepAt
  <2>1. Drive(o, "tearing-down", To(o, "count"), To(o, "report"))
    BY DEF BeginTeardown
  <2>2. /\ To(o, "count") \in OwnRecord /\ To(o, "report") \in OwnRecord
        /\ To(o, "count").pc = "count" /\ To(o, "report").pc = "report"
    BY <1>t, ToFields DEF OwnPc
  <2> QED
    BY <2>1, <2>2, DriveFlow
<1>8. own[o].pc = "sweep" /\ own'[o].pc = "recover" => sweep[o].pc = "ok"
  <2> SUFFICES ASSUME Swept(o), own'[o].pc = "recover" PROVE sweep[o].pc = "ok"
    BY StepAt
  <2>1. ~Owner(o, SettleTo(o, "failed"))
    BY <1>t, OwnerEffect, GoalOfSettle DEF TeardownEnds
  <2> QED
    BY <2>1 DEF Swept
<1>9. own[o].pc = "compensate" /\ own'[o].pc = "readback" => own[o].todo = {}
  <2>1. Compensate(o) => own'[o].pc # "readback"
    <3> SUFFICES ASSUME Compensate(o), own'[o].pc = "readback" PROVE FALSE
      OBVIOUS
    <3>1. PICK w : \/ Owner(o, [own[o] EXCEPT !.todo = @ \ {w}])
                   \/ Owner(o, [SettleTo(o, "failed") EXCEPT !.todo = {}])
      BY DEF Compensate, Journal
    <3>2. [own[o] EXCEPT !.todo = @ \ {w}].pc = own[o].pc
      BY <1>t, FieldsOf
    <3>4. [SettleTo(o, "failed") EXCEPT !.todo = {}].pc = "settle"
      BY <1>t, GoalOfSettle DEF TeardownEnds
    <3>5. own[o].pc = "compensate"
      BY DEF Compensate, AtPc
    <3> QED
      BY <1>t, <3>1, <3>2, <3>4, <3>5, OwnerEffect
  <2> QED
    BY <2>1, StepAt DEF Compensated
<1>10. own'[o].pc = "settle" /\ own'[o].goal = "done"
         => own[o].pc = "readback" /\ NothingDue(RunOf[o])
  <2> SUFFICES ASSUME own'[o].pc = "settle", own'[o].goal = "done"
               PROVE  own[o].pc = "readback" /\ NothingDue(RunOf[o])
    OBVIOUS
  <2>1. own[o].pc \in {"sweep", "recover", "compensate", "readback"}
    BY OwnerFlow DEF Flow, Jumps, Turns, Settles, Lands, Opens, Catch
  <2>2. /\ ~Owner(o, SettleTo(o, "failed"))
        /\ ~Owner(o, [SettleTo(o, "failed") EXCEPT !.todo = {}])
    BY <1>t, OwnerEffect, GoalOfSettle DEF TeardownEnds
  <2>3. own[o].pc # "sweep"
    BY <1>t, <2>2, StepAt, GotoEffect DEF Swept
  <2>4. own[o].pc # "recover"
    <3> SUFFICES ASSUME Recover(o) PROVE FALSE
      BY StepAt
    <3> DEFINE s == [To(o, "compensate") EXCEPT !.todo = Unsettled(RunOf[o])]
    <3>1. s.pc = "compensate"
      BY <1>t, ToFields, FieldsOf DEF OwnPc
    <3>2. Owner(o, s)
      BY <2>2 DEF Recover
    <3> HIDE DEF s
    <3> QED
      BY <1>t, <3>1, <3>2, OwnerEffect
  <2>5. own[o].pc # "compensate"
    <3> SUFFICES ASSUME own[o].pc = "compensate" PROVE FALSE
      OBVIOUS
    <3>1. ~Compensated(o)
      BY <1>t, GotoEffect DEF Compensated
    <3>2. PICK w : Owner(o, [own[o] EXCEPT !.todo = @ \ {w}])
      BY <2>2, <3>1, StepAt DEF Compensate, Journal
    <3>3. [own[o] EXCEPT !.todo = @ \ {w}].pc = own[o].pc
      BY <1>t, FieldsOf
    <3> QED
      BY <1>t, <3>2, <3>3, OwnerEffect
  <2>6. own[o].pc = "readback" /\ ReadBack(o)
    BY <2>1, <2>3, <2>4, <2>5, StepAt
  <2> QED
    BY <2>2, <2>6 DEF ReadBack
<1>11. own[o].pc = "settle" => rec' = rec \/ Moved(RunOf[o], own[o].goal)
  BY StepAt DEF Settle, Drive, Moved
<1> QED
  BY <1>1, <1>2, <1>3, <1>4, <1>5, <1>6, <1>7, <1>8, <1>9, <1>10, <1>11
  DEF Conditions

\* An owner that takes no step of its own keeps its local state, or dies.
Unmoved(o) ==
  LET s == own[o]
      t == own'[o]
  IN /\ t.pc \in {s.pc, "dead"}
     /\ t.at = s.at /\ t.view = s.view /\ t.entered = s.entered
     /\ t.todo = s.todo /\ t.attempted = s.attempted /\ t.closed = s.closed
     /\ t.goal = s.goal

LEMMA OthersUnmoved ==
  ASSUME TypeOK, [Next]_vars, NEW p \in Owners, ~OwnerStep(p)
  PROVE  Unmoved(p)
<1>t. own \in [Owners -> OwnRecord] /\ own[p] \in OwnRecord
  BY DEF TypeOK, LifeTypeOK
<1>1. CASE own'[p] = own[p]
  BY <1>1 DEF Unmoved
<1>2. CASE \E o \in Owners : Abort(o)
  <2>1. own'[p] = own[p] \/ own'[p] = [own[p] EXCEPT !.aborted = TRUE]
    BY <1>t, <1>2 DEF Abort
  <2>2. CASE own'[p] = [own[p] EXCEPT !.aborted = TRUE]
    BY <1>t, <2>2 DEF Unmoved, OwnRecord
  <2> QED
    BY <1>1, <2>1, <2>2
<1>3. CASE \E o \in Owners : Crash(o)
  <2>1. PICK o \in Owners : Goto(o, "dead")
    BY <1>3 DEF Crash
  <2>2. own'[p] = own[p] \/ own'[p] = To(p, "dead")
    BY <1>t, <2>1 DEF Goto, To
  <2>3. CASE own'[p] = To(p, "dead")
    BY <1>t, <2>3 DEF Unmoved, OwnRecord, To
  <2> QED
    BY <1>1, <2>2, <2>3
<1>4. CASE \E o \in Owners : OwnerStep(o)
  BY <1>1, <1>4, OthersStay
<1>5. (\E c \in Cleaners : CleanerStep(c) \/ CleanCrash(c)) => UNCHANGED own
  BY CleanerKeepsStamp
<1> QED
  BY <1>1, <1>2, <1>3, <1>4, <1>5 DEF Next, lifeVars, vars

\* The reporters are closed before the teardown starts, and stay closed.
LEMMA ClosedHolds == Spec => []ClosedFirst
<1>1. Init => ClosedFirst
  BY DEF Init, ClosedFirst
<1>2. TypeOK /\ ClosedFirst /\ [Next]_vars => ClosedFirst'
  <2> SUFFICES ASSUME TypeOK, ClosedFirst, [Next]_vars, NEW o \in Owners,
                      own'[o].pc \in {"teardown", "count", "sweep"}
               PROVE  own'[o].closed
    BY DEF ClosedFirst
  <2>1. CASE OwnerStep(o)
    <3>1. own[o].pc \in {"flush", "teardown", "count", "sweep"}
      BY <2>1, OwnerFlow DEF Flow, Jumps, Turns, Settles, Lands, Opens, Catch
    <3> QED
      BY <2>1, <3>1, MarksKept, OwnerConditions DEF Keeps, Conditions, ClosedFirst
  <2>2. CASE ~OwnerStep(o)
    BY <2>2, OthersUnmoved DEF Unmoved, ClosedFirst
  <2> QED
    BY <2>1, <2>2
<1> QED
  BY <1>1, <1>2, TypeCorrect, PTL DEF Spec

------------------------------------------------------------------------------
(* Runs that keep apart: who moves a record, and who may take a run over.  *)

\* Only an owner of r and a cleaner at work on r move the record of r.
LEMMA WhoMoves ==
  ASSUME TypeOK, [Next]_vars, NEW r \in Runs
  PROVE  \/ rec'[r] = rec[r]
         \/ \E o \in Owners : OwnerStep(o) /\ RunOf[o] = r
         \/ \E c \in Cleaners : /\ CleanerStep(c) /\ cl[c].run = r
                                /\ cl[c].pc # "idle" /\ cl[c].known # "absent"
<1>t. rec \in [Runs -> RunRecord \cup {Absent}]
  BY DEF TypeOK, LifeTypeOK
<1>1. CASE \E o \in Owners : OwnerStep(o)
  <2>1. PICK o \in Owners : OwnerStep(o)
    BY <1>1
  <2>2. UNCHANGED rec \/ \E x : rec' = [rec EXCEPT ![RunOf[o]] = x]
    BY <2>1, OwnerFlow DEF Flow, Moved, Opened
  <2> QED
    BY <1>t, <2>1, <2>2
<1>2. CASE \E c \in Cleaners : CleanerStep(c)
  <2>1. PICK c \in Cleaners : CleanerStep(c)
    BY <1>2
  <2>2. \A to, next : CleanDrive(c, to, next) =>
          \/ rec' = rec
          \/ Reenters(c) /\ \E x : rec' = [rec EXCEPT ![cl[c].run] = x]
    BY DEF CleanDrive
  <2>3. \/ rec' = rec
        \/ /\ cl[c].pc # "idle" /\ Reenters(c)
           /\ \E x : rec' = [rec EXCEPT ![cl[c].run] = x]
    BY <2>1, <2>2
    DEF CleanerStep, CleanRead, CleanCount, CleanBegin, CleanRefused,
        CleanRecover, CleanCompensate, CleanDone, CleanDriveThrows
  <2> QED
    BY <1>t, <2>1, <2>3 DEF Reenters
<1>3. /\ (\E o \in Owners : Abort(o) \/ Crash(o)) => UNCHANGED rec
      /\ (\E c \in Cleaners : CleanCrash(c)) => UNCHANGED rec
  BY DEF Abort, Crash, CleanCrash
<1> QED
  BY <1>1, <1>2, <1>3 DEF Next, lifeVars, vars

\* Who has left does not come back.
LEMMA LeftStays ==
  ASSUME TypeOK, [Next]_vars, NEW o \in Owners, own[o].pc \in Left
  PROVE  own'[o].pc \in Left
<1>1. CASE OwnerStep(o)
  BY <1>1, OwnerFlow DEF Flow, Jumps, Turns, Settles, Lands, Opens, Catching, Left
<1>2. CASE ~OwnerStep(o)
  BY <1>2, OthersUnmoved DEF Unmoved, Left
<1> QED
  BY <1>1, <1>2

LEMMA RecordFollowsNext ==
  ASSUME OneOwnerEach, TypeOK, RecordInv, [Next]_vars
  PROVE  RecordFollows'
<1> SUFFICES ASSUME NEW o \in Owners, NEW r \in Runs, r = RunOf[o]
             PROVE  LET state == rec'[r].state IN
               /\ own'[o].pc \in {"scan", "open"} => state = "absent"
               /\ own'[o].pc \notin {"scan", "open"} \cup Left => state \in OpenRunStates
               /\ own'[o].pc \in Projection => state = "projecting"
               /\ own'[o].pc \in {"count", "sweep", "recover", "compensate",
                                  "readback", "settle"} => state = "tearing-down"
  BY RunOfAssumption DEF RecordFollows
<1>t. rec \in [Runs -> RunRecord \cup {Absent}] /\ rec[r] \in RunRecord \cup {Absent}
  BY DEF TypeOK, LifeTypeOK
<1>i. LET state == rec[r].state IN
        /\ own[o].pc \in {"scan", "open"} => state = "absent"
        /\ own[o].pc \notin {"scan", "open"} \cup Left => state \in OpenRunStates
        /\ own[o].pc \in Projection => state = "projecting"
        /\ own[o].pc \in {"count", "sweep", "recover", "compensate",
                          "readback", "settle"} => state = "tearing-down"
  BY DEF RecordInv, RecordFollows
<1>1. CASE OwnerStep(o)
  <2>1. Flow(o) /\ Conditions(o)
    BY <1>1, OwnerFlow, OwnerConditions
  <2>2. CASE (Jumps(own[o], own'[o]) \/ Turns(own[o], own'[o])
               \/ Settles(own[o], own'[o], r)) /\ UNCHANGED rec
    BY <1>i, <2>2
    DEF Jumps, Turns, Settles, Catching, Catch, Left, Projection
  <2>3. ASSUME NEW to, Lands(own[o], own'[o], to), Moved(r, to)
        PROVE  /\ rec'[r].state = to
               /\ own[o].pc # "scan"
    BY <1>t, <2>3, TransitionedState DEF Moved, Lands
  <2>4. CASE \E to : Lands(own[o], own'[o], to) /\ Moved(r, to)
    BY <2>3, <2>4
    DEF Lands, Left, Projection, OpenRunStates, RunState, TerminalRunStates
  <2>5. CASE Opens(own[o], own'[o])
    <3>1. rec[r] = Absent
      BY <1>i, <1>t, <2>5 DEF Opens, RunRecord, RunState
    <3>2. Opened(r)
      BY <2>1, <2>5, <3>1 DEF Conditions, Opens
    <3>3. rec'[r].state = "planned"
      BY <1>t, <3>2 DEF Opened
    <3> QED
      BY <2>5, <3>3
      DEF Opens, Left, Projection, OpenRunStates, RunState, TerminalRunStates
  <2> QED
    BY <2>1, <2>2, <2>4, <2>5 DEF Flow
<1>2. CASE ~OwnerStep(o)
  <2>1. own'[o].pc \in {own[o].pc, "dead"}
    BY <1>2, OthersUnmoved DEF Unmoved
  <2>2. CASE rec'[r] = rec[r]
    BY <1>i, <2>1, <2>2 DEF Left, Projection
  <2>3. CASE rec'[r] # rec[r]
    <3>1. ~\E p \in Owners : OwnerStep(p) /\ RunOf[p] = r
      BY <1>2 DEF OneOwnerEach
    <3>2. own[o].pc \in Left
      BY <2>3, <3>1, WhoMoves DEF RecordInv, CleanersWait
    <3> QED
      BY <2>1, <3>2 DEF Left, Projection
  <2> QED
    BY <2>2, <2>3
<1> QED
  BY <1>1, <1>2

\* A cleaner that goes on keeps to the run and the record it read.
LEMMA CleanerGoesOn ==
  ASSUME TypeOK, NEW c \in Cleaners, CleanerStep(c) \/ CleanCrash(c),
         ~CleanRead(c), cl'[c].pc # "idle"
  PROVE  /\ cl[c].pc # "idle"
         /\ cl'[c].run = cl[c].run /\ cl'[c].known = cl[c].known
<1>1. CleanFlow(c)
  BY CleanerFlow
<1>2. cl[c].pc # "idle"
  BY Zenon DEF CleanerStep, CleanCount, CleanBegin, CleanRefused,
     CleanRecover, CleanCompensate, CleanDone, CleanCrash
<1> QED
  BY <1>1, <1>2 DEF CleanFlow

LEMMA CleanersWaitNext ==
  ASSUME TypeOK, RecordInv, [Next]_vars
  PROVE  CleanersWait'
<1> SUFFICES ASSUME NEW c \in Cleaners, cl'[c].pc # "idle",
                    cl'[c].known # "absent", NEW r \in Runs, r = cl'[c].run
             PROVE  /\ Over(r)'
                    /\ \A o \in Owners : RunOf[o] = r => own'[o].pc \in Left
  <2>1. \A c \in Cleaners : cl'[c].run \in Runs
    <3>1. TypeOK'
      BY NextType
    <3> QED
      BY <3>1 DEF TypeOK, LifeTypeOK, ClRecord
  <2> QED
    BY <2>1 DEF CleanersWait, Over
<1> SUFFICES /\ Over(r)
             /\ \A o \in Owners : RunOf[o] = r => own[o].pc \in Left
  BY OverStays, LeftStays
<1>t. cl \in [Cleaners -> ClRecord]
  BY DEF TypeOK, LifeTypeOK
<1>1. CASE CleanRead(c)
  <2>1. PICK q \in Runs :
          LET known == IF c \in RemoteCleaners THEN Absent ELSE rec[q] IN
          /\ c \in RemoteCleaners \/ known.state \in TerminalRunStates
          /\ cl' = [cl EXCEPT ![c] =
               [pc |-> "count", run |-> q, known |-> known.state,
                never |-> known # Absent /\ NeverReachedRunning(known),
                recorded |-> 0, todo |-> {}]]
    BY <1>1, Zenon DEF CleanRead
  <2>2. q = r /\ cl'[c].known = IF c \in RemoteCleaners THEN Absent.state
                               ELSE rec[q].state
    BY <1>t, <2>1
  <2>3. c \notin RemoteCleaners
    BY <2>2 DEF Absent
  <2>4. rec[r].state \in TerminalRunStates
    BY <2>1, <2>2, <2>3
  <2>5. \A o \in Owners : RunOf[o] = r => own[o].pc \in Left
    BY <2>4 DEF RecordInv, RecordFollows, TerminalRunStates, OpenRunStates
  <2> QED
    BY <2>4, <2>5 DEF Over, OverStates
<1>2. CASE (CleanerStep(c) \/ CleanCrash(c)) /\ ~CleanRead(c)
  <2>1. cl[c].pc # "idle" /\ cl'[c].run = cl[c].run /\ cl'[c].known = cl[c].known
    BY <1>2, CleanerGoesOn
  <2> QED
    BY <2>1 DEF RecordInv, CleanersWait
<1>3. CASE ~(CleanerStep(c) \/ CleanCrash(c))
  <2>1. cl'[c] = cl[c]
    BY <1>3, CleanersStay
  <2> QED
    BY <2>1 DEF RecordInv, CleanersWait
<1> QED
  BY <1>1, <1>2, <1>3

(***************************************************************************)
(* However many cleaners there are, and wherever their ledgers: the record *)
(* of a run that was started once follows its owner.                       *)
(***************************************************************************)
LEMMA RecordHolds == OneOwnerEach => (Spec => []RecordInv)
<1> SUFFICES ASSUME OneOwnerEach PROVE Spec => []RecordInv
  OBVIOUS
<1>1. Init => RecordInv
  <2> SUFFICES ASSUME Init PROVE RecordInv
    OBVIOUS
  <2>1. /\ \A o \in Owners : own[o].pc = "scan" /\ rec[RunOf[o]].state = "absent"
        /\ \A c \in Cleaners : cl[c].pc = "idle"
    BY RunOfAssumption DEF Init, Absent
  <2> QED
    BY <2>1 DEF RecordInv, RecordFollows, CleanersWait, Projection
<1>2. TypeOK /\ RecordInv /\ [Next]_vars => RecordInv'
  BY RecordFollowsNext, CleanersWaitNext DEF RecordInv
<1> QED
  BY <1>1, <1>2, TypeCorrect, PTL DEF Spec

LEMMA CleanersKnowNext ==
  ASSUME RunsApart, TypeOK, CleanersKnow, [Next]_vars
  PROVE  CleanersKnow'
<1> SUFFICES ASSUME NEW c \in Cleaners, cl'[c].pc # "idle"
             PROVE  cl'[c].known # "absent"
  BY DEF CleanersKnow
<1>t. cl \in [Cleaners -> ClRecord]
  BY DEF TypeOK, LifeTypeOK
<1>1. CASE CleanRead(c)
  <2>1. PICK q \in Runs :
          /\ rec[q].state \in TerminalRunStates
          /\ cl' = [cl EXCEPT ![c] =
               [pc |-> "count", run |-> q, known |-> rec[q].state,
                never |-> rec[q] # Absent /\ NeverReachedRunning(rec[q]),
                recorded |-> 0, todo |-> {}]]
    BY <1>1, Zenon DEF CleanRead, RunsApart
  <2> QED
    BY <1>t, <2>1 DEF TerminalRunStates
<1>2. CASE (CleanerStep(c) \/ CleanCrash(c)) /\ ~CleanRead(c)
  BY <1>2, CleanerGoesOn DEF CleanersKnow
<1>3. CASE ~(CleanerStep(c) \/ CleanCrash(c))
  <2>1. cl'[c] = cl[c]
    BY <1>3, CleanersStay
  <2> QED
    BY <2>1 DEF CleanersKnow
<1> QED
  BY <1>1, <1>2, <1>3

\* A cleaner's step starts its sweep, ends it, or comes from elsewhere.
LEMMA CleanerSweeps ==
  ASSUME TypeOK, NEW c \in Cleaners, CleanerStep(c) \/ CleanCrash(c)
  PROVE  \/ sweep'[c].pc = "off"
         \/ /\ cl[c].pc = "begin" /\ cl'[c].pc = "sweep"
            /\ cl'[c].run = cl[c].run /\ sweep'[c].run = cl[c].run
         \/ UNCHANGED sweep /\ cl[c].pc # "sweep"
<1>t. /\ sweep \in [Actors -> SweepRecord] /\ c \in Actors
      /\ cl \in [Cleaners -> ClRecord] /\ cl[c] \in ClRecord
  BY DEF TypeOK, StoreTypeOK, LifeTypeOK, Actors
<1>1. CASE CleanBegin(c)
  <2>1. cl[c].pc = "begin"
    BY <1>1 DEF CleanBegin
  <2>2. CASE UNCHANGED sweep
    BY <2>1, <2>2
  <2>3. CASE /\ cl' = [cl EXCEPT ![c].pc = "sweep"]
             /\ StartSweep(c, cl[c].run, cl[c].never, cl[c].recorded)
    <3>1. cl'[c].pc = "sweep" /\ cl'[c].run = cl[c].run
      BY <1>t, <2>3 DEF ClRecord
    <3>2. sweep'[c].run = cl[c].run
      BY <1>t, <2>3 DEF StartSweep, SweepStarted
    <3> QED
      BY <2>1, <3>1, <3>2
  <2> QED
    BY <1>1, <2>2, <2>3 DEF CleanBegin, CleanDrive
<1>2. CASE CleanRefused(c) \/ CleanRecover(c) \/ CleanCrash(c)
  BY <1>t, <1>2 DEF CleanRefused, CleanRecover, CleanCrash, EndSweep, NoSweep
<1>3. CASE CleanRead(c) \/ CleanCount(c) \/ CleanCompensate(c) \/ CleanDone(c)
  BY <1>3 DEF CleanRead, CleanCount, CleanCompensate, CleanDone, storeVars, instance
<1> QED
  BY <1>1, <1>2, <1>3 DEF CleanerStep

LEMMA CleanersSweepNext ==
  ASSUME TypeOK, CleanersSweep, [Next]_vars
  PROVE  CleanersSweep'
<1> SUFFICES ASSUME NEW c \in Cleaners, sweep'[c].pc # "off"
             PROVE  cl'[c].pc = "sweep" /\ sweep'[c].run = cl'[c].run
  BY DEF CleanersSweep
<1>t. c \in Actors /\ c \notin Owners
  BY ActorsAssumption DEF Actors
<1>1. CASE CleanerStep(c) \/ CleanCrash(c)
  BY <1>1, CleanerSweeps DEF CleanersSweep
<1>2. CASE ~(CleanerStep(c) \/ CleanCrash(c))
  <2>1. cl'[c] = cl[c]
    BY <1>2, CleanersStay
  <2>2. CASE sweep'[c] = sweep[c]
    BY <2>1, <2>2 DEF CleanersSweep
  <2>3. CASE SweepStep(c) \/ FailSweep(c)
    <3>1. sweep'[c].run = sweep[c].run /\ sweep[c].pc # "off"
      BY <1>t, <2>3, SweepKeeps DEF Sweeping
    <3> QED
      BY <2>1, <3>1 DEF CleanersSweep
  <2>4. \A r, never, n : ~Starts(c, r, never, n)
    BY <1>2, <1>t DEF Starts
  <2> QED
    BY <1>t, <2>2, <2>3, <2>4, SweepFlows DEF SweepFlow
<1> QED
  BY <1>1, <1>2

LEMMA NothingLateNext ==
  ASSUME RunsApart, TypeOK, NothingLate, [Next]_vars
  PROVE  NothingLate'
<1> SUFFICES UNCHANGED late
  BY DEF NothingLate
<1>1. ASSUME NEW o \in Owners, OwnerStep(o)
      PROVE  UNCHANGED late
  <2>1. CASE Create(o)
    BY <2>1 DEF Create, CreateRow, LoseRow, RunsApart
  <2>2. CASE Drives(o) \/ Journals(o)
    BY <2>2
    DEF Drives, Provision, BeginProjection, EnterRunning, Abandon, Collect,
        BeginTeardown, Settle, Aborted, Close, Drive, Journals, IntendSpec,
        ConfirmSpec, IntendTrigger, ConfirmTrigger, Compensate, Intend,
        Confirm, Journal, instance
  <2>3. CASE ~Create(o) /\ ~Drives(o) /\ ~Journals(o)
    BY <1>1, <2>3
    DEF OwnerStep, Drives, Journals, Scan, Open, AssertFresh, ReadStages,
        VerifyInfra, AcquireLock, CheckNamespace, Projected, RunLoop,
        CallRunner, RunnerSettles, FlushReporters, Close, CountTriggers,
        Swept, Recover, Compensated, ReadBack, Report, instance
  <2> QED
    BY <2>1, <2>2, <2>3
<1>2. ASSUME NEW o \in Owners, Crash(o)
      PROVE  UNCHANGED late
  <2>1. late' = [late EXCEPT ![RunOf[o]] = @ \cup {}]
    BY <1>2 DEF Crash, Orphaned, RunsApart
  <2>2. late \in [Runs -> SUBSET Rows] /\ RunOf[o] \in Runs
    BY RunOfAssumption DEF TypeOK, StoreTypeOK
  <2> QED
    BY <2>1, <2>2
<1>3. (\E o \in Owners : Abort(o)) => UNCHANGED late
  BY DEF Abort, storeVars
<1>4. (\E c \in Cleaners : CleanerStep(c) \/ CleanCrash(c)) => UNCHANGED late
  BY CleanerKeepsStamp
<1>5. (\E a \in Actors : SweepStep(a) \/ FailSweep(a)) => UNCHANGED late
  BY DEF SweepStep, ReadTests, ReadSuites, ReadLinks, PassGate, ReadSteps,
     ReadInputs, DeleteRow, FinishSweep, FailSweep, onlySweep
<1>6. InstanceNext => UNCHANGED late
  BY DEF InstanceNext, InstanceStep, LoseTrigger, LandLate, NothingLate
<1> QED
  BY <1>1, <1>2, <1>3, <1>4, <1>5, <1>6 DEF Next, vars, storeVars

LEMMA ApartHolds == RunsApart => (Spec => []ApartInv)
<1> SUFFICES ASSUME RunsApart PROVE Spec => []ApartInv
  OBVIOUS
<1>1. Init => CleanersKnow /\ CleanersSweep /\ NothingLate
  <2> SUFFICES ASSUME Init PROVE CleanersKnow /\ CleanersSweep /\ NothingLate
    OBVIOUS
  <2>1. \A c \in Cleaners : cl[c].pc = "idle" /\ sweep[c].pc = "off"
    BY DEF Init, StoreInit, NoSweep, Actors
  <2>2. NothingLate
    BY DEF Init, StoreInit, NothingLate
  <2> QED
    BY <2>1, <2>2 DEF CleanersKnow, CleanersSweep
<1>2. /\ TypeOK /\ CleanersKnow /\ CleanersSweep /\ NothingLate /\ [Next]_vars
      => CleanersKnow' /\ CleanersSweep' /\ NothingLate'
  BY CleanersKnowNext, CleanersSweepNext, NothingLateNext
<1>3. OneOwnerEach
  BY DEF RunsApart
<1>4. Spec => []RecordInv
  BY <1>3, RecordHolds
<1> QED
  BY <1>1, <1>2, <1>4, TypeCorrect, PTL DEF Spec, ApartInv

------------------------------------------------------------------------------
(* What a run has on the instance. *)

\* One POST of project creates the next row, and it is the run's own.
CreatesNext(o, p) ==
  /\ OwnerStep(o) /\ own[o].pc = "create" /\ p \in NextRow(o)
  /\ rows' = [rows EXCEPT ![RunOf[o]] = @ \cup {p}]

LEMMA RowsCome ==
  ASSUME TypeOK, NothingLate, [Next]_vars, NEW r \in Runs,
         NEW p \in rows'[r], p \notin rows[r]
  PROVE  \E o \in Owners : CreatesNext(o, p) /\ RunOf[o] = r
<1>t. rows \in [Runs -> SUBSET Rows] /\ RunOf \in [Owners -> Runs]
  BY RunOfAssumption DEF TypeOK, StoreTypeOK
<1>l. p \notin rows[r] \cup late[r]
  BY DEF NothingLate
<1>1. CASE \E o \in Owners : OwnerStep(o)
  <2>1. PICK o \in Owners : OwnerStep(o)
    BY <1>1
  <2>2. own[o].pc = "create" /\ r = RunOf[o]
    BY <1>l, <2>1, OwnerCreates
  <2>3. Create(o)
    BY <2>1, <2>2, StepAt DEF Projected, instance
  <2>4. PICK q \in NextRow(o) :
          UNCHANGED rows \/ rows' = [rows EXCEPT ![RunOf[o]] = @ \cup {q}]
    BY <2>3 DEF Create, CreateRow, LoseRow
  <2>5. rows' = [rows EXCEPT ![RunOf[o]] = @ \cup {q}]
    BY <2>4
  <2>6. q = p
    BY <1>t, <2>2, <2>5
  <2> QED
    BY <2>1, <2>2, <2>5, <2>6 DEF CreatesNext
<1>2. CASE \E o \in Owners : Crash(o)
  BY <1>2 DEF Crash
<1>3. CASE \E o \in Owners : Abort(o)
  BY <1>3 DEF Abort, storeVars
<1>4. (\E c \in Cleaners : CleanerStep(c) \/ CleanCrash(c)) => UNCHANGED rows
  BY CleanerKeepsStamp
<1>5. ~((\E a \in Actors : SweepStep(a) \/ FailSweep(a)) \/ InstanceNext)
  BY <1>l, StoreCreatesNothing
<1> QED
  BY <1>1, <1>2, <1>3, <1>4, <1>5 DEF Next, vars, storeVars

(***************************************************************************)
(* Whoever sweeps a run, its owner waits for the sweep or has left.        *)
(***************************************************************************)
LEMMA SweptIsLeft ==
  ASSUME RunsApart, TypeOK, ApartInv, SweepIsOwned, NEW a \in Actors,
         sweep[a].pc # "off", NEW o \in Owners, RunOf[o] = sweep[a].run
  PROVE  own[o].pc \in {"sweep"} \cup Left
<1>1. CASE a \in Owners
  BY <1>1 DEF SweepIsOwned, RunsApart, OneOwnerEach
<1>2. CASE a \in Cleaners
  <2>1. cl[a].pc = "sweep" /\ sweep[a].run = cl[a].run
    BY <1>2 DEF ApartInv, CleanersSweep
  <2> QED
    BY <1>2, <2>1 DEF ApartInv, RecordInv, CleanersWait, CleanersKnow
<1> QED
  BY <1>1, <1>2 DEF Actors

\* The rows of a run stay while its owner is neither sweeping nor gone.
LEMMA RowsStay ==
  ASSUME RunsApart, TypeOK, ApartInv, SweepIsOwned, [Next]_vars,
         NEW o \in Owners, own[o].pc \notin {"sweep"} \cup Left
  PROVE  rows[RunOf[o]] \subseteq rows'[RunOf[o]]
<1> SUFFICES ASSUME NEW p \in rows[RunOf[o]], p \notin rows'[RunOf[o]]
             PROVE  FALSE
  OBVIOUS
<1>1. RunOf[o] \in Runs
  BY RunOfAssumption
<1>2. PICK a \in Actors : sweep[a].run = RunOf[o] /\ p \in Doomed(a)
  BY <1>1, RowsGo
<1>3. sweep[a].pc # "off"
  BY <1>2 DEF Doomed
<1> QED
  BY <1>2, <1>3, SweptIsLeft

\* Nothing is created for a run that is being swept or has been.
LEMMA SweptGrowsNot ==
  ASSUME RunsApart, TypeOK, ApartInv, SweepIsOwned, [Next]_vars,
         NEW a \in Actors, sweep[a].pc # "off", NEW r \in Runs, r = sweep[a].run
  PROVE  rows'[r] \subseteq rows[r]
<1> SUFFICES ASSUME NEW p \in rows'[r], p \notin rows[r] PROVE FALSE
  OBVIOUS
<1>1. PICK o \in Owners : own[o].pc = "create" /\ RunOf[o] = r
  BY RowsCome DEF ApartInv, CreatesNext
<1> QED
  BY <1>1, SweptIsLeft DEF Left

\* What o has made is its own doing.
LEMMA MadeStays ==
  ASSUME TypeOK, [Next]_vars, NEW o \in Owners
  PROVE  \/ made'[o] = made[o]
         \/ OwnerStep(o) /\ own[o].pc = "lock" /\ made'[o] = {}
         \/ /\ OwnerStep(o) /\ own[o].pc = "create"
            /\ \E p : made'[o] = made[o] \cup {p} /\ p \in rows'[RunOf[o]]
<1>t. /\ made \in [Owners -> SUBSET Rows] /\ RunOf \in [Owners -> Runs]
      /\ rows \in [Runs -> SUBSET Rows]
  BY RunOfAssumption DEF TypeOK, StoreTypeOK
<1>1. CASE \E q \in Owners : OwnerStep(q)
  <2>1. PICK q \in Owners : OwnerStep(q)
    BY <1>1
  <2>2. CASE AcquireLock(q)
    <3>1. made' = made \/ made' = [made EXCEPT ![q] = {}]
      BY <2>2 DEF AcquireLock, TakeLock
    <3>2. own[q].pc = "lock"
      BY <2>2 DEF AcquireLock, AtPc
    <3> QED
      BY <1>t, <2>1, <3>1, <3>2
  <2>3. CASE Create(q)
    <3>1. own[q].pc = "create"
      BY <2>3 DEF Create, AtPc
    <3>2. \/ made' = made
          \/ \E p : /\ rows' = [rows EXCEPT ![RunOf[q]] = @ \cup {p}]
                    /\ made' = [made EXCEPT ![q] = @ \cup {p}]
      BY <2>3 DEF Create, CreateRow
    <3>3. ASSUME NEW p, rows' = [rows EXCEPT ![RunOf[q]] = @ \cup {p}],
                 made' = [made EXCEPT ![q] = @ \cup {p}]
          PROVE  \/ made'[o] = made[o]
                 \/ /\ OwnerStep(o) /\ own[o].pc = "create"
                    /\ made'[o] = made[o] \cup {p} /\ p \in rows'[RunOf[o]]
      <4>1. CASE q = o
        BY <1>t, <2>1, <3>1, <3>3, <4>1
      <4>2. CASE q # o
        BY <1>t, <3>3, <4>2
      <4> QED
        BY <4>1, <4>2
    <3> QED
      BY <3>2, <3>3
  <2>4. CASE ~AcquireLock(q) /\ ~Create(q)
    <3>1. UNCHANGED made
      <4>1. CASE Drives(q) \/ Journals(q)
        BY <4>1
        DEF Drives, Provision, BeginProjection, EnterRunning, Abandon, Collect,
            BeginTeardown, Settle, Aborted, Close, Drive, Journals, IntendSpec,
            ConfirmSpec, IntendTrigger, ConfirmTrigger, Compensate, Intend,
            Confirm, Journal, instance
      <4>2. CASE ~Drives(q) /\ ~Journals(q)
        BY <2>1, <2>4, <4>2
        DEF OwnerStep, Drives, Journals, Scan, Open, AssertFresh, ReadStages,
            VerifyInfra, CheckNamespace, Projected, RunLoop, CallRunner,
            RunnerSettles, FlushReporters, Close, CountTriggers, Swept,
            Recover, Compensated, ReadBack, Report, instance
      <4> QED
        BY <4>1, <4>2
    <3> QED
      BY <3>1
  <2> QED
    BY <2>2, <2>3, <2>4
<1>2. (\E q \in Owners : Abort(q) \/ Crash(q)) => UNCHANGED made
  BY DEF Abort, Crash, storeVars
<1>3. (\E c \in Cleaners : CleanerStep(c) \/ CleanCrash(c)) => UNCHANGED made
  BY DEF CleanerStep, CleanCrash, CleanRead, CleanCount, CleanBegin,
     CleanRefused, CleanRecover, CleanCompensate, CleanDone, storeVars, instance
<1>4. (\E a \in Actors : SweepStep(a) \/ FailSweep(a)) => UNCHANGED made
  BY DEF SweepStep, ReadTests, ReadSuites, ReadLinks, PassGate, ReadSteps,
     ReadInputs, DeleteRow, FinishSweep, FailSweep, onlySweep
<1>5. InstanceNext => UNCHANGED made
  BY DEF InstanceNext, InstanceStep, LoseTrigger, LandLate
<1> QED
  BY <1>1, <1>2, <1>3, <1>4, <1>5 DEF Next, vars, storeVars

\* A record that is there keeps its lifecycle and does not go.
LEMMA LifecycleStays ==
  ASSUME TypeOK, [Next]_vars, NEW r \in Runs, rec[r] # Absent
  PROVE  rec'[r] # Absent /\ rec'[r].lifecycle = rec[r].lifecycle
<1>t. rec \in [Runs -> RunRecord \cup {Absent}] /\ rec[r] \in RunRecord
  BY DEF TypeOK, LifeTypeOK
<1>f. \A to : LET t == Transitioned(rec[r], to) IN
        t.lifecycle = rec[r].lifecycle /\ t.state = to
  BY <1>t DEF Transitioned, RunRecord
<1>1. CASE \E o \in Owners : OwnerStep(o)
  <2>1. PICK o \in Owners : OwnerStep(o)
    BY <1>1
  <2>2. \/ rec' = rec
        \/ \E to : Lands(own[o], own'[o], to) /\ Moved(RunOf[o], to)
        \/ Opened(RunOf[o])
    BY <2>1, OwnerFlow DEF Flow
  <2>3. CASE Opened(RunOf[o])
    BY <1>t, <2>3 DEF Opened
  <2>4. ASSUME NEW to, Lands(own[o], own'[o], to), Moved(RunOf[o], to)
        PROVE  rec'[r] # Absent /\ rec'[r].lifecycle = rec[r].lifecycle
    <3>1. to # "absent"
      BY <2>4 DEF Lands, TeardownEnds
    <3>2. rec'[r] = rec[r] \/ rec'[r] = Transitioned(rec[r], to)
      BY <1>t, <2>4 DEF Moved
    <3> QED
      BY <1>f, <3>1, <3>2 DEF Absent
  <2> QED
    BY <2>2, <2>3, <2>4
<1>2. CASE \E c \in Cleaners : CleanerStep(c)
  <2>1. PICK c \in Cleaners : CleanerStep(c)
    BY <1>2
  <2>2. \A to, next : CleanDrive(c, to, next) =>
          \/ rec' = rec
          \/ rec' = [rec EXCEPT ![cl[c].run] = Transitioned(@, to)]
    BY DEF CleanDrive
  <2>3. \/ rec' = rec
        \/ \E to \in {"tearing-down", "failed", "done"} :
             rec' = [rec EXCEPT ![cl[c].run] = Transitioned(@, to)]
    BY <2>1, <2>2
    DEF CleanerStep, CleanRead, CleanCount, CleanBegin, CleanRefused,
        CleanRecover, CleanCompensate, CleanDone, CleanDriveThrows
  <2>4. rec'[r] = rec[r] \/ \E to \in {"tearing-down", "failed", "done"} :
          rec'[r] = Transitioned(rec[r], to)
    BY <1>t, <2>3
  <2> QED
    BY <1>f, <2>4 DEF Absent
<1>3. /\ (\E o \in Owners : Abort(o) \/ Crash(o)) => UNCHANGED rec
      /\ (\E c \in Cleaners : CleanCrash(c)) => UNCHANGED rec
  BY DEF Abort, Crash, CleanCrash
<1> QED
  BY <1>1, <1>2, <1>3 DEF Next, lifeVars, vars

\* The suite is the first row of all.
LEMMA SuiteIsFirst ==
  ASSUME NEW o \in Owners, NextRow(o) = {}
  PROVE  Suite \in made[o]
<1>1. \A q \in Rows : ~CreatedBefore(q, Suite)
  BY CountsAssumption
  DEF Rows, Suite, Kinds, Specs, CreatedBefore, CreateRank
<1>2. Suite \in Rows
  BY DEF Rows
<1> QED
  BY <1>1, <1>2 DEF NextRow

LEMMA RowsAreProjectedNext ==
  ASSUME RunsApart, TypeOK, ApartInv, SweepIsOwned, RowsAreProjected, [Next]_vars
  PROVE  RowsAreProjected'
<1> SUFFICES ASSUME NEW o \in Owners, NEW r \in Runs, r = RunOf[o]
             PROVE  /\ own'[o].pc \in Projection => own'[o].attempted
                    /\ own'[o].pc \in {"namespace", "create"} =>
                         rec'[r].lifecycle = "ephemeral"
                    /\ rows'[r] # {} => /\ own'[o].attempted
                                        /\ rec'[r].lifecycle = "ephemeral"
                                        /\ rec'[r] # Absent
                    /\ own'[o].pc \in {"namespace", "create"} =>
                         made'[o] \subseteq rows'[r]
                    /\ own'[o].pc \in {"confirm", "enter"} \cup TriggerLoop =>
                         Suite \in rows'[r]
  BY RunOfAssumption DEF RowsAreProjected, Ephemeral
<1>i. /\ own[o].pc \in Projection => own[o].attempted
      /\ own[o].pc \in {"namespace", "create"} => rec[r].lifecycle = "ephemeral"
      /\ rows[r] # {} => /\ own[o].attempted /\ rec[r].lifecycle = "ephemeral"
                         /\ rec[r] # Absent
      /\ own[o].pc \in {"namespace", "create"} => made[o] \subseteq rows[r]
      /\ own[o].pc \in {"confirm", "enter"} \cup TriggerLoop => Suite \in rows[r]
  BY DEF RowsAreProjected, Ephemeral
<1>m. own[o].attempted => own'[o].attempted
  BY MarksKept, OthersUnmoved DEF Keeps, Unmoved
<1>p. own[o].pc \in Projection => rec[r] # Absent
  BY DEF ApartInv, RecordInv, RecordFollows, Absent
<1>s. own[o].pc \in Projection \cup {"confirm", "enter"} \cup TriggerLoop
        => rows[r] \subseteq rows'[r]
  BY RowsStay DEF Projection, TriggerLoop, Left
<1>w. \/ OwnerStep(o) /\ Flow(o) /\ Conditions(o)
      \/ ~OwnerStep(o) /\ own'[o].pc \in {own[o].pc, "dead"}
  BY OwnerFlow, OwnerConditions, OthersUnmoved DEF Unmoved
<1>1. own'[o].pc \in Projection => own'[o].attempted
  <2>1. \/ own'[o].pc \notin Projection
        \/ own[o].pc \in Projection
        \/ own[o].pc = "project" /\ own'[o].pc = "intend" /\ Conditions(o)
    BY <1>w
    DEF Flow, Jumps, Turns, Settles, Lands, Opens, Catching, Catch, Projection
  <2> QED
    BY <1>i, <1>m, <2>1 DEF Conditions
<1>2. own'[o].pc \in {"namespace", "create"} => rec'[r].lifecycle = "ephemeral"
  <2>1. \/ own'[o].pc \notin {"namespace", "create"}
        \/ own[o].pc \in {"namespace", "create"}
        \/ own[o].pc = "lock" /\ own'[o].pc = "namespace" /\ Conditions(o)
    BY <1>w
    DEF Flow, Jumps, Turns, Settles, Lands, Opens, Catching, Catch
  <2>2. \/ own'[o].pc \notin {"namespace", "create"}
        \/ own[o].pc \in Projection /\ rec[r].lifecycle = "ephemeral"
    BY <1>i, <2>1 DEF Conditions, Ephemeral, Projection
  <2> QED
    BY <1>p, <2>2, LifecycleStays
<1>3. rows'[r] # {} => /\ own'[o].attempted /\ rec'[r].lifecycle = "ephemeral"
                       /\ rec'[r] # Absent
  <2>1. CASE rows[r] # {}
    BY <1>i, <1>m, <2>1, LifecycleStays
  <2>2. CASE rows[r] = {} /\ rows'[r] # {}
    <3>1. PICK q \in Owners : own[q].pc = "create" /\ RunOf[q] = r
      BY <2>2, RowsCome DEF ApartInv, CreatesNext
    <3>2. q = o
      BY <3>1 DEF RunsApart, OneOwnerEach
    <3> QED
      BY <1>i, <1>m, <1>p, <3>1, <3>2, LifecycleStays DEF Projection
  <2> QED
    BY <2>1, <2>2
<1>4. own'[o].pc \in {"namespace", "create"} => made'[o] \subseteq rows'[r]
  <2>1. \/ own'[o].pc \notin {"namespace", "create"}
        \/ own[o].pc \in {"namespace", "create"}
        \/ own[o].pc = "lock" /\ own'[o].pc = "namespace" /\ Conditions(o)
    BY <1>w
    DEF Flow, Jumps, Turns, Settles, Lands, Opens, Catching, Catch
  <2>2. CASE own[o].pc \in {"namespace", "create"}
    BY <1>i, <1>s, <2>2, MadeStays DEF Projection
  <2>3. CASE own[o].pc = "lock" /\ own'[o].pc = "namespace" /\ Conditions(o)
    BY <2>3 DEF Conditions
  <2> QED
    BY <2>1, <2>2, <2>3
<1>5. own'[o].pc \in {"confirm", "enter"} \cup TriggerLoop => Suite \in rows'[r]
  <2>1. \/ own'[o].pc \notin {"confirm", "enter"} \cup TriggerLoop
        \/ own[o].pc \in {"confirm", "enter"} \cup TriggerLoop
        \/ own[o].pc = "create" /\ own'[o].pc = "confirm" /\ Conditions(o)
    BY <1>w
    DEF Flow, Jumps, Turns, Settles, Lands, Opens, Catching, Catch, TriggerLoop
  <2>2. CASE own[o].pc \in {"confirm", "enter"} \cup TriggerLoop
    BY <1>i, <1>s, <2>2
  <2>3. CASE own[o].pc = "create" /\ own'[o].pc = "confirm" /\ Conditions(o)
    <3>1. Suite \in made[o]
      BY <2>3, SuiteIsFirst DEF Conditions
    <3> QED
      BY <1>i, <1>s, <2>3, <3>1 DEF Projection
  <2> QED
    BY <2>1, <2>2, <2>3
<1> QED
  BY <1>1, <1>2, <1>3, <1>4, <1>5

\* The row another row hangs off.
Parent(p) ==
  CASE p[1] = "test"             -> Suite
    [] p[1] \in {"link", "step"} -> <<"test", p[2]>>
    [] p[1] = "input"            -> <<"step", p[2]>>
    [] OTHER                     -> p

LEMMA ParentFacts ==
  ASSUME NEW p \in Rows
  PROVE  /\ Parent(p) \in Rows
         /\ Parent(p) # p => /\ CreatedBefore(Parent(p), p)
                             /\ DeleteRank[p[1]] < DeleteRank[Parent(p)[1]]
                             /\ Parent(p)[1] # "link"
<1>1. CASE p = Suite
  BY <1>1 DEF Parent, Suite
<1>2. CASE p \in Kinds \X Specs
  <2>0. PICK k \in Kinds, s \in Specs : p = <<k, s>>
    BY <1>2
  <2>s. s \in Nat /\ s > 0 /\ <<"test", s>> \in Rows /\ <<"step", s>> \in Rows
        /\ Suite \in Rows
    BY CountsAssumption DEF Specs, Rows, Kinds
  <2>1. CASE k = "test"
    BY <2>0, <2>s, <2>1 DEF Parent, Suite, CreatedBefore, CreateRank, DeleteRank
  <2>2. CASE k \in {"link", "step"}
    BY <2>0, <2>s, <2>2 DEF Parent, Suite, CreatedBefore, CreateRank, DeleteRank
  <2>3. CASE k = "input"
    BY <2>0, <2>s, <2>3 DEF Parent, Suite, CreatedBefore, CreateRank, DeleteRank
  <2> QED
    BY <2>0, <2>1, <2>2, <2>3 DEF Kinds
<1> QED
  BY <1>1, <1>2 DEF Rows

Hangs(p, S) ==
  /\ p[1] = "test" => Suite \in S
  /\ p[1] \in {"link", "step"} => <<"test", p[2]>> \in S
  /\ p[1] = "input" => <<"step", p[2]>> \in S

LEMMA HangsOffParent ==
  ASSUME NEW S \in SUBSET Rows, NEW p \in S
  PROVE  Parent(p) \in S <=> Hangs(p, S)
<1>1. \A q \in Rows : q[1] \in {"suite"} \cup Kinds
  BY DEF Rows, Suite, Kinds
<1> QED
  BY <1>1 DEF Parent, Kinds, Hangs

\* A sweep that deletes has found every row of the run.
LEMMA FoundAll ==
  ASSUME TypeOK, SweepFindsAll, NEW a \in Actors, sweep[a].pc = "delete"
  PROVE  rows[sweep[a].run] \subseteq sweep[a].found
<1>1. rows[sweep[a].run] \subseteq Rows
  BY DEF TypeOK, StoreTypeOK, SweepRecord
<1>2. \A p \in Rows : p[1] \in {"suite", "test", "link", "step", "input"}
  BY DEF Rows, Suite, Kinds
<1>3. \A k \in {"suite", "test", "link", "step", "input"} :
        OfKind(rows[sweep[a].run], k) \subseteq sweep[a].found
  BY DEF SweepFindsAll, PastGate
<1> QED
  BY <1>1, <1>2, <1>3 DEF OfKind

LEMMA RowsHangNext ==
  ASSUME RunsApart, TypeOK, ApartInv, SweepIsOwned, RowsInv, [Next]_vars
  PROVE  RowsHang'
<1>t. TypeOK' /\ rows \in [Runs -> SUBSET Rows] /\ rows' \in [Runs -> SUBSET Rows]
  <2>1. TypeOK'
    BY NextType
  <2> QED
    BY <2>1 DEF TypeOK, StoreTypeOK
<1>1. ASSUME NEW r \in Runs, NEW p \in rows'[r] PROVE Parent(p) \in rows'[r]
  <2> SUFFICES ASSUME Parent(p) # p PROVE Parent(p) \in rows'[r]
    OBVIOUS
  <2>1. /\ Parent(p) \in Rows /\ CreatedBefore(Parent(p), p)
        /\ DeleteRank[p[1]] < DeleteRank[Parent(p)[1]]
        /\ Parent(p)[1] # "link"
    BY <1>t, ParentFacts
  <2>2. CASE p \in rows[r]
    <3>1. Parent(p) \in rows[r]
      <4>1. Hangs(p, rows[r])
        BY <2>2 DEF RowsInv, RowsHang, Hangs
      <4> QED
        BY <1>t, <2>2, <4>1, HangsOffParent
    <3> SUFFICES ASSUME Parent(p) \notin rows'[r] PROVE FALSE
      OBVIOUS
    <3>2. PICK a \in Actors : sweep[a].run = r /\ Parent(p) \in Doomed(a)
      BY <3>1, RowsGo
    <3>3. sweep[a].pc = "delete"
      BY <2>1, <3>2 DEF Doomed, OfKind
    <3>4. p \in sweep[a].found
      BY <2>2, <3>2, <3>3, FoundAll DEF RowsInv
    <3>5. DeleteRank[Parent(p)[1]] <= DeleteRank[p[1]]
      BY <3>2, <3>3, <3>4 DEF Doomed
    <3>6. DeleteRank[p[1]] \in Int /\ DeleteRank[Parent(p)[1]] \in Int
      <4>1. \A q \in Rows : DeleteRank[q[1]] \in Int
        BY DEF DeleteRank, Rows, Suite, Kinds
      <4> QED
        BY <1>t, <2>1, <4>1
    <3> QED
      BY <2>1, <3>5, <3>6
  <2>3. CASE p \notin rows[r]
    <3>1. PICK o \in Owners : CreatesNext(o, p) /\ RunOf[o] = r
      BY <2>3, RowsCome DEF ApartInv
    <3>2. Parent(p) \in made[o]
      BY <2>1, <3>1 DEF CreatesNext, NextRow
    <3>3. own[o].pc = "create"
      BY <3>1 DEF CreatesNext
    <3> QED
      BY <3>1, <3>2, <3>3, RowsStay DEF RowsInv, RowsAreProjected, Left
  <2> QED
    BY <2>2, <2>3
<1>2. \A r \in Runs : \A p \in rows'[r] : Hangs(p, rows'[r])
  BY <1>1, <1>t, HangsOffParent
<1> QED
  BY <1>2 DEF RowsHang, Hangs

LEMMA SweepFindsAllNext ==
  ASSUME RunsApart, TypeOK, ApartInv, SweepIsOwned, RowsInv, [Next]_vars
  PROVE  SweepFindsAll'
<1>t. \A a \in Actors : sweep'[a].run \in Runs
  <2>1. TypeOK'
    BY NextType
  <2> QED
    BY <2>1 DEF TypeOK, StoreTypeOK, SweepRecord
<1> DEFINE Finding(s, S) ==
      /\ s.pc \in {"suites", "links", "gate"} \cup PastGate => OfKind(S, "test") \subseteq s.found
      /\ s.pc \in {"links", "gate"} \cup PastGate => OfKind(S, "suite") \subseteq s.found
      /\ s.pc \in {"gate"} \cup PastGate => OfKind(S, "link") \subseteq s.found
      /\ s.pc \in {"inputs", "delete"} => OfKind(S, "step") \subseteq s.found
      /\ s.pc = "delete" => OfKind(S, "input") \subseteq s.found
      /\ s.pc = "ok" => S = {}
<1> SUFFICES ASSUME NEW a \in Actors, NEW r \in Runs, r = sweep'[a].run
             PROVE  Finding(sweep'[a], rows'[r])
  BY <1>t DEF SweepFindsAll
<1>0. sweep[a].run = r => Finding(sweep[a], rows[r])
  BY DEF RowsInv, SweepFindsAll
<1>g. sweep[a].run = r /\ sweep[a].pc # "off" => rows'[r] \subseteq rows[r]
  BY SweptGrowsNot
<1>k. \A S, T, k : S \subseteq T => OfKind(S, k) \subseteq OfKind(T, k)
  BY DEF OfKind
<1>1. CASE sweep'[a] = sweep[a]
  BY <1>0, <1>g, <1>k, <1>1 DEF PastGate
<1>2. CASE SweepStep(a) \/ FailSweep(a)
  <2>1. sweep[a].run = r /\ sweep[a].pc # "off" /\ SweepMoves(a)
    BY <1>2, SweepKeeps, SweepStepMoves DEF Sweeping
  <2> DEFINE s == sweep[a]
             t == sweep'[a]
  <2>2. Finding(s, rows[r]) /\ rows'[r] \subseteq rows[r]
    BY <1>0, <1>g, <2>1
  <2>h. \A p \in rows[r] :
          /\ p[1] \in {"link", "step"} => <<"test", p[2]>> \in rows[r]
          /\ p[1] = "input" => <<"step", p[2]>> \in rows[r]
    BY DEF RowsInv, RowsHang
  <2>3. CASE Finds(s, t) /\ UNCHANGED rows
    <3>1. OfKind(rows[r], "test") \subseteq s.found =>
            \A p \in rows[r] : p[1] \in {"link", "step"} => <<"test", p[2]>> \in s.found
      BY <2>h DEF OfKind
    <3>2. OfKind(rows[r], "step") \subseteq s.found =>
            \A p \in rows[r] : p[1] = "input" => <<"step", p[2]>> \in s.found
      BY <2>h DEF OfKind
    <3>3. s.pc = "tests" => Finding(t, rows'[r])
      BY <2>1, <2>3 DEF Finds, PastGate
    <3>4. s.pc = "suites" => Finding(t, rows'[r])
      BY <2>1, <2>2, <2>3 DEF Finds, PastGate
    <3>5. s.pc = "links" => Finding(t, rows'[r])
      <4> SUFFICES ASSUME s.pc = "links" PROVE Finding(t, rows'[r])
        OBVIOUS
      <4>1. t.found = s.found \cup OfKind(rows[r], "link")
        BY <2>1, <2>2, <2>3, <3>1 DEF Finds, OfKind, PastGate
      <4>2. t.pc \in {"gate", "refused"}
        BY <2>3 DEF Finds
      <4> QED
        BY <2>2, <2>3, <4>1, <4>2 DEF PastGate
    <3>6. s.pc = "unlink" => Finding(t, rows'[r])
      <4> SUFFICES ASSUME s.pc = "unlink" PROVE Finding(t, rows'[r])
        OBVIOUS
      <4>1. t.found = s.found \cup OfKind(rows[r], "step")
        BY <2>1, <2>2, <2>3, <3>1 DEF Finds, Hanging, OfKind, PastGate
      <4>2. t.pc = "inputs"
        BY <2>3 DEF Finds
      <4> QED
        BY <2>2, <2>3, <4>1, <4>2 DEF PastGate
    <3>7. s.pc = "inputs" => Finding(t, rows'[r])
      <4> SUFFICES ASSUME s.pc = "inputs" PROVE Finding(t, rows'[r])
        OBVIOUS
      <4>1. t.found = s.found \cup OfKind(rows[r], "input")
        BY <2>1, <2>2, <2>3, <3>2 DEF Finds, Hanging, OfKind, PastGate
      <4>2. t.pc = "delete"
        BY <2>3 DEF Finds
      <4> QED
        BY <2>2, <2>3, <4>1, <4>2 DEF PastGate
    <3> QED
      BY <2>3, <3>3, <3>4, <3>5, <3>6, <3>7 DEF Finds
  <2>4. CASE Judges(s, t) /\ UNCHANGED rows
    <3>1. s.pc = "delete" /\ s.found = {} => rows[r] = {}
      BY <2>1, FoundAll DEF RowsInv
    <3> QED
      BY <2>2, <2>4, <3>1 DEF Judges, PastGate
  <2>5. ASSUME NEW p, Deletes(a, s, t, p)
        PROVE  Finding(t, rows'[r])
    <3>1. rows'[r] = rows[r] \ {p}
      BY <2>1, <2>5 DEF Deletes, TypeOK, StoreTypeOK
    <3>2. \A k : OfKind(rows'[r], k) = OfKind(rows[r], k) \ {p}
      BY <3>1 DEF OfKind
    <3>3. s.pc \in PastGate /\ t.pc = s.pc /\ t.found = s.found \ {p}
      BY <2>5 DEF Deletes, Doomed, PastGate
    <3> QED
      BY <2>2, <3>2, <3>3 DEF PastGate
  <2>6. CASE t.pc = "fault"
    BY <2>6 DEF PastGate
  <2> QED
    BY <2>1, <2>3, <2>4, <2>5, <2>6 DEF SweepMoves
<1>3. CASE sweep'[a].pc = "off"
  BY <1>3 DEF PastGate
<1>4. CASE \E q, never, n : sweep'[a] = SweepStarted(q, never, n)
  BY <1>4 DEF SweepStarted, PastGate
<1> QED
  BY <1>1, <1>2, <1>3, <1>4, SweepFlows DEF SweepFlow

LEMMA RowsHold == RunsApart => (Spec => []RowsInv)
<1> SUFFICES ASSUME RunsApart PROVE Spec => []RowsInv
  OBVIOUS
<1>1. Init => RowsInv
  <2> SUFFICES ASSUME Init PROVE RowsInv
    OBVIOUS
  <2>1. /\ \A o \in Owners : own[o].pc = "scan"
        /\ \A r \in Runs : rows[r] = {}
        /\ \A a \in Actors : sweep[a].pc = "off"
    BY DEF Init, StoreInit, NoSweep
  <2>2. RowsAreProjected
    BY <2>1, RunOfAssumption DEF RowsAreProjected, Projection, TriggerLoop
  <2>3. RowsHang /\ SweepFindsAll
    BY <2>1 DEF RowsHang, SweepFindsAll, PastGate
  <2> QED
    BY <2>2, <2>3 DEF RowsInv
<1>2. TypeOK /\ ApartInv /\ LockInv /\ RowsInv /\ [Next]_vars => RowsInv'
  BY RowsAreProjectedNext, RowsHangNext, SweepFindsAllNext DEF RowsInv, LockInv
<1> QED
  BY <1>1, <1>2, TypeCorrect, ApartHolds, LockHolds, PTL DEF Spec

------------------------------------------------------------------------------
(* What is settled when a run is called compensated or done. *)

LEMMA WhoFlips ==
  ASSUME TypeOK, [Next]_vars, NEW r \in Runs, NEW w \in Writes,
         entry'[r][w] # entry[r][w]
  PROVE  \/ \E o \in Owners :
              OwnerStep(o) /\ RunOf[o] = r /\ Flips(o, w, entry[r][w], entry'[r][w])
         \/ \E c \in Cleaners :
              /\ CleanerStep(c) /\ cl[c].run = r /\ cl[c].pc = "compensate"
              /\ entry'[r][w] = "compensated"
<1>1. CASE \E o \in Owners : OwnerStep(o)
  BY <1>1, OwnerFlips
<1>2. CASE \E c \in Cleaners : CleanerStep(c) \/ CleanCrash(c)
  <2>1. PICK c \in Cleaners : CleanerStep(c) \/ CleanCrash(c)
    BY <1>2
  <2>2. CleanCompensate(c)
    BY <2>1 DEF CleanerStep, CleanCrash, CleanRead, CleanCount, CleanBegin,
       CleanRefused, CleanRecover, CleanDone, storeVars
  <2>3. cl[c].pc = "compensate" /\ ~CleanCrash(c)
    BY <2>2 DEF CleanCompensate, CleanCrash
  <2> QED
    BY <2>1, <2>3, CleanerFlips
<1>3. (\E o \in Owners : Abort(o) \/ Crash(o)) => UNCHANGED entry
  BY DEF Abort, Crash
<1> QED
  BY <1>1, <1>2, <1>3 DEF Next, lifeVars, vars

\* Where an owner may make a settled write unsettled, or a new one.
Journalling == {"intend", "next", "answered"}

\* No write of r becomes unsettled while nobody journals for it.
LEMMA UnsettledShrinks ==
  ASSUME TypeOK, [Next]_vars, NEW r \in Runs,
         \A o \in Owners : RunOf[o] = r => own[o].pc \notin Journalling
  PROVE  Unsettled(r)' \subseteq Unsettled(r)
<1> SUFFICES ASSUME NEW w \in Writes, entry'[r][w] \in {"intended", "applied"}
             PROVE  entry[r][w] \in {"intended", "applied"}
  BY DEF Unsettled
<1>1. CASE entry'[r][w] = entry[r][w]
  BY <1>1
<1>2. CASE entry'[r][w] # entry[r][w]
  <2>1. PICK o \in Owners :
          RunOf[o] = r /\ Flips(o, w, entry[r][w], entry'[r][w])
    BY <1>2, WhoFlips
  <2> QED
    BY <2>1 DEF Flips, Journalling
<1> QED
  BY <1>1, <1>2

LEMMA DueStays ==
  ASSUME TypeOK, [Next]_vars, NEW r \in Runs, rec[r] # Absent, NothingDue(r),
         \A o \in Owners : RunOf[o] = r => own[o].pc \notin Journalling
  PROVE  NothingDue(r)'
<1>1. Unsettled(r)' \subseteq Unsettled(r)
  BY UnsettledShrinks
<1>2. Ephemeral(r)' => Ephemeral(r)
  BY LifecycleStays DEF Ephemeral
<1> QED
  BY <1>1, <1>2 DEF NothingDue

\* No row comes back while nobody projects.
LEMMA EmptyStays ==
  ASSUME TypeOK, NothingLate, [Next]_vars, NEW r \in Runs, rows[r] = {},
         \A o \in Owners : RunOf[o] = r => own[o].pc # "create"
  PROVE  rows'[r] = {}
<1> SUFFICES ASSUME NEW p \in rows'[r] PROVE FALSE
  OBVIOUS
<1> QED
  BY RowsCome DEF CreatesNext

\* The conditions under which a cleaner takes the steps that matter here.
CleanConditions(c) ==
  LET s == cl[c]
      t == cl'[c]
  IN /\ s.pc = "sweep" /\ t.pc = "compensate" =>
          sweep[c].pc = "ok" /\ UNCHANGED entry
     /\ s.pc = "compensate" /\ t.pc = "compensate" =>
          \E w : t.todo = s.todo \ {w} /\ entry'[s.run][w] = "compensated"
     /\ \A r \in Runs : rec[r].state # "done" /\ rec'[r].state = "done" =>
          s.pc = "compensate" /\ s.run = r /\ s.todo = {}

LEMMA CleanerConditions ==
  ASSUME TypeOK, NEW c \in Cleaners, CleanerStep(c)
  PROVE  CleanConditions(c)
<1>t. /\ cl \in [Cleaners -> ClRecord] /\ cl[c] \in ClRecord
      /\ rec \in [Runs -> RunRecord \cup {Absent}]
      /\ entry \in [Runs -> [Writes -> EntryState \cup {"none"}]]
  BY DEF TypeOK, LifeTypeOK
<1>x. Exit(c) => cl'[c].pc = "idle"
  BY ExitEffect
<1>1. cl[c].pc = "sweep" /\ cl'[c].pc = "compensate" =>
        sweep[c].pc = "ok" /\ UNCHANGED entry
  <2>1. cl[c].pc = "sweep" => CleanRefused(c) \/ CleanRecover(c)
    BY DEF CleanerStep, CleanRead, CleanCount, CleanBegin, CleanCompensate, CleanDone
  <2>2. CleanRefused(c) => cl'[c].pc = "idle"
    <3>1. CleanRefused(c) => Exit(c)
      BY DEF CleanRefused, CleanDrive, CleanDriveThrows
    <3> QED
      BY <1>x, <3>1
  <2> QED
    BY <2>1, <2>2 DEF CleanRecover
<1>2. cl[c].pc = "compensate" /\ cl'[c].pc = "compensate" =>
        \E w : cl'[c].todo = cl[c].todo \ {w} /\ entry'[cl[c].run][w] = "compensated"
  <2> SUFFICES ASSUME cl[c].pc = "compensate", cl'[c].pc = "compensate"
               PROVE  \E w : /\ cl'[c].todo = cl[c].todo \ {w}
                             /\ entry'[cl[c].run][w] = "compensated"
    OBVIOUS
  <2>1. CleanDone(c) => Exit(c)
    BY DEF CleanDone, CleanDrive, CleanDriveThrows
  <2>2. CleanCompensate(c)
    BY <1>x, <2>1 DEF CleanerStep, CleanRead, CleanCount, CleanBegin,
       CleanRefused, CleanRecover
  <2>3. PICK w \in Last(cl[c].todo) :
          /\ entry' = [entry EXCEPT ![cl[c].run][w] = "compensated"]
          /\ cl' = [cl EXCEPT ![c].todo = @ \ {w}]
    BY <1>x, <2>2 DEF CleanCompensate
  <2>4. w \in Writes /\ cl[c].run \in Runs
    BY <1>t DEF Last, ClRecord
  <2>5. cl'[c] = [cl[c] EXCEPT !.todo = @ \ {w}]
    BY <1>t, <2>3
  <2>6. cl'[c].todo = cl[c].todo \ {w}
    BY <1>t, <2>5, CleanerFields
  <2>7. entry'[cl[c].run][w] = "compensated"
    BY <1>t, <2>3, <2>4
  <2> QED
    BY <2>6, <2>7
<1>3. ASSUME NEW r \in Runs, rec[r].state # "done", rec'[r].state = "done"
      PROVE  cl[c].pc = "compensate" /\ cl[c].run = r /\ cl[c].todo = {}
  <2>1. \A to : rec' = [rec EXCEPT ![cl[c].run] = Transitioned(@, to)]
          => cl[c].run = r /\ to = "done"
    BY <1>t, <1>3, TransitionedState
  <2>2. rec' # rec
    BY <1>3
  <2>3. ~CleanBegin(c) /\ ~CleanRefused(c)
    BY <2>1, <2>2 DEF CleanBegin, CleanRefused, CleanDrive, CleanDriveThrows
  <2>4. CleanDone(c)
    BY <2>2, <2>3 DEF CleanerStep, CleanRead, CleanCount, CleanRecover, CleanCompensate
  <2> QED
    BY <2>1, <2>2, <2>4 DEF CleanDone, CleanDrive, CleanDriveThrows
<1> QED
  BY <1>1, <1>2, <1>3 DEF CleanConditions

\* Everything the settlement rests on.
Ground == TypeOK /\ ApartInv /\ SweepIsOwned /\ RowsInv /\ GateInv

\* The record of a run an owner or a cleaner is settling is there.
LEMMA OwnedIsOnRecord ==
  ASSUME TypeOK, ApartInv, NEW o \in Owners,
         own[o].pc \notin {"scan", "open"} \cup Left
  PROVE  rec[RunOf[o]] # Absent
BY DEF ApartInv, RecordInv, RecordFollows, Absent, OpenRunStates, RunState

LEMMA OwnerLeavesNext ==
  ASSUME RunsApart, Ground, OwnerLeavesNothing, [Next]_vars
  PROVE  OwnerLeavesNothing'
<1> SUFFICES ASSUME NEW o \in Owners, NEW r \in Runs, r = RunOf[o],
                    \/ own'[o].pc \in {"recover", "compensate", "readback"}
                    \/ own'[o].pc = "settle" /\ own'[o].goal = "done"
             PROVE  /\ rows'[r] = {}
                    /\ own'[o].pc = "settle" => NothingDue(r)'
  BY RunOfAssumption DEF OwnerLeavesNothing, NothingDue, Ephemeral, Unsettled
<1>t. TypeOK /\ ApartInv /\ SweepIsOwned /\ RowsInv /\ NothingLate
  BY DEF Ground, ApartInv
<1>a. \A p \in Owners : RunOf[p] = r => p = o
  BY DEF RunsApart, OneOwnerEach
<1>i. /\ \/ own[o].pc \in {"recover", "compensate", "readback"}
         \/ own[o].pc = "settle" /\ own[o].goal = "done"
         => rows[r] = {}
      /\ own[o].pc = "settle" /\ own[o].goal = "done" => NothingDue(r)
  BY DEF OwnerLeavesNothing
<1>e. rows[r] = {} /\ own[o].pc # "create" => rows'[r] = {}
  BY <1>t, <1>a, EmptyStays
<1>d. NothingDue(r) /\ own[o].pc \in {"readback", "settle"} => NothingDue(r)'
  <2> SUFFICES ASSUME NothingDue(r), own[o].pc \in {"readback", "settle"}
               PROVE  NothingDue(r)'
    OBVIOUS
  <2>1. rec[r] # Absent
    BY <1>t, OwnedIsOnRecord DEF Left
  <2> QED
    BY <1>t, <1>a, <2>1, DueStays DEF Journalling
<1>1. CASE OwnerStep(o)
  <2>1. Flow(o) /\ Conditions(o)
    BY <1>t, <1>1, OwnerFlow, OwnerConditions
  <2>2. CASE own'[o].pc = "settle"
    BY <1>i, <1>e, <1>d, <2>1, <2>2 DEF Conditions
  <2>3. CASE own'[o].pc # "settle"
    <3>1. \/ own[o].pc \in {"recover", "compensate"}
          \/ own[o].pc = "sweep" /\ own'[o].pc = "recover"
          \/ own[o].pc = "teardown" /\ own'[o].pc = "readback"
      BY <2>1, <2>3 DEF Flow, Jumps, Turns, Settles, Lands, Opens, Catch
    <3>2. CASE own[o].pc = "sweep" /\ own'[o].pc = "recover"
      <4>1. sweep[o].pc = "ok" /\ o \in Actors
        BY <2>1, <3>2 DEF Conditions, Actors
      <4>2. sweep[o].run = r
        BY <1>t, <4>1 DEF SweepIsOwned
      <4>3. rows[r] = {}
        BY <1>t, <4>1, <4>2 DEF RowsInv, SweepFindsAll
      <4> QED
        BY <1>e, <2>3, <3>2, <4>3
    <3>3. CASE own[o].pc = "teardown" /\ own'[o].pc = "readback"
      <4>1. rows[r] = {}
        BY <1>t, <2>1, <3>3 DEF Conditions, RowsInv, RowsAreProjected
      <4> QED
        BY <1>e, <2>3, <3>3, <4>1
    <3> QED
      BY <1>i, <1>e, <2>3, <3>1, <3>2, <3>3
  <2> QED
    BY <2>2, <2>3
<1>2. CASE ~OwnerStep(o)
  BY <1>t, <1>i, <1>e, <1>d, <1>2, OthersUnmoved DEF Unmoved
<1> QED
  BY <1>1, <1>2

LEMMA CleanerLeavesNext ==
  ASSUME RunsApart, Ground, CleanerLeavesNothing, [Next]_vars
  PROVE  CleanerLeavesNothing'
<1>t. TypeOK /\ ApartInv /\ RowsInv /\ NothingLate
  BY DEF Ground, ApartInv
<1>r. \A c \in Cleaners : cl'[c].run \in Runs
  <2>1. TypeOK'
    BY <1>t, NextType
  <2> QED
    BY <2>1 DEF TypeOK, LifeTypeOK, ClRecord
<1> SUFFICES ASSUME NEW c \in Cleaners, cl'[c].pc = "compensate",
                    NEW r \in Runs, r = cl'[c].run
             PROVE  rows'[r] = {} /\ Unsettled(r)' \subseteq cl'[c].todo
  BY <1>r DEF CleanerLeavesNothing, Unsettled
<1>w. cl[c].pc # "idle" /\ cl[c].run = r =>
        \A o \in Owners : RunOf[o] = r => own[o].pc \in Left
  BY <1>t DEF ApartInv, RecordInv, CleanersWait, CleanersKnow
<1>e. cl[c].pc # "idle" /\ cl[c].run = r =>
        /\ rows[r] = {} => rows'[r] = {}
        /\ Unsettled(r)' \subseteq Unsettled(r)
  BY <1>t, <1>w, EmptyStays, UnsettledShrinks DEF Left, Journalling
<1>1. CASE CleanerStep(c)
  <2>1. CleanFlow(c) /\ CleanConditions(c)
    BY <1>t, <1>1, CleanerFlow, CleanerConditions
  <2>2. /\ cl[c].pc \in {"sweep", "compensate"} /\ cl[c].run = r
        /\ cl[c].pc = "sweep" => cl'[c].todo = Unsettled(r)
    BY <2>1 DEF CleanFlow
  <2>3. CASE cl[c].pc = "sweep"
    <3>1. sweep[c].pc = "ok" /\ c \in Actors
      BY <2>1, <2>3 DEF CleanConditions, Actors
    <3>2. sweep[c].run = r
      BY <1>t, <2>2, <3>1 DEF ApartInv, CleanersSweep
    <3>3. rows[r] = {}
      BY <1>t, <3>1, <3>2 DEF RowsInv, SweepFindsAll
    <3> QED
      BY <1>e, <2>2, <2>3, <3>3
  <2>4. CASE cl[c].pc = "compensate"
    <3>1. rows[r] = {} /\ Unsettled(r) \subseteq cl[c].todo
      BY <2>2, <2>4 DEF CleanerLeavesNothing
    <3>2. PICK w : /\ cl'[c].todo = cl[c].todo \ {w}
                   /\ entry'[r][w] = "compensated"
      BY <2>1, <2>2, <2>4 DEF CleanConditions
    <3>3. w \notin Unsettled(r)'
      BY <3>2 DEF Unsettled
    <3> QED
      BY <1>e, <2>2, <2>4, <3>1, <3>2, <3>3
  <2> QED
    BY <2>2, <2>3, <2>4
<1>2. CASE ~CleanerStep(c)
  <2>1. cl'[c] = cl[c]
    <3>1. CleanCrash(c) => cl'[c].pc = "idle"
      BY <1>t, ExitEffect DEF CleanCrash
    <3> QED
      BY <1>t, <1>2, <3>1, CleanersStay
  <2>2. rows[r] = {} /\ Unsettled(r) \subseteq cl[c].todo
    BY <2>1 DEF CleanerLeavesNothing
  <2> QED
    BY <1>e, <2>1, <2>2
<1> QED
  BY <1>1, <1>2

\* Where the owner of a run with a compensated write stands.
Settling == {"compensate", "readback", "settle"} \cup Left

LEMMA SettlingStays ==
  ASSUME TypeOK, [Next]_vars, NEW o \in Owners, own[o].pc \in Settling
  PROVE  own'[o].pc \in Settling
<1>1. CASE OwnerStep(o)
  BY <1>1, OwnerFlow
  DEF Flow, Jumps, Turns, Settles, Lands, Opens, Catching, Settling, Left
<1>2. CASE ~OwnerStep(o)
  BY <1>2, OthersUnmoved DEF Unmoved, Settling, Left
<1> QED
  BY <1>1, <1>2

LEMMA CompensatedNext ==
  ASSUME RunsApart, Ground, SettledInv, [Next]_vars
  PROVE  CompensatedIsOver'
<1>t. TypeOK /\ ApartInv /\ NothingLate
  BY DEF Ground, ApartInv
<1> SUFFICES ASSUME NEW r \in Runs, NEW w \in Writes, entry'[r][w] = "compensated"
             PROVE  /\ rows'[r] = {}
                    /\ \A o \in Owners : RunOf[o] = r => own'[o].pc \in Settling
  BY DEF CompensatedIsOver, Settling
<1> SUFFICES /\ rows[r] = {}
             /\ \A o \in Owners : RunOf[o] = r => own[o].pc \in Settling
  BY <1>t, EmptyStays, SettlingStays DEF Settling, Left
<1>1. CASE entry[r][w] = "compensated"
  BY <1>1 DEF SettledInv, CompensatedIsOver, Settling
<1>2. CASE \E o \in Owners :
             RunOf[o] = r /\ Flips(o, w, entry[r][w], entry'[r][w])
           /\ entry[r][w] # "compensated"
  <2>1. PICK o \in Owners : RunOf[o] = r /\ own[o].pc = "compensate"
    BY <1>2 DEF Flips
  <2>2. rows[r] = {}
    BY <2>1 DEF SettledInv, OwnerLeavesNothing
  <2> QED
    BY <2>1, <2>2 DEF RunsApart, OneOwnerEach, Settling
<1>3. CASE \E c \in Cleaners : cl[c].run = r /\ cl[c].pc = "compensate"
  BY <1>t, <1>3
  DEF SettledInv, CleanerLeavesNothing, ApartInv, RecordInv, CleanersWait, CleanersKnow, Settling
<1> QED
  BY <1>t, <1>1, <1>2, <1>3, WhoFlips

LEMMA DoneLeavesNext ==
  ASSUME RunsApart, Ground, SettledInv, [Next]_vars
  PROVE  DoneLeavesNothing'
<1>t. /\ TypeOK /\ ApartInv /\ NothingLate
      /\ rec \in [Runs -> RunRecord \cup {Absent}]
  BY DEF Ground, ApartInv, TypeOK, LifeTypeOK
<1> SUFFICES ASSUME NEW r \in Runs, rec'[r].state = "done"
             PROVE  rows'[r] = {} /\ NothingDue(r)'
  BY DEF DoneLeavesNothing, NothingDue, Ephemeral, Unsettled
<1>s. ASSUME rec[r] # Absent, rows[r] = {}, NothingDue(r),
             \A o \in Owners : RunOf[o] = r => own[o].pc \in {"settle"} \cup Left
      PROVE  rows'[r] = {} /\ NothingDue(r)'
  <2>1. \A o \in Owners : RunOf[o] = r =>
          own[o].pc # "create" /\ own[o].pc \notin Journalling
    BY <1>s DEF Left, Journalling
  <2> QED
    BY <1>t, <1>s, <2>1, EmptyStays, DueStays
<1>1. CASE rec[r].state = "done"
  <2>1. rec[r] # Absent
    BY <1>1 DEF Absent
  <2>2. \A o \in Owners : RunOf[o] = r => own[o].pc \in Left
    BY <1>t, <1>1 DEF ApartInv, RecordInv, RecordFollows, OpenRunStates, TerminalRunStates
  <2> QED
    BY <1>1, <1>s, <2>1, <2>2 DEF SettledInv, DoneLeavesNothing
<1>2. CASE rec[r].state # "done" /\ \E o \in Owners : OwnerStep(o) /\ RunOf[o] = r
  <2>1. PICK o \in Owners : OwnerStep(o) /\ RunOf[o] = r
    BY <1>2
  <2>2. Flow(o) /\ Conditions(o)
    BY <1>t, <2>1, OwnerFlow, OwnerConditions
  <2>3. PICK to : Lands(own[o], own'[o], to) /\ Moved(r, to)
    <3>1. ~Opened(r)
      BY <1>t DEF Opened
    <3>2. rec' # rec
      BY <1>2
    <3> QED
      BY <2>1, <2>2, <3>1, <3>2 DEF Flow
  <2>4. rec'[r].state = to
    BY <1>t, <2>3, TransitionedState DEF Moved
  <2>5. own[o].pc = "settle"
    BY <2>3, <2>4 DEF Lands
  <2>6. Moved(r, own[o].goal)
    BY <1>2, <2>1, <2>2, <2>5 DEF Conditions
  <2>7. own[o].goal = "done"
    BY <1>t, <2>6, TransitionedState DEF Moved
  <2>8. rows[r] = {} /\ NothingDue(r)
    BY <2>1, <2>5, <2>7 DEF SettledInv, OwnerLeavesNothing
  <2>9. rec[r] # Absent
    BY <1>t, <2>1, <2>5, OwnedIsOnRecord DEF Left
  <2>10. \A p \in Owners : RunOf[p] = r => own[p].pc \in {"settle"} \cup Left
    BY <2>1, <2>5 DEF RunsApart, OneOwnerEach
  <2> QED
    BY <1>s, <2>8, <2>9, <2>10
<1>3. CASE rec[r].state # "done" /\ \E c \in Cleaners : CleanerStep(c)
  <2>1. PICK c \in Cleaners : CleanerStep(c)
    BY <1>3
  <2>2. cl[c].pc = "compensate" /\ cl[c].run = r /\ cl[c].todo = {}
    BY <1>t, <1>3, <2>1, CleanerConditions DEF CleanConditions
  <2>3. rows[r] = {} /\ Unsettled(r) = {}
    BY <2>2 DEF SettledInv, CleanerLeavesNothing
  <2>4. /\ Over(r)
        /\ \A o \in Owners : RunOf[o] = r => own[o].pc \in Left
    BY <1>t, <2>2 DEF ApartInv, RecordInv, CleanersWait, CleanersKnow
  <2>5. rec[r] # Absent
    BY <2>4 DEF Over, OverStates, TerminalRunStates, Absent
  <2> QED
    BY <1>s, <2>3, <2>4, <2>5 DEF NothingDue
<1> QED
  BY <1>t, <1>1, <1>2, <1>3, WhoMoves

LEMMA SuiteStaysNext ==
  ASSUME RunsApart, Ground, SuiteIsUnderLiveRun, [Next]_vars
  PROVE  SuiteIsUnderLiveRun'
<1>t. /\ TypeOK /\ ApartInv /\ SweepIsOwned /\ RowsInv /\ GateInv
  BY DEF Ground
<1> SUFFICES ASSUME NEW r \in Runs, NEW o \in Owners, NEW g \in Groups,
                    RunOf[o] = r, exec'[o][g] \in Live
             PROVE  Suite \in rows'[r]
  BY DEF SuiteIsUnderLiveRun, LiveRun, Executions
<1>1. CASE LiveRun(r)
  BY <1>t, <1>1, LiveRowsStay DEF SuiteIsUnderLiveRun
<1>2. CASE ~LiveRun(r)
  <2>1. exec[o][g] \notin Live
    <3>1. <<o, g>> \in Executions(r)
      BY DEF Executions
    <3> QED
      BY <1>2, <3>1 DEF LiveRun
  <2>2. own[o].pc = "call"
    BY <1>t, <2>1, ExecMoves
  <2>3. Suite \in rows[r]
    BY <1>t, <2>2 DEF RowsInv, RowsAreProjected, TriggerLoop
  <2> QED
    BY <1>t, <2>2, <2>3, RowsStay DEF Left
<1> QED
  BY <1>1, <1>2

LEMMA SettledHolds == RunsApart => (Spec => []SettledInv)
<1> SUFFICES ASSUME RunsApart PROVE Spec => []SettledInv
  OBVIOUS
<1>1. Init => SettledInv
  <2> SUFFICES ASSUME Init PROVE SettledInv
    OBVIOUS
  <2>1. /\ \A o \in Owners : own[o].pc = "scan"
        /\ \A c \in Cleaners : cl[c].pc = "idle"
        /\ \A r \in Runs : rec[r].state = "absent" /\ \A w \in Writes : entry[r][w] = "none"
        /\ \A o \in Owners, g \in Groups : exec[o][g] = "none"
    BY DEF Init, StoreInit, Absent
  <2>2. SuiteIsUnderLiveRun
    BY <2>1 DEF SuiteIsUnderLiveRun, LiveRun, Executions, Live
  <2> QED
    BY <2>1, <2>2
    DEF SettledInv, OwnerLeavesNothing, CleanerLeavesNothing,
        CompensatedIsOver, DoneLeavesNothing
<1>2. Ground /\ SettledInv /\ [Next]_vars => SettledInv'
  BY OwnerLeavesNext, CleanerLeavesNext, CompensatedNext, DoneLeavesNext,
     SuiteStaysNext DEF SettledInv
<1>3. Spec => []Ground
  <2>1. TypeOK /\ ApartInv /\ LockInv /\ RowsInv /\ GateInv => Ground
    BY DEF Ground, LockInv
  <2> QED
    BY <2>1, TypeCorrect, ApartHolds, LockHolds, RowsHold, GateHolds, PTL
<1> QED
  BY <1>1, <1>2, <1>3, PTL DEF Spec

------------------------------------------------------------------------------
(* The properties. *)

(***************************************************************************)
(* ARCH-24 (runPipeline.ts, teardown after flush): an owner that is about  *)
(* to delete a row has flushed and closed its reporters, and the run       *)
(* record says tearing-down, whoever cleans up and from which ledger.      *)
(***************************************************************************)
THEOREM FlushBeforeDeleteHolds == OneOwnerEach => (Spec => []FlushBeforeDelete)
<1> SUFFICES ASSUME OneOwnerEach PROVE Spec => []FlushBeforeDelete
  OBVIOUS
<1>1. SweepIsOwned /\ ClosedFirst /\ RecordInv => FlushBeforeDelete
  <2> SUFFICES ASSUME SweepIsOwned, ClosedFirst, RecordInv, NEW o \in Owners,
                      Doomed(o) # {}
               PROVE  own[o].closed /\ rec[RunOf[o]].state = "tearing-down"
    BY DEF FlushBeforeDelete
  <2>1. sweep[o].pc \in {"unlink", "delete"}
    BY DEF Doomed
  <2>2. own[o].pc = "sweep"
    BY <2>1 DEF SweepIsOwned
  <2> QED
    BY <2>2 DEF ClosedFirst, RecordInv, RecordFollows
<1> QED
  BY <1>1, LockHolds, ClosedHolds, RecordHolds, PTL DEF LockInv

(***************************************************************************)
(* DEV-13 (teststore-atf store.ts, the order of project and of teardown):  *)
(* while a test of a run is on the instance, so is the suite its results   *)
(* hang off.                                                               *)
(***************************************************************************)
THEOREM SuiteOutlivesHolds == RunsApart => (Spec => []SuiteOutlivesTests)
<1> SUFFICES ASSUME RunsApart PROVE Spec => []SuiteOutlivesTests
  OBVIOUS
<1>1. RowsInv => SuiteOutlivesTests
  BY DEF RowsInv, RowsHang, SuiteOutlivesTests, OfKind
<1> QED
  BY <1>1, RowsHold, PTL

(***************************************************************************)
(* runPipeline.ts and runState.ts, compensate after teardown: a write that *)
(* the ledger calls compensated has left no row of the run behind.         *)
(***************************************************************************)
THEOREM CompensatedHolds == RunsApart => (Spec => []CompensatedMeansGone)
<1> SUFFICES ASSUME RunsApart PROVE Spec => []CompensatedMeansGone
  OBVIOUS
<1>1. SettledInv => CompensatedMeansGone
  BY DEF SettledInv, CompensatedIsOver, CompensatedMeansGone
<1> QED
  BY <1>1, SettledHolds, PTL

(***************************************************************************)
(* runPipeline.ts settleDone and runState.ts cleanup: a run that is done   *)
(* has no row on the instance and, if it was ephemeral, no write that is   *)
(* still intended or applied.                                              *)
(***************************************************************************)
THEOREM DoneHolds == RunsApart => (Spec => []DoneIsSettled)
<1> SUFFICES ASSUME RunsApart PROVE Spec => []DoneIsSettled
  OBVIOUS
<1>1. TypeOK /\ SettledInv => DoneIsSettled
  <2> SUFFICES ASSUME TypeOK, SettledInv, NEW r \in Runs, rec[r].state = "done"
               PROVE  /\ rows[r] = {}
                      /\ Ephemeral(r) => \A w \in Writes :
                           entry[r][w] \in {"none", "compensated"}
    BY DEF DoneIsSettled
  <2>1. rows[r] = {} /\ NothingDue(r)
    BY DEF SettledInv, DoneLeavesNothing
  <2>2. \A w \in Writes : entry[r][w] \in EntryState \cup {"none"}
    BY DEF TypeOK, LifeTypeOK
  <2> QED
    BY <2>1, <2>2 DEF NothingDue, Unsettled, EntryState
<1> QED
  BY <1>1, TypeCorrect, SettledHolds, PTL

------------------------------------------------------------------------------
(* The contract: the run lifecycle is a refinement of RunContract.  A step *)
(* moves the record, the rows or the executions, and of one run.           *)

PhaseOf == [r \in Runs |-> Phase(rec[r])]
LiveOf  == [r \in Runs |-> LiveRun(r)]

GrowsBy(r, p)   == rows' = [rows EXCEPT ![r] = @ \cup {p}]
ShrinksBy(r, p) == rows' = [rows EXCEPT ![r] = @ \ {p}]

RecordChange == /\ UNCHANGED <<rows, exec>>
                /\ \E r \in Runs : \E x : rec' = [rec EXCEPT ![r] = x]
RowsChange   == /\ UNCHANGED <<rec, exec>>
                /\ \E r \in Runs, p \in Rows : GrowsBy(r, p) \/ ShrinksBy(r, p)
ExecChange   == /\ UNCHANGED <<rec, rows>>
                /\ \E o \in Owners, g \in Groups : \E x :
                     exec' = [exec EXCEPT ![o][g] = x]
NoChange     == UNCHANGED <<rec, rows, exec>>

LEMMA OwnerChanges ==
  ASSUME TypeOK, NEW o \in Owners, OwnerStep(o)
  PROVE  RecordChange \/ RowsChange \/ ExecChange \/ NoChange
<1>t. RunOf[o] \in Runs
  BY RunOfAssumption
<1>1. CASE Drives(o) \/ Open(o)
  <2>1. UNCHANGED <<rows, exec>>
    BY <1>1
    DEF Drives, Provision, BeginProjection, EnterRunning, Abandon, Collect,
        BeginTeardown, Settle, Aborted, Close, Drive, instance, Open
  <2>2. UNCHANGED rec \/ \E x : rec' = [rec EXCEPT ![RunOf[o]] = x]
    BY OwnerFlow DEF Flow, Moved, Opened
  <2> QED
    BY <1>t, <2>1, <2>2 DEF RecordChange, NoChange
<1>2. CASE Journals(o)
  BY <1>2
  DEF Journals, IntendSpec, IntendTrigger, Intend, ConfirmSpec,
      ConfirmTrigger, Confirm, Compensate, Journal, instance, NoChange
<1>3. CASE Create(o)
  <2>1. /\ UNCHANGED <<rec, exec>>
        /\ \E p \in NextRow(o) : UNCHANGED rows \/ GrowsBy(RunOf[o], p)
    BY <1>3 DEF Create, CreateRow, LoseRow, GrowsBy
  <2>2. NextRow(o) \subseteq Rows
    BY DEF NextRow
  <2> QED
    BY <1>t, <2>1, <2>2 DEF RowsChange, NoChange
<1>4. CASE CallRunner(o)
  <2>1. /\ UNCHANGED <<rec, rows>>
        /\ UNCHANGED exec \/ exec' = [exec EXCEPT ![o][own[o].at] = "sent"]
    BY <1>4 DEF CallRunner
  <2>2. CASE own[o].at \in Groups
    BY <2>1, <2>2 DEF ExecChange, NoChange
  <2>3. CASE own[o].at \notin Groups
    <3>1. exec \in [Owners -> [Groups -> ExecState]]
      BY DEF TypeOK, StoreTypeOK
    <3>2. [exec EXCEPT ![o][own[o].at] = "sent"] = exec
      BY <2>3, <3>1
    <3> QED
      BY <2>1, <3>2 DEF NoChange
  <2> QED
    BY <2>2, <2>3
<1>5. CASE ~(Drives(o) \/ Open(o) \/ Journals(o) \/ Create(o) \/ CallRunner(o))
  BY <1>5
  DEF OwnerStep, Drives, Journals, Scan, AssertFresh, ReadStages,
      VerifyInfra, AcquireLock, CheckNamespace, Projected, CountTriggers,
      RunLoop, RunnerSettles, FlushReporters, Close, Swept,
      Recover, Compensated, ReadBack, Report, instance, NoChange
<1> QED
  BY <1>1, <1>2, <1>3, <1>4, <1>5

LEMMA CleanerChanges ==
  ASSUME TypeOK, NEW c \in Cleaners, CleanerStep(c) \/ CleanCrash(c)
  PROVE  RecordChange \/ NoChange
<1>1. UNCHANGED <<rows, exec>>
  BY CleanerKeepsStamp
<1>2. \A to, next : CleanDrive(c, to, next) =>
        rec' = rec \/ \E x : rec' = [rec EXCEPT ![cl[c].run] = x]
  BY DEF CleanDrive
<1>3. UNCHANGED rec \/ \E x : rec' = [rec EXCEPT ![cl[c].run] = x]
  BY <1>2
  DEF CleanerStep, CleanRead, CleanCount, CleanBegin, CleanRefused, CleanCrash,
      CleanRecover, CleanCompensate, CleanDone, CleanDriveThrows
<1>4. cl[c].run \in Runs
  BY DEF TypeOK, LifeTypeOK, ClRecord
<1> QED
  BY <1>1, <1>3, <1>4 DEF RecordChange, NoChange

LEMMA StoreChanges ==
  ASSUME TypeOK, NothingLate, UNCHANGED lifeVars,
         (\E a \in Actors : SweepStep(a) \/ FailSweep(a)) \/ InstanceNext
  PROVE  RowsChange \/ ExecChange \/ NoChange
<1>l. UNCHANGED rec
  BY DEF lifeVars
<1>1. CASE \E a \in Actors : SweepStep(a) \/ FailSweep(a)
  <2>1. PICK a \in Actors : SweepStep(a) \/ FailSweep(a)
    BY <1>1
  <2>2. /\ UNCHANGED exec
        /\ UNCHANGED rows \/ \E p \in Doomed(a) : ShrinksBy(sweep[a].run, p)
    BY <2>1
    DEF SweepStep, ReadTests, ReadSuites, ReadLinks, PassGate, ReadSteps,
        ReadInputs, DeleteRow, FinishSweep, FailSweep, onlySweep, ShrinksBy
  <2>3. sweep[a].run \in Runs /\ sweep[a].found \subseteq Rows
    BY DEF TypeOK, StoreTypeOK, SweepRecord
  <2>4. Doomed(a) \subseteq sweep[a].found
    BY DEF Doomed, OfKind
  <2> QED
    BY <1>l, <2>2, <2>3, <2>4 DEF RowsChange, NoChange
<1>2. CASE InstanceNext
  <2>1. ~(\E r \in Runs : LandLate(r))
    BY DEF LandLate, NothingLate
  <2>2. PICK o \in Owners, g \in Groups : InstanceStep(o, g) \/ LoseTrigger(o, g)
    BY <1>2, <2>1 DEF InstanceNext
  <2> QED
    BY <1>l, <2>2 DEF InstanceStep, LoseTrigger, ExecChange
<1> QED
  BY <1>1, <1>2

LEMMA OneChange ==
  ASSUME TypeOK, NothingLate, [Next]_vars
  PROVE  RecordChange \/ RowsChange \/ ExecChange \/ NoChange
<1>1. CASE UNCHANGED vars
  BY <1>1 DEF vars, storeVars, lifeVars, NoChange
<1>2. (\E o \in Owners : Abort(o) \/ Crash(o)) => NoChange
  BY DEF Abort, Crash, storeVars, NoChange
<1> QED
  BY <1>1, <1>2, OwnerChanges, CleanerChanges, StoreChanges DEF Next

ContractStep == [Contract!ContractNext]_(Contract!contractVars)

\* The record of a run moves along the phases of the contract.
LEMMA RecordKeepsContract ==
  ASSUME TypeOK, SettledInv, SettledInv', [Next]_vars, RecordChange
  PROVE  ContractStep
<1>0. PICK r \in Runs : \E x : rec' = [rec EXCEPT ![r] = x]
  BY DEF RecordChange
<1>1. PICK x : rec' = [rec EXCEPT ![r] = x]
  BY <1>0
<1>t. rec \in [Runs -> RunRecord \cup {Absent}]
  BY DEF TypeOK, LifeTypeOK
<1> DEFINE before == Phase(rec[r])
           after  == Phase(rec'[r])
<1>2. /\ PhaseOf' = [PhaseOf EXCEPT ![r] = after]
      /\ PhaseOf[r] = before
  BY <1>1, <1>t DEF PhaseOf
<1>3. rows' = rows
  BY DEF RecordChange
<1>4. LiveOf' = LiveOf
  BY DEF RecordChange, LiveOf, LiveRun, Executions
<1>5. rec[r].state \in RunState \cup {"absent"}
  BY <1>t DEF RunRecord, Absent
<1>6. \/ after = before
      \/ <<before, after>> \in Contract!PhaseChanges /\ after \in Contract!Phases
      \/ before = "reclaiming" /\ after = "reclaimed" /\ rec'[r].state = "done"
  <2>1. CASE rec'[r] = rec[r]
    BY <2>1
  <2>2. CASE rec[r] = Absent /\ rec'[r].state = "planned"
    BY <2>2 DEF Phase, Absent, Contract!PhaseChanges, Contract!Phases
  <2>3. CASE \E to : MayTransition(rec[r], to) /\ rec'[r].state = to
    <3>1. PICK to : MayTransition(rec[r], to) /\ rec'[r].state = to
      BY <2>3
    <3> QED
      BY <1>5, <3>1
      DEF MayTransition, RunStateTransitions, RunState, Phase,
          Contract!PhaseChanges, Contract!Phases
  <2> QED
    BY <2>1, <2>2, <2>3, RecordMoves
<1>7. CASE after = before
  <2>1. PhaseOf' = PhaseOf
    BY <1>2, <1>7 DEF PhaseOf
  <2> QED
    BY <1>3, <1>4, <2>1
    DEF ContractStep, Contract!contractVars, PhaseOf, LiveOf
<1>8. CASE <<before, after>> \in Contract!PhaseChanges /\ after \in Contract!Phases
  <2>1. Contract!ChangePhase(r)
    BY <1>2, <1>3, <1>4, <1>8 DEF Contract!ChangePhase, PhaseOf, LiveOf
  <2> QED
    BY <2>1 DEF ContractStep, Contract!ContractNext
<1>9. CASE before = "reclaiming" /\ after = "reclaimed" /\ rec'[r].state = "done"
  <2>1. rows[r] = {}
    BY <1>3, <1>9 DEF SettledInv, DoneLeavesNothing
  <2>2. ~LiveRun(r)
    BY <2>1 DEF SettledInv, SuiteIsUnderLiveRun
  <2>3. ~LiveOf[r]
    BY <2>2 DEF LiveOf
  <2>4. Contract!Reclaim(r)
    BY <1>2, <1>3, <1>4, <1>9, <2>1, <2>3 DEF Contract!Reclaim, PhaseOf, LiveOf
  <2> QED
    BY <2>4 DEF ContractStep, Contract!ContractNext
<1> QED
  BY <1>6, <1>7, <1>8, <1>9

\* Who deletes a row of a run has its record in a state it reclaims in.
LEMMA DeletedIsOver ==
  ASSUME Ground, SettledInv, NEW a \in Actors, Doomed(a) # {},
         rows[sweep[a].run] # {}
  PROVE  /\ Phase(rec[sweep[a].run]) \in {"reclaiming", "closed"}
         /\ ~LiveRun(sweep[a].run)
<1> DEFINE r == sweep[a].run
<1>t. r \in Runs
  BY DEF Ground, TypeOK, StoreTypeOK, SweepRecord
<1>1. sweep[a].pc \in {"unlink", "delete"} /\ sweep[a].found # {}
  BY DEF Doomed, OfKind
<1>2. ~LiveRun(r)
  BY <1>1 DEF Ground, GateInv, GatePassed, PastGate, Quiet
<1>3. rec[r].state # "done"
  BY <1>t DEF SettledInv, DoneLeavesNothing
<1>4. Over(r)
  <2>1. CASE a \in Owners
    BY <1>1, <2>1
    DEF Ground, SweepIsOwned, ApartInv, RecordInv, RecordFollows, Over, OverStates
  <2>2. CASE a \in Cleaners
    <3>1. cl[a].pc = "sweep" /\ r = cl[a].run
      BY <1>1, <2>2 DEF Ground, ApartInv, CleanersSweep
    <3> QED
      BY <2>2, <3>1 DEF Ground, ApartInv, RecordInv, CleanersWait, CleanersKnow
  <2> QED
    BY <2>1, <2>2 DEF Actors
<1> QED
  BY <1>2, <1>3, <1>4 DEF Over, OverStates, TerminalRunStates, Phase

\* Rows come while the run is driven and go when its driving is over.
LEMMA RowsKeepContract ==
  ASSUME Ground, SettledInv, [Next]_vars, RowsChange
  PROVE  ContractStep
<1>t. TypeOK /\ NothingLate /\ rows \in [Runs -> SUBSET Rows]
  BY DEF Ground, TypeOK, StoreTypeOK, ApartInv
<1>1. PICK r \in Runs, p \in Rows : GrowsBy(r, p) \/ ShrinksBy(r, p)
  BY DEF RowsChange
<1>2. PhaseOf' = PhaseOf /\ LiveOf' = LiveOf
  BY DEF RowsChange, PhaseOf, LiveOf, LiveRun, Executions
<1>3. CASE rows' = rows
  BY <1>2, <1>3 DEF ContractStep, Contract!contractVars, PhaseOf, LiveOf
<1>4. CASE GrowsBy(r, p) /\ rows' # rows
  <2>1. p \in rows'[r] /\ p \notin rows[r]
    BY <1>t, <1>4 DEF GrowsBy
  <2>2. PICK o \in Owners : own[o].pc = "create" /\ RunOf[o] = r
    BY <1>t, <2>1, RowsCome DEF CreatesNext
  <2>3. rec[r].state = "projecting"
    BY <2>2 DEF Ground, ApartInv, RecordInv, RecordFollows, Projection
  <2>4. PhaseOf[r] = "driving"
    BY <2>3 DEF PhaseOf, Phase
  <2>5. Contract!Grow(r)
    BY <1>2, <1>4, <2>4 DEF Contract!Grow, PhaseOf, LiveOf, GrowsBy
  <2> QED
    BY <2>5 DEF ContractStep, Contract!ContractNext
<1>5. CASE ShrinksBy(r, p) /\ rows' # rows
  <2>1. p \in rows[r] /\ p \notin rows'[r]
    BY <1>t, <1>5 DEF ShrinksBy
  <2>2. PICK a \in Actors : sweep[a].run = r /\ p \in Doomed(a)
    BY <1>t, <2>1, RowsGo
  <2>3. Phase(rec[r]) \in {"reclaiming", "closed"} /\ ~LiveRun(r)
    BY <2>1, <2>2, DeletedIsOver
  <2>4. PhaseOf[r] \in {"reclaiming", "closed"} /\ ~LiveOf[r]
    BY <2>3 DEF PhaseOf, LiveOf
  <2>5. Contract!Shrink(r)
    BY <1>2, <1>5, <2>4 DEF Contract!Shrink, PhaseOf, LiveOf, ShrinksBy
  <2> QED
    BY <2>5 DEF ContractStep, Contract!ContractNext
<1> QED
  BY <1>1, <1>3, <1>4, <1>5

\* LiveRun is a formula: where it agrees on two sides, so do the values.
LEMMA LiveValues ==
  ASSUME NEW r
  PROVE  /\ LiveRun(r) \in BOOLEAN /\ LiveRun(r)' \in BOOLEAN
         /\ (LiveRun(r)' <=> LiveRun(r)) => LiveRun(r)' = LiveRun(r)
         /\ LiveRun(r)' => LiveRun(r)' = TRUE
         /\ ~LiveRun(r)' => LiveRun(r)' = FALSE
         /\ ~LiveRun(r) => LiveRun(r) = FALSE
BY DEF LiveRun

\* An execution is launched while the run is driven.
LEMMA ExecKeepsContract ==
  ASSUME Ground, LoopInv, [Next]_vars, ExecChange
  PROVE  ContractStep
<1>t. TypeOK /\ exec \in [Owners -> [Groups -> ExecState]] /\ RunOf \in [Owners -> Runs]
  BY RunOfAssumption DEF Ground, TypeOK, StoreTypeOK
<1>0. PICK o \in Owners, g \in Groups : \E x : exec' = [exec EXCEPT ![o][g] = x]
  BY DEF ExecChange
<1>1. PICK x : exec' = [exec EXCEPT ![o][g] = x]
  BY <1>0
<1> DEFINE r == RunOf[o]
<1>r. r \in Runs
  BY <1>t
<1>2. PhaseOf' = PhaseOf /\ rows' = rows
  BY DEF ExecChange, PhaseOf
<1>3. ASSUME NEW q \in Runs \ {r}
      PROVE  LiveRun(q)' <=> LiveRun(q)
  <2>1. \A y \in Executions(q) : exec'[y[1]][y[2]] = exec[y[1]][y[2]]
    BY <1>t, <1>1 DEF Executions
  <2> QED
    BY <2>1 DEF LiveRun, Executions
<1>4. CASE LiveRun(r)' <=> LiveRun(r)
  <2>1. LiveOf' = LiveOf
    BY <1>3, <1>4, LiveValues, Zenon DEF LiveOf
  <2> QED
    BY <1>2, <2>1 DEF ContractStep, Contract!contractVars, PhaseOf, LiveOf
<1>5. CASE LiveRun(r)' /\ ~LiveRun(r)
  <2>1. PICK y \in Executions(r) : exec'[y[1]][y[2]] \in Live
    BY <1>5 DEF LiveRun, Executions
  <2>2. exec[y[1]][y[2]] \notin Live
    BY <1>5 DEF LiveRun
  <2>3. y[1] \in Owners /\ y[2] \in Groups /\ RunOf[y[1]] = r
    BY DEF Executions
  <2>4. own[y[1]].pc = "call"
    BY <1>t, <2>1, <2>2, <2>3, ExecMoves
  <2>5. rec[r].state = "running"
    BY <2>3, <2>4 DEF LoopInv, LoopRuns, TriggerLoop
  <2>6. PhaseOf[r] = "driving"
    BY <1>r, <2>5 DEF PhaseOf, Phase
  <2>7. LiveOf' = [LiveOf EXCEPT ![r] = TRUE]
    BY <1>3, <1>5, LiveValues DEF LiveOf
  <2>8. Contract!Launch(r)
    BY <1>2, <2>6, <2>7 DEF Contract!Launch, PhaseOf, LiveOf
  <2> QED
    BY <1>r, <2>8 DEF ContractStep, Contract!ContractNext
<1>6. CASE ~LiveRun(r)' /\ LiveRun(r)
  <2>1. LiveOf' = [LiveOf EXCEPT ![r] = FALSE]
    BY <1>3, <1>6, LiveValues DEF LiveOf
  <2>2. Contract!End(r)
    BY <1>2, <2>1 DEF Contract!End, PhaseOf, LiveOf
  <2> QED
    BY <1>r, <2>2 DEF ContractStep, Contract!ContractNext
<1> QED
  BY <1>4, <1>5, <1>6

(***************************************************************************)
(* runPipeline.ts, runState.ts and store.ts together keep the contract of  *)
(* RunContract, whatever crashes or fails: rows come and executions start  *)
(* only while the run is driven, rows go only when it is over and nothing  *)
(* of it executes, and a run that is called done has left nothing, runs    *)
(* nothing and stays that way.                                             *)
(***************************************************************************)
THEOREM FulfilsHolds == RunsApart => (Spec => FulfilsContract)
<1> SUFFICES ASSUME RunsApart PROVE Spec => FulfilsContract
  OBVIOUS
<1>1. Init => Contract!ContractInit
  <2> SUFFICES ASSUME Init PROVE Contract!ContractInit
    OBVIOUS
  <2>1. /\ \A r \in Runs : rows[r] = {} /\ Phase(rec[r]) = "unused"
        /\ rows = [r \in Runs |-> {}]
    BY DEF Init, StoreInit, Absent, Phase
  <2>2. \A r \in Runs : ~LiveRun(r)
    BY DEF Init, StoreInit, LiveRun, Executions, Live
  <2>3. [r \in Runs |-> LiveRun(r)] = [r \in Runs |-> FALSE]
    BY <2>2, LiveValues, Zenon
  <2> QED
    BY <2>1, <2>3 DEF Contract!ContractInit
<1>2. Ground /\ SettledInv /\ SettledInv' /\ LoopInv /\ [Next]_vars => ContractStep
  <2> SUFFICES ASSUME Ground, SettledInv, SettledInv', LoopInv, [Next]_vars
               PROVE  ContractStep
    OBVIOUS
  <2>1. TypeOK /\ NothingLate
    BY DEF Ground, ApartInv
  <2>2. CASE RecordChange
    BY <2>1, <2>2, RecordKeepsContract
  <2>3. CASE RowsChange
    BY <2>3, RowsKeepContract
  <2>4. CASE ExecChange
    BY <2>4, ExecKeepsContract
  <2>5. CASE NoChange
    <3>1. PhaseOf' = PhaseOf /\ LiveOf' = LiveOf /\ rows' = rows
      BY <2>5 DEF NoChange, PhaseOf, LiveOf, LiveRun, Executions
    <3> QED
      BY <3>1 DEF ContractStep, Contract!contractVars, PhaseOf, LiveOf
  <2> QED
    BY <2>1, <2>2, <2>3, <2>4, <2>5, OneChange
<1>3. Spec => []Ground
  <2>1. TypeOK /\ ApartInv /\ LockInv /\ RowsInv /\ GateInv => Ground
    BY DEF Ground, LockInv
  <2> QED
    BY <2>1, TypeCorrect, ApartHolds, LockHolds, RowsHold, GateHolds, PTL
<1> QED
  BY <1>1, <1>2, <1>3, SettledHolds, LoopHolds, PTL
  DEF Spec, FulfilsContract, Contract!ContractSpec, ContractStep

==============================================================================
