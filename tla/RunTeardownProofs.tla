-------------------------- MODULE RunTeardownProofs --------------------------
(***************************************************************************)
(* What the owners of a run, its cleaners and their sweeps may do to each  *)
(* other: a run's groups are triggered once, the projection lock covers    *)
(* what it is for, and no row goes under an execution of its run.          *)
(***************************************************************************)
EXTENDS RunLifecycleProofs

------------------------------------------------------------------------------
(* The control flow of an owner: where a step may lead from where, and     *)
(* what it does to the local state the invariants read.                    *)

Catching ==
  {"read", "provision", "verify", "project", "intend", "lock", "namespace",
   "create", "confirm", "enter", "next", "answered"}

Catch(s) == IF s.view = "running" THEN "abandon" ELSE "collect"

\* A step that moves the owner and changes nothing else of its local state.
Jumps(s, t) ==
  /\ t.at = s.at /\ t.view = s.view /\ t.entered = s.entered /\ t.todo = s.todo
  /\ \/ s.pc = "scan" /\ t.pc \in {"open", "refused"}
     \/ s.pc = "open" /\ t.pc = "refused"
     \/ s.pc = "fresh" /\ t.pc = "read" /\ s.view # "running"
     \/ s.pc = "fresh" /\ t.pc = "refused"
     \/ s.pc = "read" /\ t.pc = "provision"
     \/ s.pc = "verify" /\ t.pc = "project"
     \/ s.pc = "lock" /\ t.pc = "namespace"
     \/ s.pc = "namespace" /\ t.pc = "create"
     \/ s.pc = "create" /\ t.pc = "create"
     \/ s.pc = "next" /\ t.pc \in {"collect", "abandon", "call"}
     \/ s.pc = "call" /\ t.pc \in {"wait", "answered"}
     \/ s.pc = "wait" /\ t.pc \in {"answered", "abandon"}
     \/ s.pc = "abandoned" /\ t.pc = "report"
     \/ s.pc = "collect" /\ t.pc = "flush"
     \/ s.pc = "teardown" /\ t.pc = "report"
     \/ s.pc = "count" /\ t.pc = "sweep"
     \/ s.pc = "sweep" /\ t.pc = "recover"
     \/ s.pc = "compensate" /\ t.pc = "readback"
     \/ s.pc = "settle" /\ t.pc = "report"
     \/ s.pc \in Catching /\ t.pc = Catch(s)

\* A step that also counts, closes, or enters running without success.
Turns(s, t) ==
  /\ t.view = s.view /\ t.todo = s.todo
  /\ \/ /\ t.entered = s.entered
        /\ \/ s.pc = "intend" /\ t.pc \in {"intend", "lock"}
           \/ s.pc = "create" /\ t.pc = "confirm" /\ t.at = 1
           \/ s.pc = "confirm" /\ t.pc = "confirm" /\ t.at = s.at + 1
           \/ s.pc = "confirm" /\ t.pc = "enter"
           \/ s.pc = "answered" /\ t.pc = "next" /\ t.at = s.at + 1
           \/ s.pc = "abandon" /\ t.pc = "abandoned"
           \/ s.pc = "flush" /\ t.pc = "teardown"
           \/ s.pc = "report" /\ t.pc = "finished"
     \/ s.pc = "enter" /\ t.pc = "collect" /\ t.entered

\* A step that takes up or puts down writes to compensate.
Settles(s, t, r) ==
  /\ t.view = s.view /\ t.entered = s.entered
  /\ \/ s.pc = "recover" /\ t.pc = "compensate" /\ t.todo = Unsettled(r)
     \/ /\ s.pc = "compensate" /\ t.pc = "compensate"
        /\ t.todo \subseteq s.todo
     \/ /\ s.pc \in {"sweep", "recover", "compensate", "readback"}
        /\ t.pc = "settle" /\ t.todo \subseteq s.todo

\* A transition of the run record that lands.
Lands(s, t, to) ==
  /\ t.view = to /\ t.todo = s.todo
  /\ \/ /\ t.entered = s.entered
        /\ \/ s.pc = "provision" /\ t.pc = "verify" /\ to = "provisioning"
           \/ s.pc = "project" /\ t.pc = "intend" /\ to = "projecting"
           \/ s.pc = "abandoned" /\ t.pc = "report" /\ to = "abandoned"
           \/ /\ s.pc = "collect" /\ t.pc = "flush" /\ to = "collecting"
              /\ s.view = "running"
           \/ /\ s.pc = "teardown" /\ t.pc \in {"count", "readback"}
              /\ to = "tearing-down"
           \/ s.pc = "settle" /\ t.pc = "report" /\ to \in TeardownEnds
     \/ /\ s.pc = "enter" /\ t.pc = "next" /\ to = "running"
        /\ t.entered /\ t.at = 1

Opens(s, t) ==
  /\ s.pc = "open" /\ t.pc = "fresh"
  /\ t.entered = s.entered /\ t.todo = s.todo /\ t.at = s.at

Moved(r, to) ==
  MayTransition(rec[r], to) /\ rec' = [rec EXCEPT ![r] = Transitioned(@, to)]

Opened(r) ==
  rec[r] = Absent /\ \E l \in Lifecycles :
    rec' = [rec EXCEPT ![r] = [state |-> "planned", ran |-> FALSE, lifecycle |-> l]]

Flow(o) ==
  LET s == own[o]
      t == own'[o]
      r == RunOf[o]
  IN \/ Jumps(s, t) /\ UNCHANGED rec
     \/ Turns(s, t) /\ UNCHANGED rec
     \/ Settles(s, t, r) /\ UNCHANGED rec
     \/ \E to : Lands(s, t, to) /\ Moved(r, to)
     \/ Opens(s, t) /\ (UNCHANGED rec \/ Opened(r))

\* What an update of one field leaves of the others.
LEMMA FieldsOf ==
  ASSUME NEW s \in OwnRecord
  PROVE  /\ \A x : LET t == [s EXCEPT !.view = x] IN
              /\ t.pc = s.pc /\ t.at = s.at /\ t.entered = s.entered
              /\ t.todo = s.todo /\ t.view = x
         /\ \A x : LET t == [s EXCEPT !.at = x] IN
              /\ t.pc = s.pc /\ t.view = s.view /\ t.entered = s.entered
              /\ t.todo = s.todo /\ t.at = x
         /\ \A x : LET t == [s EXCEPT !.closed = x] IN
              /\ t.pc = s.pc /\ t.view = s.view /\ t.entered = s.entered
              /\ t.todo = s.todo /\ t.at = s.at
         /\ \A x : LET t == [s EXCEPT !.todo = x] IN
              /\ t.pc = s.pc /\ t.view = s.view /\ t.entered = s.entered
              /\ t.at = s.at /\ t.todo = x
         /\ \A x : LET t == [s EXCEPT !.goal = x] IN
              /\ t.pc = s.pc /\ t.view = s.view /\ t.entered = s.entered
              /\ t.at = s.at /\ t.todo = s.todo
BY DEF OwnRecord

LEMMA ToFields ==
  ASSUME own \in [Owners -> OwnRecord], NEW o \in Owners, NEW p \in OwnPc
  PROVE  LET t == To(o, p) IN
         /\ t \in OwnRecord
         /\ t.pc = p /\ t.at = own[o].at /\ t.view = own[o].view
         /\ t.entered = own[o].entered /\ t.todo = own[o].todo
<1>1. To(o, p) \in OwnRecord
  BY ToType
<1> QED
  BY <1>1 DEF To, OwnRecord

LEMMA ThrownFields ==
  ASSUME own \in [Owners -> OwnRecord], NEW o \in Owners,
         own[o].pc \in Catching, Owner(o, Thrown(o))
  PROVE  Jumps(own[o], own'[o])
<1>1. Thrown(o) = To(o, Catch(own[o])) /\ Catch(own[o]) \in OwnPc
  BY DEF Thrown, Catch, OwnPc
<1>2. own'[o] = To(o, Catch(own[o]))
  BY <1>1, OwnerEffect
<1>3. own'[o].pc = Catch(own[o])
  BY <1>1, <1>2, ToFields
<1> QED
  BY <1>1, <1>2, <1>3, ToFields DEF Jumps

LEMMA GotoFields ==
  ASSUME own \in [Owners -> OwnRecord], NEW o \in Owners, NEW p \in OwnPc,
         Goto(o, p)
  PROVE  LET t == own'[o] IN
         /\ t.pc = p /\ t.at = own[o].at /\ t.view = own[o].view
         /\ t.entered = own[o].entered /\ t.todo = own[o].todo
<1>1. own'[o] = To(o, p)
  BY GotoIsOwner, OwnerEffect
<1> QED
  BY <1>1, ToFields

LEMMA DriveFlow ==
  ASSUME TypeOK, NEW o \in Owners, NEW to, NEW landed \in OwnRecord,
         NEW refused, Drive(o, to, landed, refused)
  PROVE  \/ /\ Moved(RunOf[o], to)
            /\ own'[o].view = to /\ own'[o].pc = landed.pc
            /\ own'[o].at = landed.at /\ own'[o].entered = landed.entered
            /\ own'[o].todo = landed.todo
         \/ UNCHANGED rec /\ own'[o] = refused /\ Owner(o, refused)
<1>1. own \in [Owners -> OwnRecord]
  BY DEF TypeOK, LifeTypeOK
<1>2. CASE Moved(RunOf[o], to) /\ Owner(o, [landed EXCEPT !.view = to])
  <2>1. own'[o] = [landed EXCEPT !.view = to]
    BY <1>1, <1>2, OwnerEffect
  <2> QED
    BY <1>2, <2>1, FieldsOf
<1>3. CASE UNCHANGED rec /\ Owner(o, refused)
  BY <1>1, <1>3, OwnerEffect
<1> QED
  BY <1>2, <1>3 DEF Drive, Moved

LEMMA OwnerFlow ==
  ASSUME TypeOK, NEW o \in Owners, OwnerStep(o)
  PROVE  Flow(o)
<1>t. /\ own \in [Owners -> OwnRecord] /\ own[o] \in OwnRecord
      /\ TypeOK
  BY DEF TypeOK, LifeTypeOK
<1>to. \A p \in OwnPc : LET t == To(o, p) IN
         /\ t \in OwnRecord
         /\ t.pc = p /\ t.at = own[o].at /\ t.view = own[o].view
         /\ t.entered = own[o].entered /\ t.todo = own[o].todo
  BY <1>t, ToFields
<1>th. own[o].pc \in Catching /\ Owner(o, Thrown(o)) => Jumps(own[o], own'[o])
  BY <1>t, ThrownFields
<1>go. \A p \in OwnPc : Goto(o, p) => LET t == own'[o] IN
         /\ t.pc = p /\ t.at = own[o].at /\ t.view = own[o].view
         /\ t.entered = own[o].entered /\ t.todo = own[o].todo
  BY <1>t, GotoFields
<1>ow. \A s : Owner(o, s) => own'[o] = s
  BY <1>t, OwnerEffect
<1>ab. \A p \in Catching : Aborted(o, p) => Flow(o)
  <2> SUFFICES ASSUME NEW p \in Catching, Aborted(o, p)
               PROVE  Flow(o)
    OBVIOUS
  <2> QED
    BY <1>th DEF Aborted, AtPc, Flow
<1>1. CASE Scan(o)
  BY <1>1, <1>go DEF Scan, AtPc, OwnPc, Flow, Jumps
<1>2. CASE Open(o)
  <2>1. CASE Goto(o, "refused") /\ UNCHANGED rec
    BY <1>2, <2>1, <1>go DEF Open, AtPc, OwnPc, Flow, Jumps
  <2>2. ASSUME NEW v, Owner(o, [To(o, "fresh") EXCEPT !.view = v]),
               UNCHANGED rec \/ Opened(RunOf[o])
        PROVE  Flow(o)
    <3>1. To(o, "fresh") \in OwnRecord /\ To(o, "fresh").pc = "fresh"
      BY <1>to DEF OwnPc
    <3>2. own'[o] = [To(o, "fresh") EXCEPT !.view = v]
      BY <1>ow, <2>2
    <3>3. Opens(own[o], own'[o])
      BY <1>2, <1>to, <3>1, <3>2, FieldsOf DEF Open, AtPc, Opens, OwnPc
    <3> QED
      BY <2>2, <3>3 DEF Flow
  <2> QED
    BY <1>2, <2>1, <2>2 DEF Open, Opened
<1>3. CASE AssertFresh(o)
  <2>1. IsFresh(o) => own[o].view # "running"
    BY DEF IsFresh
  <2> QED
    BY <1>3, <1>go, <2>1 DEF AssertFresh, AtPc, OwnPc, Flow, Jumps
<1>4. CASE ReadStages(o)
  BY <1>4, <1>go, <1>th
  DEF ReadStages, AtPc, OwnPc, Flow, Jumps, Catching
<1>5. CASE Provision(o)
  <2>1. CASE Aborted(o, "provision")
    BY <1>ab, <2>1 DEF Catching
  <2>2. CASE AtPc(o, "provision") /\ Drive(o, "provisioning", To(o, "verify"), Thrown(o))
    <3>1. To(o, "verify") \in OwnRecord /\ To(o, "verify").pc = "verify"
      BY <1>to DEF OwnPc
    <3>2. CASE Owner(o, Thrown(o)) /\ UNCHANGED rec
      BY <1>th, <2>2, <3>2 DEF Catching, AtPc, Flow
    <3>3. CASE /\ Moved(RunOf[o], "provisioning")
               /\ own'[o].view = "provisioning" /\ own'[o].pc = "verify"
               /\ own'[o].entered = own[o].entered
               /\ own'[o].todo = own[o].todo
      BY <2>2, <3>3 DEF AtPc, Flow, Lands
    <3> QED
      BY <1>t, <1>to, <2>2, <3>1, <3>2, <3>3, DriveFlow DEF OwnPc
  <2> QED
    BY <1>5, <2>1, <2>2 DEF Provision
<1>6. CASE VerifyInfra(o)
  BY <1>6, <1>go, <1>th
  DEF VerifyInfra, AtPc, OwnPc, Flow, Jumps, Catching
<1>7. CASE BeginProjection(o)
  <2>1. CASE Aborted(o, "project")
    BY <1>ab, <2>1 DEF Catching
  <2> DEFINE s == [To(o, "intend") EXCEPT !.attempted = TRUE, !.at = 1]
  <2>2. CASE AtPc(o, "project") /\ Drive(o, "projecting", s, Thrown(o))
    <3>1. To(o, "intend") \in OwnRecord /\ To(o, "intend").pc = "intend"
      BY <1>to DEF OwnPc
    <3>2. /\ s \in OwnRecord /\ s.pc = "intend"
          /\ s.entered = To(o, "intend").entered
          /\ s.todo = To(o, "intend").todo
      BY <3>1 DEF OwnRecord
    <3>3. s.entered = own[o].entered /\ s.todo = own[o].todo
      BY <1>to, <3>2 DEF OwnPc
    <3>4. CASE Owner(o, Thrown(o)) /\ UNCHANGED rec
      BY <1>th, <2>2, <3>4 DEF Catching, AtPc, Flow
    <3> HIDE DEF s
    <3>5. CASE /\ Moved(RunOf[o], "projecting")
               /\ own'[o].view = "projecting" /\ own'[o].pc = s.pc
               /\ own'[o].entered = s.entered
               /\ own'[o].todo = s.todo
      BY <2>2, <3>2, <3>3, <3>5 DEF AtPc, Flow, Lands
    <3> QED
      BY <1>t, <2>2, <3>2, <3>4, <3>5, DriveFlow
  <2> QED
    BY <1>7, <2>1, <2>2 DEF BeginProjection
<1>8. CASE IntendSpec(o)
  <2> DEFINE s == Advance(o, NSpecs, "intend", "lock")
  <2>1. UNCHANGED rec /\ (Owner(o, s) \/ Owner(o, Thrown(o)))
    BY <1>8 DEF IntendSpec, Intend, Journal
  <2>2. /\ s.pc \in {"intend", "lock"} /\ s.view = own[o].view
        /\ s.entered = own[o].entered /\ s.todo = own[o].todo
    BY <1>to, FieldsOf DEF Advance, OwnPc
  <2> HIDE DEF s
  <2> QED
    BY <1>8, <1>th, <1>ow, <2>1, <2>2
    DEF IntendSpec, AtPc, Flow, Turns, Catching
<1>9. CASE AcquireLock(o) \/ CheckNamespace(o)
  BY <1>9, <1>go, <1>th
  DEF AcquireLock, CheckNamespace, AtPc, OwnPc, Flow, Jumps, Catching
<1>11. CASE Create(o)
  <2>1. UNCHANGED rec /\ own[o].pc = "create"
    BY <1>11 DEF Create, AtPc
  <2>2. UNCHANGED own \/ Owner(o, Thrown(o))
    BY <1>11 DEF Create
  <2> QED
    BY <1>th, <2>1, <2>2 DEF Flow, Jumps, Catching
<1>12. CASE Projected(o)
  <2>1. own'[o] = [To(o, "confirm") EXCEPT !.at = 1] /\ UNCHANGED rec
    BY <1>12, <1>ow DEF Projected
  <2>2. To(o, "confirm") \in OwnRecord
    BY <1>to DEF OwnPc
  <2> QED
    BY <1>12, <1>to, <2>1, <2>2, FieldsOf DEF Projected, AtPc, OwnPc, Flow, Turns
<1>13. CASE ConfirmSpec(o)
  <2> DEFINE s == Advance(o, NSpecs, "confirm", "enter")
  <2>1. UNCHANGED rec /\ (Owner(o, s) \/ Owner(o, Thrown(o)))
    BY <1>13 DEF ConfirmSpec, Confirm, Journal
  <2>2. /\ s.pc = "enter" \/ (s.pc = "confirm" /\ s.at = own[o].at + 1)
        /\ s.view = own[o].view
        /\ s.entered = own[o].entered /\ s.todo = own[o].todo
    BY <1>to, FieldsOf DEF Advance, OwnPc
  <2> HIDE DEF s
  <2> QED
    BY <1>13, <1>th, <1>ow, <2>1, <2>2
    DEF ConfirmSpec, AtPc, Flow, Turns, Catching
<1>14. CASE EnterRunning(o)
  <2>1. CASE Aborted(o, "enter")
    BY <1>ab, <2>1 DEF Catching
  <2> DEFINE s(p) == [To(o, p) EXCEPT !.entered = TRUE, !.at = 1]
  <2>2. CASE AtPc(o, "enter") /\ Drive(o, "running", s("next"), s("collect"))
    <3>1. \A p \in {"next", "collect"} :
            To(o, p) \in OwnRecord /\ To(o, p).pc = p
              /\ To(o, p).todo = own[o].todo /\ To(o, p).view = own[o].view
      BY <1>to DEF OwnPc
    <3>2. \A p \in {"next", "collect"} :
            /\ s(p) \in OwnRecord /\ s(p).pc = p /\ s(p).at = 1
            /\ s(p).entered = TRUE
            /\ s(p).todo = own[o].todo /\ s(p).view = own[o].view
      BY <3>1 DEF OwnRecord
    <3> HIDE DEF s
    <3>4. CASE own'[o] = s("collect") /\ UNCHANGED rec
      BY <2>2, <3>2, <3>4 DEF AtPc, Flow, Turns
    <3>5. CASE /\ Moved(RunOf[o], "running")
               /\ own'[o].view = "running" /\ own'[o].pc = s("next").pc
               /\ own'[o].at = s("next").at
               /\ own'[o].entered = s("next").entered
               /\ own'[o].todo = s("next").todo
      <4>1. Lands(own[o], own'[o], "running")
        BY <2>2, <3>2, <3>5 DEF AtPc, Lands
      <4> QED
        BY <3>5, <4>1 DEF Flow
    <3> QED
      BY <1>t, <2>2, <3>2, <3>4, <3>5, DriveFlow
  <2> QED
    BY <1>14, <2>1, <2>2 DEF EnterRunning
<1>15. CASE RunLoop(o) \/ CallRunner(o) \/ RunnerSettles(o)
  BY <1>15, <1>go
  DEF RunLoop, CallRunner, RunnerSettles, AtPc, OwnPc, Flow, Jumps
<1>16. CASE IntendTrigger(o)
  <2>1. UNCHANGED rec /\ (Owner(o, To(o, "call")) \/ Owner(o, Thrown(o)))
    BY <1>16 DEF IntendTrigger, Intend, Journal
  <2> QED
    BY <1>16, <1>th, <1>ow, <1>to, <2>1
    DEF IntendTrigger, AtPc, Flow, Jumps, Catching, OwnPc
<1>19. CASE ConfirmTrigger(o)
  <2> DEFINE s == [To(o, "next") EXCEPT !.at = @ + 1]
  <2>1. UNCHANGED rec /\ (Owner(o, s) \/ Owner(o, Thrown(o)))
    BY <1>19 DEF ConfirmTrigger, Confirm, Journal
  <2>2. /\ s.pc = "next" /\ s.at = own[o].at + 1 /\ s.view = own[o].view
        /\ s.entered = own[o].entered /\ s.todo = own[o].todo
    BY <1>to, FieldsOf DEF OwnPc
  <2> HIDE DEF s
  <2> QED
    BY <1>19, <1>th, <1>ow, <2>1, <2>2
    DEF ConfirmTrigger, AtPc, Flow, Turns, Catching
<1>20. CASE Abandon(o)
  <2>1. CASE Close(o, "abandon", "abandoned")
    <3>1. own'[o] = [To(o, "abandoned") EXCEPT !.closed = TRUE] /\ UNCHANGED rec
      BY <1>ow, <2>1 DEF Close
    <3>2. To(o, "abandoned") \in OwnRecord
      BY <1>to DEF OwnPc
    <3> QED
      BY <1>to, <2>1, <3>1, <3>2, FieldsOf DEF Close, AtPc, OwnPc, Flow, Turns
  <2>2. CASE /\ AtPc(o, "abandoned")
             /\ Drive(o, "abandoned", To(o, "report"), To(o, "report"))
    BY <1>t, <1>to, <2>2, DriveFlow DEF AtPc, OwnPc, Flow, Lands, Jumps
  <2> QED
    BY <1>20, <2>1, <2>2 DEF Abandon
<1>21. CASE Collect(o)
  BY <1>21, <1>t, <1>to, <1>go, DriveFlow
  DEF Collect, AtPc, OwnPc, Flow, Lands, Jumps
<1>22. CASE FlushReporters(o) \/ Report(o)
  <2> DEFINE s(p) == [To(o, p) EXCEPT !.closed = TRUE]
  <2>1. \A p \in {"teardown", "finished"} :
          /\ s(p).pc = p /\ s(p).view = own[o].view
          /\ s(p).entered = own[o].entered /\ s(p).todo = own[o].todo
    <3>1. \A p \in {"teardown", "finished"} : LET t == To(o, p) IN
            /\ t \in OwnRecord /\ t.pc = p /\ t.view = own[o].view
            /\ t.entered = own[o].entered /\ t.todo = own[o].todo
      BY <1>to DEF OwnPc
    <3> QED
      BY <3>1, FieldsOf
  <2>2. \/ AtPc(o, "flush") /\ own'[o] = s("teardown")
        \/ AtPc(o, "report") /\ own'[o] = s("finished")
    BY <1>22, <1>ow DEF FlushReporters, Close, Report
  <2>3. UNCHANGED rec
    BY <1>22 DEF FlushReporters, Close, Report
  <2> HIDE DEF s
  <2> QED
    BY <2>1, <2>2, <2>3 DEF AtPc, Flow, Turns
<1>23. CASE BeginTeardown(o)
  <2>1. PICK p \in {"count", "readback"} :
          Drive(o, "tearing-down", To(o, p), To(o, "report"))
    BY <1>23 DEF BeginTeardown
  <2> QED
    BY <1>23, <1>t, <1>to, <2>1, DriveFlow
    DEF BeginTeardown, AtPc, OwnPc, Flow, Lands, Jumps
<1>24. CASE CountTriggers(o) \/ Compensated(o)
  BY <1>24, <1>go DEF CountTriggers, Compensated, AtPc, OwnPc, Flow, Jumps
<1>25. \A goal : LET t == SettleTo(o, goal) IN
         /\ t.pc = "settle" /\ t.view = own[o].view
         /\ t.entered = own[o].entered /\ t.todo = own[o].todo
  BY <1>to, FieldsOf DEF SettleTo, OwnPc
<1>26. CASE Swept(o) \/ ReadBack(o)
  BY <1>26, <1>ow, <1>go, <1>25
  DEF Swept, ReadBack, AtPc, OwnPc, Flow, Jumps, Settles
<1>27. CASE Recover(o)
  <2> DEFINE s == [To(o, "compensate") EXCEPT !.todo = Unsettled(RunOf[o])]
             fail == SettleTo(o, "failed")
  <2>1. LET t == To(o, "compensate") IN
          /\ t \in OwnRecord /\ t.pc = "compensate"
          /\ t.view = own[o].view /\ t.entered = own[o].entered
    BY <1>to DEF OwnPc
  <2>2. /\ s.pc = "compensate" /\ s.view = own[o].view
        /\ s.entered = own[o].entered /\ s.todo = Unsettled(RunOf[o])
    BY <2>1, FieldsOf
  <2>3. AtPc(o, "recover") /\ UNCHANGED rec /\ (own'[o] = s \/ own'[o] = fail)
    BY <1>27, <1>ow DEF Recover
  <2>4. /\ fail.pc = "settle" /\ fail.view = own[o].view
        /\ fail.entered = own[o].entered /\ fail.todo = own[o].todo
    BY <1>25
  <2> HIDE DEF s, fail
  <2> QED
    BY <2>2, <2>3, <2>4 DEF AtPc, Flow, Settles
<1>28. CASE Compensate(o)
  <2> DEFINE fail == [SettleTo(o, "failed") EXCEPT !.todo = {}]
             on(w) == [own[o] EXCEPT !.todo = @ \ {w}]
  <2>1. PICK w : UNCHANGED rec /\ (Owner(o, on(w)) \/ Owner(o, fail))
    BY <1>28 DEF Compensate, Journal
  <2>2. on(w).pc = own[o].pc /\ on(w).view = own[o].view
          /\ on(w).entered = own[o].entered /\ on(w).todo = own[o].todo \ {w}
    BY <1>t, FieldsOf
  <2>3. SettleTo(o, "failed") \in OwnRecord
    BY <1>t, SettleToType DEF TeardownEnds
  <2>4. fail.pc = "settle" /\ fail.view = own[o].view
          /\ fail.entered = own[o].entered /\ fail.todo = {}
    BY <1>25, <2>3, FieldsOf
  <2> HIDE DEF fail, on
  <2> QED
    BY <1>28, <1>ow, <2>1, <2>2, <2>4 DEF Compensate, AtPc, Flow, Settles
<1>29. CASE Settle(o)
  <2>1. own[o].goal \in TeardownEnds
    BY <1>t DEF OwnRecord
  <2> QED
    BY <1>29, <1>t, <1>to, <2>1, DriveFlow
    DEF Settle, AtPc, OwnPc, Flow, Lands, Jumps
<1> QED
  BY <1>1, <1>2, <1>3, <1>4, <1>5, <1>6, <1>7, <1>8, <1>9, <1>11, <1>12, <1>13,
     <1>14, <1>15, <1>16, <1>19, <1>20, <1>21, <1>22, <1>23, <1>24, <1>26,
     <1>27, <1>28, <1>29
  DEF OwnerStep

LEMMA InterruptFields ==
  ASSUME TypeOK, NEW o \in Owners, Abort(o) \/ Crash(o), NEW p \in Owners
  PROVE  LET s == own[p]
             t == own'[p]
         IN /\ t.at = s.at /\ t.view = s.view /\ t.entered = s.entered
            /\ t.todo = s.todo
            /\ t.pc = s.pc \/ (t.pc = "dead" /\ Crash(o) /\ p = o)
<1>t. own \in [Owners -> OwnRecord]
  BY DEF TypeOK, LifeTypeOK
<1>1. CASE Abort(o)
  <2>1. own'[p] = own[p] \/ own'[p] = [own[p] EXCEPT !.aborted = TRUE]
    BY <1>t, <1>1 DEF Abort
  <2>2. LET t == [own[p] EXCEPT !.aborted = TRUE] IN
          /\ t.at = own[p].at /\ t.view = own[p].view
          /\ t.entered = own[p].entered /\ t.todo = own[p].todo
          /\ t.pc = own[p].pc
    BY <1>t DEF OwnRecord
  <2> QED
    BY <2>1, <2>2
<1>2. CASE Crash(o)
  BY <1>t, <1>2, GotoFields, GotoEffect DEF Crash, OwnPc
<1> QED
  BY <1>1, <1>2

------------------------------------------------------------------------------
(* What a step does to the ledger entries. *)

\* A journalled flip that is not allowed, or fails unwritten, changes nothing.
LEMMA JournalEntries ==
  ASSUME TypeOK, NEW o \in Owners, NEW w, NEW allowed, NEW state,
         NEW landed, NEW thrown,
         Journal(o, w, allowed, state, landed, thrown)
  PROVE  /\ \A r \in Runs, v \in Writes :
              \/ entry'[r][v] = entry[r][v]
              \/ r = RunOf[o] /\ v = w /\ allowed /\ entry'[r][v] = state
         /\ \/ own'[o] = thrown
            \/ /\ own'[o] = landed /\ allowed
               /\ w \in Writes => entry'[RunOf[o]][w] = state
<1> DEFINE written == [entry EXCEPT ![RunOf[o]][w] = state]
<1>t. /\ own \in [Owners -> OwnRecord] /\ RunOf[o] \in Runs
      /\ \A r \in Runs : entry[r] \in [Writes -> EntryState \cup {"none"}]
      /\ entry \in [Runs -> [Writes -> EntryState \cup {"none"}]]
  BY RunOfAssumption DEF TypeOK, LifeTypeOK
<1>1. \/ allowed /\ entry' = written /\ Owner(o, landed)
      \/ entry' = entry /\ Owner(o, thrown)
      \/ allowed /\ entry' = written /\ Owner(o, thrown)
  BY DEF Journal
<1>2. \A r \in Runs, v \in Writes :
        \/ written[r][v] = entry[r][v]
        \/ r = RunOf[o] /\ v = w /\ written[r][v] = state
  BY <1>t
<1>3. w \in Writes => written[RunOf[o]][w] = state
  BY <1>t
<1> HIDE DEF written
<1> QED
  BY <1>t, <1>1, <1>2, <1>3, OwnerEffect

\* The entries an owner's step may flip, and from what to what.
Flips(o, w, old, new) ==
  \/ /\ own[o].pc = "intend" /\ w = <<"project", own[o].at>>
     /\ new = IF old = "none" THEN "intended" ELSE old
  \/ /\ own[o].pc = "confirm" /\ w = <<"project", own[o].at>>
     /\ old = "intended" /\ new = "applied"
  \/ /\ own[o].pc = "next" /\ w = <<"trigger", own[o].at>>
     /\ new = IF old = "none" THEN "intended" ELSE old
  \/ /\ own[o].pc = "answered" /\ w = <<"trigger", own[o].at>>
     /\ new = "applied"
  \/ own[o].pc = "compensate" /\ w \in own[o].todo /\ new = "compensated"

LEMMA OwnerFlips ==
  ASSUME TypeOK, NEW o \in Owners, OwnerStep(o), NEW r \in Runs, NEW w \in Writes
  PROVE  \/ entry'[r][w] = entry[r][w]
         \/ r = RunOf[o] /\ Flips(o, w, entry[r][w], entry'[r][w])
<1>1. CASE IntendSpec(o)
  BY <1>1, JournalEntries DEF IntendSpec, Intend, AtPc, Flips
<1>2. CASE IntendTrigger(o)
  BY <1>2, JournalEntries DEF IntendTrigger, Intend, AtPc, Flips
<1>3. CASE ConfirmSpec(o)
  <2> DEFINE v == <<"project", own[o].at>>
             allowed == IF v[1] = "project" THEN entry[RunOf[o]][v] = "intended"
                        ELSE entry[RunOf[o]][v] # "compensated"
  <2>1. Journal(o, v, allowed, "applied",
                Advance(o, NSpecs, "confirm", "enter"), Thrown(o))
    BY <1>3 DEF ConfirmSpec, Confirm
  <2>2. allowed => entry[RunOf[o]][v] = "intended"
    OBVIOUS
  <2>3. own[o].pc = "confirm"
    BY <1>3 DEF ConfirmSpec, AtPc
  <2> HIDE DEF allowed
  <2>4. \/ entry'[r][w] = entry[r][w]
        \/ r = RunOf[o] /\ w = v /\ allowed /\ entry'[r][w] = "applied"
    BY <2>1, JournalEntries
  <2> QED
    BY <2>2, <2>3, <2>4 DEF Flips
<1>4. CASE ConfirmTrigger(o)
  BY <1>4, JournalEntries DEF ConfirmTrigger, Confirm, AtPc, Flips
<1>5. CASE Compensate(o)
  <2>1. PICK v \in Last(own[o].todo) :
          Journal(o, v, TRUE, "compensated",
                  [own[o] EXCEPT !.todo = @ \ {v}],
                  [SettleTo(o, "failed") EXCEPT !.todo = {}])
    BY <1>5 DEF Compensate
  <2>2. v \in own[o].todo
    BY DEF Last
  <2> DEFINE landed == [own[o] EXCEPT !.todo = @ \ {v}]
             thrown == [SettleTo(o, "failed") EXCEPT !.todo = {}]
  <2>4. Journal(o, v, TRUE, "compensated", landed, thrown)
    BY <2>1
  <2> HIDE DEF landed, thrown
  <2>3. \/ entry'[r][w] = entry[r][w]
        \/ r = RunOf[o] /\ w = v /\ entry'[r][w] = "compensated"
    <3>1. \E allowed : Journal(o, v, allowed, "compensated", landed, thrown)
      BY <2>4
    <3> QED
      BY <3>1, JournalEntries
  <2> QED
    BY <1>5, <2>2, <2>3 DEF Compensate, AtPc, Flips
<1>6. CASE ~Journals(o)
  <2>1. UNCHANGED entry
    <3>1. CASE Drives(o)
      BY <3>1
      DEF Drives, Provision, BeginProjection, EnterRunning, Abandon, Collect,
          BeginTeardown, Settle, Aborted, Close, Drive
    <3>2. CASE ~Drives(o)
      BY <1>6, <3>2
      DEF OwnerStep, Drives, Journals, Scan, Open, AssertFresh, ReadStages,
          VerifyInfra, AcquireLock, CheckNamespace, Create, Projected,
          RunLoop, CallRunner, RunnerSettles, FlushReporters, Close,
          CountTriggers, Swept, Recover, Compensated, ReadBack, Report
    <3> QED
      BY <3>1, <3>2
  <2> QED
    BY <2>1
<1> QED
  BY <1>1, <1>2, <1>3, <1>4, <1>5, <1>6 DEF Journals

LEMMA CleanerFlips ==
  ASSUME TypeOK, NEW c \in Cleaners, CleanerStep(c) \/ CleanCrash(c),
         NEW r \in Runs, NEW w \in Writes
  PROVE  \/ entry'[r][w] = entry[r][w]
         \/ /\ r = cl[c].run /\ w \in cl[c].todo
            /\ entry'[r][w] = "compensated"
<1>t. entry \in [Runs -> [Writes -> EntryState \cup {"none"}]]
  BY DEF TypeOK, LifeTypeOK
<1>1. CASE CleanCompensate(c)
  <2>1. PICK v \in Last(cl[c].todo) :
          entry' \in {entry, [entry EXCEPT ![cl[c].run][v] = "compensated"]}
    BY <1>1 DEF CleanCompensate
  <2>2. v \in cl[c].todo
    BY DEF Last
  <2> QED
    BY <1>t, <2>1, <2>2
<1>2. CASE ~CleanCompensate(c)
  BY <1>2 DEF CleanerStep, CleanCrash, CleanRead, CleanCount, CleanBegin,
     CleanRefused, CleanRecover, CleanDone, storeVars
<1> QED
  BY <1>1, <1>2

\* Once applied, an entry is applied or compensated for good.
EntriesHold ==
  \A r \in Runs, w \in Writes :
    entry[r][w] \in {"applied", "compensated"} =>
      entry'[r][w] \in {"applied", "compensated"}

LEMMA LedgerHolds ==
  ASSUME TypeOK, [Next]_vars
  PROVE  EntriesHold
<1>1. CASE \E o \in Owners : OwnerStep(o)
  BY <1>1, OwnerFlips DEF EntriesHold, Flips
<1>2. CASE \E c \in Cleaners : CleanerStep(c) \/ CleanCrash(c)
  BY <1>2, CleanerFlips DEF EntriesHold
<1>3. CASE UNCHANGED entry
  BY <1>3 DEF EntriesHold
<1>4. (\E o \in Owners : Abort(o) \/ Crash(o)) => UNCHANGED entry
  BY DEF Abort, Crash
<1> QED
  BY <1>1, <1>2, <1>3, <1>4 DEF Next, lifeVars, vars

------------------------------------------------------------------------------
(* One owner of a run id gets past confirm, so its groups are triggered    *)
(* once.                                                                   *)

LEMMA EnteredOwner ==
  ASSUME TypeOK, LoopIsEntered, NEW o \in Owners, OwnerStep(o)
  PROVE  LoopIsEntered'
<1>f. Flow(o)
  BY OwnerFlow
<1>s. /\ own[o].pc \in TriggerLoop \cup {"abandon", "abandoned"} => own[o].entered
      /\ own[o].view = "running" =>
           own[o].entered \/ own[o].pc \in {"fresh", "refused", "dead"}
      /\ own[o].pc \in BeforeLoop => ~own[o].entered
  BY DEF LoopIsEntered
<1>e. own[o].entered => own'[o].entered
  BY <1>f DEF Flow, Jumps, Turns, Settles, Lands, Opens
<1>1. own'[o].pc \in TriggerLoop \cup {"abandon", "abandoned"} => own'[o].entered
  BY <1>f, <1>s
  DEF Flow, Jumps, Turns, Settles, Lands, Opens, TriggerLoop, Catching, Catch
<1>2. own'[o].view = "running" =>
        own'[o].entered \/ own'[o].pc \in {"fresh", "refused", "dead"}
  BY <1>f, <1>s
  DEF Flow, Jumps, Turns, Settles, Lands, Opens, Catching, TeardownEnds
<1>3. own'[o].pc \in BeforeLoop => ~own'[o].entered
  BY <1>f, <1>s
  DEF Flow, Jumps, Turns, Settles, Lands, Opens, BeforeLoop, Projection,
      Catching, Catch
<1>4. ASSUME NEW p \in Owners, NEW g \in Groups, exec'[p][g] # "none"
      PROVE  own'[p].entered
  <2>1. CASE exec[p][g] # "none"
    <3>1. own[p].entered
      BY <2>1 DEF LoopIsEntered
    <3> QED
      BY <1>e, <3>1, OthersStay
  <2>2. CASE exec[p][g] = "none"
    <3>1. /\ own[o].pc = "call"
          /\ exec' = [exec EXCEPT ![o][own[o].at] = "sent"]
      BY <1>4, <2>2, OwnerTriggers
    <3>2. p = o
      BY <1>4, <2>2, <3>1 DEF TypeOK, StoreTypeOK
    <3> QED
      BY <1>e, <1>s, <3>1, <3>2 DEF TriggerLoop
  <2> QED
    BY <2>1, <2>2
<1> QED
  BY <1>1, <1>2, <1>3, <1>4, OthersStay DEF LoopIsEntered

\* Getting past confirm takes the create from intended to applied.
LEMMA NewlyConfirmed ==
  ASSUME TypeOK, NEW o \in Owners, OwnerStep(o), Confirmed(o)', ~Confirmed(o)
  PROVE  /\ entry[RunOf[o]][<<"project", 1>>] = "intended"
         /\ entry'[RunOf[o]][<<"project", 1>>] = "applied"
<1>t. own \in [Owners -> OwnRecord] /\ NSpecs \in Nat \ {0}
  BY CountsAssumption DEF TypeOK, LifeTypeOK
<1>f. Flow(o)
  BY OwnerFlow
<1>1. /\ own[o].pc = "confirm" /\ own[o].at = 1
      /\ own'[o].pc \in {"confirm", "enter"}
  BY <1>f DEF Confirmed, Flow, Jumps, Turns, Settles, Lands, Opens, Catching, Catch
<1>2. ConfirmSpec(o)
  <2>1. \A p : AtPc(o, p) => p = "confirm"
    BY <1>1 DEF AtPc
  <2>2. ConfirmSpec(o) \/ Crash(o)
    BY <2>1
    DEF OwnerStep, Scan, Open, AssertFresh, ReadStages, Provision, VerifyInfra,
        BeginProjection, Aborted, IntendSpec, AcquireLock, CheckNamespace,
        Create, Projected, EnterRunning, RunLoop, IntendTrigger, CallRunner,
        RunnerSettles, ConfirmTrigger, Abandon, Close, Collect, FlushReporters,
        BeginTeardown, CountTriggers, Swept, Recover, Compensate, Compensated,
        ReadBack, Settle, Report
  <2> QED
    BY <2>1, <2>2
    DEF OwnerStep, Scan, Open, AssertFresh, ReadStages, Provision, VerifyInfra,
        BeginProjection, Aborted, IntendSpec, AcquireLock, CheckNamespace,
        Create, Projected, EnterRunning, RunLoop, IntendTrigger, CallRunner,
        RunnerSettles, ConfirmTrigger, Abandon, Close, Collect, FlushReporters,
        BeginTeardown, CountTriggers, Swept, Recover, Compensate, Compensated,
        ReadBack, Settle, Report
<1> DEFINE v == <<"project", own[o].at>>
           allowed == IF v[1] = "project" THEN entry[RunOf[o]][v] = "intended"
                      ELSE entry[RunOf[o]][v] # "compensated"
<1>3. Journal(o, v, allowed, "applied",
              Advance(o, NSpecs, "confirm", "enter"), Thrown(o))
  BY <1>2 DEF ConfirmSpec, Confirm
<1>4. allowed => entry[RunOf[o]][v] = "intended"
  OBVIOUS
<1>5. v = <<"project", 1>> /\ v \in Writes
  BY <1>t, <1>1 DEF Writes, Specs
<1> HIDE DEF allowed, v
<1>6. own'[o] # Thrown(o)
  BY <1>t, <1>1, ThrownEffect
<1>7. allowed /\ entry'[RunOf[o]][v] = "applied"
  BY <1>3, <1>5, <1>6, JournalEntries
<1> QED
  BY <1>4, <1>5, <1>7

LEMMA OnceOwner ==
  ASSUME TypeOK, OnceInv, NEW o \in Owners, OwnerStep(o), EntriesHold
  PROVE  OnceInv'
<1>w. <<"project", 1>> \in Writes /\ RunOf \in [Owners -> Runs]
  BY RunOfAssumption, CountsAssumption DEF Writes, Specs
<1>1. LoopIsEntered'
  BY EnteredOwner DEF OnceInv
<1>2. \A p \in Owners \ {o} : Confirmed(p)' <=> Confirmed(p)
  BY OthersStay DEF Confirmed
<1>3. ASSUME NEW p \in Owners, Confirmed(p)'
      PROVE  entry'[RunOf[p]][<<"project", 1>>] \in {"applied", "compensated"}
  <2>1. CASE Confirmed(p)
    <3>1. entry[RunOf[p]][<<"project", 1>>] \in {"applied", "compensated"}
      BY <2>1 DEF OnceInv, OneConfirms
    <3> QED
      BY <1>w, <3>1 DEF EntriesHold
  <2>2. CASE ~Confirmed(p)
    BY <1>2, <1>3, <2>2, NewlyConfirmed
  <2> QED
    BY <2>1, <2>2
<1>4. ASSUME NEW p \in Owners, NEW q \in Owners, RunOf[p] = RunOf[q],
             Confirmed(p)', Confirmed(q)', p # q
      PROVE  FALSE
  <2>1. Confirmed(p) \/ Confirmed(q)
    BY <1>2, <1>4
  <2>2. ~(Confirmed(p) /\ Confirmed(q))
    BY <1>4 DEF OnceInv, OneConfirms
  <2>3. \A x \in Owners : Confirmed(x)' /\ ~Confirmed(x) =>
          /\ x = o
          /\ entry[RunOf[x]][<<"project", 1>>] = "intended"
    BY <1>2, NewlyConfirmed
  <2>4. \A x \in Owners : Confirmed(x) =>
          entry[RunOf[x]][<<"project", 1>>] \in {"applied", "compensated"}
    BY DEF OnceInv, OneConfirms
  <2> QED
    BY <1>4, <2>1, <2>2, <2>3, <2>4
<1> QED
  BY <1>1, <1>3, <1>4 DEF OnceInv, OneConfirms

\* Everybody else leaves an owner's local state alone, or kills it.
LEMMA OnceOthers ==
  ASSUME TypeOK, OnceInv, EntriesHold,
         \A p \in Owners :
           /\ own'[p].at = own[p].at /\ own'[p].view = own[p].view
           /\ own'[p].entered = own[p].entered
           /\ own'[p].pc \in {own[p].pc, "dead"},
         \A p \in Owners, g \in Groups :
           exec[p][g] = "none" => exec'[p][g] = "none"
  PROVE  OnceInv'
<1>w. <<"project", 1>> \in Writes /\ RunOf \in [Owners -> Runs]
  BY RunOfAssumption, CountsAssumption DEF Writes, Specs
<1>1. LoopIsEntered'
  BY DEF OnceInv, LoopIsEntered, TriggerLoop, BeforeLoop, Projection
<1>2. \A p \in Owners : Confirmed(p)' => Confirmed(p)
  BY DEF Confirmed
<1>3. \A p \in Owners : Confirmed(p)' =>
        entry'[RunOf[p]][<<"project", 1>>] \in {"applied", "compensated"}
  BY <1>w, <1>2 DEF OnceInv, OneConfirms, EntriesHold
<1> QED
  BY <1>1, <1>2, <1>3 DEF OnceInv, OneConfirms

LEMMA OnceInit ==
  ASSUME Init
  PROVE  OnceInv
<1>1. \A o \in Owners : /\ own[o].pc = "scan" /\ own[o].view = "planned"
                        /\ own[o].entered = FALSE
  BY DEF Init
<1>2. \A o \in Owners, g \in Groups : exec[o][g] = "none"
  BY DEF Init, StoreInit
<1> QED
  BY <1>1, <1>2
  DEF OnceInv, LoopIsEntered, OneConfirms, Confirmed, TriggerLoop

\* No step but an owner's triggers.
LEMMA OthersTriggerNothing ==
  ASSUME TypeOK, [Next]_vars, ~(\E o \in Owners : OwnerStep(o)),
         NEW p \in Owners, NEW g \in Groups, exec[p][g] = "none"
  PROVE  exec'[p][g] = "none"
<1>1. CASE InstanceNext
  BY <1>1, InstanceKeepsNone
<1>2. CASE ~InstanceNext
  <2>1. CASE \E a \in Actors : SweepStep(a) \/ FailSweep(a)
    BY <2>1
    DEF SweepStep, ReadTests, ReadSuites, ReadLinks, PassGate, ReadSteps,
        ReadInputs, DeleteRow, FinishSweep, FailSweep, onlySweep
  <2>2. CASE \E c \in Cleaners : CleanerStep(c) \/ CleanCrash(c)
    BY <2>2, CleanerKeepsStamp
  <2>3. CASE \E o \in Owners : Abort(o) \/ Crash(o)
    BY <2>3, InterruptEffect
  <2>4. CASE UNCHANGED vars
    BY <2>4 DEF vars, storeVars
  <2> QED
    BY <1>2, <2>1, <2>2, <2>3, <2>4 DEF Next
<1> QED
  BY <1>1, <1>2

\* Nor does it touch the local state of an owner, but for a crash.
LEMMA OthersLeaveOwners ==
  ASSUME TypeOK, [Next]_vars, ~(\E o \in Owners : OwnerStep(o)), NEW p \in Owners
  PROVE  /\ own'[p].at = own[p].at /\ own'[p].view = own[p].view
         /\ own'[p].entered = own[p].entered /\ own'[p].todo = own[p].todo
         /\ own'[p].pc \in {own[p].pc, "dead"}
<1>1. CASE \E o \in Owners : Abort(o) \/ Crash(o)
  BY <1>1, InterruptFields
<1>2. CASE UNCHANGED own
  BY <1>2
<1>3. (\E c \in Cleaners : CleanerStep(c) \/ CleanCrash(c)) => UNCHANGED own
  BY CleanerKeepsStamp
<1> QED
  BY <1>1, <1>2, <1>3 DEF Next, lifeVars, vars

LEMMA OnceNext ==
  ASSUME TypeOK, OnceInv, [Next]_vars
  PROVE  OnceInv'
<1>1. CASE \E o \in Owners : OwnerStep(o)
  BY <1>1, LedgerHolds, OnceOwner
<1>2. CASE ~(\E o \in Owners : OwnerStep(o))
  BY <1>2, LedgerHolds, OthersTriggerNothing, OthersLeaveOwners, OnceOthers
<1> QED
  BY <1>1, <1>2

LEMMA OnceHolds == Spec => []OnceInv
<1>1. Init => OnceInv
  BY OnceInit
<1>2. TypeOK /\ OnceInv /\ [Next]_vars => OnceInv'
  BY OnceNext
<1> QED
  BY <1>1, <1>2, TypeCorrect, PTL DEF Spec

\* At most one owner of a run has an execution for a group.
LEMMA OneExecutes ==
  ASSUME OnceInv, NEW o \in Owners, NEW p \in Owners, RunOf[o] = RunOf[p],
         NEW g \in Groups, NEW h \in Groups,
         exec[o][g] # "none", exec[p][h] # "none"
  PROVE  o = p
<1>1. Confirmed(o) /\ Confirmed(p)
  BY DEF OnceInv, LoopIsEntered, Confirmed
<1> QED
  BY <1>1 DEF OnceInv, OneConfirms

(***************************************************************************)
(* However many owners a run id is started with, each of its runner groups *)
(* is triggered by one of them at most (ledger.confirm refuses a second    *)
(* confirmation of a create, and only a confirmed owner enters running).   *)
(***************************************************************************)
THEOREM TriggeredOnceHolds == Spec => []TriggeredOnce
<1>1. OnceInv => TriggeredOnce
  <2> SUFFICES ASSUME OnceInv, NEW r \in Runs, NEW g \in Groups
               PROVE  Cardinality({ o \in Owners :
                        RunOf[o] = r /\ exec[o][g] # "none" }) <= 1
    BY DEF TriggeredOnce
  <2> DEFINE S == { o \in Owners : RunOf[o] = r /\ exec[o][g] # "none" }
  <2>1. CASE S = {}
    <3>1. Cardinality(S) = 0
      BY <2>1, FS_EmptySet
    <3> QED
      BY <3>1
  <2>2. CASE S # {}
    <3>1. PICK o \in S : TRUE
      BY <2>2
    <3>2. S = {o}
      BY <3>1, OneExecutes
    <3>3. Cardinality(S) = 1
      BY <3>2, FS_Singleton
    <3> QED
      BY <3>3
  <2> QED
    BY <2>1, <2>2
<1> QED
  BY <1>1, OnceHolds, PTL

------------------------------------------------------------------------------
(* What a step does to the run records. *)

\* Who moves the record of r, and where to.
Mover(r, to) ==
  \/ to \in {"tearing-down"} \cup TeardownEnds
  \/ \E o \in Owners : RunOf[o] = r /\ OwnerStep(o) /\ Lands(own[o], own'[o], to)

LEMMA TransitionedState ==
  ASSUME NEW record \in RunRecord \cup {Absent}, NEW to
  PROVE  Transitioned(record, to).state = to
BY DEF Transitioned, RunRecord, Absent

LEMMA RecordMoves ==
  ASSUME TypeOK, [Next]_vars, NEW r \in Runs
  PROVE  \/ rec'[r] = rec[r]
         \/ rec[r] = Absent /\ rec'[r].state = "planned"
         \/ \E to : /\ MayTransition(rec[r], to) /\ Mover(r, to)
                    /\ rec'[r].state = to
<1>t. rec \in [Runs -> RunRecord \cup {Absent}]
  BY DEF TypeOK, LifeTypeOK
<1>1. CASE \E o \in Owners : OwnerStep(o)
  <2>1. PICK o \in Owners : OwnerStep(o)
    BY <1>1
  <2>2. Flow(o)
    BY <2>1, OwnerFlow
  <2>3. ASSUME NEW to, Lands(own[o], own'[o], to), Moved(RunOf[o], to)
        PROVE  rec'[r] = rec[r] \/ (/\ MayTransition(rec[r], to) /\ Mover(r, to)
                                    /\ rec'[r].state = to)
    <3>1. CASE r = RunOf[o]
      <4>1. rec'[r] = Transitioned(rec[r], to)
        BY <1>t, <2>3, <3>1 DEF Moved
      <4> QED
        BY <1>t, <2>1, <2>3, <3>1, <4>1, TransitionedState DEF Moved, Mover
    <3>2. CASE r # RunOf[o]
      BY <1>t, <2>3, <3>2 DEF Moved
    <3> QED
      BY <3>1, <3>2
  <2>4. CASE Opened(RunOf[o])
    BY <1>t, <2>4 DEF Opened
  <2>5. CASE UNCHANGED rec
    BY <2>5
  <2> QED
    BY <2>2, <2>3, <2>4, <2>5 DEF Flow
<1>2. CASE \E c \in Cleaners : CleanerStep(c)
  <2>1. PICK c \in Cleaners : CleanerStep(c)
    BY <1>2
  <2>2. \A to, next : CleanDrive(c, to, next) =>
          \/ rec' = rec
          \/ /\ MayTransition(rec[cl[c].run], to)
             /\ rec' = [rec EXCEPT ![cl[c].run] = Transitioned(@, to)]
    BY DEF CleanDrive
  <2>3. \A to : CleanDriveThrows(c, to) => rec' = rec
    BY DEF CleanDriveThrows
  <2>4. \/ rec' = rec
        \/ \E to \in {"tearing-down"} \cup TeardownEnds :
             /\ MayTransition(rec[cl[c].run], to)
             /\ rec' = [rec EXCEPT ![cl[c].run] = Transitioned(@, to)]
    BY <2>1, <2>2, <2>3
    DEF CleanerStep, CleanRead, CleanCount, CleanBegin, CleanRefused,
        CleanRecover, CleanCompensate, CleanDone, TeardownEnds
  <2>5. ASSUME NEW to \in {"tearing-down"} \cup TeardownEnds,
               MayTransition(rec[cl[c].run], to),
               rec' = [rec EXCEPT ![cl[c].run] = Transitioned(@, to)],
               rec'[r] # rec[r]
        PROVE  MayTransition(rec[r], to) /\ Mover(r, to) /\ rec'[r].state = to
    <3>1. r = cl[c].run /\ rec'[r] = Transitioned(rec[r], to)
      BY <1>t, <2>5
    <3> QED
      BY <1>t, <2>5, <3>1, TransitionedState DEF Mover
  <2> QED
    BY <2>4, <2>5
<1>3. CASE UNCHANGED rec
  BY <1>3
<1>4. /\ (\E o \in Owners : Abort(o) \/ Crash(o)) => UNCHANGED rec
      /\ (\E c \in Cleaners : CleanCrash(c)) => UNCHANGED rec
  BY DEF Abort, Crash, CleanCrash
<1> QED
  BY <1>1, <1>2, <1>3, <1>4 DEF Next, lifeVars, vars

\* The table leads out of no state that ends the driving.
LEMMA OverStays ==
  ASSUME TypeOK, [Next]_vars, NEW r \in Runs, Over(r)
  PROVE  Over(r)'
<1>1. \A to : MayTransition(rec[r], to) => to \in OverStates
  BY DEF MayTransition, RunStateTransitions, RunState, Over, OverStates,
     TerminalRunStates
<1>2. rec[r] # Absent
  BY DEF Over, OverStates, TerminalRunStates, Absent
<1> QED
  BY <1>1, <1>2, RecordMoves DEF Over

------------------------------------------------------------------------------
(* While an owner triggers, its record reads running; and it takes the     *)
(* groups in order.                                                        *)

LEMMA LoopRunsNext ==
  ASSUME TypeOK, OnceInv, LoopRuns, [Next]_vars
  PROVE  LoopRuns'
<1> SUFFICES ASSUME NEW o \in Owners, own'[o].pc \in TriggerLoop
             PROVE  rec'[RunOf[o]].state = "running"
  BY DEF LoopRuns
<1>t. RunOf[o] \in Runs
  BY RunOfAssumption
<1>1. CASE own[o].pc \in TriggerLoop
  <2>1. rec[RunOf[o]].state = "running" /\ rec[RunOf[o]] # Absent
    BY <1>1 DEF LoopRuns, Absent
  <2>2. \A to : MayTransition(rec[RunOf[o]], to) =>
          to \in {"running", "collecting", "abandoned"}
    BY <2>1 DEF MayTransition, RunStateTransitions, RunState
  <2>3. ASSUME NEW to \in {"collecting", "abandoned"}, Mover(RunOf[o], to)
        PROVE  FALSE
    <3>1. PICK p \in Owners :
            /\ RunOf[p] = RunOf[o] /\ OwnerStep(p)
            /\ Lands(own[p], own'[p], to)
      BY <2>3 DEF Mover, TeardownEnds
    <3>2. own[p].entered /\ own[p].pc \notin TriggerLoop
      BY <2>3, <3>1 DEF Lands, TeardownEnds, OnceInv, LoopIsEntered, TriggerLoop
    <3>3. own[o].entered
      BY <1>1 DEF OnceInv, LoopIsEntered
    <3>4. o = p
      BY <3>1, <3>2, <3>3 DEF OnceInv, OneConfirms, Confirmed
    <3> QED
      BY <1>1, <3>2, <3>4
  <2> QED
    BY <1>t, <2>1, <2>2, <2>3, RecordMoves
<1>2. CASE own[o].pc \notin TriggerLoop
  <2>1. OwnerStep(o)
    <3>1. CASE \E p \in Owners : OwnerStep(p)
      BY <1>2, <3>1, OthersStay
    <3>2. CASE ~(\E p \in Owners : OwnerStep(p))
      BY <1>2, <3>2, OthersLeaveOwners DEF TriggerLoop
    <3> QED
      BY <3>1, <3>2
  <2>2. Flow(o)
    BY <2>1, OwnerFlow
  <2>3. Moved(RunOf[o], "running")
    BY <1>2, <2>2
    DEF Flow, Jumps, Turns, Settles, Lands, Opens, TriggerLoop, Catching, Catch
  <2>4. rec \in [Runs -> RunRecord \cup {Absent}]
    BY DEF TypeOK, LifeTypeOK
  <2>5. rec'[RunOf[o]] = Transitioned(rec[RunOf[o]], "running")
    BY <1>t, <2>3, <2>4 DEF Moved
  <2> QED
    BY <1>t, <2>4, <2>5, TransitionedState
<1> QED
  BY <1>1, <1>2

LEMMA TriggerOrderNext ==
  ASSUME TypeOK, OnceInv, TriggerOrder, [Next]_vars
  PROVE  TriggerOrder'
<1> SUFFICES ASSUME NEW o \in Owners, NEW g \in Groups,
                    \/ own'[o].pc \in {"next", "call"} /\ g >= own'[o].at
                    \/ own'[o].pc \in {"wait", "answered"} /\ g > own'[o].at
             PROVE  exec'[o][g] = "none"
  BY DEF TriggerOrder
<1>t. /\ own[o].at \in Nat /\ own'[o].at \in Nat /\ g \in Nat
      /\ exec \in [Owners -> [Groups -> ExecState]]
  <2>1. TypeOK'
    BY NextType
  <2> QED
    BY <2>1 DEF TypeOK, LifeTypeOK, StoreTypeOK, OwnRecord, Groups
<1>1. CASE OwnerStep(o)
  <2>1. Flow(o)
    BY <1>1, OwnerFlow
  <2>2. \/ exec'[o][g] = exec[o][g]
        \/ own[o].pc = "call" /\ g = own[o].at
    BY <1>1, <1>t, OwnerTriggers
  <2>3. CASE own[o].pc = "enter"
    BY <2>2, <2>3 DEF OnceInv, LoopIsEntered, BeforeLoop
  <2>4. CASE own[o].pc # "enter"
    <3>1. \/ own[o].pc \in {"next", "call"} /\ g >= own[o].at
          \/ own[o].pc \in {"wait", "answered"} /\ g > own[o].at
      BY <1>t, <2>1, <2>4
      DEF Flow, Jumps, Turns, Settles, Lands, Opens, Catching, Catch
    <3>2. ~(own[o].pc = "call" /\ g = own[o].at) \/ own'[o].pc = "answered"
      BY <1>t, <2>1
      DEF Flow, Jumps, Turns, Settles, Lands, Opens, Catching, Catch
    <3>3. ~(own[o].pc = "call" /\ g = own[o].at)
      BY <1>t, <2>1, <3>2
      DEF Flow, Jumps, Turns, Settles, Lands, Opens, Catching, Catch
    <3> QED
      BY <2>2, <3>1, <3>3 DEF TriggerOrder
  <2> QED
    BY <2>3, <2>4
<1>2. CASE ~OwnerStep(o) /\ \E p \in Owners : OwnerStep(p)
  <2>1. PICK p \in Owners : OwnerStep(p) /\ p # o
    BY <1>2
  <2>2. own'[o] = own[o] /\ exec'[o] = exec[o]
    BY <1>t, <2>1, OthersStay, OwnerTriggers
  <2> QED
    BY <2>2 DEF TriggerOrder
<1>3. CASE ~(\E p \in Owners : OwnerStep(p))
  <2>1. own'[o].at = own[o].at /\ own'[o].pc = own[o].pc
    BY <1>3, OthersLeaveOwners
  <2> QED
    BY <1>3, <2>1, OthersTriggerNothing DEF TriggerOrder
<1> QED
  BY <1>1, <1>2, <1>3

LEMMA LoopHolds == Spec => []LoopInv
<1>1. Init => LoopInv
  <2> SUFFICES ASSUME Init PROVE LoopInv
    OBVIOUS
  <2>1. \A o \in Owners : own[o].pc = "scan"
    BY DEF Init
  <2> QED
    BY <2>1 DEF LoopInv, LoopRuns, TriggerOrder, TriggerLoop
<1>2. TypeOK /\ OnceInv /\ LoopInv /\ [Next]_vars => LoopInv'
  BY LoopRunsNext, TriggerOrderNext DEF LoopInv
<1> QED
  BY <1>1, <1>2, TypeCorrect, OnceHolds, PTL DEF Spec

------------------------------------------------------------------------------
(* The control flow of a cleaner, and what becomes of a sweep. *)

CleanFlow(c) ==
  LET s == cl[c]
      t == cl'[c]
  IN \/ t.pc = "idle" /\ t.todo = {}
     \/ /\ s.pc = "idle" /\ t.pc = "count" /\ t.todo = {} /\ UNCHANGED rec
        /\ IF t.known = "absent" THEN ~t.never
           ELSE rec[t.run].state \in TerminalRunStates
     \/ /\ t.run = s.run /\ t.known = s.known /\ t.never = s.never
        /\ \/ /\ s.pc = "count" /\ t.pc = "begin" /\ t.todo = s.todo
              /\ IF s.known = "absent" THEN t.recorded = UnrecordedTriggerBound
                 ELSE t.recorded \in {Unknown, RecordedTriggers(s.run)}
              /\ UNCHANGED entry
           \/ s.pc = "begin" /\ t.pc = "sweep" /\ t.todo = s.todo
           \/ s.pc = "sweep" /\ t.pc = "compensate" /\ t.todo = Unsettled(s.run)
           \/ s.pc = "compensate" /\ t.pc = "compensate" /\ t.todo \subseteq s.todo

LEMMA CleanerFields ==
  ASSUME NEW s \in ClRecord
  PROVE  /\ \A p : [s EXCEPT !.pc = p].pc = p
         /\ \A p : LET t == [s EXCEPT !.pc = p] IN
              /\ t.run = s.run /\ t.known = s.known /\ t.never = s.never
              /\ t.recorded = s.recorded /\ t.todo = s.todo
         /\ \A S : LET t == [s EXCEPT !.todo = S] IN
              /\ t.run = s.run /\ t.known = s.known /\ t.never = s.never
              /\ t.recorded = s.recorded /\ t.pc = s.pc /\ t.todo = S
         /\ \A p, n : LET t == [s EXCEPT !.pc = p, !.recorded = n] IN
              /\ t.run = s.run /\ t.known = s.known /\ t.never = s.never
              /\ t.pc = p /\ t.recorded = n /\ t.todo = s.todo
         /\ \A p, S : LET t == [s EXCEPT !.pc = p, !.todo = S] IN
              /\ t.run = s.run /\ t.known = s.known /\ t.never = s.never
              /\ t.pc = p /\ t.recorded = s.recorded /\ t.todo = S
BY DEF ClRecord

LEMMA ExitEffect ==
  ASSUME TypeOK, NEW c \in Cleaners, Exit(c)
  PROVE  /\ cl'[c].pc = "idle" /\ cl'[c].todo = {} /\ cl'[c].run = cl[c].run
         /\ \A d \in Cleaners \ {c} : cl'[d] = cl[d]
<1>t. cl \in [Cleaners -> ClRecord]
  BY DEF TypeOK, LifeTypeOK
<1>1. cl' = [cl EXCEPT ![c] = [@ EXCEPT !.pc = "idle", !.todo = {}]]
  BY <1>t DEF Exit
<1>2. cl'[c] = [cl[c] EXCEPT !.pc = "idle", !.todo = {}]
  BY <1>t, <1>1
<1> QED
  BY <1>t, <1>1, <1>2, CleanerFields

LEMMA CleanerFlow ==
  ASSUME TypeOK, NEW c \in Cleaners, CleanerStep(c) \/ CleanCrash(c)
  PROVE  /\ CleanFlow(c)
         /\ \A d \in Cleaners \ {c} : cl'[d] = cl[d]
<1>t. cl \in [Cleaners -> ClRecord] /\ cl[c] \in ClRecord
  BY DEF TypeOK, LifeTypeOK
<1>e. Exit(c) => CleanFlow(c) /\ \A d \in Cleaners \ {c} : cl'[d] = cl[d]
  BY ExitEffect DEF CleanFlow
<1>f. \A to, next : CleanDrive(c, to, next) => next
  BY DEF CleanDrive
<1>1. CASE CleanRead(c)
  <2>1. PICK r \in Runs :
          LET known == IF c \in RemoteCleaners THEN Absent ELSE rec[r] IN
          /\ c \in RemoteCleaners \/ known.state \in TerminalRunStates
          /\ known.lifecycle = "ephemeral"
          /\ cl' = [cl EXCEPT ![c] =
               [pc |-> "count", run |-> r, known |-> known.state,
                never |-> known # Absent /\ NeverReachedRunning(known),
                recorded |-> 0, todo |-> {}]]
    BY <1>1 DEF CleanRead
  <2>2. \A d \in Cleaners \ {c} : cl'[d] = cl[d]
    BY <1>t, <2>1
  <2>3. CASE c \in RemoteCleaners
    <3>1. cl'[c] = [pc |-> "count", run |-> r, known |-> "absent",
                    never |-> FALSE, recorded |-> 0, todo |-> {}]
      BY <1>t, <2>1, <2>3 DEF Absent
    <3> QED
      BY <1>1, <2>2, <3>1 DEF CleanRead, CleanFlow
  <2>4. CASE c \notin RemoteCleaners
    <3>1. /\ cl'[c].pc = "count" /\ cl'[c].todo = {} /\ cl'[c].run = r
          /\ cl'[c].known = rec[r].state /\ rec[r].state \in TerminalRunStates
      BY <1>t, <2>1, <2>4
    <3> QED
      BY <1>1, <2>2, <3>1 DEF CleanRead, CleanFlow, TerminalRunStates
  <2> QED
    BY <2>3, <2>4
<1>2. CASE CleanCount(c)
  <2>1. PICK n :
          /\ cl' = [cl EXCEPT ![c].pc = "begin", ![c].recorded = n]
          /\ IF cl[c].known = "absent" THEN n = UnrecordedTriggerBound
             ELSE n \in {Unknown, RecordedTriggers(cl[c].run)}
    BY <1>2 DEF CleanCount
  <2>2. /\ cl'[c] = [cl[c] EXCEPT !.pc = "begin", !.recorded = n]
        /\ \A d \in Cleaners \ {c} : cl'[d] = cl[d]
    BY <1>t, <2>1
  <2>3. /\ cl[c].pc = "count" /\ UNCHANGED entry
        /\ cl'[c].pc = "begin" /\ cl'[c].recorded = n
        /\ cl'[c].run = cl[c].run /\ cl'[c].known = cl[c].known
        /\ cl'[c].never = cl[c].never /\ cl'[c].todo = cl[c].todo
    BY <1>t, <1>2, <2>2, CleanerFields DEF CleanCount
  <2> QED
    BY <2>1, <2>2, <2>3 DEF CleanFlow
<1>3. CASE CleanBegin(c)
  <2>1. CASE CleanDriveThrows(c, "tearing-down")
    BY <1>e, <2>1 DEF CleanDriveThrows
  <2>2. CASE cl' = [cl EXCEPT ![c].pc = "sweep"]
    <3>1. /\ cl'[c] = [cl[c] EXCEPT !.pc = "sweep"]
          /\ \A d \in Cleaners \ {c} : cl'[d] = cl[d]
      BY <1>t, <2>2
    <3>2. /\ cl[c].pc = "begin" /\ cl'[c].pc = "sweep"
          /\ cl'[c].run = cl[c].run /\ cl'[c].known = cl[c].known
          /\ cl'[c].never = cl[c].never /\ cl'[c].todo = cl[c].todo
      BY <1>t, <1>3, <3>1, CleanerFields DEF CleanBegin
    <3> QED
      BY <3>1, <3>2 DEF CleanFlow
  <2> QED
    BY <1>3, <1>f, <2>1, <2>2 DEF CleanBegin
<1>4. CASE CleanRefused(c)
  BY <1>e, <1>f, <1>4 DEF CleanRefused, CleanDriveThrows
<1>5. CASE CleanRecover(c)
  <2>1. CASE Exit(c)
    BY <1>e, <2>1
  <2>2. CASE cl' = [cl EXCEPT ![c].pc = "compensate",
                              ![c].todo = Unsettled(cl[c].run)]
    <3>1. /\ cl'[c] = [cl[c] EXCEPT !.pc = "compensate",
                                    !.todo = Unsettled(cl[c].run)]
          /\ \A d \in Cleaners \ {c} : cl'[d] = cl[d]
      BY <1>t, <2>2
    <3>2. /\ cl[c].pc = "sweep" /\ cl'[c].pc = "compensate"
          /\ cl'[c].run = cl[c].run /\ cl'[c].known = cl[c].known
          /\ cl'[c].never = cl[c].never /\ cl'[c].todo = Unsettled(cl[c].run)
      BY <1>t, <1>5, <3>1, CleanerFields DEF CleanRecover
    <3> QED
      BY <3>1, <3>2 DEF CleanFlow
  <2> QED
    BY <1>5, <2>1, <2>2 DEF CleanRecover
<1>6. CASE CleanCompensate(c)
  <2>1. CASE Exit(c)
    BY <1>e, <2>1
  <2>2. ASSUME NEW w, cl' = [cl EXCEPT ![c].todo = @ \ {w}]
        PROVE  CleanFlow(c) /\ \A d \in Cleaners \ {c} : cl'[d] = cl[d]
    <3>1. /\ cl'[c] = [cl[c] EXCEPT !.todo = cl[c].todo \ {w}]
          /\ \A d \in Cleaners \ {c} : cl'[d] = cl[d]
      BY <1>t, <2>2
    <3>2. /\ cl[c].pc = "compensate" /\ cl'[c].pc = "compensate"
          /\ cl'[c].run = cl[c].run /\ cl'[c].known = cl[c].known
          /\ cl'[c].never = cl[c].never /\ cl'[c].todo \subseteq cl[c].todo
      BY <1>t, <1>6, <3>1, CleanerFields DEF CleanCompensate
    <3> QED
      BY <3>1, <3>2 DEF CleanFlow
  <2> QED
    BY <1>6, <2>1, <2>2 DEF CleanCompensate
<1>7. CASE CleanDone(c)
  BY <1>e, <1>f, <1>7 DEF CleanDone, CleanDriveThrows
<1>8. CASE CleanCrash(c)
  BY <1>e, <1>8 DEF CleanCrash
<1> QED
  BY <1>1, <1>2, <1>3, <1>4, <1>5, <1>6, <1>7, <1>8 DEF CleanerStep

\* Who starts a sweep, and on what count.
Starts(a, r, never, n) ==
  \/ /\ a \in Owners /\ OwnerStep(a)
     /\ own[a].pc = "count" /\ r = RunOf[a]
     /\ n \in {Unknown, RecordedTriggers(r)}
     /\ UNCHANGED <<entry, rec>>
  \/ /\ a \in Cleaners /\ CleanerStep(a)
     /\ cl[a].pc = "begin" /\ r = cl[a].run
     /\ never = cl[a].never /\ n = cl[a].recorded
     /\ UNCHANGED entry

SweepFlow(a) ==
  \/ sweep'[a] = sweep[a]
  \/ SweepStep(a) \/ FailSweep(a)
  \/ sweep'[a].pc = "off" /\ sweep'[a].found = {}
  \/ \E r \in Runs, never \in BOOLEAN, n \in 0..NGroups \cup {Unknown} :
       /\ Starts(a, r, never, n)
       /\ sweep'[a] = SweepStarted(r, never, n)

LEMMA EndEffect ==
  ASSUME TypeOK, NEW b \in Actors, EndSweep(b), NEW a \in Actors
  PROVE  SweepFlow(a) /\ (a # b => sweep'[a] = sweep[a])
<1>t. sweep \in [Actors -> SweepRecord]
  BY DEF TypeOK, StoreTypeOK
<1>1. CASE a = b
  <2>1. sweep'[a] = NoSweep(sweep[b].run)
    BY <1>1, <1>t DEF EndSweep
  <2> QED
    BY <1>1, <2>1 DEF NoSweep, SweepFlow
<1>2. CASE a # b
  BY <1>t, <1>2 DEF EndSweep, SweepFlow
<1> QED
  BY <1>1, <1>2

LEMMA SweepFlows ==
  ASSUME TypeOK, [Next]_vars, NEW a \in Actors
  PROVE  SweepFlow(a)
<1>t. /\ sweep \in [Actors -> SweepRecord] /\ own \in [Owners -> OwnRecord]
      /\ cl \in [Cleaners -> ClRecord]
  BY DEF TypeOK, StoreTypeOK, LifeTypeOK
<1>u. UNCHANGED sweep => SweepFlow(a)
  BY DEF SweepFlow
<1>o. Owners \subseteq Actors /\ Cleaners \subseteq Actors
  BY DEF Actors
<1>1. CASE \E b \in Actors : SweepStep(b) \/ FailSweep(b)
  <2>1. PICK b \in Actors : SweepStep(b) \/ FailSweep(b)
    BY <1>1
  <2>2. CASE b = a
    BY <2>1, <2>2 DEF SweepFlow
  <2>3. CASE b # a
    <3>1. sweep'[a] = sweep[a]
      BY <1>t, <2>1, <2>3
      DEF SweepStep, ReadTests, ReadSuites, ReadLinks, PassGate, ReadSteps,
          ReadInputs, DeleteRow, FinishSweep, FailSweep
    <3> QED
      BY <3>1 DEF SweepFlow
  <2> QED
    BY <2>2, <2>3
<1>2. CASE \E o \in Owners : OwnerStep(o)
  <2>1. PICK o \in Owners : OwnerStep(o)
    BY <1>2
  <2>2. CASE CountTriggers(o)
    <3>1. PICK n \in {Unknown, RecordedTriggers(RunOf[o])} :
            StartSweep(o, RunOf[o], ~own[o].entered, n)
      BY <2>2 DEF CountTriggers
    <3>2. CASE a = o
      <4>1. sweep'[a] = SweepStarted(RunOf[o], ~own[o].entered, n)
        BY <1>t, <1>o, <3>1, <3>2 DEF StartSweep
      <4>2. Starts(a, RunOf[o], ~own[o].entered, n)
        BY <2>1, <2>2, <3>2 DEF Starts, CountTriggers, AtPc
      <4>3. RunOf[o] \in Runs /\ n \in 0..NGroups \cup {Unknown}
        BY RunOfAssumption, RecordedTriggersType
      <4> QED
        BY <4>1, <4>2, <4>3 DEF SweepFlow
    <3>3. CASE a # o
      BY <1>t, <3>1, <3>3 DEF StartSweep, SweepFlow
    <3> QED
      BY <3>2, <3>3
  <2>3. CASE Swept(o)
    BY <1>o, <2>3, EndEffect DEF Swept
  <2>4. CASE ~CountTriggers(o) /\ ~Swept(o)
    <3>1. UNCHANGED sweep
      <4>1. CASE Drives(o)
        BY <4>1
        DEF Drives, Provision, BeginProjection, EnterRunning, Abandon, Collect,
            BeginTeardown, Settle, Aborted, Close, Drive, instance
      <4>2. CASE Journals(o)
        BY <4>2
        DEF Journals, IntendSpec, IntendTrigger, Intend, ConfirmSpec,
            ConfirmTrigger, Confirm, Compensate, Journal, instance
      <4>3. CASE ~Drives(o) /\ ~Journals(o)
        BY <2>1, <2>4, <4>3
        DEF OwnerStep, Drives, Journals, Scan, Open, AssertFresh, ReadStages,
            VerifyInfra, AcquireLock, CheckNamespace, Create, Projected,
            RunLoop, CallRunner, RunnerSettles, FlushReporters, Close,
            Recover, Compensated, ReadBack, Report, instance
      <4> QED
        BY <4>1, <4>2, <4>3
    <3> QED
      BY <1>u, <3>1
  <2> QED
    BY <2>2, <2>3, <2>4
<1>3. CASE \E o \in Owners : Abort(o) \/ Crash(o)
  BY <1>3, <1>o, <1>u, EndEffect DEF Abort, Crash, storeVars
<1>4. CASE \E c \in Cleaners : CleanerStep(c) \/ CleanCrash(c)
  <2>1. PICK c \in Cleaners : CleanerStep(c) \/ CleanCrash(c)
    BY <1>4
  <2>2. CASE CleanerStep(c) /\ CleanBegin(c)
    <3>1. CASE UNCHANGED sweep
      BY <1>u, <3>1
    <3>2. CASE StartSweep(c, cl[c].run, cl[c].never, cl[c].recorded)
      <4>1. CASE a = c
        <5>1. sweep'[a] = SweepStarted(cl[c].run, cl[c].never, cl[c].recorded)
          BY <1>t, <1>o, <3>2, <4>1 DEF StartSweep
        <5>3. Starts(a, cl[c].run, cl[c].never, cl[c].recorded)
          BY <2>2, <4>1 DEF Starts, CleanBegin
        <5>4. /\ cl[c].run \in Runs /\ cl[c].never \in BOOLEAN
              /\ cl[c].recorded \in 0..NGroups \cup {Unknown}
          BY <1>t DEF ClRecord
        <5> QED
          BY <5>1, <5>3, <5>4 DEF SweepFlow
      <4>2. CASE a # c
        BY <1>t, <3>2, <4>2 DEF StartSweep, SweepFlow
      <4> QED
        BY <4>1, <4>2
    <3> QED
      BY <2>2, <3>1, <3>2 DEF CleanBegin, CleanDrive, CleanDriveThrows
  <2>3. CASE CleanRefused(c) \/ CleanRecover(c) \/ CleanCrash(c)
    BY <1>o, <2>3, EndEffect DEF CleanRefused, CleanRecover, CleanCrash
  <2>4. CASE CleanRead(c) \/ CleanCount(c) \/ CleanCompensate(c) \/ CleanDone(c)
    BY <2>4, <1>u
    DEF CleanRead, CleanCount, CleanCompensate, CleanDone, storeVars, instance
  <2> QED
    BY <2>1, <2>2, <2>3, <2>4 DEF CleanerStep
<1>5. CASE InstanceNext \/ UNCHANGED vars
  BY <1>5, <1>u
  DEF InstanceNext, InstanceStep, LoseTrigger, LandLate, vars, storeVars
<1> QED
  BY <1>1, <1>2, <1>3, <1>4, <1>5 DEF Next

LEMMA CleanersStay ==
  ASSUME TypeOK, [Next]_vars, NEW c \in Cleaners,
         ~(CleanerStep(c) \/ CleanCrash(c))
  PROVE  cl'[c] = cl[c]
<1>1. CASE \E d \in Cleaners : CleanerStep(d) \/ CleanCrash(d)
  BY <1>1, CleanerFlow
<1>2. (\E o \in Owners : OwnerStep(o) \/ Abort(o) \/ Crash(o)) => UNCHANGED cl
  BY DEF OwnerStep, Abort, Crash
<1> QED
  BY <1>1, <1>2 DEF Next, lifeVars, vars

\* A step of a sweep keeps what the sweep was started with.
LEMMA SweepKeeps ==
  ASSUME TypeOK, NEW a \in Actors, SweepStep(a) \/ FailSweep(a)
  PROVE  /\ sweep'[a].run = sweep[a].run /\ sweep'[a].never = sweep[a].never
         /\ sweep'[a].recorded = sweep[a].recorded
         /\ Sweeping(a)
<1>t. sweep \in [Actors -> SweepRecord] /\ sweep[a] \in SweepRecord
  BY DEF TypeOK, StoreTypeOK
<1>f. /\ \A p : LET t == [sweep[a] EXCEPT !.pc = p] IN
           /\ t.run = sweep[a].run /\ t.never = sweep[a].never
           /\ t.recorded = sweep[a].recorded
      /\ \A S : LET t == [sweep[a] EXCEPT !.found = S] IN
           /\ t.run = sweep[a].run /\ t.never = sweep[a].never
           /\ t.recorded = sweep[a].recorded
      /\ \A p, S : LET t == [sweep[a] EXCEPT !.found = S, !.pc = p] IN
           /\ t.run = sweep[a].run /\ t.never = sweep[a].never
           /\ t.recorded = sweep[a].recorded
  BY <1>t DEF SweepRecord
<1>3. Sweeping(a)
  <2>1. DeleteRow(a) => sweep[a].pc \in {"unlink", "delete"}
    BY DEF DeleteRow, Doomed
  <2>2. SweepStep(a) =>
          sweep[a].pc \in {"tests", "suites", "links", "gate", "unlink",
                           "inputs", "delete"}
    BY <2>1, Zenon
    DEF SweepStep, ReadTests, ReadSuites, ReadLinks, PassGate, ReadSteps,
        ReadInputs, FinishSweep
  <2>3. FailSweep(a) => Sweeping(a)
    BY DEF FailSweep
  <2> QED
    BY <2>2, <2>3 DEF Sweeping
<1>p. (\E p : sweep' = [sweep EXCEPT ![a].pc = p])
        => \E p : sweep'[a] = [sweep[a] EXCEPT !.pc = p]
  BY <1>t
<1>s. (\E S : sweep' = [sweep EXCEPT ![a].found = S])
        => \E S : sweep'[a] = [sweep[a] EXCEPT !.found = S]
  BY <1>t
<1>b. (\E p, S : sweep' = [sweep EXCEPT ![a].found = S, ![a].pc = p])
        => \E p, S : sweep'[a] = [sweep[a] EXCEPT !.found = S, !.pc = p]
  BY <1>t
<1>1. CASE PassGate(a) \/ FinishSweep(a) \/ FailSweep(a)
  <2>1. \E p : sweep' = [sweep EXCEPT ![a].pc = p]
    BY <1>1 DEF PassGate, FinishSweep, FailSweep
  <2> QED
    BY <1>f, <1>p, <1>3, <2>1
<1>2. CASE DeleteRow(a)
  <2>1. \E S : sweep' = [sweep EXCEPT ![a].found = S]
    BY <1>2 DEF DeleteRow
  <2> QED
    BY <1>f, <1>s, <1>3, <2>1
<1>4. CASE ReadTests(a) \/ ReadSuites(a) \/ ReadLinks(a) \/ ReadSteps(a)
             \/ ReadInputs(a)
  <2>1. \E p, S : sweep' = [sweep EXCEPT ![a].found = S, ![a].pc = p]
    BY <1>4, Zenon DEF ReadTests, ReadSuites, ReadLinks, ReadSteps, ReadInputs
  <2>2. PICK p, S : sweep'[a] = [sweep[a] EXCEPT !.found = S, !.pc = p]
    BY <1>b, <2>1, Zenon
  <2> QED
    BY <1>f, <1>3, <2>2
<1> QED
  BY <1>1, <1>2, <1>4 DEF SweepStep

------------------------------------------------------------------------------
(* The trigger count a sweep is handed is the run's for good. *)

LEMMA EntriesAreKept ==
  ASSUME TypeOK, [Next]_vars
  PROVE  EntriesKept
<1>1. (\E o \in Owners : Abort(o) \/ Crash(o)) => UNCHANGED entry
  BY DEF Abort, Crash
<1>2. UNCHANGED entry => EntriesKept
  BY DEF EntriesKept
<1> QED
  BY <1>1, <1>2, OwnerKeepsEntries, CleanerKeepsEntries
  DEF Next, EntriesKept, lifeVars, vars

\* Nothing is triggered any more once the driving is over.
LEMMA CountStays ==
  ASSUME TypeOK, LoopRuns, TodoKnown, [Next]_vars, NEW r \in Runs, Over(r)
  PROVE  RecordedTriggers(r)' = RecordedTriggers(r)
<1>1. ASSUME NEW g \in Groups, entry'[r][<<"trigger", g>>] # "none",
             entry[r][<<"trigger", g>>] = "none"
      PROVE  FALSE
  <2>w. <<"trigger", g>> \in Writes
    BY DEF Writes
  <2>1. ASSUME NEW o \in Owners, OwnerStep(o)
        PROVE  FALSE
    <3>1. r = RunOf[o] /\ Flips(o, <<"trigger", g>>, entry[r][<<"trigger", g>>],
                                 entry'[r][<<"trigger", g>>])
      BY <1>1, <2>1, <2>w, OwnerFlips
    <3>2. own[o].pc \in TriggerLoop
      BY <1>1, <3>1 DEF Flips, TriggerLoop, TodoKnown
    <3> QED
      BY <3>1, <3>2 DEF LoopRuns, Over, OverStates, TerminalRunStates
  <2>2. ASSUME NEW c \in Cleaners, CleanerStep(c) \/ CleanCrash(c)
        PROVE  FALSE
    BY <1>1, <2>2, <2>w, CleanerFlips DEF TodoKnown
  <2>3. (\E o \in Owners : Abort(o) \/ Crash(o)) => UNCHANGED entry
    BY DEF Abort, Crash
  <2> QED
    BY <1>1, <2>1, <2>2, <2>3 DEF Next, lifeVars, vars
<1>2. \A g \in Groups :
        (entry'[r][<<"trigger", g>>] # "none") <=> (entry[r][<<"trigger", g>>] # "none")
  BY <1>1, EntriesAreKept DEF EntriesKept, Writes
<1>3. Triggers(r)' = Triggers(r)
  BY <1>2 DEF Triggers
<1> QED
  BY <1>3 DEF RecordedTriggers

LEMMA TodoKnownNext ==
  ASSUME TypeOK, TodoKnown, [Next]_vars
  PROVE  TodoKnown'
<1>t. /\ RunOf \in [Owners -> Runs]
      /\ \A o \in Owners : own[o].todo \subseteq Writes
      /\ \A c \in Cleaners : cl[c].todo \subseteq Writes /\ cl[c].run \in Runs
  BY RunOfAssumption DEF TypeOK, LifeTypeOK, OwnRecord, ClRecord
<1>k. EntriesKept
  BY EntriesAreKept
<1>u. \A r : Unsettled(r) \subseteq Writes /\ \A w \in Unsettled(r) : entry[r][w] # "none"
  BY DEF Unsettled
<1>1. ASSUME NEW o \in Owners, NEW w \in own'[o].todo
      PROVE  w \in Writes /\ entry[RunOf[o]][w] # "none"
  <2>1. CASE OwnerStep(o)
    <3>1. Flow(o)
      BY <2>1, OwnerFlow
    <3>2. own'[o].todo \subseteq own[o].todo \/ own'[o].todo = Unsettled(RunOf[o])
      BY <3>1 DEF Flow, Jumps, Turns, Settles, Lands, Opens
    <3> QED
      BY <1>1, <1>t, <1>u, <3>2 DEF TodoKnown
  <2>2. CASE ~OwnerStep(o)
    <3>1. own'[o].todo = own[o].todo
      BY <2>2, OthersStay, OthersLeaveOwners
    <3> QED
      BY <1>1, <1>t, <3>1 DEF TodoKnown
  <2> QED
    BY <2>1, <2>2
<1>2. ASSUME NEW c \in Cleaners, NEW w \in cl'[c].todo
      PROVE  w \in Writes /\ entry[cl'[c].run][w] # "none" /\ cl'[c].run \in Runs
  <2>1. CASE CleanerStep(c) \/ CleanCrash(c)
    <3>1. CleanFlow(c)
      BY <2>1, CleanerFlow
    <3>2. /\ cl'[c].run = cl[c].run
          /\ cl'[c].todo \subseteq cl[c].todo \/ cl'[c].todo = Unsettled(cl[c].run)
      BY <1>2, <3>1 DEF CleanFlow
    <3> QED
      BY <1>2, <1>t, <1>u, <3>2 DEF TodoKnown
  <2>2. CASE ~(CleanerStep(c) \/ CleanCrash(c))
    <3>1. cl'[c] = cl[c]
      BY <2>2, CleanersStay
    <3> QED
      BY <1>2, <1>t, <3>1 DEF TodoKnown
  <2> QED
    BY <2>1, <2>2
<1>3. \A o \in Owners : \A w \in own'[o].todo : entry'[RunOf[o]][w] # "none"
  BY <1>t, <1>k, <1>1 DEF EntriesKept
<1>4. \A c \in Cleaners : \A w \in cl'[c].todo : entry'[cl'[c].run][w] # "none"
  BY <1>k, <1>2 DEF EntriesKept
<1> QED
  BY <1>3, <1>4 DEF TodoKnown

LEMMA OwnerIsOverNext ==
  ASSUME TypeOK, OwnerIsOver, [Next]_vars
  PROVE  OwnerIsOver'
<1> SUFFICES ASSUME NEW o \in Owners, own'[o].pc \in {"count", "sweep"}
             PROVE  Over(RunOf[o])'
  BY DEF OwnerIsOver
<1>t. RunOf[o] \in Runs /\ rec \in [Runs -> RunRecord \cup {Absent}]
  BY RunOfAssumption DEF TypeOK, LifeTypeOK
<1>1. CASE own[o].pc \in {"count", "sweep"}
  BY <1>1, <1>t, OverStays DEF OwnerIsOver
<1>2. CASE own[o].pc \notin {"count", "sweep"}
  <2>1. OwnerStep(o)
    BY <1>2, OthersStay, OthersLeaveOwners
  <2>2. Moved(RunOf[o], "tearing-down")
    BY <1>2, <2>1, OwnerFlow
    DEF Flow, Jumps, Turns, Settles, Lands, Opens, Catching, Catch
  <2>3. rec'[RunOf[o]].state = "tearing-down"
    BY <1>t, <2>2, TransitionedState DEF Moved
  <2> QED
    BY <2>3 DEF Over, OverStates
<1> QED
  BY <1>1, <1>2

LEMMA CleanerCountsNext ==
  ASSUME TypeOK, LoopRuns, TodoKnown, CleanerCounts, [Next]_vars
  PROVE  CleanerCounts'
<1>r. \A c \in Cleaners : cl[c].run \in Runs /\ cl'[c].run \in Runs
  <2>1. TypeOK'
    BY NextType
  <2> QED
    BY <2>1 DEF TypeOK, LifeTypeOK, ClRecord
<1> SUFFICES ASSUME NEW c \in Cleaners, cl'[c].pc \in {"count", "begin"},
                    NEW r \in Runs, r = cl'[c].run
             PROVE  LET t == cl'[c] IN
                    IF t.known = "absent"
                    THEN /\ ~t.never
                         /\ t.pc = "begin" => t.recorded = UnrecordedTriggerBound
                    ELSE /\ Over(r)'
                         /\ t.pc = "begin" =>
                              t.recorded \in {Unknown, RecordedTriggers(r)'}
  BY <1>r
  DEF CleanerCounts, RecordedTriggers, Triggers, Over, UnrecordedTriggerBound
<1>t. cl[c].run \in Runs
  BY <1>r
<1>1. CASE CleanerStep(c) \/ CleanCrash(c)
  <2>1. CleanFlow(c)
    BY <1>1, CleanerFlow
  <2>2. CASE cl'[c].pc = "count"
    <3>1. IF cl'[c].known = "absent" THEN ~cl'[c].never
          ELSE rec[cl'[c].run].state \in TerminalRunStates
      BY <2>1, <2>2 DEF CleanFlow
    <3> QED
      BY <1>t, <2>2, <3>1, OverStays DEF Over, OverStates
  <2>3. CASE cl'[c].pc = "begin"
    <3>1. /\ cl'[c].run = cl[c].run /\ cl'[c].known = cl[c].known
          /\ cl'[c].never = cl[c].never /\ cl[c].pc = "count"
          /\ IF cl[c].known = "absent" THEN cl'[c].recorded = UnrecordedTriggerBound
             ELSE cl'[c].recorded \in {Unknown, RecordedTriggers(cl[c].run)}
      BY <2>1, <2>3 DEF CleanFlow
    <3> QED
      BY <1>t, <2>3, <3>1, OverStays, CountStays DEF CleanerCounts
  <2> QED
    BY <2>2, <2>3
<1>2. CASE ~(CleanerStep(c) \/ CleanCrash(c))
  <2>1. cl'[c] = cl[c]
    BY <1>2, CleanersStay
  <2> QED
    BY <1>t, <2>1, OverStays, CountStays DEF CleanerCounts
<1> QED
  BY <1>1, <1>2

LEMMA SweepCountsNext ==
  ASSUME TypeOK, LoopRuns, CountInv, [Next]_vars
  PROVE  SweepCounts'
<1>r. \A a \in Actors : sweep'[a].run \in Runs
  <2>1. TypeOK'
    BY NextType
  <2> QED
    BY <2>1 DEF TypeOK, StoreTypeOK, SweepRecord
<1> SUFFICES ASSUME NEW a \in Actors, Sweeping(a)',
                    NEW q \in Runs, q = sweep'[a].run
             PROVE  LET s == sweep'[a] IN
                    \/ /\ Over(q)' /\ s.recorded = RecordedTriggers(q)'
                       /\ s.never => s.recorded = 0
                    \/ Bounded(s.never, s.recorded)
  BY <1>r
  DEF SweepCounts, Counted, Over, RecordedTriggers, Triggers, Bounded,
     UnrecordedTriggerBound
<1>t. sweep[a].run \in Runs
  BY DEF TypeOK, StoreTypeOK, SweepRecord
<1>1. CASE sweep'[a] = sweep[a] \/ SweepStep(a) \/ FailSweep(a)
  <2>1. /\ sweep'[a].run = sweep[a].run /\ sweep'[a].never = sweep[a].never
        /\ sweep'[a].recorded = sweep[a].recorded
        /\ Sweeping(a)
    BY <1>1, SweepKeeps DEF Sweeping
  <2>2. Counted(sweep[a].run, sweep[a].never, sweep[a].recorded)
        \/ Bounded(sweep[a].never, sweep[a].recorded)
    BY <2>1 DEF CountInv, SweepCounts
  <2> QED
    BY <1>t, <2>1, <2>2, OverStays, CountStays DEF CountInv, Counted
<1>2. CASE sweep'[a].pc = "off"
  BY <1>2 DEF Sweeping
<1>3. ASSUME NEW r \in Runs, NEW never \in BOOLEAN,
             NEW n \in 0..NGroups \cup {Unknown},
             Starts(a, r, never, n), sweep'[a] = SweepStarted(r, never, n)
      PROVE  LET s == sweep'[a] IN
             \/ /\ Over(q)' /\ s.recorded = RecordedTriggers(q)'
                /\ s.never => s.recorded = 0
             \/ Bounded(s.never, s.recorded)
  <2>1. /\ sweep'[a].run = r /\ sweep'[a].never = never
        /\ sweep'[a].recorded = n
        /\ n # Unknown /\ (never => n <= 0)
    BY <1>3 DEF SweepStarted, Sweeping
  <2>2. never => n = 0
    BY <2>1, CountsAssumption
  <2>3. \/ Over(r) /\ n = RecordedTriggers(r)
        \/ Bounded(never, n)
    <3>1. CASE a \in Owners /\ own[a].pc = "count" /\ r = RunOf[a]
                 /\ n \in {Unknown, RecordedTriggers(r)}
      BY <2>1, <3>1 DEF CountInv, OwnerIsOver
    <3>2. CASE a \in Cleaners /\ cl[a].pc = "begin" /\ r = cl[a].run
                 /\ never = cl[a].never /\ n = cl[a].recorded
      BY <2>1, <3>2 DEF CountInv, CleanerCounts, Bounded
    <3> QED
      BY <1>3, <3>1, <3>2 DEF Starts
  <2> QED
    BY <2>1, <2>2, <2>3, OverStays, CountStays DEF CountInv
<1> QED
  BY <1>1, <1>2, <1>3, SweepFlows DEF SweepFlow

LEMMA CountHolds == Spec => []CountInv
<1>1. Init => CountInv
  <2> SUFFICES ASSUME Init PROVE CountInv
    OBVIOUS
  <2>1. \A o \in Owners : own[o].pc = "scan" /\ own[o].todo = {}
    BY DEF Init
  <2>2. \A c \in Cleaners : cl[c].pc = "idle" /\ cl[c].todo = {}
    BY DEF Init
  <2>3. \A a \in Actors : sweep[a].pc = "off"
    BY DEF Init, StoreInit, NoSweep
  <2> QED
    BY <2>1, <2>2, <2>3
    DEF CountInv, TodoKnown, OwnerIsOver, CleanerCounts, SweepCounts, Sweeping
<1>2. TypeOK /\ LoopInv /\ CountInv /\ [Next]_vars => CountInv'
  BY TodoKnownNext, OwnerIsOverNext, CleanerCountsNext, SweepCountsNext
  DEF CountInv, LoopInv
<1> QED
  BY <1>1, <1>2, TypeCorrect, LoopHolds, PTL DEF Spec

------------------------------------------------------------------------------
(* A sweep, step by step. *)

\* The rows of kind k that hang off a row of kind over among found.
Hanging(r, k, over, found) ==
  { p \in OfKind(rows[r], k) : <<over, p[2]>> \in found }

Finds(s, t) ==
  \/ /\ s.pc = "tests" /\ t.pc = "suites"
     /\ t.found = OfKind(rows[s.run], "test")
  \/ /\ s.pc = "suites" /\ t.pc = "links"
     /\ t.found = s.found \cup OfKind(rows[s.run], "suite")
  \/ /\ s.pc = "links"
     /\ LET links == { p \in OfKind(rows[s.run], "link") :
                         \/ Suite \in s.found
                         \/ <<"test", p[2]>> \in s.found }
        IN /\ t.found = s.found \cup links
           /\ t.pc = IF RunOwned(s, links) THEN "gate" ELSE "refused"
  \/ /\ s.pc = "unlink" /\ t.pc = "inputs"
     /\ OfKind(s.found, "link") = {}
     /\ t.found = s.found \cup Hanging(s.run, "step", "test", s.found)
  \/ /\ s.pc = "inputs" /\ t.pc = "delete"
     /\ t.found = s.found \cup Hanging(s.run, "input", "step", s.found)

Judges(s, t) ==
  /\ t.found = s.found
  /\ \/ /\ s.pc = "gate"
        /\ t.pc = IF ProvablyTerminal(s) THEN "unlink" ELSE "refused"
     \/ s.pc = "delete" /\ s.found = {} /\ t.pc = "ok"

Deletes(a, s, t, p) ==
  /\ p \in Doomed(a) /\ t.pc = s.pc /\ t.found = s.found \ {p}
  /\ rows' = [rows EXCEPT ![s.run] = @ \ {p}]

SweepMoves(a) ==
  LET s == sweep[a]
      t == sweep'[a]
  IN \/ (Finds(s, t) \/ Judges(s, t)) /\ UNCHANGED rows
     \/ \E p : Deletes(a, s, t, p)
     \/ t.pc = "fault"

LEMMA SweepFields ==
  ASSUME NEW s \in SweepRecord
  PROVE  /\ \A p : [s EXCEPT !.pc = p].pc = p /\ [s EXCEPT !.pc = p].found = s.found
         /\ \A S : [s EXCEPT !.found = S].pc = s.pc /\ [s EXCEPT !.found = S].found = S
         /\ \A p, S : LET t == [s EXCEPT !.found = S, !.pc = p] IN
              t.pc = p /\ t.found = S
BY DEF SweepRecord

LEMMA SweepStepMoves ==
  ASSUME TypeOK, NEW a \in Actors, SweepStep(a) \/ FailSweep(a)
  PROVE  SweepMoves(a)
<1>t. sweep \in [Actors -> SweepRecord] /\ sweep[a] \in SweepRecord
  BY DEF TypeOK, StoreTypeOK
<1>p. \A p : sweep' = [sweep EXCEPT ![a].pc = p]
        => sweep'[a].pc = p /\ sweep'[a].found = sweep[a].found
  <2> TAKE p
  <2> HAVE sweep' = [sweep EXCEPT ![a].pc = p]
  <2>1. sweep'[a] = [sweep[a] EXCEPT !.pc = p]
    BY <1>t
  <2> QED
    BY <1>t, <2>1, SweepFields
<1>s. \A S : sweep' = [sweep EXCEPT ![a].found = S]
        => sweep'[a].pc = sweep[a].pc /\ sweep'[a].found = S
  <2> TAKE S
  <2> HAVE sweep' = [sweep EXCEPT ![a].found = S]
  <2>1. sweep'[a] = [sweep[a] EXCEPT !.found = S]
    BY <1>t
  <2> QED
    BY <1>t, <2>1, SweepFields
<1>b. \A p, S : sweep' = [sweep EXCEPT ![a].found = S, ![a].pc = p]
        => sweep'[a].pc = p /\ sweep'[a].found = S
  <2> TAKE p, S
  <2> HAVE sweep' = [sweep EXCEPT ![a].found = S, ![a].pc = p]
  <2>1. sweep'[a] = [sweep[a] EXCEPT !.found = S, !.pc = p]
    BY <1>t
  <2> QED
    BY <1>t, <2>1, SweepFields
<1>1. CASE ReadTests(a)
  <2>1. sweep'[a].pc = "suites" /\ sweep'[a].found = OfKind(rows[sweep[a].run], "test")
    BY <1>b, <1>1 DEF ReadTests
  <2> QED
    BY <1>1, <2>1 DEF ReadTests, onlySweep, SweepMoves, Finds
<1>2. CASE ReadSuites(a)
  <2>1. sweep' = [sweep EXCEPT
          ![a].found = sweep[a].found \cup OfKind(rows[sweep[a].run], "suite"),
          ![a].pc = "links"]
    BY <1>t, <1>2 DEF ReadSuites
  <2>2. /\ sweep'[a].pc = "links"
        /\ sweep'[a].found = sweep[a].found \cup OfKind(rows[sweep[a].run], "suite")
    BY <1>b, <2>1
  <2> QED
    BY <1>2, <2>2 DEF ReadSuites, onlySweep, SweepMoves, Finds
<1>3. CASE ReadLinks(a)
  <2> DEFINE links == { p \in OfKind(rows[sweep[a].run], "link") :
                          \/ Suite \in sweep[a].found
                          \/ <<"test", p[2]>> \in sweep[a].found }
             next == IF RunOwned(sweep[a], links) THEN "gate" ELSE "refused"
             all == sweep[a].found \cup links
  <2>1. sweep' = [sweep EXCEPT ![a].found = @ \cup links, ![a].pc = next]
    BY <1>3 DEF ReadLinks
  <2>2. sweep' = [sweep EXCEPT ![a].found = all, ![a].pc = next]
    BY <2>1
  <2>3. sweep'[a].pc = next /\ sweep'[a].found = all
    <3> HIDE DEF next, all
    <3> QED
      BY <1>b, <2>2
  <2> QED
    BY <1>3, <2>3 DEF ReadLinks, onlySweep, SweepMoves, Finds
<1>4. CASE PassGate(a)
  <2>1. /\ sweep'[a].pc = IF ProvablyTerminal(sweep[a]) THEN "unlink" ELSE "refused"
        /\ sweep'[a].found = sweep[a].found
    BY <1>p, <1>4 DEF PassGate
  <2> QED
    BY <1>4, <2>1 DEF PassGate, onlySweep, SweepMoves, Judges
<1>5. CASE ReadSteps(a)
  <2> DEFINE all == sweep[a].found \cup Hanging(sweep[a].run, "step", "test", sweep[a].found)
  <2>1. sweep' = [sweep EXCEPT ![a].found = all, ![a].pc = "inputs"]
    BY <1>5 DEF ReadSteps, Hanging
  <2>2. sweep'[a].pc = "inputs" /\ sweep'[a].found = all
    <3> HIDE DEF all
    <3> QED
      BY <1>b, <2>1
  <2> QED
    BY <1>5, <2>2 DEF ReadSteps, onlySweep, SweepMoves, Finds
<1>6. CASE ReadInputs(a)
  <2> DEFINE all == sweep[a].found \cup Hanging(sweep[a].run, "input", "step", sweep[a].found)
  <2>1. sweep' = [sweep EXCEPT ![a].found = all, ![a].pc = "delete"]
    BY <1>6 DEF ReadInputs, Hanging
  <2>2. sweep'[a].pc = "delete" /\ sweep'[a].found = all
    <3> HIDE DEF all
    <3> QED
      BY <1>b, <2>1
  <2> QED
    BY <1>6, <2>2 DEF ReadInputs, onlySweep, SweepMoves, Finds
<1>7. CASE DeleteRow(a)
  <2>1. PICK p \in Doomed(a) :
          /\ rows' = [rows EXCEPT ![sweep[a].run] = @ \ {p}]
          /\ sweep' = [sweep EXCEPT ![a].found = @ \ {p}]
    BY <1>7 DEF DeleteRow
  <2> DEFINE rest == sweep[a].found \ {p}
  <2>2. sweep' = [sweep EXCEPT ![a].found = rest]
    BY <2>1
  <2>3. sweep'[a].pc = sweep[a].pc /\ sweep'[a].found = rest
    <3> HIDE DEF rest
    <3> QED
      BY <1>s, <2>2
  <2>4. Deletes(a, sweep[a], sweep'[a], p)
    BY <2>1, <2>3 DEF Deletes
  <2> QED
    BY <2>4 DEF SweepMoves
<1>8. CASE FinishSweep(a)
  <2>1. sweep'[a].pc = "ok" /\ sweep'[a].found = sweep[a].found
    BY <1>p, <1>8 DEF FinishSweep
  <2> QED
    BY <1>8, <2>1 DEF FinishSweep, SweepMoves, Judges
<1>9. CASE FailSweep(a)
  <2>1. sweep'[a].pc = "fault"
    BY <1>p, <1>9 DEF FailSweep
  <2> QED
    BY <2>1 DEF SweepMoves
<1> QED
  BY <1>1, <1>2, <1>3, <1>4, <1>5, <1>6, <1>7, <1>8, <1>9 DEF SweepStep

------------------------------------------------------------------------------
(* DEV-17.  A sweep that has passed the gate stands over a quiet run. *)

LEMMA GateFindsNext ==
  ASSUME TypeOK, GateFinds, [Next]_vars
  PROVE  GateFinds'
<1> SUFFICES ASSUME NEW a \in Actors,
                    sweep'[a].pc \in {"suites", "links", "gate"},
                    sweep'[a].found # {},
                    Suite \notin sweep'[a].found
             PROVE  OfKind(sweep'[a].found, "test") # {}
  BY DEF GateFinds
<1>t. sweep[a].run \in Runs /\ rows[sweep[a].run] \subseteq Rows
  BY DEF TypeOK, StoreTypeOK, SweepRecord
<1>1. CASE SweepStep(a) \/ FailSweep(a)
  <2>1. SweepMoves(a)
    BY <1>1, SweepStepMoves
  <2>2. CASE sweep[a].pc = "tests" /\ sweep'[a].found = OfKind(rows[sweep[a].run], "test")
    BY <2>2 DEF OfKind
  <2>3. CASE /\ sweep[a].pc = "suites"
             /\ sweep'[a].found = sweep[a].found \cup OfKind(rows[sweep[a].run], "suite")
    <3>1. OfKind(rows[sweep[a].run], "suite") \subseteq {Suite}
      BY <1>t DEF OfKind, Rows, Kinds
    <3>2. sweep'[a].found = sweep[a].found
      BY <2>3, <3>1
    <3> QED
      BY <2>3, <3>2 DEF GateFinds
  <2>4. CASE /\ sweep[a].pc = "links" /\ sweep'[a].pc = "gate"
             /\ \E links : /\ sweep'[a].found = sweep[a].found \cup links
                           /\ RunOwned(sweep[a], links)
    <3>1. sweep'[a].found = sweep[a].found
      BY <2>4 DEF RunOwned
    <3> QED
      BY <2>4, <3>1 DEF GateFinds
  <2>5. ~(\E p : Deletes(a, sweep[a], sweep'[a], p))
    BY DEF Deletes, Doomed
  <2> QED
    BY <2>1, <2>2, <2>3, <2>4, <2>5 DEF SweepMoves, Finds, Judges
<1>2. CASE sweep'[a] = sweep[a]
  BY <1>2 DEF GateFinds
<1>3. CASE \E r, never, n : sweep'[a] = SweepStarted(r, never, n)
  BY <1>3 DEF SweepStarted
<1> QED
  BY <1>1, <1>2, <1>3, SweepFlows DEF SweepFlow

\* All executions of a run belong to one owner: they count like its groups.
LEMMA ResultsOfOne ==
  ASSUME TypeOK, OnceInv, NEW r \in Runs, ResultRows(r) # {}
  PROVE  \E o \in Owners :
           LET R == { g \in Groups : exec[o][g] \in HasResult } IN
           /\ RunOf[o] = r
           /\ ResultRows(r) = { <<o, g>> : g \in R }
           /\ IsFiniteSet(R) /\ IsFiniteSet(ResultRows(r))
           /\ Cardinality(ResultRows(r)) <= Cardinality(R)
           /\ \A x \in Executions(r) : exec[x[1]][x[2]] # "none" => x[1] = o
<1>1. PICK y \in ResultRows(r) : TRUE
  OBVIOUS
<1> DEFINE o == y[1]
           R == { g \in Groups : exec[o][g] \in HasResult }
<1>2. o \in Owners /\ RunOf[o] = r /\ y[2] \in Groups /\ exec[o][y[2]] # "none"
  BY DEF ResultRows, Executions, HasResult
<1>3. \A x \in Executions(r) : exec[x[1]][x[2]] # "none" => x[1] = o
  <2> SUFFICES ASSUME NEW x \in Executions(r), exec[x[1]][x[2]] # "none"
               PROVE  x[1] = o
    OBVIOUS
  <2>1. x[1] \in Owners /\ x[2] \in Groups /\ RunOf[x[1]] = r
    BY DEF Executions
  <2> QED
    BY <1>2, <2>1, OneExecutes
<1>4. ResultRows(r) = { <<o, g>> : g \in R }
  <2>1. ASSUME NEW x \in ResultRows(r)
        PROVE  x \in { <<o, g>> : g \in R }
    <3>1. x \in Executions(r) /\ exec[x[1]][x[2]] \in HasResult
      BY DEF ResultRows
    <3>2. x[1] = o
      BY <1>3, <3>1 DEF HasResult
    <3>3. x = <<x[1], x[2]>> /\ x[2] \in Groups
      BY <3>1 DEF Executions
    <3> QED
      BY <3>1, <3>2, <3>3
  <2>2. ASSUME NEW g \in R
        PROVE  <<o, g>> \in ResultRows(r)
    BY <1>2 DEF ResultRows, Executions
  <2> QED
    BY <2>1, <2>2
<1>5. IsFiniteSet(R)
  <2>1. IsFiniteSet(Groups)
    BY FS_Interval, CountsAssumption DEF Groups
  <2> QED
    BY <2>1, FS_Subset
<1>6. /\ IsFiniteSet({ <<o, g>> : g \in R })
      /\ Cardinality({ <<o, g>> : g \in R }) <= Cardinality(R)
  <2> DEFINE f == [g \in R |-> <<o, g>>]
  <2>1. f \in Surjection(R, { <<o, g>> : g \in R })
    BY DEF Surjection
  <2> QED
    BY <1>5, <2>1, FS_Surjection
<1> QED
  BY <1>2, <1>3, <1>4, <1>5, <1>6

LEMMA GateIsProof ==
  ASSUME TypeOK, OnceInv, WriteAhead, SweepCounts, GateFinds,
         NEW a \in Actors, sweep[a].pc = "gate", ProvablyTerminal(sweep[a]),
         sweep[a].found # {}
  PROVE  Quiet(sweep[a].run)
<1> DEFINE s == sweep[a]
           r == s.run
<1>t. /\ r \in Runs /\ exec \in [Owners -> [Groups -> ExecState]]
      /\ NGroups \in Nat
  BY CountsAssumption DEF TypeOK, StoreTypeOK, SweepRecord
<1>c. Counted(r, s.never, s.recorded) \/ Bounded(s.never, s.recorded)
  BY DEF SweepCounts, Sweeping
<1>f. IsFiniteSet(Groups) /\ Cardinality(Groups) = NGroups
  <2>1. IsFiniteSet(1..NGroups) /\ Cardinality(1..NGroups) = NGroups
    BY <1>t, FS_Interval
  <2> QED
    BY <2>1 DEF Groups
<1>w. \A x \in Executions(r) : exec[x[1]][x[2]] # "none" => x[2] \in Triggers(r)
  BY <1>t DEF WriteAhead, Triggers, Executions
<1>n. s.never => \A x \in Executions(r) : exec[x[1]][x[2]] = "none"
  <2> SUFFICES ASSUME s.never
               PROVE  Triggers(r) = {}
    BY <1>w
  <2>1. RecordedTriggers(r) = 0
    BY <1>c DEF Counted, Bounded
  <2>2. IsFiniteSet(Triggers(r))
    BY <1>f, FS_Subset DEF Triggers
  <2> QED
    BY <2>1, <2>2, FS_EmptySet DEF RecordedTriggers
<1>1. CASE s.never
  BY <1>1, <1>c, <1>n DEF Counted, Bounded, Quiet, LiveRun, Live
<1>2. CASE ~s.never
  <2>1. /\ Cardinality(ResultRows(r)) >= s.recorded
        /\ ResultRows(r) # {}
        /\ \A x \in ResultRows(r) : exec[x[1]][x[2]] = "ended"
    BY <1>2 DEF ProvablyTerminal, GateFinds
  <2>2. PICK o \in Owners :
          LET R == { g \in Groups : exec[o][g] \in HasResult } IN
          /\ RunOf[o] = r
          /\ ResultRows(r) = { <<o, g>> : g \in R }
          /\ IsFiniteSet(R) /\ IsFiniteSet(ResultRows(r))
          /\ Cardinality(ResultRows(r)) <= Cardinality(R)
          /\ \A x \in Executions(r) : exec[x[1]][x[2]] # "none" => x[1] = o
    BY <1>t, <2>1, ResultsOfOne
  <2> DEFINE R == { g \in Groups : exec[o][g] \in HasResult }
  <2>3. /\ RunOf[o] = r /\ ResultRows(r) = { <<o, g>> : g \in R }
        /\ IsFiniteSet(R) /\ IsFiniteSet(ResultRows(r))
        /\ Cardinality(ResultRows(r)) <= Cardinality(R)
        /\ \A x \in Executions(r) : exec[x[1]][x[2]] # "none" => x[1] = o
    BY <2>2
  <2>4. \A g \in R : exec[o][g] = "ended"
    <3> TAKE g \in R
    <3>1. <<o, g>> \in ResultRows(r)
      BY <2>3
    <3> QED
      BY <2>1, <3>1
  <2>5. Cardinality(R) \in Nat /\ Cardinality(ResultRows(r)) \in Int
        /\ s.recorded \in Int
    BY <2>3, FS_CardinalityType DEF TypeOK, StoreTypeOK, SweepRecord, Unknown
  <2>6. Cardinality(R) >= s.recorded
    BY <2>1, <2>3, <2>5
  <2> HIDE DEF R
  <2>7. CASE Counted(r, s.never, s.recorded)
    <3>1. R \subseteq Triggers(r) /\ IsFiniteSet(Triggers(r))
      <4>1. \A g \in R : <<o, g>> \in Executions(r) /\ exec[o][g] # "none"
        BY <2>3, <2>4 DEF R, Executions
      <4>2. R \subseteq Triggers(r)
        BY <1>w, <4>1
      <4> QED
        BY <1>f, <4>2, FS_Subset DEF Triggers
    <3>2. R = Triggers(r)
      BY <2>5, <2>6, <2>7, <3>1, FS_Subset DEF Counted, RecordedTriggers
    <3>3. ~LiveRun(r)
      <4> SUFFICES ASSUME NEW x \in Executions(r), exec[x[1]][x[2]] \in Live
                   PROVE  FALSE
        BY DEF LiveRun
      <4>1. x[1] = o /\ x[2] \in R
        BY <1>w, <2>3, <3>2 DEF Live
      <4> QED
        BY <2>4, <4>1 DEF Live
    <3> QED
      BY <2>7, <3>3 DEF Counted, Quiet
  <2>8. CASE Bounded(s.never, s.recorded)
    <3>1. R \subseteq Groups /\ Cardinality(R) >= Cardinality(Groups)
      BY <1>f, <2>6, <2>8 DEF Bounded, UnrecordedTriggerBound, R
    <3>2. R = Groups
      <4>1. Cardinality(R) <= Cardinality(Groups)
        BY <1>f, <3>1, FS_Subset
      <4>2. Cardinality(R) = Cardinality(Groups)
        BY <1>t, <1>f, <2>5, <3>1, <4>1
      <4> QED
        BY <1>f, <3>1, <4>2, FS_Subset
    <3>3. AllEnded(r)
      BY <2>3, <2>4, <3>2 DEF AllEnded
    <3>4. ~LiveRun(r)
      BY <2>3, <2>4, <3>2 DEF LiveRun, Live, Executions
    <3> QED
      BY <3>3, <3>4 DEF Quiet
  <2> QED
    BY <1>c, <2>7, <2>8
<1> QED
  BY <1>1, <1>2

\* What becomes of one execution.
LEMMA ExecMoves ==
  ASSUME TypeOK, [Next]_vars, NEW o \in Owners, NEW g \in Groups
  PROVE  \/ exec'[o][g] = exec[o][g]
         \/ /\ OwnerStep(o) /\ own[o].pc = "call" /\ own[o].at = g
            /\ UNCHANGED rec
         \/ exec[o][g] \in Live /\ exec'[o][g] # "sent"
<1>t. exec \in [Owners -> [Groups -> ExecState]]
  BY DEF TypeOK, StoreTypeOK
<1>1. CASE \E p \in Owners : OwnerStep(p)
  BY <1>t, <1>1, OwnerTriggers
<1>2. CASE InstanceNext
  <2>1. CASE \E p \in Owners, h \in Groups : InstanceStep(p, h) \/ LoseTrigger(p, h)
    BY <1>t, <2>1 DEF InstanceStep, LoseTrigger, Live
  <2>2. CASE \E r \in Runs : LandLate(r)
    BY <2>2 DEF LandLate
  <2> QED
    BY <1>2, <2>1, <2>2 DEF InstanceNext
<1>3. UNCHANGED exec => exec'[o][g] = exec[o][g]
  OBVIOUS
<1>4. (\E a \in Actors : SweepStep(a) \/ FailSweep(a)) => UNCHANGED exec
  BY DEF SweepStep, ReadTests, ReadSuites, ReadLinks, PassGate, ReadSteps,
     ReadInputs, DeleteRow, FinishSweep, FailSweep, onlySweep
<1>5. (\E p \in Owners : Abort(p) \/ Crash(p)) => UNCHANGED exec
  BY DEF Abort, Crash, storeVars
<1>6. (\E c \in Cleaners : CleanerStep(c) \/ CleanCrash(c)) => UNCHANGED exec
  BY CleanerKeepsStamp
<1> QED
  BY <1>1, <1>2, <1>3, <1>4, <1>5, <1>6 DEF Next, vars, storeVars

\* Once quiet, a run stays so: nobody is left who would trigger for it.
LEMMA QuietStays ==
  ASSUME TypeOK, OnceInv, LoopInv, CallJournalled, [Next]_vars,
         NEW r \in Runs, Quiet(r)
  PROVE  Quiet(r)'
<1>1. ASSUME NEW o \in Owners, RunOf[o] = r, own[o].pc = "call"
      PROVE  FALSE
  <2>1. own[o].at \in Groups /\ exec[o][own[o].at] = "none"
    <3>1. own[o].at \in Groups
      BY <1>1 DEF CallJournalled
    <3>2. \A g \in Groups : g >= g
      BY DEF Groups
    <3> QED
      BY <1>1, <3>1, <3>2 DEF LoopInv, TriggerOrder
  <2>2. rec[r].state = "running"
    BY <1>1 DEF LoopInv, LoopRuns, TriggerLoop
  <2>3. AllEnded(r)
    BY <2>2 DEF Quiet, Over, OverStates, TerminalRunStates
  <2>4. PICK p \in Owners : RunOf[p] = r /\ exec[p][own[o].at] = "ended"
    BY <2>1, <2>3 DEF AllEnded
  <2>5. own[o].entered /\ own[p].entered
    BY <1>1, <2>1, <2>4 DEF OnceInv, LoopIsEntered, TriggerLoop
  <2>6. o = p
    BY <1>1, <2>4, <2>5 DEF OnceInv, OneConfirms, Confirmed
  <2> QED
    BY <2>1, <2>4, <2>6
<1>2. \A o \in Owners, g \in Groups : RunOf[o] = r =>
        \/ exec'[o][g] = exec[o][g]
        \/ exec[o][g] \in Live
  BY <1>1, ExecMoves
<1>3. ~LiveRun(r)'
  BY <1>2 DEF Quiet, LiveRun, Executions
<1>4. AllEnded(r) => AllEnded(r)'
  BY <1>2 DEF AllEnded, Live
<1>5. Over(r) => Over(r)'
  BY OverStays
<1> QED
  BY <1>3, <1>4, <1>5 DEF Quiet

LEMMA GatePassedNext ==
  ASSUME TypeOK, OnceInv, LoopInv, CallJournalled, WriteAhead, SweepCounts,
         GateInv, [Next]_vars
  PROVE  GatePassed'
<1>r. \A a \in Actors : sweep'[a].run \in Runs
  <2>1. TypeOK'
    BY NextType
  <2> QED
    BY <2>1 DEF TypeOK, StoreTypeOK, SweepRecord
<1> SUFFICES ASSUME NEW a \in Actors, sweep'[a].pc \in PastGate,
                    NEW r \in Runs, r = sweep'[a].run,
                    sweep'[a].found # {}
             PROVE  Quiet(r)'
  BY <1>r DEF GatePassed, Quiet, LiveRun, Executions, Over, AllEnded
<1> SUFFICES Quiet(r)
  BY QuietStays DEF GateInv
<1>1. CASE SweepStep(a) \/ FailSweep(a)
  <2>1. SweepMoves(a) /\ r = sweep[a].run
    BY <1>1, SweepStepMoves, SweepKeeps
  <2>2. CASE sweep[a].pc = "gate" /\ ProvablyTerminal(sweep[a])
             /\ sweep'[a].found = sweep[a].found
    BY <2>1, <2>2, GateIsProof DEF GateInv
  <2>3. CASE sweep[a].pc \in PastGate /\ sweep[a].found # {}
    BY <2>1, <2>3 DEF GateInv, GatePassed
  <2>4. CASE sweep[a].pc \in PastGate /\ sweep[a].found = {}
    <3>1. \A p : Deletes(a, sweep[a], sweep'[a], p) => sweep'[a].found = {}
      BY <2>4 DEF Deletes
    <3>2. Hanging(r, "step", "test", {}) = {} /\ Hanging(r, "input", "step", {}) = {}
      BY DEF Hanging
    <3>3. Finds(sweep[a], sweep'[a]) => sweep'[a].found = {}
      BY <2>1, <2>4, <3>2 DEF Finds, PastGate
    <3>4. Judges(sweep[a], sweep'[a]) => sweep'[a].found = {}
      BY <2>4 DEF Judges
    <3> QED
      BY <2>1, <3>1, <3>3, <3>4 DEF SweepMoves, PastGate
  <2>5. \A p : Deletes(a, sweep[a], sweep'[a], p) => sweep[a].pc \in PastGate
    BY DEF Deletes, PastGate
  <2>6. Finds(sweep[a], sweep'[a]) => sweep[a].pc \in PastGate
    BY DEF Finds, PastGate
  <2> QED
    BY <2>1, <2>2, <2>3, <2>4, <2>5, <2>6 DEF SweepMoves, Judges, PastGate
<1>2. CASE sweep'[a] = sweep[a]
  BY <1>2 DEF GateInv, GatePassed
<1>3. CASE \E q, never, n : sweep'[a] = SweepStarted(q, never, n)
  BY <1>3 DEF SweepStarted
<1> QED
  BY <1>1, <1>2, <1>3, SweepFlows DEF SweepFlow

LEMMA GateHolds == Spec => []GateInv
<1>1. Init => GateInv
  <2> SUFFICES ASSUME Init PROVE GateInv
    OBVIOUS
  <2>1. \A a \in Actors : sweep[a].pc = "off"
    BY DEF Init, StoreInit, NoSweep
  <2> QED
    BY <2>1 DEF GateInv, GateFinds, GatePassed, PastGate
<1>2. /\ TypeOK /\ OnceInv /\ LoopInv /\ JournalInv /\ CountInv
      /\ GateInv /\ [Next]_vars
      => GateInv'
  BY GateFindsNext, GatePassedNext DEF GateInv, JournalInv, CountInv
<1>3. Spec => []JournalInv
  <2>1. TypeOK /\ StampInv /\ JournalInv /\ [Next]_vars => JournalInv'
    BY JournalNext
  <2> QED
    BY <2>1, JournalInit, TypeCorrect, StampHolds, PTL DEF Spec
<1> QED
  BY <1>1, <1>2, <1>3, TypeCorrect, OnceHolds, LoopHolds, CountHolds, PTL DEF Spec

\* Rows go by a sweep's DELETE only.
LEMMA RowsGo ==
  ASSUME TypeOK, [Next]_vars, NEW r \in Runs, NEW p \in rows[r], p \notin rows'[r]
  PROVE  \E a \in Actors : /\ SweepStep(a) \/ FailSweep(a)
                           /\ sweep[a].run = r /\ p \in Doomed(a)
<1>t. rows \in [Runs -> SUBSET Rows] /\ RunOf \in [Owners -> Runs]
  BY RunOfAssumption DEF TypeOK, StoreTypeOK
<1>1. ASSUME NEW a \in Actors, SweepStep(a) \/ FailSweep(a)
      PROVE  sweep[a].run = r /\ p \in Doomed(a)
  <2>1. PICK q \in Doomed(a) : rows' = [rows EXCEPT ![sweep[a].run] = @ \ {q}]
    BY <1>1
    DEF SweepStep, ReadTests, ReadSuites, ReadLinks, PassGate, ReadSteps,
        ReadInputs, DeleteRow, FinishSweep, FailSweep, onlySweep
  <2> QED
    BY <1>t, <2>1
<1>2. ASSUME NEW o \in Owners, OwnerStep(o)
      PROVE  FALSE
  <2>1. CASE Create(o)
    <3>1. UNCHANGED rows \/ \E q : rows' = [rows EXCEPT ![RunOf[o]] = @ \cup {q}]
      BY <2>1 DEF Create, CreateRow, LoseRow
    <3> QED
      BY <1>t, <3>1
  <2>2. CASE ~Create(o)
    <3>1. UNCHANGED rows
      <4>1. CASE Drives(o)
        BY <4>1
        DEF Drives, Provision, BeginProjection, EnterRunning, Abandon, Collect,
            BeginTeardown, Settle, Aborted, Close, Drive, instance
      <4>2. CASE Journals(o)
        BY <4>2
        DEF Journals, IntendSpec, IntendTrigger, Intend, ConfirmSpec,
            ConfirmTrigger, Confirm, Compensate, Journal, instance
      <4>3. CASE ~Drives(o) /\ ~Journals(o)
        BY <1>2, <2>2, <4>3
        DEF OwnerStep, Drives, Journals, Scan, Open, AssertFresh, ReadStages,
            VerifyInfra, AcquireLock, CheckNamespace, Projected, CountTriggers,
            RunLoop, CallRunner, RunnerSettles, FlushReporters, Close, Swept,
            Recover, Compensated, ReadBack, Report, instance
      <4> QED
        BY <4>1, <4>2, <4>3
    <3> QED
      BY <3>1
  <2> QED
    BY <2>1, <2>2
<1>3. ~InstanceNext
  <2>1. InstanceNext => UNCHANGED rows \/
          \E q \in Runs : \E x : rows' = [rows EXCEPT ![q] = @ \cup {x}]
    BY DEF InstanceNext, InstanceStep, LoseTrigger, LandLate
  <2> QED
    BY <1>t, <2>1
<1>4. (\E o \in Owners : Abort(o) \/ Crash(o)) => UNCHANGED rows
  BY DEF Abort, Crash, storeVars
<1>5. (\E c \in Cleaners : CleanerStep(c) \/ CleanCrash(c)) => UNCHANGED rows
  BY CleanerKeepsStamp
<1> QED
  BY <1>1, <1>2, <1>3, <1>4, <1>5 DEF Next, vars, storeVars

\* Not under a live run.
LEMMA LiveRowsStay ==
  ASSUME TypeOK, GateInv, [Next]_vars, NEW r \in Runs, LiveRun(r)
  PROVE  rows[r] \subseteq rows'[r]
<1> SUFFICES ASSUME NEW p \in rows[r], p \notin rows'[r]
             PROVE  FALSE
  OBVIOUS
<1>1. PICK a \in Actors : sweep[a].run = r /\ p \in Doomed(a)
  BY RowsGo
<1>2. sweep[a].pc \in PastGate /\ sweep[a].found # {}
  BY <1>1 DEF Doomed, PastGate, OfKind
<1> QED
  BY <1>1, <1>2 DEF GateInv, GatePassed, Quiet

(***************************************************************************)
(* DEV-17, for any number of owners, cleaners, runs and runner groups, and *)
(* whatever is lost, late or crashes: no row of a run goes while an        *)
(* execution of that run is on its way, queued or running (store.ts,       *)
(* teardown, with the trigger counts runPipeline and cleanup hand it).     *)
(***************************************************************************)
THEOREM NeverDeleteHolds == Spec => NeverDeleteUnderLiveRun
<1>1. TypeOK /\ GateInv /\ [Next]_vars =>
        [\A r \in Runs : LiveRun(r) => rows[r] \subseteq rows'[r]]_vars
  BY LiveRowsStay
<1> QED
  BY <1>1, TypeCorrect, GateHolds, PTL DEF Spec, NeverDeleteUnderLiveRun

------------------------------------------------------------------------------
(* A namespace with somebody else's row in it is left alone. *)

LEMMA ForeignStays ==
  ASSUME [Next]_vars
  PROVE  UNCHANGED foreign
<1>1. ASSUME NEW o \in Owners, OwnerStep(o)
      PROVE  UNCHANGED foreign
  <2>1. CASE Drives(o)
    BY <2>1
    DEF Drives, Provision, BeginProjection, EnterRunning, Abandon, Collect,
        BeginTeardown, Settle, Aborted, Close, Drive, instance
  <2>2. CASE Journals(o)
    BY <2>2
    DEF Journals, IntendSpec, IntendTrigger, Intend, ConfirmSpec,
        ConfirmTrigger, Confirm, Compensate, Journal, instance
  <2>3. CASE ~Drives(o) /\ ~Journals(o)
    BY <1>1, <2>3
    DEF OwnerStep, Drives, Journals, Scan, Open, AssertFresh, ReadStages,
        VerifyInfra, AcquireLock, CheckNamespace, Create, Projected,
        CountTriggers, RunLoop, CallRunner, RunnerSettles, FlushReporters,
        Close, Swept, Recover, Compensated, ReadBack, Report, instance
  <2> QED
    BY <2>1, <2>2, <2>3
<1>2. (\E o \in Owners : Abort(o) \/ Crash(o)) => UNCHANGED foreign
  BY DEF Abort, Crash, storeVars
<1>3. (\E c \in Cleaners : CleanerStep(c) \/ CleanCrash(c)) => UNCHANGED foreign
  BY DEF CleanerStep, CleanCrash, CleanRead, CleanCount, CleanBegin,
     CleanRefused, CleanRecover, CleanCompensate, CleanDone, storeVars, instance
<1>4. (\E a \in Actors : SweepStep(a) \/ FailSweep(a)) => UNCHANGED foreign
  BY DEF SweepStep, ReadTests, ReadSuites, ReadLinks, PassGate, ReadSteps,
     ReadInputs, DeleteRow, FinishSweep, FailSweep, onlySweep
<1>5. InstanceNext => UNCHANGED foreign
  BY DEF InstanceNext, InstanceStep, LoseTrigger, LandLate
<1> QED
  BY <1>1, <1>2, <1>3, <1>4, <1>5 DEF Next, vars, storeVars

LEMMA NamespaceHolds == Spec => []NamespaceIsOurs
<1>1. Init => NamespaceIsOurs
  BY DEF Init, StoreInit, NoSweep, NamespaceIsOurs, PastGate
<1>2. TypeOK /\ NamespaceIsOurs /\ [Next]_vars => NamespaceIsOurs'
  <2> SUFFICES ASSUME TypeOK, NamespaceIsOurs, [Next]_vars, NEW a \in Actors,
                      sweep'[a].pc \in {"gate"} \cup PastGate
               PROVE  foreign[sweep'[a].run] = {}
    BY ForeignStays DEF NamespaceIsOurs
  <2>1. CASE SweepStep(a) \/ FailSweep(a)
    <3>1. SweepMoves(a) /\ sweep'[a].run = sweep[a].run
      BY <2>1, SweepStepMoves, SweepKeeps
    <3>2. \/ sweep[a].pc \in {"gate"} \cup PastGate
          \/ foreign[sweep[a].run] = {}
      <4>1. ~(\E p : Deletes(a, sweep[a], sweep'[a], p)) \/ sweep[a].pc \in PastGate
        BY DEF Deletes, Doomed, PastGate
      <4>2. Finds(sweep[a], sweep'[a]) =>
              sweep[a].pc \in PastGate \/ foreign[sweep[a].run] = {}
        BY DEF Finds, PastGate, RunOwned
      <4> QED
        BY <3>1, <4>1, <4>2 DEF SweepMoves, Judges, PastGate
    <3> QED
      BY <3>1, <3>2 DEF NamespaceIsOurs
  <2>2. CASE sweep'[a] = sweep[a]
    BY <2>2 DEF NamespaceIsOurs
  <2>3. CASE \E r, never, n : sweep'[a] = SweepStarted(r, never, n)
    BY <2>3 DEF SweepStarted, PastGate
  <2>4. CASE sweep'[a].pc = "off"
    BY <2>4 DEF PastGate
  <2> QED
    BY <2>1, <2>2, <2>3, <2>4, SweepFlows DEF SweepFlow
<1> QED
  BY <1>1, <1>2, TypeCorrect, PTL DEF Spec

(***************************************************************************)
(* A namespace that holds a row without the run's ownership marker is left *)
(* alone entirely: store.ts refuses the teardown before its first DELETE,  *)
(* whoever sweeps and however often.                                       *)
(***************************************************************************)
THEOREM SharedNamespaceHolds == Spec => NoDeleteInSharedNamespace
<1>1. TypeOK /\ NamespaceIsOurs /\ [Next]_vars =>
        [\A r \in Runs : foreign[r] # {} => rows[r] \subseteq rows'[r]]_vars
  <2> SUFFICES ASSUME TypeOK, NamespaceIsOurs, [Next]_vars, NEW r \in Runs,
                      foreign[r] # {}, NEW p \in rows[r], p \notin rows'[r]
               PROVE  FALSE
    OBVIOUS
  <2>1. PICK a \in Actors : sweep[a].run = r /\ p \in Doomed(a)
    BY RowsGo
  <2>2. sweep[a].pc \in PastGate
    BY <2>1 DEF Doomed, PastGate
  <2> QED
    BY <2>1, <2>2 DEF NamespaceIsOurs
<1> QED
  BY <1>1, TypeCorrect, NamespaceHolds, PTL DEF Spec, NoDeleteInSharedNamespace

------------------------------------------------------------------------------
(* The projection lock. *)

Locked ==
  {"namespace", "create", "confirm", "enter", "next", "call", "wait",
   "answered", "abandon", "abandoned"}

\* What a step of an owner does to the lock: it takes it, or gives it back.
LEMMA OwnerLocks ==
  ASSUME TypeOK, NEW o \in Owners, OwnerStep(o)
  PROVE  \/ /\ lock' = lock
            /\ ~(own[o].pc = "lock" /\ own'[o].pc = "namespace")
         \/ lock = NoOwner /\ lock' = o
         \/ /\ lock' = IF lock = o THEN NoOwner ELSE lock
            /\ \/ /\ own[o].pc \in {"namespace", "create"}
                  /\ own'[o].pc = Catch(own[o])
               \/ own'[o].pc = "finished"
<1>t. own \in [Owners -> OwnRecord]
  BY DEF TypeOK, LifeTypeOK
<1>1. CASE AcquireLock(o)
  <2>1. CASE Owner(o, Thrown(o)) /\ UNCHANGED lock
    <3>1. own'[o].pc \in {"abandon", "collect"}
      BY <1>t, <2>1, OwnerEffect, ThrownEffect
    <3> QED
      BY <2>1, <3>1
  <2> QED
    BY <1>1, <2>1 DEF AcquireLock, TakeLock
<1>2. CASE CheckNamespace(o) \/ Create(o)
  <2>1. own[o].pc \in {"namespace", "create"}
    BY <1>2 DEF CheckNamespace, Create, AtPc
  <2>2. CASE FreeLock(o) /\ Owner(o, Thrown(o))
    <3>1. own'[o].pc = Catch(own[o])
      BY <1>t, <2>2, OwnerEffect, ToFields DEF Thrown, Catch, OwnPc
    <3> QED
      BY <2>1, <2>2, <3>1 DEF FreeLock
  <2>3. CASE UNCHANGED lock
    BY <2>1, <2>3
  <2> QED
    BY <1>2, <2>2, <2>3 DEF CheckNamespace, Create
<1>3. CASE Report(o)
  <2>1. own'[o] = [To(o, "finished") EXCEPT !.closed = TRUE]
    BY <1>t, <1>3, OwnerEffect DEF Report
  <2>2. To(o, "finished") \in OwnRecord /\ To(o, "finished").pc = "finished"
    BY <1>t, ToFields DEF OwnPc
  <2>3. own'[o].pc = "finished"
    BY <2>1, <2>2, FieldsOf
  <2> QED
    BY <1>3, <2>3 DEF Report, FreeLock
<1>4. CASE ~AcquireLock(o) /\ ~CheckNamespace(o) /\ ~Create(o) /\ ~Report(o)
  <2>1. UNCHANGED lock
    <3>1. CASE Drives(o)
      BY <3>1
      DEF Drives, Provision, BeginProjection, EnterRunning, Abandon, Collect,
          BeginTeardown, Settle, Aborted, Close, Drive, instance
    <3>2. CASE Journals(o)
      BY <3>2
      DEF Journals, IntendSpec, IntendTrigger, Intend, ConfirmSpec,
          ConfirmTrigger, Confirm, Compensate, Journal, instance
    <3>3. CASE ~Drives(o) /\ ~Journals(o)
      BY <1>4, <3>3
      DEF OwnerStep, Drives, Journals, Scan, Open, AssertFresh, ReadStages,
          VerifyInfra, Projected, CountTriggers, RunLoop, CallRunner,
          RunnerSettles, FlushReporters, Close, Swept, Recover, Compensated,
          ReadBack, instance
    <3> QED
      BY <3>1, <3>2, <3>3
  <2>2. own[o].pc = "lock" => own'[o].pc # "namespace"
    <3>1. own[o].pc = "lock" => \A p : AtPc(o, p) => p = "lock"
      BY DEF AtPc
    <3> QED
      BY <1>4, <3>1, Zenon
      DEF OwnerStep, Scan, Open, AssertFresh, ReadStages, Provision, VerifyInfra,
          BeginProjection, Aborted, IntendSpec, Projected, ConfirmSpec,
          EnterRunning, RunLoop, IntendTrigger, CallRunner, RunnerSettles,
          ConfirmTrigger, Abandon, Close, Collect, FlushReporters,
          BeginTeardown, CountTriggers, Swept, Recover, Compensate,
          Compensated, ReadBack, Settle
  <2> QED
    BY <2>1, <2>2
<1> QED
  BY <1>1, <1>2, <1>3, <1>4

\* Nobody else touches it, but for a sweep that gives back its own.
LEMMA OthersLock ==
  ASSUME TypeOK, [Next]_vars, ~(\E o \in Owners : OwnerStep(o))
  PROVE  \/ lock' = lock
         \/ \E a \in Actors : FinishSweep(a) /\ UNCHANGED own /\ lock = a
<1>1. CASE \E a \in Actors : (SweepStep(a) \/ FailSweep(a)) /\ UNCHANGED lifeVars
  <2>1. PICK a \in Actors : (SweepStep(a) \/ FailSweep(a)) /\ UNCHANGED lifeVars
    BY <1>1
  <2>2. CASE FinishSweep(a)
    BY <2>1, <2>2 DEF FinishSweep, FreeLock, lifeVars
  <2>3. CASE ~FinishSweep(a)
    BY <2>1, <2>3
    DEF SweepStep, ReadTests, ReadSuites, ReadLinks, PassGate, ReadSteps,
        ReadInputs, DeleteRow, FailSweep, onlySweep
  <2> QED
    BY <2>2, <2>3
<1>2. (\E o \in Owners : Abort(o) \/ Crash(o)) => UNCHANGED lock
  BY DEF Abort, Crash, storeVars
<1>3. (\E c \in Cleaners : CleanerStep(c) \/ CleanCrash(c)) => UNCHANGED lock
  BY DEF CleanerStep, CleanCrash, CleanRead, CleanCount, CleanBegin,
     CleanRefused, CleanRecover, CleanCompensate, CleanDone, storeVars, instance
<1>4. InstanceNext => UNCHANGED lock
  BY DEF InstanceNext, InstanceStep, LoseTrigger, LandLate
<1> QED
  BY <1>1, <1>2, <1>3, <1>4 DEF Next, vars, storeVars

LEMMA LockCoversNext ==
  ASSUME TypeOK, OnceInv, LockInv, [Next]_vars
  PROVE  LockCoversProjection'
<1> SUFFICES ASSUME NEW o \in Owners, own'[o].pc \in Locked
             PROVE  lock' = o
  BY DEF LockCoversProjection, Locked
<1>n. o # NoOwner
  BY ActorsAssumption
<1>1. CASE OwnerStep(o)
  <2>1. Flow(o)
    BY <1>1, OwnerFlow
  <2>2. own[o].pc \in Catching \ {"next", "answered"} => own[o].view # "running"
    BY DEF OnceInv, LoopIsEntered, Catching, BeforeLoop, Projection
  <2>3. \/ own[o].pc \in Locked
        \/ own[o].pc = "lock" /\ own'[o].pc = "namespace"
    BY <2>1, <2>2
    DEF Flow, Jumps, Turns, Settles, Lands, Opens, Catching, Catch, Locked
  <2>4. own[o].pc \in Locked => lock = o
    BY DEF LockInv, LockCoversProjection, Locked
  <2>5. ~(/\ own[o].pc \in {"namespace", "create"}
          /\ own'[o].pc = Catch(own[o]))
    BY <2>2 DEF Catch, Locked, Catching
  <2>6. own'[o].pc # "finished"
    BY DEF Locked
  <2> QED
    BY <1>1, <1>n, <2>3, <2>4, <2>5, <2>6, OwnerLocks
<1>2. CASE ~OwnerStep(o) /\ \E p \in Owners : OwnerStep(p)
  <2>1. PICK p \in Owners : OwnerStep(p) /\ p # o
    BY <1>2
  <2>2. lock = o
    BY <2>1, OthersStay DEF LockInv, LockCoversProjection, Locked
  <2> QED
    BY <1>n, <2>1, <2>2, OwnerLocks
<1>3. CASE ~(\E p \in Owners : OwnerStep(p))
  <2>1. own[o].pc \in Locked
    BY <1>3, OthersLeaveOwners DEF Locked
  <2>2. lock = o
    BY <2>1 DEF LockInv, LockCoversProjection, Locked
  <2>3. ~FinishSweep(o)
    BY <2>1 DEF LockInv, SweepIsOwned, FinishSweep, Locked
  <2> QED
    BY <1>3, <2>2, <2>3, OthersLock
<1> QED
  BY <1>1, <1>2, <1>3

\* An owner's step starts its sweep, ends it, or comes from elsewhere.
LEMMA OwnerSweeps ==
  ASSUME TypeOK, NEW o \in Owners, OwnerStep(o)
  PROVE  \/ sweep'[o].pc = "off"
         \/ /\ own[o].pc = "count" /\ own'[o].pc = "sweep"
            /\ sweep'[o].run = RunOf[o]
         \/ UNCHANGED sweep /\ own[o].pc # "sweep"
<1>t. /\ sweep \in [Actors -> SweepRecord] /\ own \in [Owners -> OwnRecord]
      /\ o \in Actors
  BY DEF TypeOK, StoreTypeOK, LifeTypeOK, Actors
<1>1. CASE CountTriggers(o)
  <2>1. PICK n : StartSweep(o, RunOf[o], ~own[o].entered, n)
    BY <1>1 DEF CountTriggers
  <2>2. sweep'[o].run = RunOf[o]
    BY <1>t, <2>1 DEF StartSweep, SweepStarted
  <2>3. own'[o].pc = "sweep" /\ own[o].pc = "count"
    BY <1>t, <1>1, GotoEffect DEF CountTriggers, AtPc
  <2> QED
    BY <2>2, <2>3
<1>2. CASE Swept(o)
  BY <1>t, <1>2 DEF Swept, EndSweep, NoSweep
<1>3. CASE ~CountTriggers(o) /\ ~Swept(o)
  <2>1. UNCHANGED sweep
    <3>1. CASE Drives(o)
      BY <3>1
      DEF Drives, Provision, BeginProjection, EnterRunning, Abandon, Collect,
          BeginTeardown, Settle, Aborted, Close, Drive, instance
    <3>2. CASE Journals(o)
      BY <3>2
      DEF Journals, IntendSpec, IntendTrigger, Intend, ConfirmSpec,
          ConfirmTrigger, Confirm, Compensate, Journal, instance
    <3>3. CASE ~Drives(o) /\ ~Journals(o)
      BY <1>3, <3>3
      DEF OwnerStep, Drives, Journals, Scan, Open, AssertFresh, ReadStages,
          VerifyInfra, AcquireLock, CheckNamespace, Create, Projected,
          RunLoop, CallRunner, RunnerSettles, FlushReporters, Close,
          Recover, Compensated, ReadBack, Report, instance
    <3> QED
      BY <3>1, <3>2, <3>3
  <2>2. own[o].pc # "sweep"
    <3>1. own[o].pc = "sweep" => \A p : AtPc(o, p) => p = "sweep"
      BY DEF AtPc
    <3> QED
      BY <1>3, <3>1, Zenon
      DEF OwnerStep, Scan, Open, AssertFresh, ReadStages, Provision, VerifyInfra,
          BeginProjection, Aborted, IntendSpec, AcquireLock, CheckNamespace,
          Create, Projected, ConfirmSpec, EnterRunning, RunLoop, IntendTrigger,
          CallRunner, RunnerSettles, ConfirmTrigger, Abandon, Close, Collect,
          FlushReporters, BeginTeardown, Recover, Compensate, Compensated,
          ReadBack, Settle, Report
  <2> QED
    BY <2>1, <2>2
<1> QED
  BY <1>1, <1>2, <1>3

LEMMA SweepIsOwnedNext ==
  ASSUME TypeOK, SweepIsOwned, [Next]_vars
  PROVE  SweepIsOwned'
<1> SUFFICES ASSUME NEW o \in Owners, sweep'[o].pc # "off"
             PROVE  own'[o].pc = "sweep" /\ sweep'[o].run = RunOf[o]
  BY DEF SweepIsOwned
<1>t. /\ o \in Actors /\ o \notin Cleaners
      /\ sweep \in [Actors -> SweepRecord] /\ own \in [Owners -> OwnRecord]
  BY ActorsAssumption DEF Actors, TypeOK, StoreTypeOK, LifeTypeOK
<1>1. CASE OwnerStep(o)
  BY <1>1, OwnerSweeps DEF SweepIsOwned
<1>2. CASE Crash(o)
  BY <1>2, <1>t DEF Crash, EndSweep, NoSweep
<1>3. CASE ~OwnerStep(o) /\ ~Crash(o)
  <2>1. own'[o].pc = own[o].pc
    <3>1. CASE \E p \in Owners : OwnerStep(p)
      BY <1>3, <3>1, OthersStay
    <3>2. CASE \E p \in Owners : Abort(p) \/ Crash(p)
      BY <1>3, <3>2, InterruptFields
    <3>3. CASE \E c \in Cleaners : CleanerStep(c) \/ CleanCrash(c)
      BY <3>3, CleanerKeepsStamp
    <3> QED
      BY <3>1, <3>2, <3>3 DEF Next, lifeVars, vars
  <2>2. CASE sweep'[o] = sweep[o]
    BY <2>1, <2>2 DEF SweepIsOwned
  <2>3. CASE SweepStep(o) \/ FailSweep(o)
    <3>1. sweep'[o].run = sweep[o].run /\ sweep[o].pc # "off"
      BY <1>t, <2>3, SweepKeeps DEF Sweeping
    <3> QED
      BY <2>1, <3>1 DEF SweepIsOwned
  <2>4. \A r, never, n : ~Starts(o, r, never, n)
    BY <1>3, <1>t DEF Starts
  <2> QED
    BY <1>t, <2>2, <2>3, <2>4, SweepFlows DEF SweepFlow
<1> QED
  BY <1>1, <1>2, <1>3

LEMMA LockHolds == Spec => []LockInv
<1>1. Init => LockInv
  <2> SUFFICES ASSUME Init PROVE LockInv
    OBVIOUS
  <2>1. \A o \in Owners : own[o].pc = "scan" /\ sweep[o].pc = "off"
    BY DEF Init, StoreInit, NoSweep, Actors
  <2> QED
    BY <2>1 DEF LockInv, LockCoversProjection, SweepIsOwned
<1>2. TypeOK /\ OnceInv /\ LockInv /\ [Next]_vars => LockInv'
  BY LockCoversNext, SweepIsOwnedNext DEF LockInv
<1> QED
  BY <1>1, <1>2, TypeCorrect, OnceHolds, PTL DEF Spec

(***************************************************************************)
(* From before its first row until its last trigger has settled an owner   *)
(* holds the projection lock, so of the runs that share a scope and a      *)
(* runner one at a time is projected or running (store.ts,                 *)
(* acquireProjectionLock, released by runLive's finally at the latest).    *)
(***************************************************************************)
THEOREM LockCoversHolds == Spec => []LockCoversProjection
<1>1. LockInv => LockCoversProjection
  BY DEF LockInv
<1> QED
  BY <1>1, LockHolds, PTL

==============================================================================
