------------------------------ MODULE RunClaims ------------------------------
(***************************************************************************)
(* The inductive invariants behind the properties of RunProperties that    *)
(* are proved.  No property is inductive as it stands: an owner that is    *)
(* about to trigger or to create, a sweep that is about to delete, must    *)
(* already have made the claim good, and that is a fact about where it     *)
(* stands and what it has read.                                            *)
(***************************************************************************)
EXTENDS RunProperties

TriggerLoop == {"next", "call", "wait", "answered"}
Projection  == {"intend", "lock", "namespace", "create"}

(***************************************************************************)
(* An owner in the trigger loop entered running first, so its record is    *)
(* stamped; the stamp is never taken back.                                 *)
(***************************************************************************)
StampedInLoop ==
  \A o \in Owners :
    own[o].pc \in TriggerLoop => rec[RunOf[o]].ran /\ own[o].at >= 1

StampInv == NeverTriggeredIsProof /\ StampedInLoop

(***************************************************************************)
(* The intend loop has journalled the specs it has passed, and the store   *)
(* is only called once it has passed them all.                             *)
(***************************************************************************)
SpecsJournalled ==
  \A o \in Owners, s \in Specs :
    \/ own[o].pc \in {"lock", "namespace", "create"}
    \/ own[o].pc = "intend" /\ s < own[o].at
    => entry[RunOf[o]][<<"project", s>>] # "none"

\* The trigger the runner is about to be called for is journalled.
CallJournalled ==
  \A o \in Owners :
    own[o].pc = "call" =>
      /\ own[o].at \in Groups
      /\ entry[RunOf[o]][<<"trigger", own[o].at>>] # "none"

\* Inductive relative to StampInv.
JournalInv == WriteAhead /\ SpecsJournalled /\ CallJournalled

------------------------------------------------------------------------------
(* The invariants behind TriggeredOnce, LockCoversProjection and           *)
(* NeverDeleteUnderLiveRun, in the order in which each rests on the ones   *)
(* before it.                                                              *)

BeforeLoop ==
  {"scan", "open", "fresh", "read", "provision", "verify", "project",
   "confirm", "enter"} \cup Projection

(***************************************************************************)
(* runStageEntered: an owner that triggers, has triggered or abandons went *)
(* through enter, and so did one that believes its run is running, unless  *)
(* it was refused for finding it so.                                       *)
(***************************************************************************)
LoopIsEntered ==
  \A o \in Owners :
    /\ own[o].pc \in TriggerLoop \cup {"abandon", "abandoned"} => own[o].entered
    /\ own[o].view = "running" =>
         own[o].entered \/ own[o].pc \in {"fresh", "refused", "dead"}
    /\ own[o].pc \in BeforeLoop => ~own[o].entered
    /\ \A g \in Groups : exec[o][g] # "none" => own[o].entered

\* o has confirmed the first spec of its run.
Confirmed(o) ==
  \/ own[o].entered
  \/ own[o].pc = "enter"
  \/ own[o].pc = "confirm" /\ own[o].at # 1

(***************************************************************************)
(* A create is confirmed once: the confirmation finds it intended, leaves  *)
(* it applied, and nothing makes it intended again.  So one owner of a run *)
(* id gets past confirm, however many start.                               *)
(***************************************************************************)
OneConfirms ==
  /\ \A o \in Owners :
       Confirmed(o) =>
         entry[RunOf[o]][<<"project", 1>>] \in {"applied", "compensated"}
  /\ \A o, p \in Owners :
       RunOf[o] = RunOf[p] /\ Confirmed(o) /\ Confirmed(p) => o = p

OnceInv == LoopIsEntered /\ OneConfirms

(***************************************************************************)
(* The states a run reaches when its driving is over.  No transition leads *)
(* out of them.                                                            *)
(***************************************************************************)
OverStates == {"tearing-down"} \cup TerminalRunStates
Over(r)    == rec[r].state \in OverStates

\* While an owner triggers, nobody moves the record away from running.
LoopRuns ==
  \A o \in Owners :
    own[o].pc \in TriggerLoop => rec[RunOf[o]].state = "running"

\* The loop takes the runner groups in order and each of them once.
TriggerOrder ==
  \A o \in Owners, g \in Groups :
    \/ own[o].pc \in {"next", "call"} /\ g >= own[o].at
    \/ own[o].pc \in {"wait", "answered"} /\ g > own[o].at
    => exec[o][g] = "none"

LoopInv == LoopRuns /\ TriggerOrder

\* Whatever is compensated was journalled.
TodoKnown ==
  /\ \A o \in Owners : \A w \in own[o].todo : entry[RunOf[o]][w] # "none"
  /\ \A c \in Cleaners : \A w \in cl[c].todo : entry[cl[c].run][w] # "none"

(***************************************************************************)
(* A trigger count is read when the driving is over, and then it does not  *)
(* change any more; a cleaner without a record relies on the bound.        *)
(***************************************************************************)
Counted(r, never, n) ==
  Over(r) /\ n = RecordedTriggers(r) /\ (never => n = 0)
Bounded(never, n) == n = UnrecordedTriggerBound /\ ~never

OwnerIsOver ==
  \A o \in Owners : own[o].pc \in {"count", "sweep"} => Over(RunOf[o])

CleanerCounts ==
  \A c \in Cleaners :
    cl[c].pc \in {"count", "begin"} =>
      IF cl[c].known = "absent"
      THEN /\ ~cl[c].never
           /\ cl[c].pc = "begin" => cl[c].recorded = UnrecordedTriggerBound
      ELSE /\ Over(cl[c].run)
           /\ cl[c].pc = "begin" =>
                cl[c].recorded \in {Unknown, RecordedTriggers(cl[c].run)}

SweepCounts ==
  \A a \in Actors :
    LET s == sweep[a] IN
    Sweeping(a) => Counted(s.run, s.never, s.recorded) \/ Bounded(s.never, s.recorded)

CountInv == TodoKnown /\ OwnerIsOver /\ CleanerCounts /\ SweepCounts

\* What a sweep has found before the gate hangs off a suite or a test.
GateFinds ==
  \A a \in Actors :
    sweep[a].pc \in {"suites", "links", "gate"} /\ sweep[a].found # {} =>
      Suite \in sweep[a].found \/ OfKind(sweep[a].found, "test") # {}

\* Nothing of run r executes, and nothing of it will be triggered again.
AllEnded(r) ==
  \A g \in Groups : \E o \in Owners : RunOf[o] = r /\ exec[o][g] = "ended"
Quiet(r) == ~LiveRun(r) /\ (Over(r) \/ AllEnded(r))

PastGate == {"unlink", "inputs", "delete"}

GatePassed ==
  \A a \in Actors :
    sweep[a].pc \in PastGate => sweep[a].found = {} \/ Quiet(sweep[a].run)

GateInv == GateFinds /\ GatePassed

\* A sweep that got through its discovery found no row of anybody else.
NamespaceIsOurs ==
  \A a \in Actors :
    sweep[a].pc \in {"gate"} \cup PastGate => foreign[sweep[a].run] = {}

\* An owner's teardown runs while the owner waits for it.
SweepIsOwned ==
  \A o \in Owners :
    sweep[o].pc # "off" => own[o].pc = "sweep" /\ sweep[o].run = RunOf[o]

LockInv == LockCoversProjection /\ SweepIsOwned

------------------------------------------------------------------------------
(* What holds of runs that keep apart: a run id is started once, every     *)
(* cleaner has the record of the run it sweeps, and a request whose client *)
(* gave up has been applied or never will be.                              *)

OneOwnerEach == \A o, p \in Owners : RunOf[o] = RunOf[p] => o = p

RunsApart == OneOwnerEach /\ RemoteCleaners = {} /\ ~LateLanding

\* Where an owner stands that will not touch its run again.
Left == {"report", "finished", "refused", "dead"}

(***************************************************************************)
(* The record says what its owner is doing: there is none before open, it  *)
(* is terminal only when the owner has left, and it says projecting and    *)
(* tearing-down while that happens.                                        *)
(***************************************************************************)
RecordFollows ==
  \A o \in Owners :
    LET state == rec[RunOf[o]].state IN
    /\ own[o].pc \in {"scan", "open"} => state = "absent"
    /\ own[o].pc \notin {"scan", "open"} \cup Left => state \in OpenRunStates
    /\ own[o].pc \in Projection => state = "projecting"
    /\ own[o].pc \in {"count", "sweep", "recover", "compensate", "readback",
                      "settle"} => state = "tearing-down"

\* A cleaner with a record takes over what is over and its owner has left.
CleanersWait ==
  \A c \in Cleaners :
    cl[c].pc # "idle" /\ cl[c].known # "absent" =>
      /\ Over(cl[c].run)
      /\ \A o \in Owners : RunOf[o] = cl[c].run => own[o].pc \in Left

\* Inductive when a run id is started once, whoever cleans up.
RecordInv == RecordFollows /\ CleanersWait

CleanersKnow ==
  \A c \in Cleaners : cl[c].pc # "idle" => cl[c].known # "absent"

CleanersSweep ==
  \A c \in Cleaners :
    sweep[c].pc # "off" => cl[c].pc = "sweep" /\ sweep[c].run = cl[c].run

\* No POST is on its way whose client gave up on it.
NothingLate == \A r \in Runs : late[r] = {}

ApartInv == RecordInv /\ CleanersKnow /\ CleanersSweep /\ NothingLate

(***************************************************************************)
(* Only an ephemeral run that is on record and got as far as projecting    *)
(* has rows; what a projection has made stays until its teardown.          *)
(***************************************************************************)
RowsAreProjected ==
  \A o \in Owners :
    /\ own[o].pc \in Projection => own[o].attempted
    /\ own[o].pc \in {"namespace", "create"} => Ephemeral(RunOf[o])
    /\ rows[RunOf[o]] # {} =>
         own[o].attempted /\ Ephemeral(RunOf[o]) /\ rec[RunOf[o]] # Absent
    /\ own[o].pc \in {"namespace", "create"} => made[o] \subseteq rows[RunOf[o]]
    /\ own[o].pc \in {"confirm", "enter"} \cup TriggerLoop =>
         Suite \in rows[RunOf[o]]

\* A test hangs off the suite, links and steps off a test, inputs off a step.
RowsHang ==
  \A r \in Runs : \A p \in rows[r] :
    /\ p[1] = "test" => Suite \in rows[r]
    /\ p[1] \in {"link", "step"} => <<"test", p[2]>> \in rows[r]
    /\ p[1] = "input" => <<"step", p[2]>> \in rows[r]

\* A sweep has found every row of the kinds it has looked for.
SweepFindsAll ==
  \A a \in Actors :
    LET s == sweep[a]
        found(k) == OfKind(rows[s.run], k) \subseteq s.found
    IN /\ s.pc \in {"suites", "links", "gate"} \cup PastGate => found("test")
       /\ s.pc \in {"links", "gate"} \cup PastGate => found("suite")
       /\ s.pc \in {"gate"} \cup PastGate => found("link")
       /\ s.pc \in {"inputs", "delete"} => found("step")
       /\ s.pc = "delete" => found("input")
       /\ s.pc = "ok" => rows[s.run] = {}

RowsInv == RowsAreProjected /\ RowsHang /\ SweepFindsAll

(***************************************************************************)
(* From a successful sweep on nothing of the run is left, and who calls    *)
(* the run done has read back that no write of it is unsettled.            *)
(***************************************************************************)
OwnerLeavesNothing ==
  \A o \in Owners :
    LET r == RunOf[o] IN
    /\ \/ own[o].pc \in {"recover", "compensate", "readback"}
       \/ own[o].pc = "settle" /\ own[o].goal = "done"
       => rows[r] = {}
    /\ own[o].pc = "settle" /\ own[o].goal = "done" => NothingDue(r)

CleanerLeavesNothing ==
  \A c \in Cleaners :
    cl[c].pc = "compensate" =>
      rows[cl[c].run] = {} /\ Unsettled(cl[c].run) \subseteq cl[c].todo

\* Nobody creates for a run any more once a write of it is compensated.
CompensatedIsOver ==
  \A r \in Runs, w \in Writes :
    entry[r][w] = "compensated" =>
      /\ rows[r] = {}
      /\ \A o \in Owners : RunOf[o] = r =>
           own[o].pc \in {"compensate", "readback", "settle"} \cup Left

DoneLeavesNothing ==
  \A r \in Runs :
    rec[r].state = "done" => rows[r] = {} /\ NothingDue(r)

\* While something of a run executes its suite is there.
SuiteIsUnderLiveRun == \A r \in Runs : LiveRun(r) => Suite \in rows[r]

SettledInv ==
  /\ OwnerLeavesNothing /\ CleanerLeavesNothing /\ CompensatedIsOver
  /\ DoneLeavesNothing /\ SuiteIsUnderLiveRun

\* The reporters are closed before the teardown starts.
ClosedFirst ==
  \A o \in Owners : own[o].pc \in {"teardown", "count", "sweep"} => own[o].closed

==============================================================================
