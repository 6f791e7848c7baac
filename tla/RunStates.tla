------------------------------ MODULE RunStates ------------------------------
(***************************************************************************)
(* The run state machine and the ledger-entry lifecycle as pure rules:     *)
(* tessera/packages/ledger/src/stateMachine.ts.  Every module that reads   *)
(* or writes a run record takes its vocabulary from here.                  *)
(***************************************************************************)

RunState ==
  {"planned", "provisioning", "projecting", "running", "collecting",
   "tearing-down", "done", "failed", "abandoned"}

\* Terminal for the owning process; cleanup re-enters failed and abandoned.
TerminalRunStates == {"done", "failed", "abandoned"}

OpenRunStates == RunState \ TerminalRunStates

RunStateTransitions ==
  [ s \in RunState |->
      CASE s = "planned"      -> {"provisioning", "done", "tearing-down",
                                  "abandoned"}
        [] s = "provisioning" -> {"projecting", "tearing-down", "abandoned"}
        [] s = "projecting"   -> {"running", "tearing-down", "abandoned"}
        [] s = "running"      -> {"collecting", "abandoned"}
        [] s = "collecting"   -> {"tearing-down", "abandoned"}
        [] s = "tearing-down" -> {"done", "failed", "abandoned"}
        [] s = "done"         -> {}
        [] OTHER              -> {"tearing-down"} ]

EntryState == {"intended", "applied", "compensated"}

(***************************************************************************)
(* Two lifecycles reach the run pipeline.  The third one the ledger knows, *)
(* repo-only, is never driven by it.                                       *)
(***************************************************************************)
Lifecycle == {"ephemeral", "persistent"}

(***************************************************************************)
(* run.json.  "ran" is the presence of the write-once runningAt stamp; the *)
(* records of this model are all kept by a ledger that tracks it.          *)
(***************************************************************************)
Absent == [state |-> "absent", ran |-> FALSE, lifecycle |-> "ephemeral"]

RunRecord ==
  [state : RunState, ran : BOOLEAN, lifecycle : Lifecycle]

\* The proof cleanup may hand the store past its zero-result gate.
NeverReachedRunning(record) == ~record.ran

\* Faulty variant: the transition table is not consulted.
MayTransitionAnywhere(record, to) == record.state \in RunState

(***************************************************************************)
(* ledger.transition: re-asserting the current state is a no-op, any other *)
(* move is held to the table, and planned -> done is the repo-only short   *)
(* circuit.  The stamp is set by the first entry into running, never       *)
(* cleared.                                                                *)
(***************************************************************************)
MayTransition(record, to) ==
  \/ record.state = to
  \/ /\ record.state \in RunState
     /\ to \in RunStateTransitions[record.state]
     /\ ~(record.state = "planned" /\ to = "done")

\* Faulty variant: the stamp does not survive the next transition.
TransitionedForgetting(record, to) ==
  [record EXCEPT !.state = to, !.ran = to = "running"]

Transitioned(record, to) ==
  [record EXCEPT !.state = to, !.ran = @ \/ to = "running"]

==============================================================================
