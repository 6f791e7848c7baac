---------------------------- MODULE RunProperties ----------------------------
(***************************************************************************)
(* What the pipeline, the cleanup command and the test store together owe  *)
(* the operator of a runner instance.                                      *)
(***************************************************************************)
EXTENDS RunLifecycle

(***************************************************************************)
(* DEV-17: no row of a run disappears while an execution of that run is    *)
(* still on its way, queued or running on the instance, whoever deletes    *)
(* it and however its trigger was answered.                                *)
(***************************************************************************)
NeverDeleteUnderLiveRun ==
  [][\A r \in Runs : LiveRun(r) => rows[r] \subseteq rows'[r]]_vars

(***************************************************************************)
(* The claim neverTriggered rests on: a record without the runningAt stamp *)
(* belongs to a run that nobody ever triggered.                            *)
(***************************************************************************)
NeverTriggeredIsProof ==
  \A r \in Runs :
    NeverReachedRunning(rec[r]) =>
      \A x \in Executions(r) : exec[x[1]][x[2]] = "none"

(***************************************************************************)
(* Write-ahead: whatever exists of a run on the instance, or may still     *)
(* arrive there, was journalled first.  The suite belongs to every spec.   *)
(***************************************************************************)
WriteAhead ==
  \A r \in Runs :
    /\ \A p \in rows[r] \cup late[r] :
         \A s \in IF p = Suite THEN Specs ELSE {p[2]} :
           entry[r][<<"project", s>>] # "none"
    /\ \A x \in Executions(r) :
         exec[x[1]][x[2]] # "none" => entry[r][<<"trigger", x[2]>>] # "none"

(***************************************************************************)
(* A write the ledger calls compensated has left nothing of the run's      *)
(* namespace behind: teardown sweeps all of it before the first entry is   *)
(* settled.                                                                *)
(***************************************************************************)
CompensatedMeansGone ==
  \A r \in Runs, w \in Writes : entry[r][w] = "compensated" => rows[r] = {}

(***************************************************************************)
(* done hides a run from the scan and tells cleanup that nothing is left:  *)
(* no row of it is on the instance, and unless it was a persistent run no  *)
(* write of it is unsettled.                                               *)
(***************************************************************************)
DoneIsSettled ==
  \A r \in Runs :
    rec[r].state = "done" =>
      /\ rows[r] = {}
      /\ Ephemeral(r) =>
           \A w \in Writes : entry[r][w] \in {"none", "compensated"}

(***************************************************************************)
(* Projection creates the suite first and teardown deletes it last, so     *)
(* the run's other rows never outlive the suite their results hang off.    *)
(***************************************************************************)
SuiteOutlivesTests ==
  \A r \in Runs : OfKind(rows[r], "test") # {} => Suite \in rows[r]

(***************************************************************************)
(* ARCH-24: before an owner deletes its first record every reporter has    *)
(* flushed and the run record says tearing-down.                           *)
(***************************************************************************)
FlushBeforeDelete ==
  \A o \in Owners :
    Doomed(o) # {} =>
      /\ own[o].closed
      /\ rec[RunOf[o]].state = "tearing-down"

(***************************************************************************)
(* A namespace that holds somebody else's row is left alone entirely.      *)
(***************************************************************************)
NoDeleteInSharedNamespace ==
  [][\A r \in Runs : foreign[r] # {} => rows[r] \subseteq rows'[r]]_vars

(***************************************************************************)
(* Of the runs that share a scope and a runner, one at a time is           *)
(* projected or running: from before its first row until its last trigger  *)
(* has settled, an owner holds the projection lock.                        *)
(***************************************************************************)
LockCoversProjection ==
  \A o \in Owners :
    own[o].pc \in {"namespace", "create", "confirm", "enter", "next", "call",
                   "wait", "answered", "abandon", "abandoned"} => lock = o

(***************************************************************************)
(* However many owners a run id is started with, each of its runner groups *)
(* is triggered at most once.                                              *)
(***************************************************************************)
TriggeredOnce ==
  \A r \in Runs, g \in Groups :
    Cardinality({ o \in Owners : RunOf[o] = r /\ exec[o][g] # "none" }) <= 1

(***************************************************************************)
(* The run lifecycle keeps the contract of RunContract.                    *)
(***************************************************************************)
Phase(record) ==
  CASE record.state = "absent"       -> "unused"
    [] record.state = "tearing-down" -> "reclaiming"
    [] record.state = "done"         -> "reclaimed"
    [] record.state \in {"failed", "abandoned"} -> "closed"
    [] OTHER -> "driving"

Contract ==
  INSTANCE RunContract WITH
    Things  <- Rows,
    phase   <- [r \in Runs |-> Phase(rec[r])],
    residue <- rows,
    live    <- [r \in Runs |-> LiveRun(r)]

FulfilsContract == Contract!ContractSpec

(***************************************************************************)
(* While nobody crashes and the ledger works, every run that was opened    *)
(* reaches a terminal state, whatever the instance and the user do.        *)
(***************************************************************************)
RunEnds ==
  \A r \in Runs :
    rec[r].state \in OpenRunStates ~>
      (rec[r].state \in TerminalRunStates \/ crashes > 0)

(***************************************************************************)
(* A failed or abandoned run that cleanup can have evidence for: it never  *)
(* ran, or it was triggered and every trigger it recorded did arrive.      *)
(***************************************************************************)
Reclaimable(r) ==
  /\ Ephemeral(r) /\ foreign[r] = {} /\ crashes = 0
  /\ rec[r].ran => RecordedTriggers(r) > 0
  /\ RecordedTriggers(r) <=
       Cardinality({ x \in Executions(r) : exec[x[1]][x[2]] # "none" })

(***************************************************************************)
(* Cleanup re-enters what failed or was abandoned: an operator who retries *)
(* it does get the run to done.                                            *)
(***************************************************************************)
CleanupConverges ==
  \A r \in Runs :
    (rec[r].state \in {"failed", "abandoned"} /\ Reclaimable(r)) ~>
      (rec[r].state = "done" \/ ~Reclaimable(r))

(***************************************************************************)
(* runState.ts 718 and stateMachine.ts 22: a run whose owner is dead is    *)
(* marked abandoned by the next startup scan, so that cleanup can re-enter *)
(* it.                                                                     *)
(***************************************************************************)
StaleRunIsAbandoned ==
  \A o, p \in Owners :
    (own[o].pc = "dead" /\ own[p].pc = "scan") ~>
      rec[RunOf[o]].state \notin OpenRunStates

==============================================================================
