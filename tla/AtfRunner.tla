------------------------------ MODULE AtfRunner ------------------------------
(***************************************************************************)
(* One call of the ATF runner's run(): trigger the suites of a projection  *)
(* one after the other, poll each execution until it ends, read what it    *)
(* left (runner-atf: atfRunner.ts, trigger.ts, poll.ts, results.ts).       *)
(*                                                                         *)
(* The results of an execution do not change once it has ended, so all the *)
(* reads of a group (AtfResults) are one step.                             *)
(***************************************************************************)
EXTENDS AtfResults

CONSTANTS
  Tests,            \* the tests of suite 1, 2, ...
  Suites,           \* how many suites the specs are projected onto
  Worlds,           \* what the execution of a suite may leave behind
  MaxPolls          \* maxPolls

VARIABLES
  exec,             \* per suite: its execution on the instance
  pc, group, polls, halted,   \* the locals of run()
  outcome,          \* per test: what is recorded for its spec
  aborted, late     \* ctx.signal; the deadline has passed

vars == <<exec, pc, group, polls, halted, outcome, aborted, late>>
outside == <<exec, aborted, late>>

AllTests == UNION {Tests[g] : g \in 1 .. Suites}

Init ==
  /\ exec = [g \in 1 .. Suites |-> "none"]
  /\ pc = "loop" /\ group = 1 /\ polls = 0 /\ halted = FALSE
  /\ outcome = [t \in AllTests |-> "none"]
  /\ aborted = FALSE /\ late = FALSE

Record(tests, result(_)) ==
  outcome' = [t \in AllTests |-> IF t \in tests THEN result(t) ELSE outcome[t]]

(***************************************************************************)
(* The loop over the suites.                                               *)
(***************************************************************************)
HaltBefore ==
  /\ pc = "loop" /\ ~halted /\ group <= Suites /\ (aborted \/ late)
  /\ halted' = TRUE
  /\ UNCHANGED <<outside, pc, group, polls, outcome>>

(* triggerSuite: the POST is answered with an execution to poll, or fails, *)
(* whether or not it started one, and run() rejects.                       *)
Trigger ==
  /\ pc = "loop" /\ ~halted /\ group <= Suites /\ ~aborted /\ ~late
  /\ \/ exec' = [exec EXCEPT ![group] = "live"] /\ pc' \in {"poll", "rejected"}
     \/ pc' = "rejected" /\ UNCHANGED exec
  /\ polls' = 0
  /\ UNCHANGED <<group, halted, outcome, aborted, late>>

(* The specs a halted run has recorded nothing for.                        *)
Pending == {t \in AllTests : outcome[t] = "none"}

Resolve ==
  /\ pc = "loop" /\ (halted \/ group > Suites)
  /\ pc' = "resolved"
  /\ Record(IF halted THEN Pending ELSE {}, LAMBDA t : "waiting-timeout")
  /\ UNCHANGED <<outside, group, polls, halted>>

(***************************************************************************)
(* pollUntilTerminal.                                                      *)
(***************************************************************************)
(* Faulty variant: the loop trusts the instance to end.                    *)
StopsOnAbort == aborted

(* Why the loop gives up before it asks again.                             *)
Stops == aborted \/ late \/ polls >= MaxPolls

(* Faulty variant: the next suite gets its turn.                           *)
GiveUpAndGoOn ==
  /\ pc' = "loop" /\ group' = group + 1
  /\ Record(Tests[group], LAMBDA t : "waiting-timeout")
  /\ UNCHANGED <<polls, halted>>

(* The execution is left alone and none after it is triggered.             *)
GiveUp ==
  /\ pc' = "loop" /\ halted' = TRUE
  /\ Record(Tests[group], LAMBDA t : "waiting-timeout")
  /\ UNCHANGED <<polls, group>>

Ask ==
  /\ pc = "poll" /\ ~Stops
  /\ pc' = "asked"
  /\ UNCHANGED <<outside, group, polls, halted, outcome>>

StopAsking ==
  /\ pc = "poll" /\ Stops
  /\ GiveUp
  /\ UNCHANGED outside

(* The answer ends the wait if the execution has ended, however late.      *)
Answer ==
  /\ pc = "asked"
  /\ IF exec[group] = "ended"
     THEN pc' = "report" /\ UNCHANGED <<group, polls, halted, outcome>>
     ELSE IF aborted \/ late
          THEN GiveUp
          ELSE /\ pc' = "poll"
               /\ polls' = IF polls < MaxPolls THEN polls + 1 ELSE polls
               /\ UNCHANGED <<group, halted, outcome>>
  /\ UNCHANGED outside

(* A failed request, an answer that cannot be parsed, a status nobody      *)
(* knows.                                                                  *)
Reject ==
  /\ pc = "asked"
  /\ pc' = "rejected"
  /\ UNCHANGED <<outside, group, polls, halted, outcome>>

(* Each spec of the suite gets what the results say; run() rejects rather  *)
(* than report on results it cannot read.                                  *)
Report ==
  /\ pc = "report"
  /\ \E w \in Worlds[group] :
       IF Unreadable(w)
       THEN pc' = "rejected" /\ UNCHANGED <<group, outcome>>
       ELSE /\ pc' = "loop" /\ group' = group + 1
            /\ Record(Tests[group], LAMBDA t : ResultOf(w, Tests[group], t))
  /\ UNCHANGED <<outside, polls, halted>>

(* A request of the reads fails: run() rejects.                            *)
RejectReport ==
  /\ pc = "report"
  /\ pc' = "rejected"
  /\ UNCHANGED <<outside, group, polls, halted, outcome>>

(***************************************************************************)
(* The instance ends an execution, or never does; the caller aborts; time  *)
(* passes.                                                                 *)
(***************************************************************************)
End(g) ==
  /\ exec[g] = "live"
  /\ exec' = [exec EXCEPT ![g] = "ended"]
  /\ UNCHANGED <<pc, group, polls, halted, outcome, aborted, late>>

Returned == pc \in {"resolved", "rejected"}

Abort ==
  /\ ~Returned /\ ~aborted /\ aborted' = TRUE
  /\ UNCHANGED <<exec, pc, group, polls, halted, outcome, late>>

Expire ==
  /\ ~Returned /\ ~late /\ late' = TRUE
  /\ UNCHANGED <<exec, pc, group, polls, halted, outcome, aborted>>

Run == HaltBefore \/ Trigger \/ Resolve \/ Ask \/ StopAsking \/ Answer \/ Reject
       \/ Report \/ RejectReport
Next == Run \/ (\E g \in 1 .. Suites : End(g)) \/ Abort \/ Expire

Spec == Init /\ [][Next]_vars

(* run()'s own steps, requests being bounded by a timeout; not the         *)
(* instance's.                                                             *)
FairSpec == Spec /\ WF_vars(Run)

RunnerTypeOK ==
  /\ exec \in [1 .. Suites -> {"none", "live", "ended"}]
  /\ pc \in {"loop", "poll", "asked", "report", "resolved", "rejected"}
  /\ group \in 1 .. Suites + 1 /\ polls \in 0 .. MaxPolls
  /\ {halted, aborted, late} \subseteq BOOLEAN
  /\ outcome \in [AllTests -> {"none", "pass", "fail", "error", "skipped", "missing",
                               "waiting-timeout"}]

(***************************************************************************)
(* Properties.                                                             *)
(***************************************************************************)
(* At most one execution of a call is under way; a call that resolves has  *)
(* a result for every spec: "waiting-timeout" for those of the suite it    *)
(* gave up on and of all later ones, what was read for all before.         *)
EverySpecAccounted ==
  /\ Cardinality({g \in 1 .. Suites : exec[g] = "live"}) <= 1
  /\ pc = "resolved" =>
       \A g \in 1 .. Suites : \A t \in Tests[g] :
         /\ outcome[t] # "none"
         /\ outcome[t] = "waiting-timeout" <=> g >= group

(* run() returns although executions may never end.                        *)
RunReturns == <>Returned
=============================================================================
