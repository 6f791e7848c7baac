---------------------------- MODULE Provisioner -----------------------------
(***************************************************************************)
(* Plan and apply of standing infrastructure (provisioner/provisioner.ts)  *)
(* with the doctor it asks before and after (doctor/doctor.ts).  Between   *)
(* any two requests the instance may be changed by others, a write may be  *)
(* reported as done and have no effect, and a plan may be edited before it *)
(* is applied.                                                             *)
(***************************************************************************)
EXTENDS Naturals, Sequences

CONSTANTS
  Preconditions,  \* the doctor's catalogue
  Remedied,       \* those with a recipe, of this catalogue or another
  MaxDrifts       \* bound: changes others make

VARIABLES
  mode,      \* "plan" or "apply"
  required,  \* the preconditions the requested kinds need
  row,       \* the instance: the row behind each precondition, which may
             \* be absent or hidden
  pc,        \* what the provisioner does
  finding,   \* what the doctor has found so far
  todo,      \* findings that plan() has still to look at
  plan,      \* the steps, and the steps its hash was computed from
  edited,    \* was it changed after plan() returned
  applied,   \* steps done
  aborted,   \* the signal
  drifts,    \* changes by others
  sent,      \* history: the writes on the wire, in order
  seen       \* history: preconditions that held at some time since the last

vars == <<mode, required, row, pc, finding, todo, plan, edited, applied,
          aborted, drifts, sent, seen>>

Rows == Preconditions \cup Remedied

Nothing == [p \in Preconditions |-> "none"]
NoPlan == [steps |-> <<>>, hashed |-> <<>>]

Init ==
  /\ mode \in {"plan", "apply"}
  /\ required \in SUBSET Preconditions \ {{}}
  /\ row \in [Rows -> {"true", "false", "absent"}]
  /\ pc = "diagnose" /\ finding = Nothing /\ todo = {} /\ plan = NoPlan
  /\ edited = FALSE /\ applied = 0 /\ aborted = FALSE /\ drifts = 0
  /\ sent = <<>> /\ seen = {}

Holds(p) == row[p] = "true"

-----------------------------------------------------------------------------
(* diagnose: the probes run at once and each is unknown when it throws,    *)
(* answers nonsense, takes too long or is aborted; once aborted they are   *)
(* not even sent.                                                          *)
Verdicts(p) ==
  {"unknown"} \cup IF aborted THEN {} ELSE {IF Holds(p) THEN "ready" ELSE "not-ready"}

Probe(p) ==
  /\ pc \in {"diagnose", "rediagnose"} /\ finding[p] = "none"
  /\ \E v \in Verdicts(p) : finding' = [finding EXCEPT ![p] = v]
  /\ UNCHANGED <<mode, required, row, pc, todo, plan, edited, applied,
                 aborted, drifts, sent, seen>>

Diagnosed == \A p \in Preconditions : finding[p] # "none"

(* plan(): the required findings that are not ready, one at a time.        *)
Consider ==
  /\ pc = "diagnose" /\ Diagnosed
  /\ pc' = "recipes"
  /\ todo' = {p \in required : finding[p] # "ready"}
  /\ UNCHANGED <<mode, required, row, finding, plan, edited, applied,
                 aborted, drifts, sent, seen>>

StepFor(p) == [precondition |-> p, row |-> p, write |-> "recipe"]

(* A recipe plans a write to the row that answers it now; an absent row,   *)
(* one that cannot be read and a finding without a recipe are blockers.    *)
Recipe(p) ==
  /\ pc = "recipes" /\ p \in todo
  /\ todo' = todo \ {p}
  /\ plan' \in IF p \in Remedied /\ row[p] # "absent"
               THEN {plan, [plan EXCEPT !.steps = Append(@, StepFor(p))]}
               ELSE {plan}
  /\ UNCHANGED <<mode, required, row, pc, finding, edited, applied,
                 aborted, drifts, sent, seen>>

Planned ==
  /\ pc = "recipes" /\ todo = {}
  /\ plan' = [plan EXCEPT !.hashed = plan.steps]
  /\ pc' = "planned"
  /\ UNCHANGED <<mode, required, row, finding, todo, edited, applied,
                 aborted, drifts, sent, seen>>

-----------------------------------------------------------------------------
(* A plan that is not what plan() returned: a step doubled, dropped, of    *)
(* another catalogue, with a payload of its own or for another row of the  *)
(* table; the hash left alone or computed again, which anybody can do.     *)
Edits(p) ==
  {<<>>} \cup {<<[StepFor(p) EXCEPT !.row = r]>> : r \in Rows} \cup
  {<<[StepFor(p) EXCEPT !.write = "other"]>>, <<StepFor(p), StepFor(p)>>}

Edit(p) ==
  /\ pc = "planned" /\ ~edited
  /\ edited' = TRUE
  /\ \E steps \in Edits(p) :
       plan' \in {[plan EXCEPT !.steps = steps], [steps |-> steps, hashed |-> steps]}
  /\ UNCHANGED <<mode, required, row, pc, finding, todo, applied,
                 aborted, drifts, sent, seen>>

(* Faulty variant: the hash alone is checked.                              *)
TrustedByHash(pl) == pl.hashed = pl.steps

(* whyPlanIsUntrusted: own recipe, its table and payload, no row twice, a  *)
(* hash of these steps; which row of the table is not asked.               *)
Trusted(pl) ==
  /\ \A i \in DOMAIN pl.steps :
       /\ pl.steps[i].precondition \in Remedied /\ pl.steps[i].write = "recipe"
       /\ \A j \in DOMAIN pl.steps : i # j => pl.steps[i].row # pl.steps[j].row
  /\ pl.hashed = pl.steps

Begin ==
  /\ pc = "planned"
  /\ pc' = IF mode = "apply" /\ Trusted(plan) /\ ~aborted THEN "write" ELSE "refused"
  /\ UNCHANGED <<mode, required, row, finding, todo, plan, edited, applied,
                 aborted, drifts, sent, seen>>

StopWriting ==
  /\ pc = "write" /\ aborted /\ applied < Len(plan.steps)
  /\ pc' = "failed"
  /\ UNCHANGED <<mode, required, row, finding, todo, plan, edited, applied,
                 aborted, drifts, sent, seen>>

(* One updateRecord: it may take effect or not, and be answered or not.    *)
Write ==
  /\ pc = "write" /\ ~aborted /\ applied < Len(plan.steps)
  /\ LET step == plan.steps[applied + 1] IN
     /\ sent' = Append(sent, step)
     /\ row' \in {row, [row EXCEPT ![step.row] = "true"]}
     /\ seen' = {p \in Rows : row'[p] = "true"}
  /\ \/ applied' = applied + 1 /\ UNCHANGED pc
     \/ pc' = "failed" /\ UNCHANGED applied
  /\ UNCHANGED <<mode, required, finding, todo, plan, edited, aborted, drifts>>

(* Nothing written, nothing to verify.                                     *)
Written ==
  /\ pc = "write" /\ applied = Len(plan.steps)
  /\ pc' = IF applied = 0 THEN "applied" ELSE "rediagnose"
  /\ finding' = Nothing
  /\ UNCHANGED <<mode, required, row, todo, plan, edited, applied,
                 aborted, drifts, sent, seen>>

(* Faulty variant: only an answer that says so contradicts a write.        *)
ConfirmedUnlessDenied(p) == p \in Preconditions => finding[p] # "not-ready"

(* A finding that is not there is no confirmation.                         *)
Confirmed(p) == p \in Preconditions /\ finding[p] = "ready"

Verify ==
  /\ pc = "rediagnose" /\ Diagnosed
  /\ pc' = IF \A i \in DOMAIN plan.steps : Confirmed(plan.steps[i].precondition)
           THEN "applied" ELSE "unconfirmed"
  /\ UNCHANGED <<mode, required, row, finding, todo, plan, edited, applied,
                 aborted, drifts, sent, seen>>

-----------------------------------------------------------------------------
Over == pc \in {"refused", "failed", "applied", "unconfirmed"}

Drift(p, value) ==
  /\ ~Over /\ drifts < MaxDrifts /\ row[p] # value
  /\ drifts' = drifts + 1
  /\ row' = [row EXCEPT ![p] = value]
  /\ seen' = IF value = "true" THEN seen \cup {p} ELSE seen
  /\ UNCHANGED <<mode, required, pc, finding, todo, plan, edited, applied, aborted, sent>>

Abort ==
  /\ ~Over /\ ~aborted
  /\ aborted' = TRUE
  /\ UNCHANGED <<mode, required, row, pc, finding, todo, plan, edited, applied,
                 drifts, sent, seen>>

Next ==
  \/ Consider \/ Planned \/ Begin \/ StopWriting \/ Write \/ Written \/ Verify \/ Abort
  \/ \E p \in Preconditions : Probe(p) \/ Recipe(p)
  \/ \E p \in Rows :
       \/ Edit(p)
       \/ \E value \in {"true", "false", "absent"} : Drift(p, value)

Spec == Init /\ [][Next]_vars

-----------------------------------------------------------------------------
(* What apply tells its caller is what has happened, whatever others have  *)
(* done to the instance meanwhile: a refusal wrote nothing; a failure      *)
(* after k steps sent those k and at most one more; and on success every   *)
(* step was sent once, and each remedied precondition has really held at   *)
(* some time after the last write.  Nothing but a recipe's own write is    *)
(* ever sent, and no row twice.                                            *)
ToldAsWritten ==
  /\ pc = "refused" => sent = <<>>
  /\ pc = "failed" => Len(sent) \in {applied, applied + 1}
  /\ pc = "applied" =>
       /\ sent = plan.steps
       /\ \A i \in DOMAIN sent : sent[i].precondition \in seen
  /\ \A i \in DOMAIN sent : sent[i].write = "recipe"
  /\ \A i, j \in DOMAIN sent : i # j => sent[i].row # sent[j].row
=============================================================================
