------------------------------ MODULE Verdict -------------------------------
(***************************************************************************)
(* The reducer that turns the outcomes of a run into GO, NO_GO or          *)
(* INCONCLUSIVE (core/aggregateVerdict.ts).  Outcomes arrive in any order, *)
(* repeated, for specs nobody planned and with values nobody knows; a      *)
(* confirm token exists on GO alone.                                       *)
(***************************************************************************)
EXTENDS Naturals, Sequences

CONSTANTS
  Plans,        \* planned checklists: sequences of specs, with repetitions
  Demands,      \* the sets of specs that impact analysis demands
  Reported,     \* specs outcomes are reported for
  RawOutcomes,  \* outcomes runners report, known ones and others
  Coverages,    \* [confirmed, impacted, floor], the floor in hundredths
  MaxOutcomes   \* bound: outcomes of a run

NoVerdict == [status |-> "none", token |-> FALSE, overridden |-> FALSE]

VARIABLES
  planned, demanded, overrides, coverage,  \* the input fixed beforehand
  outcomes,                                \* what the runners have reported
  verdict

vars == <<planned, demanded, overrides, coverage, outcomes, verdict>>

Init ==
  /\ planned \in Plans
  /\ demanded \in Demands
  /\ overrides \in {<<>>, <<"allow-skipped", "allow-skipped">>, <<"allow-failed">>}
  /\ coverage \in Coverages
  /\ outcomes = <<>>
  /\ verdict = NoVerdict

-----------------------------------------------------------------------------
Planned == {planned[i] : i \in DOMAIN planned}
Raws(s) == {outcomes[i].raw : i \in {j \in DOMAIN outcomes : outcomes[j].spec = s}}

(* Faulty variant: the last outcome of a spec wins.                        *)
RawOfLast(s) ==
  LET mine == SelectSeq(outcomes, LAMBDA o : o.spec = s)
  IN IF mine = <<>> THEN "missing" ELSE mine[Len(mine)].raw

(* Outcomes that disagree are flaky; no outcome is missing.                *)
Raw(s) ==
  IF Raws(s) = {} THEN "missing"
  ELSE IF \E a, b \in Raws(s) : a # b THEN "flaky" ELSE CHOOSE raw \in Raws(s) : TRUE

(* The resolution table; what it does not know resolves like an error.     *)
StatusOf(raw) ==
  IF raw = "pass" THEN "pass"
  ELSE IF raw \in {"fail", "missing"} THEN "fail" ELSE "inconclusive"

AllowSkipped == \E i \in DOMAIN overrides : overrides[i] = "allow-skipped"
Overridden(s) == Raw(s) = "skipped" /\ AllowSkipped
Blocking(s, status) == StatusOf(Raw(s)) = status /\ ~Overridden(s)

ParityBreach == Planned # demanded

BelowFloor ==
  /\ coverage.floor > 0 /\ coverage.impacted > 0
  /\ coverage.confirmed * 100 < coverage.floor * coverage.impacted

Status ==
  IF Planned = {} \/ ParityBreach THEN "INCONCLUSIVE"
  ELSE IF \E s \in Planned : Blocking(s, "fail") THEN "NO_GO"
  ELSE IF (\E s \in Planned : Blocking(s, "inconclusive")) \/ BelowFloor
       THEN "INCONCLUSIVE" ELSE "GO"

AggregateVerdict ==
  /\ verdict = NoVerdict
  /\ verdict' = [status |-> Status, token |-> Status = "GO",
                 overridden |-> Status = "GO" /\ \E s \in Planned : Overridden(s)]
  /\ UNCHANGED <<planned, demanded, overrides, coverage, outcomes>>

Report(s, raw) ==
  /\ verdict = NoVerdict /\ Len(outcomes) < MaxOutcomes
  /\ outcomes' = Append(outcomes, [spec |-> s, raw |-> raw])
  /\ UNCHANGED <<planned, demanded, overrides, coverage, verdict>>

Next == AggregateVerdict \/ \E s \in Reported, raw \in RawOutcomes : Report(s, raw)

Spec == Init /\ [][Next]_vars

-----------------------------------------------------------------------------
Only(s, raw) ==
  /\ \E i \in DOMAIN outcomes : outcomes[i].spec = s
  /\ \A i \in DOMAIN outcomes : outcomes[i].spec = s => outcomes[i].raw = raw

(* A GO, and the token with it, is earned outcome by outcome: every        *)
(* demanded spec was planned and nothing else, and nothing that was ever   *)
(* reported of one of them, in whatever order and however often, says      *)
(* anything but pass, or all of it says skipped and the caller allowed     *)
(* that, which the token then shows.  The override lifts no NO_GO.         *)
VerdictEarned ==
  verdict # NoVerdict =>
    /\ verdict.token <=> verdict.status = "GO"
    /\ verdict.token =>
         /\ demanded # {} /\ demanded = Planned
         /\ \A s \in demanded : Only(s, "pass") \/ (Only(s, "skipped") /\ AllowSkipped)
         /\ verdict.overridden <=> \E s \in demanded : Only(s, "skipped")
         /\ coverage.impacted > 0 =>
              coverage.confirmed * 100 >= coverage.floor * coverage.impacted
    /\ verdict.status = "NO_GO" <=>
         /\ demanded = Planned
         /\ \E s \in demanded : Only(s, "fail") \/ Raws(s) \subseteq {"missing"}
=============================================================================
