----------------------------- MODULE RunContract -----------------------------
(***************************************************************************)
(* What a run promises the operator of the runner instance, whatever       *)
(* fails on the way.  A run puts things on the instance and executes only  *)
(* while it is driven; things go away only after the driving is over and   *)
(* while nothing executes; and a run that is called reclaimed has left     *)
(* nothing, executes nothing, and stays that way.                          *)
(***************************************************************************)
EXTENDS Naturals

CONSTANTS Runs, Things

VARIABLES
  phase,     \* phase[r]: where run r stands
  residue,   \* residue[r]: what r has on the instance
  live       \* live[r]: does the instance execute something of r?

contractVars == <<phase, residue, live>>

Phases == {"unused", "driving", "reclaiming", "closed", "reclaimed"}

ContractTypeOK ==
  /\ phase \in [Runs -> Phases]
  /\ residue \in [Runs -> SUBSET Things]
  /\ live \in [Runs -> BOOLEAN]

ContractInit ==
  /\ phase = [r \in Runs |-> "unused"]
  /\ residue = [r \in Runs |-> {}]
  /\ live = [r \in Runs |-> FALSE]

PhaseChanges ==
  {<<"unused", "driving">>, <<"driving", "reclaiming">>, <<"driving", "closed">>,
   <<"reclaiming", "closed">>, <<"closed", "reclaiming">>}

ChangePhase(r) ==
  /\ \E p \in Phases :
       /\ <<phase[r], p>> \in PhaseChanges
       /\ phase' = [phase EXCEPT ![r] = p]
  /\ UNCHANGED <<residue, live>>

Reclaim(r) ==
  /\ phase[r] = "reclaiming"
  /\ residue[r] = {}
  /\ ~live[r]
  /\ phase' = [phase EXCEPT ![r] = "reclaimed"]
  /\ UNCHANGED <<residue, live>>

Grow(r) ==
  /\ phase[r] = "driving"
  /\ \E t \in Things : residue' = [residue EXCEPT ![r] = @ \cup {t}]
  /\ UNCHANGED <<phase, live>>

Shrink(r) ==
  /\ phase[r] \in {"reclaiming", "closed"}
  /\ ~live[r]
  /\ \E t \in Things : residue' = [residue EXCEPT ![r] = @ \ {t}]
  /\ UNCHANGED <<phase, live>>

Launch(r) ==
  /\ phase[r] = "driving"
  /\ live' = [live EXCEPT ![r] = TRUE]
  /\ UNCHANGED <<phase, residue>>

End(r) ==
  /\ live' = [live EXCEPT ![r] = FALSE]
  /\ UNCHANGED <<phase, residue>>

ContractNext ==
  \E r \in Runs :
    \/ ChangePhase(r) \/ Reclaim(r)
    \/ Grow(r) \/ Shrink(r) \/ Launch(r) \/ End(r)

ContractSpec == ContractInit /\ [][ContractNext]_contractVars

==============================================================================
