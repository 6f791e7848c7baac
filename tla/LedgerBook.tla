------------------------------ MODULE LedgerBook ------------------------------
(***************************************************************************)
(* What the intent ledger promises its callers: the entry of a write moves *)
(* one way only, and whatever happens to process and machine it never      *)
(* falls behind what a caller has been told about it.                      *)
(***************************************************************************)
CONSTANT Writes

VARIABLES
  entry,   \* entry[w]: what a reader of the ledger finds
  told     \* told[w]: the most a caller has been told

Stage == {"none", "intended", "applied", "compensated"}

\* b is reachable from a.
Ahead(a, b) ==
  \/ a = b
  \/ a = "none"
  \/ a = "intended" /\ b # "none"
  \/ a = "applied" /\ b = "compensated"

BookInit ==
  /\ entry = [w \in Writes |-> "none"]
  /\ told = [w \in Writes |-> "none"]

Step == {<<"none", "intended">>, <<"intended", "applied">>,
         <<"intended", "compensated">>, <<"applied", "compensated">>}

Advance(w) ==
  /\ \E s \in Stage :
       /\ <<entry[w], s>> \in Step
       /\ entry' = [entry EXCEPT ![w] = s]
  /\ UNCHANGED told

Tell(w) ==
  /\ told' = [told EXCEPT ![w] = entry[w]]
  /\ UNCHANGED entry

\* A crash takes back what nobody was told of.
Forget ==
  /\ \E e \in [Writes -> Stage] :
       /\ \A w \in Writes : Ahead(told[w], e[w]) /\ Ahead(e[w], entry[w])
       /\ entry' = e
  /\ UNCHANGED told

BookNext == Forget \/ \E w \in Writes : Advance(w) \/ Tell(w)

BookSpec == BookInit /\ [][BookNext]_<<entry, told>>

==============================================================================
