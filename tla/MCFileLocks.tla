---------------------------- MODULE MCFileLocks ----------------------------
(* Instances of the locks for TLC. *)
EXTENDS FileLocks

CONSTANTS b1, b2, b3, b4,    \* build wrappers
          p1, p2,            \* benchmark runs
          a1, a2             \* scripts on the instance

(* Three builds of one workspace, and one that the first build starts.     *)
Builds == {b1, b2, b3, b4}
Parents == [w \in Builds |-> IF w = b4 THEN b1 ELSE NoWrapper]

(* Two runs with one catalog of two scripts, the second a baseline.        *)
Runs == {p1, p2}
Ids == [p \in Runs |-> p]
OneRoot == [p \in Runs |-> "ledger"]
OneCatalog == [p \in Runs |-> <<a1, a2>>]
Mutants == [p \in Runs |-> "mutant"]
=============================================================================
