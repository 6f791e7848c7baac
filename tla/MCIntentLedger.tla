---------------------------- MODULE MCIntentLedger ----------------------------
(* Instances of the intent ledger for TLC. *)
EXTENDS LedgerProperties, TLC

\* A full disk; processes killed on a failing disk; machines that fail.
AllKinds == {{"short"}, {"save", "sync", "kill"}, {"save", "power"}}

FullDisk == {{"short"}}

KeySymmetry == Permutations(Keys)

==============================================================================
