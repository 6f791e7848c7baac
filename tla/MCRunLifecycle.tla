---------------------------- MODULE MCRunLifecycle ----------------------------
(* Instances of the run lifecycle for TLC. *)
EXTENDS RunProperties, TLC

CONSTANTS r1, r2, o1, o2, c1, c2

OneOwner   == o1 :> r1
Retry      == o1 :> r1 @@ o2 :> r1
TwoRuns    == o1 :> r1 @@ o2 :> r2

\* Cleaners differ in nothing but their name; under Retry the owners too.
CleanerSymmetry == Permutations({c1, c2})
OwnerSymmetry   == Permutations({o1, o2})

==============================================================================
