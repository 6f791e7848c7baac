------------------------ MODULE MCCollaborationLock ------------------------
(* An author on each of two hosts, and a process on the first host that    *)
(* only reclaims.                                                          *)
EXTENDS CollaborationLock

CONSTANTS a1, a2, a3

TwoHosts == [p \in {a1, a2, a3} |-> IF p = a3 THEN "h2" ELSE "h1"]
Acquires == [p \in {a1, a2, a3} |-> IF p = a2 THEN 0 ELSE 1]
=============================================================================
