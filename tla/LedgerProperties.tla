--------------------------- MODULE LedgerProperties ---------------------------
(***************************************************************************)
(* What the log of a run must stay, and what its callers may rely on.      *)
(***************************************************************************)
EXTENDS IntentLedger

(***************************************************************************)
(* durability.ts, repairLogTail: the next append starts on a record        *)
(* boundary, so a partial record never ends up in the middle of the log,   *)
(* where every reader would refuse the whole run as corrupt.               *)
(***************************************************************************)
NeverSpliced == Replayable(Records)

\* As long as no append fails half-way in a process that goes on.
LogReadable == "short" \notin env => Replayable(Records)

(***************************************************************************)
(* One entry per idempotency key, whatever calls were retried and however  *)
(* they ended, and entries are numbered without gaps.                      *)
(***************************************************************************)
KeysOpenOnce ==
  /\ \A k \in Keys : Cardinality(Openings(Records, k)) <= 1
  /\ { Records[i].seq : i \in 1..Len(Records) } \ {Garbage.seq}
       = 1..Highest(Records)

(***************************************************************************)
(* durability.ts 234: the repair of a tail removes nothing that a caller   *)
(* was told is durable, and no crash does.  Every record an fsync has      *)
(* covered stays where it is in the log, whatever goes wrong.              *)
(***************************************************************************)
DurableIsKept ==
  [][\A i \in 1..synced :
       lines[i] # Garbage => i <= Len(lines') /\ lines'[i] = lines[i]]_vars

Book ==
  INSTANCE LedgerBook WITH
    Writes <- Keys,
    entry  <- [k \in Keys |-> KeyNow(Records, k)]

\* The files keep the promise of LedgerBook.
KeepsBook == Book!BookSpec

==============================================================================
