---------------------------- MODULE LedgerClaims ----------------------------
(***************************************************************************)
(* The inductive invariants behind the properties of LedgerProperties: how *)
(* the lines of a log are numbered, which line the call in progress is     *)
(* about to append, and where a torn record may stand.                     *)
(***************************************************************************)
EXTENDS LedgerProperties

(***************************************************************************)
(* Entries are numbered from 1 on in the order in which they are opened.   *)
(* What holds of a log holds of its beginnings: a power loss leaves one.   *)
(***************************************************************************)
Numbered(s) ==
  \A i \in 1..Len(s) :
    /\ s[i].seq \in 0..i
    /\ \A m \in 1..s[i].seq : \E j \in 1..i : s[j].seq = m

OpensOnce(s) ==
  \A i, j \in 1..Len(s) :
    IsOpening(s[i]) /\ IsOpening(s[j]) /\ s[i].key = s[j].key => i = j

Sound(s) == Numbered(s) /\ OpensOnce(s)

\* l is the next line of a log with the records s.
Fits(s, l) == Replayable(Append(s, l)) /\ Sound(Append(s, l))

(***************************************************************************)
(* The call in progress has judged by the records there are now, whatever  *)
(* the repair makes of the lines in between.                               *)
(***************************************************************************)
SoundInv ==
  /\ Sound(lines)
  /\ call.pc \in {"repair", "append"} => Fits(Records, call.line)
  /\ call.pc \in {"append", "sync", "save"} => repaired

(***************************************************************************)
(* While no append fails half-way a tail is torn by a crash only, and the  *)
(* repair of the next process comes before its first append: what does not *)
(* parse is at the end, and there is one piece of it at most.              *)
(***************************************************************************)
OneTail ==
  "short" \notin env =>
    /\ Replayable(Records)
    /\ tail \/ repaired => lines = Records
    /\ repaired => ~tail

(***************************************************************************)
(* An environment in which the machine loses power is one in which nobody  *)
(* is killed and no fsync fails: otherwise the next call answers from a    *)
(* line that is in the file and not yet on the disk.                       *)
(***************************************************************************)
PowerAlone == \A e \in Environments : "power" \in e => "sync" \notin e /\ "kill" \notin e

(***************************************************************************)
(* Wherever a power loss may cut the log, it says as much of every write   *)
(* as its caller was told and no more than it says now; it says the same   *)
(* unless a call is waiting for its fsync.                                 *)
(***************************************************************************)
CutKeepsPromise ==
  "power" \in env =>
    \A n \in synced..Len(lines), k \in Keys :
      LET cut == KeyNow(SubSeq(lines, 1, n), k)
          now == KeyNow(lines, k)
      IN /\ Book!Ahead(told[k], cut) /\ Book!Ahead(cut, now)
         /\ call.pc # "sync" => cut = now

=============================================================================
