------------------------------- MODULE LogFile -------------------------------
(***************************************************************************)
(* An append-only JSONL log as the ledger package keeps it: one record per *)
(* line, a last record without its newline is a torn tail                  *)
(* (ledger/src/durability.ts), and the current entries are what replaying  *)
(* the committed lines gives (ledger/src/records.ts).                      *)
(*                                                                         *)
(* A line opens an entry (state intended, with its idempotency key) or     *)
(* moves one.  Garbage stands for a terminated line that does not parse.   *)
(***************************************************************************)
EXTENDS Integers, Sequences, FiniteSets, RunStates

CONSTANTS Keys, NoKey

ASSUME KeysAssumption == NoKey \notin Keys

Line ==
  [seq : Nat \ {0}, key : Keys \cup {NoKey}, state : EntryState]

Garbage == [seq |-> 0, key |-> NoKey, state |-> "garbage"]

Opens(k, n)    == [seq |-> n, key |-> k, state |-> "intended"]
Moves(n, to)   == [seq |-> n, key |-> NoKey, state |-> to]
IsOpening(l)   == l.state = "intended"

EntryTransitions ==
  [intended |-> {"applied", "compensated"}, applied |-> {"compensated"},
   compensated |-> {}]

(***************************************************************************)
(* The records a reader takes from the lines: a last line that does not    *)
(* parse is tolerated and left out.                                        *)
(***************************************************************************)
Parsed(lines) ==
  IF lines # <<>> /\ lines[Len(lines)] = Garbage
  THEN SubSeq(lines, 1, Len(lines) - 1) ELSE lines

Earlier(s, i) == { j \in 1..(i - 1) : s[j].seq = s[i].seq }

\* What the replay accepts as the i-th record.
Legal(s, i) ==
  /\ s[i] \in Line
  /\ IF IsOpening(s[i]) THEN Earlier(s, i) = {}
     ELSE \E j \in Earlier(s, i) :
            /\ \A k \in Earlier(s, i) : k <= j
            /\ s[i].state \in EntryTransitions[s[j].state]

Replayable(s) == \A i \in 1..Len(s) : Legal(s, i)

Openings(s, k)  == { i \in 1..Len(s) : IsOpening(s[i]) /\ s[i].key = k }
LinesOf(s, n)   == { i \in 1..Len(s) : s[i].seq = n }
HasEntry(s, n)  == LinesOf(s, n) # {}
EntryNow(s, n)  ==
  s[CHOOSE i \in LinesOf(s, n) : \A j \in LinesOf(s, n) : j <= i].state

SeqOf(s, k) == s[CHOOSE i \in Openings(s, k) : TRUE].seq
KeyOf(s, n) == s[CHOOSE i \in LinesOf(s, n) : IsOpening(s[i])].key

\* The state of the write with idempotency key k, as a reader folds it.
KeyNow(s, k) ==
  IF Openings(s, k) = {} THEN "none" ELSE EntryNow(s, SeqOf(s, k))

Highest(s) ==
  CHOOSE n \in 0..Len(s) :
    /\ \A i \in 1..Len(s) : s[i].seq <= n
    /\ n = 0 \/ \E i \in 1..Len(s) : s[i].seq = n

\* Faulty variants: the record before a torn tail goes with it; a terminated
\* line is always taken for a record.
CommittedBefore(lines, tail) ==
  IF tail /\ lines # <<>> THEN Len(lines) - 1 ELSE Len(lines)
CommittedTerminated(lines, tail) == Len(lines)

\* Where the committed prefix ends: a torn tail goes, or one unparsable line.
Committed(lines, tail) ==
  IF ~tail /\ lines # <<>> /\ lines[Len(lines)] = Garbage
  THEN Len(lines) - 1 ELSE Len(lines)

==============================================================================
