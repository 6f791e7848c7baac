----------------------------- MODULE IntentLedger -----------------------------
(***************************************************************************)
(* The write entries of one run as ledger/src/ledger.ts keeps them:        *)
(* intend, confirm and compensate as the sequences of file operations they *)
(* are, in a process that may be killed, on a machine that may lose power, *)
(* over a file system that may fail.                                       *)
(*                                                                         *)
(* withLock makes one call at a time of the calls of a process, so there   *)
(* is one call in progress.  A run belongs to one process at a time; a     *)
(* killed process is followed by a new one.  sys_ids and the run record    *)
(* are left out: RunLifecycle has the record.                              *)
(***************************************************************************)
EXTENDS LogFile

CONSTANTS
  Environments,  \* what may go wrong: sets of Mishap
  MaxMishaps     \* bound on what does go wrong

Mishap == {"save", "sync", "short", "kill", "power"}

ASSUME EnvironmentsAssumption == Environments \subseteq SUBSET Mishap
ASSUME MishapsAssumption == MaxMishaps \in Nat

VARIABLES
  env,        \* the mishaps of this behaviour
  lines,      \* terminated lines of ledger.jsonl
  tail,       \* is there a partial record after them?
  synced,     \* how many lines are on the disk for good
  repaired,   \* has this process looked at the tail yet?
  call,       \* the call in progress
  told,       \* told[k]: what callers know of write k
  mishaps     \* mishaps so far

file == <<lines, tail, synced>>
vars == <<env, lines, tail, synced, repaired, call, told, mishaps>>

CallPc == {"idle", "repair", "append", "sync", "save"}
NoCall == [pc |-> "idle", line |-> Garbage]

LedgerTypeOK ==
  /\ env \in Environments
  /\ lines \in Seq(Line \cup {Garbage})
  /\ tail \in BOOLEAN
  /\ synced \in 0..Len(lines)
  /\ repaired \in BOOLEAN
  /\ call \in [pc : CallPc, line : Line \cup {Garbage}]
  /\ told \in [Keys -> EntryState \cup {"none"}]
  /\ mishaps \in 0..MaxMishaps

Init ==
  /\ env \in Environments
  /\ lines = <<>>
  /\ tail = FALSE
  /\ synced = 0
  /\ repaired = FALSE
  /\ call = NoCall
  /\ told = [k \in Keys |-> "none"]
  /\ mishaps = 0

Suffers(m) == m \in env /\ mishaps < MaxMishaps /\ mishaps' = mishaps + 1

Records == Parsed(lines)

Write(l)  == call' = [pc |-> "repair", line |-> l]
Throw     == call' = NoCall
Answer(n) ==
  told' = [told EXCEPT ![KeyOf(Records, n)] = EntryNow(Records, n)]

------------------------------------------------------------------------------
(* The calls.  A log that does not replay refuses every one of them. *)

\* Faulty variants: a known key is not looked for; the number that was
\* given out last is given out again.
IntendAlways(k) ==
  Write(Opens(k, Highest(Records) + 1)) /\ UNCHANGED told

IntendAgain(k) ==
  Write(Opens(k, Highest(Records))) /\ UNCHANGED told

\* A key that is already in the log is answered from it.
Intend(k) ==
  \/ /\ Openings(Records, k) = {}
     /\ Write(Opens(k, Highest(Records) + 1))
     /\ UNCHANGED told
  \/ /\ Openings(Records, k) # {}
     /\ Answer(SeqOf(Records, k))
     /\ UNCHANGED call

\* A compensated entry cannot be confirmed; an applied one is answered.
Confirm(n) ==
  \/ /\ EntryNow(Records, n) = "intended"
     /\ Write(Moves(n, "applied"))
     /\ UNCHANGED told
  \/ /\ EntryNow(Records, n) = "applied"
     /\ Answer(n)
     /\ UNCHANGED call

Compensate(n) ==
  \/ /\ EntryNow(Records, n) # "compensated"
     /\ Write(Moves(n, "compensated"))
     /\ UNCHANGED told
  \/ /\ EntryNow(Records, n) = "compensated"
     /\ Answer(n)
     /\ UNCHANGED call

Begin ==
  /\ call.pc = "idle"
  /\ Replayable(Records)
  /\ \/ \E k \in Keys : Intend(k)
     \/ \E n \in 1..Cardinality(Keys) :
          HasEntry(Records, n) /\ (Confirm(n) \/ Compensate(n))
  /\ UNCHANGED <<env, file, repaired, mishaps>>

------------------------------------------------------------------------------
(* appendRecord, then the refresh of run.json, then the re-read *)

\* Once per process, before its first append; a truncation is fsynced.
Repair ==
  /\ call.pc = "repair"
  /\ call' = [call EXCEPT !.pc = "append"]
  /\ repaired' = TRUE
  /\ IF repaired THEN UNCHANGED file
     ELSE LET cut == Committed(lines, tail) IN
          /\ lines' = SubSeq(lines, 1, cut)
          /\ tail' = FALSE
          /\ synced' = IF tail \/ cut < Len(lines) THEN cut ELSE synced
  /\ UNCHANGED <<env, told, mishaps>>

\* What is written after a torn tail continues the torn record.
AppendLine ==
  /\ call.pc = "append"
  /\ \/ /\ lines' = Append(lines, IF tail THEN Garbage ELSE call.line)
        /\ tail' = FALSE
        /\ call' = [call EXCEPT !.pc = "sync"]
        /\ UNCHANGED mishaps
     \/ /\ Suffers("short")
        /\ tail' = TRUE
        /\ Throw
        /\ UNCHANGED lines
  /\ UNCHANGED <<env, synced, repaired, told>>

\* Faulty variant: the call does not wait for the fsync.
SyncLater ==
  /\ call.pc = "sync"
  /\ call' = [call EXCEPT !.pc = "save"]
  /\ UNCHANGED <<env, file, repaired, told, mishaps>>

Sync ==
  /\ call.pc = "sync"
  /\ \/ /\ synced' = Len(lines)
        /\ call' = [call EXCEPT !.pc = "save"]
        /\ UNCHANGED mishaps
     \/ Suffers("sync") /\ Throw /\ UNCHANGED synced
  /\ UNCHANGED <<env, lines, tail, repaired, told>>

\* The caller gets what the log now says, or an error if it does not say it.
Return ==
  /\ call.pc = "save"
  /\ \/ /\ Replayable(Records) /\ HasEntry(Records, call.line.seq)
        /\ Answer(call.line.seq)
        /\ UNCHANGED mishaps
     \/ /\ ~(Replayable(Records) /\ HasEntry(Records, call.line.seq))
        /\ UNCHANGED <<told, mishaps>>
     \/ Suffers("save") /\ UNCHANGED told
  /\ Throw
  /\ UNCHANGED <<env, file, repaired>>

------------------------------------------------------------------------------
\* Memory is gone; a record half written stays half written.
Kill ==
  /\ Suffers("kill")
  /\ call' = NoCall
  /\ repaired' = FALSE
  /\ tail' \in IF call.pc = "append" THEN BOOLEAN \cup {tail} ELSE {tail}
  /\ UNCHANGED <<env, lines, synced, told>>

(***************************************************************************)
(* Whatever no fsync has covered may be gone, torn, or zeros up to a line  *)
(* end.                                                                    *)
(***************************************************************************)
PowerLoss ==
  /\ Suffers("power")
  /\ call' = NoCall
  /\ repaired' = FALSE
  /\ \E n \in synced..Len(lines) :
       LET kept == SubSeq(lines, 1, n) IN
       /\ synced' = Len(Parsed(kept))
       /\ \/ lines' = kept /\ tail' \in {FALSE, tail /\ n = Len(lines)}
          \/ /\ tail \/ n < Len(lines) \/ call.pc = "append"
             /\ \/ lines' = kept /\ tail' = TRUE
                \/ lines' = Append(kept, Garbage) /\ tail' = FALSE
  /\ UNCHANGED <<env, told>>

Next == Begin \/ Repair \/ AppendLine \/ Sync \/ Return \/ Kill \/ PowerLoss

Spec == Init /\ [][Next]_vars

==============================================================================
