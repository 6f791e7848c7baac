------------------------------ MODULE HostLog -------------------------------
(***************************************************************************)
(* The two logs several processes append to: the infra ledger of a host    *)
(* (ledger/src/infra.ts) and the event log of a run (runEvents.ts).  Each  *)
(* change is a read-then-append under the lock file of fileLock.ts, which  *)
(* is created, then filled, and broken by whoever finds its holder dead.   *)
(***************************************************************************)
EXTENDS Naturals, Sequences, FiniteSets

CONSTANTS
  Procs,        \* the processes that append
  Keys,         \* idempotency keys of infra writes
  SlowWriters,  \* may a live process stall between creating and filling the
                \* lock file for longer than STALE_EMPTY_MS
  MaxCalls,     \* bound: changes a process tries
  MaxDeaths,    \* bound: processes that die
  Free          \* no lock file

Lock == [by : Procs, written : BOOLEAN, old : BOOLEAN]

VARIABLES
  kind,     \* which of the two logs this is
  log,      \* its terminated lines
  torn,     \* does it end in an unterminated line
  lock,     \* the lock file
  alive,    \* the processes that exist
  proc,     \* the locals of the call each process is in
  calls,    \* calls of each process so far
  mishaps   \* history: how a break has hit a live process's lock file

vars == <<kind, log, torn, lock, alive, proc, calls, mishaps>>

Ops == IF kind = "events" THEN {"event"} ELSE {"intend", "applied", "compensated"}
Resting == [pc |-> "idle", op |-> "event", key |-> CHOOSE k \in Keys : TRUE,
            judged |-> Free, line |-> <<>>]

-----------------------------------------------------------------------------
(* Reading the log.                                                        *)

Opens(l) == {i \in DOMAIN l : l[i].op = "intend"}
EntryOf(l, k) == {i \in Opens(l) : l[i].key = k}
StateOf(l, seq) ==
  IF \E i \in DOMAIN l : l[i].seq = seq /\ l[i].op = "compensated" THEN "compensated"
  ELSE IF \E i \in DOMAIN l : l[i].seq = seq /\ l[i].op = "applied" THEN "applied"
  ELSE "intended"

(* readAll of runEvents.ts: cursors are gap-free from 1.                   *)
EventsReadable(l) == \A i \in DOMAIN l : l[i].op = "event" /\ l[i].seq = i

(* foldInfraLog: no number and no key opens twice, a state line follows    *)
(* its entry and moves it forward.                                         *)
InfraReadable(l) ==
  /\ \A i \in DOMAIN l : l[i].op \in {"intend", "applied", "compensated"}
  /\ \A i, j \in Opens(l) : i # j => l[i].seq # l[j].seq /\ l[i].key # l[j].key
  /\ \A i \in DOMAIN l \ Opens(l) :
       LET before == SubSeq(l, 1, i - 1) IN
       /\ \E j \in Opens(before) : l[j].seq = l[i].seq
       /\ StateOf(before, l[i].seq) \in
            IF l[i].op = "applied" THEN {"intended"} ELSE {"intended", "applied"}

Readable(l) == IF kind = "events" THEN EventsReadable(l) ELSE InfraReadable(l)

MaxSeq(l) == IF l = <<>> THEN 0
             ELSE CHOOSE n \in {l[i].seq : i \in DOMAIN l} : \A i \in DOMAIN l : l[i].seq <= n

(* What appendEvent, intend, confirm and compensate append to the log they *)
(* have read: the next number, nothing for a key that is there or a state  *)
(* already reached, nothing (an error) for an unknown entry.               *)
LinesFor(l, op, k) ==
  CASE op = "event" -> {[op |-> op, key |-> k, seq |-> MaxSeq(l) + 1]}
    [] op = "intend" -> IF EntryOf(l, k) # {} THEN {}
                        ELSE {[op |-> op, key |-> k, seq |-> MaxSeq(l) + 1]}
    [] op = "applied" -> {[op |-> op, key |-> k, seq |-> l[i].seq] :
                            i \in {j \in EntryOf(l, k) : StateOf(l, l[j].seq) = "intended"}}
    [] op = "compensated" -> {[op |-> op, key |-> k, seq |-> l[i].seq] :
                            i \in {j \in EntryOf(l, k) : StateOf(l, l[j].seq) # "compensated"}}

-----------------------------------------------------------------------------
Init ==
  /\ kind \in {"infra", "events"}
  /\ log = <<>>
  /\ torn = FALSE
  /\ lock = Free
  /\ alive = [p \in Procs |-> TRUE]
  /\ proc = [p \in Procs |-> Resting]
  /\ calls = [p \in Procs |-> 0]
  /\ mishaps = {}

At(p, where) == alive[p] /\ proc[p].pc = where
Go(p, where) == proc' = [proc EXCEPT ![p].pc = where]

Call(p, op, k) ==
  /\ At(p, "idle") /\ calls[p] < MaxCalls
  /\ calls' = [calls EXCEPT ![p] = @ + 1]
  /\ proc' = [proc EXCEPT ![p].pc = "open", ![p].op = op, ![p].key = k]
  /\ UNCHANGED <<kind, log, torn, lock, alive, mishaps>>

(* withFileLock: open(file, "wx") makes the name; its bytes come after.    *)
Open(p) ==
  /\ At(p, "open")
  /\ \/ /\ lock = Free
        /\ lock' = [by |-> p, written |-> FALSE, old |-> FALSE]
        /\ Go(p, "write")
     \/ lock # Free /\ Go(p, "judge") /\ UNCHANGED lock
  /\ UNCHANGED <<kind, log, torn, alive, calls, mishaps>>

(* The pid goes into the file that was opened, wherever its name is now.   *)
WritePid(p) ==
  /\ At(p, "write")
  /\ lock' = IF lock = Free THEN lock
             ELSE IF lock.by = p THEN [lock EXCEPT !.written = TRUE] ELSE lock
  /\ Go(p, "repair")
  /\ UNCHANGED <<kind, log, torn, alive, calls, mishaps>>

(* isStale: a dead pid, or never written and older than STALE_EMPTY_MS.    *)
IsStale(l) == IF l.written THEN ~alive[l.by] ELSE l.old

(* Somebody else's lock: break it, wait for it, or time out having done    *)
(* nothing.                                                                *)
JudgeLock(p) ==
  /\ At(p, "judge")
  /\ \/ lock = Free /\ Go(p, "open")
     \/ /\ lock # Free /\ IsStale(lock)
        /\ proc' = [proc EXCEPT ![p].pc = "break", ![p].judged = lock]
     \/ /\ lock # Free /\ ~IsStale(lock)
        /\ Go(p, "open") \/ proc' = [proc EXCEPT ![p] = Resting]
  /\ UNCHANGED <<kind, log, torn, lock, alive, calls, mishaps>>

(* rm(file, force): whatever is there by now.                              *)
BreakLock(p) ==
  /\ At(p, "break")
  /\ lock' = Free
  /\ mishaps' = mishaps \cup
       (IF lock = Free THEN {} ELSE IF ~alive[lock.by] THEN {}
        ELSE {m \in {"slow", "overtaken"} :
                IF m = "slow" THEN proc[p].judged.old ELSE lock.by # proc[p].judged.by})
  /\ proc' = [proc EXCEPT ![p].pc = "open", ![p].judged = Free]
  /\ UNCHANGED <<kind, log, torn, alive, calls>>

(* Faulty variant: a process trusts the tail it finds.                     *)
RepairNothing(p) ==
  At(p, "repair") /\ Go(p, "read") /\ UNCHANGED <<kind, log, torn, lock, alive, calls, mishaps>>

(* repairLogTail, on every locked append.                                  *)
Repair(p) ==
  /\ At(p, "repair")
  /\ torn' = FALSE
  /\ Go(p, "read")
  /\ UNCHANGED <<kind, log, lock, alive, calls, mishaps>>

(* readEntries or readAll, and what the call makes of it; a log that does  *)
(* not read is an error.                                                   *)
Read(p) ==
  LET lines == IF Readable(log) THEN LinesFor(log, proc[p].op, proc[p].key) ELSE {} IN
  /\ At(p, "read")
  /\ \/ /\ lines = {} /\ Go(p, "release")
     \/ \E x \in lines : proc' = [proc EXCEPT ![p].pc = "append", ![p].line = <<x>>]
  /\ UNCHANGED <<kind, log, torn, lock, alive, calls, mishaps>>

(* appendLineDurable: onto a torn tail the line becomes part of it; an     *)
(* append that fails may leave a torn tail of its own.                     *)
AppendLine(p) ==
  /\ At(p, "append")
  /\ \/ /\ log' = Append(log, IF torn THEN [proc[p].line[1] EXCEPT !.op = "spliced"]
                              ELSE proc[p].line[1])
        /\ torn' = FALSE
     \/ torn' = TRUE /\ UNCHANGED log
  /\ proc' = [proc EXCEPT ![p].pc = "release", ![p].line = <<>>]
  /\ UNCHANGED <<kind, lock, alive, calls, mishaps>>

(* The finally of withFileLock: rm(file, force), whoever's it is by now.   *)
ReleaseLock(p) ==
  /\ At(p, "release")
  /\ lock' = Free
  /\ proc' = [proc EXCEPT ![p] = Resting]
  /\ UNCHANGED <<kind, log, torn, alive, calls, mishaps>>

AgeLock ==
  /\ lock # Free
  /\ ~lock.written /\ ~lock.old
  /\ SlowWriters \/ ~alive[lock.by]
  /\ lock' = [lock EXCEPT !.old = TRUE]
  /\ UNCHANGED <<kind, log, torn, alive, proc, calls, mishaps>>

(* A process that dies in its append may leave part of the line.           *)
Die(p) ==
  /\ alive[p] /\ Cardinality({q \in Procs : ~alive[q]}) < MaxDeaths
  /\ alive' = [alive EXCEPT ![p] = FALSE]
  /\ torn' \in {torn, torn \/ proc[p].pc = "append"}
  /\ proc' = [proc EXCEPT ![p] = Resting]
  /\ UNCHANGED <<kind, log, lock, calls, mishaps>>

Next ==
  \/ \E p \in Procs :
       \/ \E op \in Ops, k \in Keys : Call(p, op, k)
       \/ Open(p) \/ WritePid(p) \/ JudgeLock(p) \/ BreakLock(p) \/ Repair(p)
       \/ Read(p) \/ AppendLine(p) \/ ReleaseLock(p) \/ Die(p)
  \/ AgeLock

Spec == Init /\ [][Next]_vars

-----------------------------------------------------------------------------
Line == [op : {"event", "intend", "applied", "compensated", "spliced"}, key : Keys, seq : Nat]

Locals ==
  [pc : {"idle", "open", "write", "judge", "break", "repair", "read", "append", "release"},
   op : {"event", "intend", "applied", "compensated"}, key : Keys,
   judged : Lock \cup {Free}, line : Seq(Line)]

(* Every variable keeps its type.                                          *)
HostTypeOK ==
  /\ kind \in {"infra", "events"}
  /\ log \in Seq(Line)
  /\ torn \in BOOLEAN
  /\ lock \in Lock \cup {Free}
  /\ alive \in [Procs -> BOOLEAN]
  /\ proc \in [Procs -> Locals]
  /\ calls \in [Procs -> 0 .. MaxCalls]
  /\ mishaps \subseteq {"slow", "overtaken"}

Inside(p) == alive[p] /\ proc[p].pc \in {"write", "repair", "read", "append", "release"}

(* withFileLock, infra.ts, runEvents.ts: numbers, keys and states stay     *)
(* sound across processes, deaths inside the lock and torn tails, and at   *)
(* most one process is inside, as long as no break has hit the lock file   *)
(* of a live process: the file lock has no other hole.                     *)
SoundUntilMishap ==
  mishaps = {} => Readable(log) /\ \A p, q \in Procs : Inside(p) /\ Inside(q) => p = q
=============================================================================
