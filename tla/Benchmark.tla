----------------------------- MODULE Benchmark -----------------------------
(***************************************************************************)
(* What `tess benchmark` does to the sources on an instance: the harness   *)
(* (benchmark/harness.ts) puts mutants in their place and the substrate    *)
(* (substrate.ts) puts the correct sources back, from a journal            *)
(* (journal.ts) that outlives a crash, or `--restore` does                 *)
(* (cli/benchmarkRun.ts).  A request may be lost, or done and not          *)
(* answered, or answered and without effect; any process may be killed at  *)
(* any time.                                                               *)
(***************************************************************************)
EXTENDS Naturals, Sequences

CONSTANTS
  Procs,            \* invocations of `tess benchmark`
  Restorers,        \* invocations of `tess benchmark --restore`
  Artifacts,        \* scripts on the instance
  RunId,            \* the run id an invocation is given
  Root,             \* the ledger root it uses
  Targets,          \* the artifacts of its catalog, in order
  Baselines,        \* those of them that are smoke-tested
  Mutant,           \* the broken text its catalog puts in place
  RestoreAttempts,  \* rounds of a verified restore
  None,             \* no text, no file, no artifact
  MaxFaults, MaxCrashes, MaxRestores  \* bounds

VARIABLES
  live,     \* the text of each artifact: "good" or somebody's mutant
  rows,     \* lease rows, by the invocation that inserted them
  file,     \* restore journals on disk, by ledger root and run id
  proc,     \* the invocations
  job,      \* what each process is putting back
  op,       \* the restore commands
  faults, crashes, restores

vars == <<live, rows, file, proc, job, op, faults, crashes, restores>>

Texts == {"good"} \cup {Mutant[p] : p \in Procs}
Journals == {<<Root[p], RunId[p]>> : p \in Procs}
Key(p) == <<Root[p], RunId[p]>>
NoText == [a \in Artifacts |-> None]
Named(text) == {a \in Artifacts : text[a] # None}
Catalog(p) == {Targets[p][i] : i \in DOMAIN Targets[p]}

NoJob == [text |-> NoText, pending |-> {}, still |-> {}, tries |-> 1, on |-> None]
Job(text) == [NoJob EXCEPT !.text = text, !.pending = Named(text)]

Init ==
  /\ live = [a \in Artifacts |-> "good"]
  /\ rows = {} /\ file = [k \in Journals |-> None]
  /\ proc = [p \in Procs |-> [pc |-> "scan", turn |-> 0, todo |-> {}, reset |-> TRUE,
                              correct |-> NoText, read |-> None, created |-> FALSE]]
  /\ job = [x \in Procs \cup Restorers |-> NoJob]
  /\ op = [x \in Restorers |-> None]
  /\ faults = 0 /\ crashes = 0 /\ restores = 0

At(p, pc) == proc[p].pc = pc
Goto(p, pc) == proc' = [proc EXCEPT ![p].pc = pc]
Holding(p) == proc[p].pc \in {"smoke", "turn", "reset", "apply", "record", "patch",
                              "final", "clear", "release"}
Gone(p) == proc[p].pc \in {"over", "dead"}

Fault == faults < MaxFaults /\ faults' = faults + 1

(* A PATCH: answered and done, or else lost, unanswered or ineffective.    *)
Patched(a, text) == live' = [live EXCEPT ![a] = text] /\ UNCHANGED faults
Mispatched(a, text) == Fault /\ live' \in {live, [live EXCEPT ![a] = text]}

-----------------------------------------------------------------------------
(* Any journal of this run, or of an artifact that the catalog touches,    *)
(* refuses the run before anything is written.                             *)
Scan(p) ==
  /\ At(p, "scan")
  /\ LET pending == {k \in Journals : /\ k[1] = Root[p] /\ file[k] # None
                                      /\ k = Key(p) \/ Named(file[k].text) \cap Catalog(p) # {}}
     IN Goto(p, IF pending = {} THEN "check" ELSE "over")
  /\ UNCHANGED <<live, rows, file, job, op, faults, crashes, restores>>

(* SUB-1 and SUB-3: the row of the join probe is no lease, even if it      *)
(* stays.                                                                  *)
Check(p) ==
  /\ At(p, "check")
  /\ \E pc \in {"lease", "over"} : Goto(p, pc)
  /\ UNCHANGED <<live, rows, file, job, op, faults, crashes, restores>>

(* SUB-2: look, insert, look again; one who sees anybody else retreats.    *)
SeeLeases(p) ==
  /\ At(p, "lease")
  /\ \/ Goto(p, IF rows = {} THEN "insert" ELSE "over") /\ UNCHANGED faults
     \/ Goto(p, "over") /\ Fault
  /\ UNCHANGED <<live, rows, file, job, op, crashes, restores>>

(* Faulty variant: nobody looks a second time.                             *)
InsertAndHold(p) ==
  /\ At(p, "insert")
  /\ rows' = rows \cup {p} /\ Goto(p, "smoke")
  /\ UNCHANGED <<live, file, job, op, faults, crashes, restores>>

InsertLease(p) ==
  /\ At(p, "insert")
  /\ \/ rows' = rows \cup {p} /\ Goto(p, "reread") /\ UNCHANGED faults
     \/ rows' \in {rows, rows \cup {p}} /\ Goto(p, "undo") /\ Fault
  /\ UNCHANGED <<live, file, job, op, crashes, restores>>

HeldBy(id) == {q \in rows : RunId[q] = id}

(* An insert of unknown fate: whatever row carries the run id is deleted.  *)
UndoLease(p) ==
  /\ At(p, "undo") /\ Goto(p, "over")
  /\ \/ rows' = rows \ HeldBy(RunId[p]) /\ UNCHANGED faults
     \/ UNCHANGED rows /\ Fault
  /\ UNCHANGED <<live, file, job, op, crashes, restores>>

SeeLeasesAgain(p) ==
  /\ At(p, "reread")
  /\ \/ Goto(p, IF rows = {p} THEN "smoke" ELSE "retreat") /\ UNCHANGED faults
     \/ Goto(p, "retreat") /\ Fault
  /\ UNCHANGED <<live, rows, file, job, op, crashes, restores>>

(* One's own row, by its sys_id, when retreating and at the end.           *)
DeleteLease(p) ==
  /\ At(p, "retreat") \/ At(p, "release")
  /\ Goto(p, "over")
  /\ \/ rows' = rows \ {p} /\ UNCHANGED faults
     \/ UNCHANGED rows /\ Fault
  /\ UNCHANGED <<live, file, job, op, crashes, restores>>

-----------------------------------------------------------------------------
(* The drift smoke-test: a baseline that carries a text of the catalog.    *)
(* Nothing was touched yet, so there is nothing to restore.                *)
Smoke(p) ==
  /\ At(p, "smoke")
  /\ \/ /\ Goto(p, IF \E a \in Baselines : live[a] = Mutant[p] THEN "release" ELSE "turn")
        /\ UNCHANGED faults
     \/ Goto(p, "release") /\ Fault
  /\ UNCHANGED <<live, rows, file, job, op, crashes, restores>>

(* Each target has three turns, generation and execution on the correct    *)
(* text and execution on the broken one; each starts with a reset of what  *)
(* was captured.                                                           *)
Target(p) == Targets[p][proc[p].turn \div 3 + 1]
Broken(p) == proc[p].turn % 3 = 2

BeginTurn(p) ==
  /\ At(p, "turn") /\ proc[p].turn < 3 * Len(Targets[p])
  /\ proc' = [proc EXCEPT ![p].pc = "reset", ![p].todo = Named(proc[p].correct),
                          ![p].reset = TRUE]
  /\ UNCHANGED <<live, rows, file, job, op, faults, crashes, restores>>

(* To the final restore, which is there for those who applied a source.    *)
Finish(p) ==
  /\ IF proc[p].turn = 0 /\ proc[p].pc \in {"turn", "reset"}
     THEN Goto(p, "release") /\ UNCHANGED job
     ELSE /\ Goto(p, "final")
          /\ job' = [job EXCEPT ![p] = Job(proc[p].correct)]

(* All is scored; or a signal, a fault of the pipeline or a result that    *)
(* proves nothing has ended the run.                                       *)
EndTurns(p) ==
  /\ At(p, "turn") /\ Finish(p)
  /\ UNCHANGED <<live, rows, file, op, faults, crashes, restores>>

(* Every captured artifact is tried, even after one has failed.            *)
ResetOne(p) ==
  /\ At(p, "reset")
  /\ \E a \in proc[p].todo :
       \/ /\ Patched(a, proc[p].correct[a])
          /\ proc' = [proc EXCEPT ![p].todo = @ \ {a}]
       \/ /\ Mispatched(a, proc[p].correct[a])
          /\ \E ok \in BOOLEAN :
               proc' = [proc EXCEPT ![p].todo = @ \ {a}, ![p].reset = @ /\ ok]
  /\ UNCHANGED <<rows, file, job, op, crashes, restores>>

EndReset(p) ==
  /\ At(p, "reset") /\ proc[p].todo = {}
  /\ IF proc[p].reset THEN Goto(p, "apply") /\ UNCHANGED job ELSE Finish(p)
  /\ UNCHANGED <<live, rows, file, op, faults, crashes, restores>>

-----------------------------------------------------------------------------
(* Faulty variant: what is live is correct.                                *)
AdoptableAsFound(p, text) == TRUE

(* The first touch captures what is live, unless it is a text of the       *)
(* catalog; a read that fails refuses it too.                              *)
Adoptable(p, text) == text # Mutant[p]

Capture(p) ==
  /\ At(p, "apply")
  /\ LET a == Target(p) IN
     \/ /\ proc[p].correct[a] # None
        /\ Goto(p, "patch") /\ UNCHANGED <<job, faults>>
     \/ /\ proc[p].correct[a] = None
        /\ \/ /\ Adoptable(p, live[a])
              /\ proc' = [proc EXCEPT ![p].pc = "record", ![p].read = live[a]]
              /\ UNCHANGED <<job, faults>>
           \/ ~Adoptable(p, live[a]) /\ Finish(p) /\ UNCHANGED faults
           \/ Finish(p) /\ Fault
  /\ UNCHANGED <<live, rows, file, op, crashes, restores>>

(* Durable before cached and so before the first PATCH; the first write    *)
(* creates the file and gives way to one that is there.                    *)
Journalled(p) == [by |-> p, text |-> [proc[p].correct EXCEPT ![Target(p)] = proc[p].read]]

(* Faulty variant: the journal follows the capture and may fail alone.     *)
RecordLoosely(p) ==
  /\ At(p, "record")
  /\ proc' = [proc EXCEPT ![p].pc = "patch", ![p].correct = Journalled(p).text]
  /\ \/ file' = [file EXCEPT ![Key(p)] = Journalled(p)] /\ UNCHANGED faults
     \/ UNCHANGED file /\ Fault
  /\ UNCHANGED <<live, rows, job, op, crashes, restores>>

Record(p) ==
  /\ At(p, "record")
  /\ LET may == proc[p].created \/ file[Key(p)] = None
         written == [file EXCEPT ![Key(p)] = Journalled(p)]
     IN \/ /\ may /\ file' = written
           /\ proc' = [proc EXCEPT ![p].pc = "patch", ![p].created = TRUE,
                                   ![p].correct = Journalled(p).text]
           /\ UNCHANGED <<job, faults>>
        \/ ~may /\ UNCHANGED <<file, faults>> /\ Finish(p)
        \/ Fault /\ file' \in {file} \cup (IF may THEN {written} ELSE {}) /\ Finish(p)
  /\ UNCHANGED <<live, rows, op, crashes, restores>>

Apply(p) ==
  /\ At(p, "patch")
  /\ LET a == Target(p)
         text == IF Broken(p) THEN Mutant[p] ELSE proc[p].correct[a]
         next == proc' = [proc EXCEPT ![p].pc = "turn", ![p].turn = @ + 1]
     IN \/ Patched(a, text) /\ next /\ UNCHANGED job
        \/ Mispatched(a, text) /\ ((next /\ UNCHANGED job) \/ Finish(p))
  /\ UNCHANGED <<rows, file, op, crashes, restores>>

-----------------------------------------------------------------------------
(* restoreVerified: a PATCH and a read of each artifact in each round; the *)
(* next round is for those that failed.                                    *)
Working(x) == IF x \in Procs THEN At(x, "final") ELSE op[x] # None

PutBack(x) ==
  /\ Working(x) /\ job[x].on = None
  /\ \E a \in job[x].pending :
       LET text == job[x].text[a]
           sent == job' = [job EXCEPT ![x].on = a, ![x].pending = @ \ {a}]
           failed == job' = [job EXCEPT ![x].still = @ \cup {a}, ![x].pending = @ \ {a}]
       IN \/ Patched(a, text) /\ sent
          \/ Mispatched(a, text) /\ (sent \/ failed)
  /\ UNCHANGED <<rows, file, proc, op, crashes, restores>>

ReadBack(x) ==
  /\ Working(x) /\ job[x].on # None
  /\ LET a == job[x].on
         same == live[a] = job[x].text[a]
         failed == job' = [job EXCEPT ![x].still = @ \cup {a}, ![x].on = None]
     IN \/ same /\ job' = [job EXCEPT ![x].on = None] /\ UNCHANGED faults
        \/ ~same /\ failed /\ UNCHANGED faults
        \/ failed /\ Fault
  /\ UNCHANGED <<live, rows, file, proc, op, crashes, restores>>

Retry(x) ==
  /\ Working(x) /\ job[x].on = None /\ job[x].pending = {} /\ job[x].still # {}
  /\ job[x].tries < RestoreAttempts
  /\ job' = [job EXCEPT ![x].pending = job[x].still, ![x].still = {}, ![x].tries = @ + 1]
  /\ UNCHANGED <<live, rows, file, proc, op, faults, crashes, restores>>

Tried(x) ==
  /\ Working(x) /\ job[x].on = None /\ job[x].pending = {}
  /\ job[x].still = {} \/ job[x].tries = RestoreAttempts

(* What could not be put back is all the journal keeps, if it can be       *)
(* rewritten; the lease is released all the same.                          *)
KeepUnrestored(p) ==
  /\ At(p, "final") /\ Tried(p) /\ job[p].still # {}
  /\ LET text == [a \in Artifacts |-> IF a \in job[p].still THEN job[p].text[a] ELSE None]
         pruned == [file EXCEPT ![Key(p)] = [by |-> p, text |-> text]]
     IN IF text = proc[p].correct THEN UNCHANGED <<file, faults>>
        ELSE \/ file' = pruned /\ UNCHANGED faults
             \/ UNCHANGED file /\ Fault
  /\ Goto(p, "release")
  /\ UNCHANGED <<live, rows, job, op, crashes, restores>>

ClearJournal(p) ==
  /\ At(p, "final") /\ Tried(p) /\ job[p].still = {}
  /\ \/ file' = [file EXCEPT ![Key(p)] = None] /\ UNCHANGED faults
     \/ UNCHANGED file /\ Fault
  /\ Goto(p, "release")
  /\ UNCHANGED <<live, rows, job, op, crashes, restores>>

-----------------------------------------------------------------------------
(* `--restore <run-id>`: only after the writer of the journal.             *)
BeginRestore(x, k) ==
  /\ op[x] = None /\ restores < MaxRestores /\ restores' = restores + 1
  /\ file[k] # None /\ Gone(file[k].by)
  /\ op' = [op EXCEPT ![x] = k]
  /\ job' = [job EXCEPT ![x] = Job(file[k].text)]
  /\ UNCHANGED <<live, rows, file, proc, faults, crashes>>

(* With anything unrestored the journal and the lease are kept; else the   *)
(* file goes, and then the rows of the run.                                *)
EndRestore(x) ==
  /\ op[x] # None /\ Tried(x)
  /\ \/ /\ job[x].still # {} /\ op' = [op EXCEPT ![x] = None]
        /\ UNCHANGED <<file, job, faults>>
     \/ /\ job[x].still = {} /\ job[x].text # NoText
        /\ file' = [file EXCEPT ![op[x]] = None] /\ job' = [job EXCEPT ![x] = NoJob]
        /\ UNCHANGED <<op, faults>>
     \/ Fault /\ job[x].still = {} /\ op' = [op EXCEPT ![x] = None] /\ UNCHANGED <<file, job>>
  /\ UNCHANGED <<live, rows, proc, crashes, restores>>

Unlease(x) ==
  /\ op[x] # None /\ job[x] = NoJob
  /\ rows' = rows \ HeldBy(op[x][2])
  /\ op' = [op EXCEPT ![x] = None]
  /\ UNCHANGED <<live, file, proc, job, faults, crashes, restores>>

(* SIGKILL, of a run or of a restore.                                      *)
Kill(p) ==
  /\ ~Gone(p) /\ crashes < MaxCrashes /\ crashes' = crashes + 1
  /\ Goto(p, "dead")
  /\ UNCHANGED <<live, rows, file, job, op, faults, restores>>

KillRestore(x) ==
  /\ op[x] # None /\ crashes < MaxCrashes /\ crashes' = crashes + 1
  /\ op' = [op EXCEPT ![x] = None]
  /\ UNCHANGED <<live, rows, file, proc, job, faults, restores>>

Next ==
  \/ \E p \in Procs :
       \/ Scan(p) \/ Check(p) \/ SeeLeases(p) \/ InsertLease(p) \/ UndoLease(p)
       \/ SeeLeasesAgain(p) \/ DeleteLease(p) \/ Smoke(p) \/ BeginTurn(p) \/ EndTurns(p)
       \/ ResetOne(p) \/ EndReset(p) \/ Capture(p) \/ Record(p) \/ Apply(p)
       \/ KeepUnrestored(p) \/ ClearJournal(p) \/ Kill(p)
  \/ \E x \in Restorers :
       EndRestore(x) \/ Unlease(x) \/ KillRestore(x) \/ \E k \in Journals : BeginRestore(x, k)
  \/ \E x \in Procs \cup Restorers : PutBack(x) \/ ReadBack(x) \/ Retry(x)

Spec == Init /\ [][Next]_vars

-----------------------------------------------------------------------------
(* Every variable keeps its type, and what is put back was captured.       *)
Captured == [Artifacts -> Texts \cup {None}]
Records == [by : Procs, text : Captured]
Invocations ==
  [pc : {"scan", "check", "lease", "insert", "undo", "reread", "retreat", "smoke", "turn",
         "reset", "apply", "record", "patch", "final", "release", "over", "dead"},
   turn : Nat, todo : SUBSET Artifacts, reset : BOOLEAN,
   correct : Captured, read : Texts \cup {None}, created : BOOLEAN]
Restorations ==
  [text : Captured, pending : SUBSET Artifacts, still : SUBSET Artifacts,
   tries : Nat, on : Artifacts \cup {None}]

BenchTypeOK ==
  /\ live \in [Artifacts -> Texts] /\ rows \subseteq Procs
  /\ file \in [Journals -> Records \cup {None}]
  /\ proc \in [Procs -> Invocations]
  /\ job \in [Procs \cup Restorers -> Restorations]
  /\ op \in [Restorers -> Journals \cup {None}]
  /\ faults \in Nat /\ crashes \in Nat /\ restores \in Nat

(* Whatever is killed or lost, when: an artifact whose live text is not    *)
(* the correct one is named with its correct text in a journal on disk.    *)
WayBack ==
  \A a \in Artifacts :
    live[a] # "good" => \E k \in Journals : file[k] # None /\ file[k].text[a] = "good"

(* No two invocations hold the runner, though the lease has no compare and *)
(* swap and restores delete rows of others.                                *)
OneRunner == \A p, q \in Procs : Holding(p) /\ Holding(q) => p = q
=============================================================================
