--------------------------- MODULE BenchmarkProofs ---------------------------
(***************************************************************************)
(* Proofs about the lease and the restore journal of the benchmark, for    *)
(* every number of invocations and restores, every catalog and every bound *)
(* on faults and kills.                                                    *)
(*                                                                         *)
(* The argument has three layers: what shape the locals of an invocation   *)
(* and of a restore have (BenchShape), who may hold the lease (LeaseInv),  *)
(* and which journal answers for which artifact (JournalInv).              *)
(***************************************************************************)
EXTENDS FileLocks, TLAPS

\* An invocation that is at a target has one, and resets what it captured.
Going(p, m) ==
  /\ m \in Bench!Invocations
  /\ m.todo \subseteq Bench!Named(m.correct)
  /\ m.pc \in {"reset", "apply", "record", "patch"} => m.turn < 3 * Len(Targets[p])
  /\ m.pc = "record" => m.read # None
  /\ m.pc = "patch" => m.correct[Targets[p][m.turn \div 3 + 1]] # None

\* What has to be put back is named in what is put back.
Due(j) == (j.pending \cup j.still \cup {j.on}) \ {None}
Sent(j) == j \in Bench!Restorations /\ Due(j) \subseteq Bench!Named(j.text)

RunsFit == bench \in [Benches -> Bench!Invocations] /\ \A p \in Benches : Going(p, bench[p])
JobsFit == /\ job \in [Benches \cup Restorers -> Bench!Restorations]
           /\ \A x \in Benches \cup Restorers : Sent(job[x])
FilesFit == journal \in [Bench!Journals -> Bench!Records \cup {None}]
RestFits ==
  /\ live \in [Artifacts -> Bench!Texts] /\ rows \subseteq Benches
  /\ op \in [Restorers -> Bench!Journals \cup {None}]
  /\ faults \in Nat /\ crashes \in Nat /\ restores \in Nat
BenchShape == RunsFit /\ JobsFit /\ FilesFit /\ RestFits

LEMMA ShapeTyped == BenchShape => Bench!BenchTypeOK
BY DEF BenchShape, RunsFit, JobsFit, FilesFit, RestFits, Bench!BenchTypeOK

LEMMA TargetFits ==
  ASSUME NEW p \in Benches, NEW turn \in Nat, turn < 3 * Len(Targets[p])
  PROVE  Targets[p][turn \div 3 + 1] \in Artifacts
<1>1. turn \div 3 + 1 \in 1 .. Len(Targets[p])
  BY BenchAssumption
<1> QED
  BY <1>1, BenchAssumption

LEMMA RunMoves ==
  ASSUME RunsFit, NEW p \in Benches, NEW m, Going(p, m), bench' = [bench EXCEPT ![p] = m]
  PROVE  RunsFit'
BY DEF RunsFit, Going

LEMMA JobMoves ==
  ASSUME JobsFit, NEW x \in Benches \cup Restorers, NEW j, Sent(j),
         job' = [job EXCEPT ![x] = j]
  PROVE  JobsFit'
BY DEF JobsFit, Sent

LEMMA GotoFits ==
  ASSUME RunsFit, NEW p \in Benches,
         NEW c \in {"scan", "check", "lease", "insert", "undo", "reread", "retreat", "smoke",
                    "turn", "final", "release", "over", "dead"},
         Bench!Goto(p, c)
  PROVE  RunsFit'
<1>1. Going(p, [bench[p] EXCEPT !.pc = c])
  BY DEF RunsFit, Going, Bench!Invocations
<1>2. bench' = [bench EXCEPT ![p] = [bench[p] EXCEPT !.pc = c]]
  BY DEF Bench!Goto
<1> QED
  BY <1>1, <1>2, RunMoves

LEMMA NewJobFits ==
  ASSUME NEW text \in Bench!Captured
  PROVE  Sent(Bench!Job(text))
<1>1. Bench!NoText \in Bench!Captured
  BY DEF Bench!NoText, Bench!Captured
<1> DEFINE j == Bench!Job(text)
<1>2. /\ j \in Bench!Restorations /\ j.text = text /\ j.pending = Bench!Named(text)
      /\ j.still = {} /\ j.on = None
  BY <1>1 DEF Bench!Job, Bench!NoJob, Bench!Restorations, Bench!Named
<1> HIDE DEF j
<1>3. Sent(j)
  BY <1>2 DEF Sent, Due
<1> QED
  BY <1>3 DEF j

LEMMA FinishFits ==
  ASSUME RunsFit, JobsFit, NEW p \in Benches, Bench!Finish(p)
  PROVE  RunsFit' /\ JobsFit'
<1>1. RunsFit'
  <2>1. Bench!Goto(p, "release") \/ Bench!Goto(p, "final")
    BY DEF Bench!Finish
  <2> QED
    BY <2>1, GotoFits
<1>2. bench[p].correct \in Bench!Captured
  BY DEF RunsFit, Bench!Invocations
<1>3. JobsFit'
  <2>1. CASE UNCHANGED job
    BY <2>1 DEF JobsFit
  <2>2. CASE job' = [job EXCEPT ![p] = Bench!Job(bench[p].correct)]
    BY <2>2, <1>2, NewJobFits, JobMoves
  <2> QED
    BY <2>1, <2>2 DEF Bench!Finish
<1> QED
  BY <1>1, <1>3

LEMMA LeaseStepFits ==
  ASSUME BenchShape, NEW p \in Benches,
         \/ Bench!Scan(p) \/ Bench!Check(p) \/ Bench!SeeLeases(p) \/ Bench!InsertLease(p)
         \/ Bench!UndoLease(p) \/ Bench!SeeLeasesAgain(p) \/ Bench!DeleteLease(p)
         \/ Bench!Smoke(p) \/ Bench!Kill(p)
  PROVE  BenchShape'
<1>1. \E c \in {"lease", "insert", "check", "reread", "undo", "smoke", "retreat", "turn",
               "release", "over", "dead"} : Bench!Goto(p, c)
  BY DEF Bench!Scan, Bench!Check, Bench!SeeLeases, Bench!InsertLease, Bench!UndoLease,
         Bench!SeeLeasesAgain, Bench!DeleteLease, Bench!Smoke, Bench!Kill
<1>2. RunsFit'
  BY <1>1, GotoFits DEF BenchShape
<1>3. UNCHANGED <<live, journal, job, op>> /\ rows' \subseteq Benches
      /\ faults' \in Nat /\ crashes' \in Nat /\ restores' \in Nat
  BY DEF Bench!Scan, Bench!Check, Bench!SeeLeases, Bench!InsertLease, Bench!UndoLease,
         Bench!SeeLeasesAgain, Bench!DeleteLease, Bench!Smoke, Bench!Kill, Bench!HeldBy,
         Bench!Fault, BenchShape, RestFits
<1> QED
  BY <1>2, <1>3 DEF BenchShape, JobsFit, FilesFit, RestFits

LEMMA BeginTurnFits ==
  ASSUME BenchShape, NEW p \in Benches, Bench!BeginTurn(p)
  PROVE  BenchShape'
<1> DEFINE m == [bench[p] EXCEPT !.pc = "reset", !.todo = Bench!Named(bench[p].correct),
                                 !.reset = TRUE]
<1>1. Going(p, m)
  BY DEF BenchShape, RunsFit, Going, Bench!Invocations, Bench!BeginTurn, Bench!Named
<1>2. bench' = [bench EXCEPT ![p] = m]
  BY DEF Bench!BeginTurn
<1>3. RunsFit'
  BY <1>1, <1>2, RunMoves DEF BenchShape
<1> QED
  BY <1>3 DEF Bench!BeginTurn, BenchShape, JobsFit, FilesFit, RestFits

LEMMA EndTurnsFits ==
  ASSUME BenchShape, NEW p \in Benches, Bench!EndTurns(p)
  PROVE  BenchShape'
BY FinishFits DEF Bench!EndTurns, BenchShape, FilesFit, RestFits

LEMMA PatchFits ==
  ASSUME RestFits, NEW a \in Artifacts, NEW text \in Bench!Texts,
         Bench!Patched(a, text) \/ Bench!Mispatched(a, text)
  PROVE  live' \in [Artifacts -> Bench!Texts] /\ faults' \in Nat
BY DEF RestFits, Bench!Patched, Bench!Mispatched, Bench!Fault

LEMMA ResetOneFits ==
  ASSUME BenchShape, NEW p \in Benches, Bench!ResetOne(p)
  PROVE  BenchShape'
<1>1. PICK a \in bench[p].todo :
        /\ Bench!Patched(a, bench[p].correct[a]) \/ Bench!Mispatched(a, bench[p].correct[a])
        /\ \/ bench' = [bench EXCEPT ![p].todo = @ \ {a}]
           \/ \E ok \in BOOLEAN :
                bench' = [bench EXCEPT ![p].todo = @ \ {a}, ![p].reset = @ /\ ok]
  BY DEF Bench!ResetOne
<1>2. Going(p, bench[p])
  BY DEF BenchShape, RunsFit
<1>3. a \in Artifacts /\ bench[p].correct[a] \in Bench!Texts
  BY <1>2 DEF Going, Bench!Invocations, Bench!Named, Bench!Captured
<1>4. live' \in [Artifacts -> Bench!Texts] /\ faults' \in Nat
  BY <1>1, <1>3, PatchFits DEF BenchShape
<1>5. \E r \in BOOLEAN :
        bench' = [bench EXCEPT ![p] = [bench[p] EXCEPT !.todo = @ \ {a}, !.reset = r]]
  <2>1. CASE bench' = [bench EXCEPT ![p].todo = @ \ {a}]
    <3>1. [bench[p] EXCEPT !.todo = @ \ {a}]
          = [bench[p] EXCEPT !.todo = @ \ {a}, !.reset = bench[p].reset]
      BY <1>2 DEF Going, Bench!Invocations
    <3>2. bench[p].reset \in BOOLEAN
      BY <1>2 DEF Going, Bench!Invocations
    <3> QED
      BY <2>1, <3>1, <3>2
  <2>2. ASSUME NEW ok \in BOOLEAN,
               bench' = [bench EXCEPT ![p].todo = @ \ {a}, ![p].reset = @ /\ ok]
        PROVE  \E r \in BOOLEAN :
                 bench' = [bench EXCEPT ![p] = [bench[p] EXCEPT !.todo = @ \ {a}, !.reset = r]]
    <3>1. (bench[p].reset /\ ok) \in BOOLEAN
      OBVIOUS
    <3>2. bench' = [bench EXCEPT ![p] =
                     [bench[p] EXCEPT !.todo = @ \ {a}, !.reset = bench[p].reset /\ ok]]
      BY <2>2
    <3> QED
      BY <3>1, <3>2
  <2> QED
    BY <1>1, <2>1, <2>2
<1>6. PICK r \in BOOLEAN :
        bench' = [bench EXCEPT ![p] = [bench[p] EXCEPT !.todo = @ \ {a}, !.reset = r]]
  BY <1>5
<1>7. Going(p, [bench[p] EXCEPT !.todo = @ \ {a}, !.reset = r])
  BY <1>2 DEF Going, Bench!Invocations
<1>8. RunsFit'
  BY <1>6, <1>7, RunMoves DEF BenchShape
<1> QED
  BY <1>4, <1>8 DEF Bench!ResetOne, BenchShape, JobsFit, FilesFit, RestFits

LEMMA EndResetFits ==
  ASSUME BenchShape, NEW p \in Benches, Bench!EndReset(p)
  PROVE  BenchShape'
<1>1. CASE Bench!Goto(p, "apply") /\ UNCHANGED job
  <2>1. Going(p, [bench[p] EXCEPT !.pc = "apply"])
    BY DEF BenchShape, RunsFit, Going, Bench!Invocations, Bench!EndReset, Bench!At
  <2>2. RunsFit'
    BY <1>1, <2>1, RunMoves DEF Bench!Goto, BenchShape
  <2> QED
    BY <1>1, <2>2 DEF Bench!EndReset, BenchShape, JobsFit, FilesFit, RestFits
<1>2. CASE Bench!Finish(p)
  BY <1>2, FinishFits DEF Bench!EndReset, BenchShape, FilesFit, RestFits
<1> QED
  BY <1>1, <1>2 DEF Bench!EndReset

LEMMA CaptureFits ==
  ASSUME BenchShape, NEW p \in Benches, Bench!Capture(p)
  PROVE  BenchShape'
<1> DEFINE a == Bench!Target(p)
<1>1. Going(p, bench[p]) /\ bench[p].pc = "apply"
  BY DEF BenchShape, RunsFit, Bench!Capture, Bench!At
<1>2. a \in Artifacts /\ a = Targets[p][bench[p].turn \div 3 + 1]
  BY <1>1, TargetFits DEF Going, Bench!Invocations, Bench!Target
<1>3. CASE bench[p].correct[a] # None /\ Bench!Goto(p, "patch") /\ UNCHANGED <<job, faults>>
  <2>1. Going(p, [bench[p] EXCEPT !.pc = "patch"])
    BY <1>1, <1>2, <1>3 DEF Going, Bench!Invocations
  <2>2. RunsFit'
    BY <1>3, <2>1, RunMoves DEF Bench!Goto, BenchShape
  <2> QED
    BY <1>3, <2>2 DEF Bench!Capture, BenchShape, JobsFit, FilesFit, RestFits
<1>4. CASE /\ bench' = [bench EXCEPT ![p].pc = "record", ![p].read = live[a]]
           /\ UNCHANGED <<job, faults>>
  <2>1. live[a] \in Bench!Texts /\ live[a] # None
    BY <1>2, BenchAssumption DEF BenchShape, RestFits
  <2>2. Going(p, [bench[p] EXCEPT !.pc = "record", !.read = live[a]])
    BY <1>1, <2>1 DEF Going, Bench!Invocations
  <2>3. RunsFit'
    BY <1>4, <2>2, RunMoves DEF BenchShape
  <2> QED
    BY <1>4, <2>3 DEF Bench!Capture, BenchShape, JobsFit, FilesFit, RestFits
<1>5. CASE Bench!Finish(p) /\ faults' \in Nat
  BY <1>5, FinishFits DEF Bench!Capture, BenchShape, FilesFit, RestFits
<1> QED
  BY <1>3, <1>4, <1>5 DEF Bench!Capture, Bench!Fault, BenchShape, RestFits

LEMMA RecordFits ==
  ASSUME BenchShape, NEW p \in Benches, Bench!Record(p)
  PROVE  BenchShape'
<1> DEFINE a == Bench!Target(p)
           text == [bench[p].correct EXCEPT ![a] = bench[p].read]
<1>1. Going(p, bench[p]) /\ bench[p].pc = "record"
  BY DEF BenchShape, RunsFit, Bench!Record, Bench!At
<1>2. a \in Artifacts /\ a = Targets[p][bench[p].turn \div 3 + 1]
  BY <1>1, TargetFits DEF Going, Bench!Invocations, Bench!Target
<1>3. text \in Bench!Captured /\ bench[p].read # None
  BY <1>1 DEF Going, Bench!Invocations, Bench!Captured
<1>4. Bench!Journalled(p) = [by |-> p, text |-> text]
  BY DEF Bench!Journalled
<1>5. FilesFit'
  <2>1. journal' = journal \/ journal' = [journal EXCEPT ![Bench!Key(p)] = Bench!Journalled(p)]
    BY DEF Bench!Record
  <2>2. Bench!Journalled(p) \in Bench!Records
    BY <1>3, <1>4 DEF Bench!Records
  <2> QED
    BY <2>1, <2>2 DEF BenchShape, FilesFit
<1>6. RestFits'
  BY DEF Bench!Record, Bench!Fault, BenchShape, RestFits
<1>7. CASE bench' = [bench EXCEPT ![p].pc = "patch", ![p].created = TRUE,
                                  ![p].correct = Bench!Journalled(p).text]
           /\ UNCHANGED job
  <2> DEFINE m == [bench[p] EXCEPT !.pc = "patch", !.created = TRUE, !.correct = text]
  <2>1. Bench!Named(bench[p].correct) \subseteq Bench!Named(text)
    BY <1>1, <1>3 DEF Bench!Named, Going, Bench!Invocations, Bench!Captured
  <2>2. text[a] # None
    BY <1>1, <1>2, <1>3 DEF Going, Bench!Invocations, Bench!Captured
  <2>3. Going(p, m)
    <3> HIDE DEF text
    <3> QED
      BY <1>1, <1>2, <1>3, <2>1, <2>2 DEF Going, Bench!Invocations
  <2>4. bench' = [bench EXCEPT ![p] = m]
    <3>1. Bench!Journalled(p).text = text
      BY <1>4
    <3> HIDE DEF text
    <3> QED
      BY <1>7, <3>1
  <2>5. RunsFit'
    BY <2>3, <2>4, RunMoves DEF BenchShape
  <2> QED
    BY <1>5, <1>6, <1>7, <2>5 DEF BenchShape, JobsFit
<1>8. CASE Bench!Finish(p)
  BY <1>5, <1>6, <1>8, FinishFits DEF BenchShape
<1> QED
  BY <1>7, <1>8 DEF Bench!Record

LEMMA ApplyFits ==
  ASSUME BenchShape, NEW p \in Benches, Bench!Apply(p)
  PROVE  BenchShape'
<1> DEFINE a == Bench!Target(p)
           text == IF Bench!Broken(p) THEN Mutant[p] ELSE bench[p].correct[a]
<1>1. Going(p, bench[p]) /\ bench[p].pc = "patch"
  BY DEF BenchShape, RunsFit, Bench!Apply, Bench!At
<1>2. a \in Artifacts /\ a = Targets[p][bench[p].turn \div 3 + 1]
  BY <1>1, TargetFits DEF Going, Bench!Invocations, Bench!Target
<1>3. text \in Bench!Texts
  BY <1>1, <1>2 DEF Going, Bench!Invocations, Bench!Captured, Bench!Texts
<1>4. Bench!Patched(a, text) \/ Bench!Mispatched(a, text)
  BY DEF Bench!Apply
<1>5. live' \in [Artifacts -> Bench!Texts] /\ faults' \in Nat
  BY <1>2, <1>3, <1>4, PatchFits DEF BenchShape
<1>6. CASE bench' = [bench EXCEPT ![p].pc = "turn", ![p].turn = @ + 1] /\ UNCHANGED job
  <2> DEFINE m == [bench[p] EXCEPT !.pc = "turn", !.turn = @ + 1]
  <2>1. bench[p] \in Bench!Invocations /\ bench[p].turn + 1 \in Nat
    BY <1>1 DEF Going, Bench!Invocations
  <2>2. m \in Bench!Invocations /\ m.pc = "turn" /\ m.todo = bench[p].todo
        /\ m.correct = bench[p].correct
    BY <2>1 DEF Bench!Invocations
  <2> HIDE DEF m
  <2>3. Going(p, m)
    BY <1>1, <2>2 DEF Going
  <2>4. bench' = [bench EXCEPT ![p] = m]
    BY <1>6 DEF m
  <2>5. RunsFit'
    BY <2>3, <2>4, RunMoves DEF BenchShape
  <2> QED
    BY <1>5, <1>6, <2>5 DEF Bench!Apply, BenchShape, JobsFit, FilesFit, RestFits
<1>7. CASE Bench!Finish(p)
  BY <1>5, <1>7, FinishFits DEF Bench!Apply, BenchShape, FilesFit, RestFits
<1> QED
  BY <1>6, <1>7 DEF Bench!Apply

LEMMA KeepUnrestoredFits ==
  ASSUME BenchShape, NEW p \in Benches, Bench!KeepUnrestored(p)
  PROVE  BenchShape'
<1> DEFINE text == [a \in Artifacts |-> IF a \in job[p].still THEN job[p].text[a] ELSE None]
           pruned == [journal EXCEPT ![Bench!Key(p)] = [by |-> p, text |-> text]]
<1>1. RunsFit'
  BY GotoFits DEF BenchShape, Bench!KeepUnrestored
<1>2. text \in Bench!Captured
  BY DEF BenchShape, JobsFit, Bench!Restorations, Bench!Captured
<1>3. FilesFit'
  <2>1. journal' = journal \/ journal' = pruned
    BY DEF Bench!KeepUnrestored
  <2>2. [by |-> p, text |-> text] \in Bench!Records
    BY <1>2 DEF Bench!Records
  <2> HIDE DEF text
  <2> QED
    BY <2>1, <2>2 DEF BenchShape, FilesFit
<1>4. RestFits'
  BY DEF Bench!KeepUnrestored, Bench!Fault, BenchShape, RestFits
<1> QED
  BY <1>1, <1>3, <1>4 DEF Bench!KeepUnrestored, BenchShape, JobsFit

LEMMA ClearJournalFits ==
  ASSUME BenchShape, NEW p \in Benches, Bench!ClearJournal(p)
  PROVE  BenchShape'
<1>1. RunsFit'
  BY GotoFits DEF BenchShape, Bench!ClearJournal
<1> QED
  BY <1>1 DEF Bench!ClearJournal, Bench!Fault, BenchShape, JobsFit, FilesFit, RestFits

LEMMA BeginRestoreFits ==
  ASSUME BenchShape, NEW x \in Restorers, NEW k \in Bench!Journals,
         Bench!BeginRestore(x, k)
  PROVE  BenchShape'
<1>1. journal[k] \in Bench!Records
  BY DEF BenchShape, FilesFit, Bench!BeginRestore
<1>2. Sent(Bench!Job(journal[k].text))
  BY <1>1, NewJobFits DEF Bench!Records
<1>3. JobsFit'
  BY <1>2, JobMoves DEF Bench!BeginRestore, BenchShape
<1> QED
  BY <1>3 DEF Bench!BeginRestore, BenchShape, RunsFit, FilesFit, RestFits

LEMMA EndRestoreFits ==
  ASSUME BenchShape, NEW x \in Restorers, Bench!EndRestore(x)
  PROVE  BenchShape'
<1>1. Bench!NoText \in Bench!Captured
  BY DEF Bench!NoText, Bench!Captured
<1>2. Sent(Bench!NoJob)
  BY <1>1 DEF Bench!NoJob, Sent, Due, Bench!Restorations
<1>3. JobsFit'
  <2>1. UNCHANGED job \/ job' = [job EXCEPT ![x] = Bench!NoJob]
    BY DEF Bench!EndRestore
  <2> QED
    BY <1>2, <2>1, JobMoves DEF BenchShape, JobsFit
<1>4. FilesFit'
  BY DEF Bench!EndRestore, BenchShape, FilesFit
<1>5. RestFits'
  BY DEF Bench!EndRestore, Bench!Fault, BenchShape, RestFits
<1> QED
  BY <1>3, <1>4, <1>5 DEF Bench!EndRestore, BenchShape, RunsFit

LEMMA UnleaseFits ==
  ASSUME BenchShape, NEW x \in Restorers, Bench!Unlease(x) \/ Bench!KillRestore(x)
  PROVE  BenchShape'
BY DEF Bench!Unlease, Bench!KillRestore, Bench!HeldBy, BenchShape, RunsFit, JobsFit,
       FilesFit, RestFits

LEMMA PutBackFits ==
  ASSUME BenchShape, NEW x \in Benches \cup Restorers, Bench!PutBack(x)
  PROVE  BenchShape'
<1>1. PICK a \in job[x].pending :
        /\ \/ Bench!Patched(a, job[x].text[a])
           \/ Bench!Mispatched(a, job[x].text[a])
        /\ \/ job' = [job EXCEPT ![x].on = a, ![x].pending = @ \ {a}]
           \/ job' = [job EXCEPT ![x].still = @ \cup {a}, ![x].pending = @ \ {a}]
  BY DEF Bench!PutBack
<1>2. Sent(job[x]) /\ job[x] \in Bench!Restorations /\ job[x].on = None
  BY DEF BenchShape, JobsFit, Bench!PutBack
<1>3. a \in Artifacts /\ a # None /\ a \in Bench!Named(job[x].text)
  BY <1>1, <1>2, BenchAssumption DEF Bench!Restorations, Sent, Due
<1>4. job[x].text[a] \in Bench!Texts
  BY <1>2, <1>3 DEF Bench!Restorations, Bench!Captured, Bench!Named
<1>5. live' \in [Artifacts -> Bench!Texts] /\ faults' \in Nat
  BY <1>1, <1>3, <1>4, PatchFits DEF BenchShape
<1>6. Sent([job[x] EXCEPT !.on = a, !.pending = @ \ {a}])
  BY <1>2, <1>3 DEF Sent, Due, Bench!Restorations
<1>7. Sent([job[x] EXCEPT !.still = @ \cup {a}, !.pending = @ \ {a}])
  BY <1>2, <1>3 DEF Sent, Due, Bench!Restorations
<1>8. \/ job' = [job EXCEPT ![x] = [job[x] EXCEPT !.on = a, !.pending = @ \ {a}]]
      \/ job' = [job EXCEPT ![x] =
                  [job[x] EXCEPT !.still = @ \cup {a}, !.pending = @ \ {a}]]
  BY <1>1
<1>9. JobsFit'
  BY <1>6, <1>7, <1>8, JobMoves DEF BenchShape
<1> QED
  BY <1>5, <1>9 DEF Bench!PutBack, BenchShape, RunsFit, FilesFit, RestFits

LEMMA ReadBackFits ==
  ASSUME BenchShape, NEW x \in Benches \cup Restorers, Bench!ReadBack(x) \/ Bench!Retry(x)
  PROVE  BenchShape'
<1>1. Sent(job[x]) /\ job[x] \in Bench!Restorations
  BY DEF BenchShape, JobsFit
<1>2. JobsFit'
  <2>1. CASE Bench!ReadBack(x)
    <3>1. Sent([job[x] EXCEPT !.on = None])
      BY <1>1 DEF Sent, Due, Bench!Restorations
    <3>2. Sent([job[x] EXCEPT !.still = @ \cup {job[x].on}, !.on = None])
      BY <1>1, <2>1 DEF Sent, Due, Bench!Restorations, Bench!ReadBack
    <3>3. \/ job' = [job EXCEPT ![x] = [job[x] EXCEPT !.on = None]]
          \/ job' = [job EXCEPT ![x] =
                      [job[x] EXCEPT !.still = @ \cup {job[x].on}, !.on = None]]
      BY <2>1 DEF Bench!ReadBack
    <3> QED
      BY <3>1, <3>2, <3>3, JobMoves DEF BenchShape
  <2>2. CASE Bench!Retry(x)
    <3> DEFINE j == [job[x] EXCEPT !.pending = job[x].still, !.still = {}, !.tries = @ + 1]
    <3>1. job[x].tries + 1 \in Nat
      BY <1>1 DEF Bench!Restorations
    <3>2. j \in Bench!Restorations /\ j.pending = job[x].still /\ j.still = {}
          /\ j.on = job[x].on /\ j.text = job[x].text
      BY <1>1, <3>1 DEF Bench!Restorations
    <3>3. job' = [job EXCEPT ![x] = j]
      BY <2>2 DEF Bench!Retry
    <3> HIDE DEF j
    <3>4. Sent(j)
      BY <1>1, <3>2 DEF Sent, Due
    <3> QED
      BY <3>3, <3>4, JobMoves DEF BenchShape
  <2> QED
    BY <2>1, <2>2
<1> QED
  BY <1>2 DEF Bench!ReadBack, Bench!Retry, Bench!Fault, BenchShape, RunsFit, FilesFit,
              RestFits

LEMMA BenchNextCases ==
  ASSUME Bench!Next
  PROVE  \/ \E p \in Benches :
              \/ Bench!Scan(p) \/ Bench!Check(p) \/ Bench!SeeLeases(p)
              \/ Bench!InsertLease(p) \/ Bench!UndoLease(p) \/ Bench!SeeLeasesAgain(p)
              \/ Bench!DeleteLease(p) \/ Bench!Smoke(p) \/ Bench!Kill(p)
         \/ \E p \in Benches :
              \/ Bench!BeginTurn(p) \/ Bench!EndTurns(p) \/ Bench!ResetOne(p)
              \/ Bench!EndReset(p) \/ Bench!Capture(p) \/ Bench!Record(p)
              \/ Bench!Apply(p) \/ Bench!KeepUnrestored(p) \/ Bench!ClearJournal(p)
         \/ \E x \in Restorers :
              \/ Bench!EndRestore(x) \/ Bench!Unlease(x) \/ Bench!KillRestore(x)
              \/ \E k \in Bench!Journals : Bench!BeginRestore(x, k)
         \/ \E x \in Benches \cup Restorers :
              Bench!PutBack(x) \/ Bench!ReadBack(x) \/ Bench!Retry(x)
BY DEF Bench!Next

LEMMA NextKeepsShape ==
  ASSUME BenchShape, Bench!Next
  PROVE  BenchShape'
BY BenchNextCases, LeaseStepFits, BeginTurnFits, EndTurnsFits, ResetOneFits, EndResetFits,
   CaptureFits, RecordFits, ApplyFits, KeepUnrestoredFits, ClearJournalFits,
   BeginRestoreFits, EndRestoreFits, UnleaseFits, PutBackFits, ReadBackFits

LEMMA InitShape == Bench!Init => BenchShape
<1> SUFFICES ASSUME Bench!Init PROVE BenchShape
  OBVIOUS
<1>1. Bench!NoText \in Bench!Captured
  BY DEF Bench!NoText, Bench!Captured
<1>2. RunsFit
  BY <1>1 DEF Bench!Init, RunsFit, Going, Bench!Invocations
<1>3. Sent(Bench!NoJob)
  BY <1>1 DEF Bench!NoJob, Sent, Due, Bench!Restorations
<1>4. JobsFit
  BY <1>3 DEF Bench!Init, JobsFit, Sent
<1> QED
  BY <1>2, <1>4 DEF Bench!Init, BenchShape, FilesFit, RestFits, Bench!Texts

-----------------------------------------------------------------------------
(* The lease.                                                              *)

\* No two invocations are given one run id.
DistinctIds == \A p, q \in Benches : RunId[p] = RunId[q] => p = q

(***************************************************************************)
(* Who has seen its own row alone has a row, and rows of others go only    *)
(* with the journals of those that are gone.                               *)
(***************************************************************************)
HoldersHaveRows == \A p \in Benches : Bench!Holding(p) \/ bench[p].pc = "reread" => p \in rows
JournalsKeyed == \A k \in Bench!Journals : journal[k] # None => Bench!Key(journal[k].by) = k
RestoresOfGone ==
  \A x \in Restorers : op[x] # None => \E p \in Benches : op[x] = Bench!Key(p) /\ Bench!Gone(p)

LeaseInv == HoldersHaveRows /\ JournalsKeyed /\ RestoresOfGone /\ Bench!OneRunner

LEMMA InitLease == Bench!Init => LeaseInv
BY DEF Bench!Init, LeaseInv, HoldersHaveRows, JournalsKeyed, RestoresOfGone, Bench!OneRunner,
       Bench!Holding

\* Nobody takes the lease, and nobody who is gone comes back.
Settles ==
  \A p \in Benches :
    /\ Bench!Holding(p)' => Bench!Holding(p)
    /\ bench'[p].pc = "reread" => bench[p].pc = "reread"
    /\ Bench!Gone(p) => Bench!Gone(p)'

LEMMA SettlingKeepsLease ==
  ASSUME LeaseInv, Settles, UNCHANGED <<rows, op>>,
         \A k \in Bench!Journals : journal'[k] \in {None, journal[k]}
                                   \/ Bench!Key(journal'[k].by) = k
  PROVE  LeaseInv'
<1>1. HoldersHaveRows' /\ Bench!OneRunner'
  BY DEF LeaseInv, Settles, HoldersHaveRows, Bench!OneRunner
<1>2. JournalsKeyed'
  BY DEF LeaseInv, JournalsKeyed, Bench!Key
<1>3. RestoresOfGone'
  BY DEF LeaseInv, RestoresOfGone, Settles, Bench!Key
<1> QED
  BY <1>1, <1>2, <1>3 DEF LeaseInv

LEMMA GotoSettles ==
  ASSUME BenchShape, NEW p \in Benches, ~Bench!Gone(p), NEW c, Bench!Goto(p, c),
         \/ c \notin {"reread", "smoke", "turn", "reset", "apply", "record", "patch", "final",
                      "clear", "release"}
         \/ Bench!Holding(p) /\ c # "reread"
  PROVE  Settles
BY DEF BenchShape, RunsFit, Bench!Invocations, Bench!Goto, Settles, Bench!Holding, Bench!Gone

LEMMA FinishSettles ==
  ASSUME BenchShape, NEW p \in Benches, Bench!Holding(p), Bench!Finish(p)
  PROVE  Settles
<1>1. Bench!Goto(p, "release") \/ Bench!Goto(p, "final")
  BY DEF Bench!Finish
<1>2. ~Bench!Gone(p)
  BY DEF Bench!Holding, Bench!Gone
<1> QED
  BY <1>1, <1>2, GotoSettles

LEMMA StillSettles == UNCHANGED bench => Settles
BY DEF Settles, Bench!Holding, Bench!Gone

\* What happens with no say in the lease.
LEMMA LookingKeepsLease ==
  ASSUME BenchShape, LeaseInv, NEW p \in Benches,
         \/ Bench!Scan(p) \/ Bench!Check(p) \/ Bench!SeeLeases(p) \/ Bench!Smoke(p)
         \/ Bench!Kill(p)
  PROVE  LeaseInv'
<1>1. ~Bench!Gone(p)
  BY DEF Bench!Scan, Bench!Check, Bench!SeeLeases, Bench!Smoke, Bench!Kill, Bench!At,
         Bench!Gone
<1>2. Settles
  <2>1. \/ \E c \in {"check", "over", "lease", "insert", "dead"} : Bench!Goto(p, c)
        \/ Bench!Holding(p) /\ \E c \in {"turn", "release"} : Bench!Goto(p, c)
    BY DEF Bench!Scan, Bench!Check, Bench!SeeLeases, Bench!Smoke, Bench!Kill, Bench!At,
           Bench!Holding
  <2> QED
    BY <1>1, <2>1, GotoSettles
<1>3. UNCHANGED <<rows, op, journal>>
  BY DEF Bench!Scan, Bench!Check, Bench!SeeLeases, Bench!Smoke, Bench!Kill
<1> QED
  BY <1>2, <1>3, SettlingKeepsLease

LEMMA TurnKeepsLease ==
  ASSUME BenchShape, LeaseInv, NEW p \in Benches,
         \/ Bench!BeginTurn(p) \/ Bench!EndTurns(p) \/ Bench!ResetOne(p)
         \/ Bench!EndReset(p) \/ Bench!Capture(p) \/ Bench!Apply(p)
  PROVE  LeaseInv'
<1>1. Bench!Holding(p) /\ ~Bench!Gone(p) /\ UNCHANGED <<rows, op, journal>>
  BY DEF Bench!BeginTurn, Bench!EndTurns, Bench!ResetOne, Bench!EndReset, Bench!Capture,
         Bench!Apply, Bench!At, Bench!Holding, Bench!Gone
<1>2. Settles
  <2>1. CASE Bench!BeginTurn(p)
    BY <1>1, <2>1 DEF Bench!BeginTurn, BenchShape, RunsFit, Bench!Invocations, Settles,
                      Bench!Holding, Bench!Gone
  <2>2. CASE Bench!EndTurns(p)
    BY <1>1, <2>2, FinishSettles DEF Bench!EndTurns
  <2>3. CASE Bench!ResetOne(p)
    BY <1>1, <2>3 DEF Bench!ResetOne, BenchShape, RunsFit, Bench!Invocations, Settles,
                      Bench!Holding, Bench!Gone
  <2>4. CASE Bench!EndReset(p)
    BY <1>1, <2>4, FinishSettles, GotoSettles DEF Bench!EndReset
  <2>5. CASE Bench!Capture(p)
    <3>1. \/ Bench!Goto(p, "patch") \/ Bench!Finish(p)
          \/ bench' = [bench EXCEPT ![p].pc = "record",
                                    ![p].read = live[Bench!Target(p)]]
      BY <2>5 DEF Bench!Capture
    <3> QED
      BY <1>1, <3>1, FinishSettles, GotoSettles
      DEF BenchShape, RunsFit, Bench!Invocations, Settles, Bench!Holding, Bench!Gone
  <2>6. CASE Bench!Apply(p)
    <3>1. \/ Bench!Finish(p)
          \/ bench' = [bench EXCEPT ![p].pc = "turn", ![p].turn = @ + 1]
      BY <2>6 DEF Bench!Apply
    <3> QED
      BY <1>1, <3>1, FinishSettles
      DEF BenchShape, RunsFit, Bench!Invocations, Settles, Bench!Holding, Bench!Gone
  <2> QED
    BY <2>1, <2>2, <2>3, <2>4, <2>5, <2>6
<1> QED
  BY <1>1, <1>2, SettlingKeepsLease

LEMMA RecordKeepsLease ==
  ASSUME BenchShape, LeaseInv, NEW p \in Benches, Bench!Record(p)
  PROVE  LeaseInv'
<1>1. Bench!Holding(p)
  BY DEF Bench!Record, Bench!At, Bench!Holding
<1>2. Settles
  <2>1. \/ Bench!Finish(p)
        \/ bench' = [bench EXCEPT ![p].pc = "patch", ![p].created = TRUE,
                                  ![p].correct = Bench!Journalled(p).text]
    BY DEF Bench!Record
  <2> QED
    BY <1>1, <2>1, FinishSettles
    DEF BenchShape, RunsFit, Bench!Invocations, Settles, Bench!Holding, Bench!Gone
<1>3. journal' = journal \/ journal' = [journal EXCEPT ![Bench!Key(p)] = Bench!Journalled(p)]
  BY DEF Bench!Record
<1>4. \A k \in Bench!Journals : journal'[k] \in {None, journal[k]}
                                \/ Bench!Key(journal'[k].by) = k
  BY <1>3 DEF Bench!Journalled, BenchShape, FilesFit
<1> QED
  BY <1>2, <1>4, SettlingKeepsLease DEF Bench!Record

LEMMA ClosingKeepsLease ==
  ASSUME BenchShape, LeaseInv, NEW p \in Benches,
         Bench!KeepUnrestored(p) \/ Bench!ClearJournal(p)
  PROVE  LeaseInv'
<1>1. Bench!Holding(p) /\ ~Bench!Gone(p) /\ Bench!Goto(p, "release") /\ UNCHANGED <<rows, op>>
  BY DEF Bench!KeepUnrestored, Bench!ClearJournal, Bench!At, Bench!Holding, Bench!Gone
<1>2. Settles
  BY <1>1, GotoSettles
<1>3. \/ journal' = journal \/ journal' = [journal EXCEPT ![Bench!Key(p)] = None]
      \/ \E text : journal' = [journal EXCEPT ![Bench!Key(p)] = [by |-> p, text |-> text]]
  BY DEF Bench!KeepUnrestored, Bench!ClearJournal
<1>4. \A k \in Bench!Journals : journal'[k] \in {None, journal[k]}
                                \/ Bench!Key(journal'[k].by) = k
  BY <1>3 DEF BenchShape, FilesFit
<1> QED
  BY <1>1, <1>2, <1>4, SettlingKeepsLease

LEMMA RestoringKeepsLease ==
  ASSUME BenchShape, LeaseInv, NEW x \in Benches \cup Restorers,
         Bench!PutBack(x) \/ Bench!ReadBack(x) \/ Bench!Retry(x)
  PROVE  LeaseInv'
<1>1. UNCHANGED <<bench, rows, op, journal>>
  BY DEF Bench!PutBack, Bench!ReadBack, Bench!Retry
<1> QED
  BY <1>1, StillSettles, SettlingKeepsLease

\* Rows come and go.
LEMMA InsertKeepsLease ==
  ASSUME BenchShape, LeaseInv, NEW p \in Benches, Bench!InsertLease(p)
  PROVE  LeaseInv'
<1>1. HoldersHaveRows'
  BY DEF Bench!InsertLease, Bench!Goto, Bench!At, BenchShape, RunsFit, Bench!Invocations,
         LeaseInv, HoldersHaveRows, Bench!Holding
<1>2. Bench!OneRunner'
  BY DEF Bench!InsertLease, Bench!Goto, Bench!At, BenchShape, RunsFit, Bench!Invocations,
         LeaseInv, Bench!OneRunner, Bench!Holding
<1>3. JournalsKeyed' /\ RestoresOfGone'
  BY DEF Bench!InsertLease, Bench!Goto, Bench!At, BenchShape, RunsFit, Bench!Invocations,
         LeaseInv, JournalsKeyed, RestoresOfGone, Bench!Key, Bench!Gone
<1> QED
  BY <1>1, <1>2, <1>3 DEF LeaseInv

LEMMA SeeAgainKeepsLease ==
  ASSUME BenchShape, LeaseInv, NEW p \in Benches, Bench!SeeLeasesAgain(p)
  PROVE  LeaseInv'
<1>1. HoldersHaveRows'
  BY DEF Bench!SeeLeasesAgain, Bench!Goto, Bench!At, BenchShape, RunsFit, Bench!Invocations,
         LeaseInv, HoldersHaveRows, Bench!Holding
<1>2. Bench!OneRunner'
  BY DEF Bench!SeeLeasesAgain, Bench!Goto, Bench!At, BenchShape, RunsFit, Bench!Invocations,
         LeaseInv, HoldersHaveRows, Bench!OneRunner, Bench!Holding
<1>3. JournalsKeyed' /\ RestoresOfGone'
  BY DEF Bench!SeeLeasesAgain, Bench!Goto, Bench!At, BenchShape, RunsFit, Bench!Invocations,
         LeaseInv, JournalsKeyed, RestoresOfGone, Bench!Key, Bench!Gone
<1> QED
  BY <1>1, <1>2, <1>3 DEF LeaseInv

LEMMA LeavingKeepsLease ==
  ASSUME DistinctIds, BenchShape, LeaseInv, NEW p \in Benches,
         Bench!UndoLease(p) \/ Bench!DeleteLease(p)
  PROVE  LeaseInv'
<1>1. rows \ {p} \subseteq rows' /\ Bench!Goto(p, "over") /\ UNCHANGED <<journal, op>>
  BY DEF Bench!UndoLease, Bench!DeleteLease, Bench!HeldBy, DistinctIds, BenchShape, RestFits
<1>2. HoldersHaveRows' /\ Bench!OneRunner'
  BY <1>1 DEF Bench!Goto, BenchShape, RunsFit, Bench!Invocations, LeaseInv,
              HoldersHaveRows, Bench!OneRunner, Bench!Holding
<1>3. JournalsKeyed' /\ RestoresOfGone'
  BY <1>1 DEF Bench!Goto, BenchShape, RunsFit, Bench!Invocations, LeaseInv,
              JournalsKeyed, RestoresOfGone, Bench!Key, Bench!Gone
<1> QED
  BY <1>2, <1>3 DEF LeaseInv

LEMMA UnleaseKeepsLease ==
  ASSUME DistinctIds, BenchShape, LeaseInv, NEW x \in Restorers, Bench!Unlease(x)
  PROVE  LeaseInv'
<1>1. PICK p \in Benches : op[x] = Bench!Key(p) /\ Bench!Gone(p)
  BY DEF LeaseInv, RestoresOfGone, Bench!Unlease
<1>2. op[x][2] = RunId[p]
  BY <1>1 DEF Bench!Key
<1>3. rows \ {p} \subseteq rows'
  BY <1>2 DEF Bench!Unlease, Bench!HeldBy, DistinctIds, BenchShape, RestFits
<1>4. HoldersHaveRows'
  BY <1>1, <1>3 DEF Bench!Unlease, LeaseInv, HoldersHaveRows, Bench!Holding, Bench!Gone
<1> QED
  BY <1>4 DEF Bench!Unlease, LeaseInv, JournalsKeyed, RestoresOfGone, Bench!OneRunner,
              Bench!Holding, Bench!Key, Bench!Gone, BenchShape, RestFits

LEMMA RestoreKeepsLease ==
  ASSUME BenchShape, LeaseInv, NEW x \in Restorers,
         \/ Bench!EndRestore(x) \/ Bench!KillRestore(x)
         \/ \E k \in Bench!Journals : Bench!BeginRestore(x, k)
  PROVE  LeaseInv'
<1>1. HoldersHaveRows' /\ Bench!OneRunner'
  BY DEF Bench!EndRestore, Bench!KillRestore, Bench!BeginRestore, LeaseInv,
         HoldersHaveRows, Bench!OneRunner, Bench!Holding
<1>2. JournalsKeyed'
  BY DEF Bench!EndRestore, Bench!KillRestore, Bench!BeginRestore, LeaseInv,
         JournalsKeyed, Bench!Key, BenchShape, FilesFit
<1>3. RestoresOfGone'
  <2>1. \A y \in Restorers : op'[y] # None =>
          \/ op'[y] = op[y]
          \/ \E k \in Bench!Journals : op'[y] = k /\ journal[k] # None /\ Bench!Gone(journal[k].by)
    BY DEF Bench!EndRestore, Bench!KillRestore, Bench!BeginRestore, BenchShape, RestFits
  <2>2. \A k \in Bench!Journals : journal[k] # None => journal[k].by \in Benches
    BY DEF BenchShape, FilesFit, Bench!Records
  <2>3. UNCHANGED bench
    BY DEF Bench!EndRestore, Bench!KillRestore, Bench!BeginRestore
  <2> QED
    BY <2>1, <2>2, <2>3 DEF LeaseInv, JournalsKeyed, RestoresOfGone, Bench!Key, Bench!Gone
<1> QED
  BY <1>1, <1>2, <1>3 DEF LeaseInv

LEMMA NextKeepsLease ==
  ASSUME DistinctIds, BenchShape, LeaseInv, Bench!Next
  PROVE  LeaseInv'
BY BenchNextCases, LookingKeepsLease, TurnKeepsLease, RecordKeepsLease, ClosingKeepsLease,
   RestoringKeepsLease, InsertKeepsLease, SeeAgainKeepsLease, LeavingKeepsLease,
   UnleaseKeepsLease, RestoreKeepsLease

-----------------------------------------------------------------------------
(* The restore journal.                                                    *)

\* The catalogs put the same broken text in place.
OneMutant == \A p, q \in Benches : Mutant[p] = Mutant[q]

Good(text) == \A a \in Artifacts : text[a] \in {None, "good"}

\* What is captured, recorded and put back is correct.
RunTexts == \A p \in Benches : Good(bench[p].correct) /\ bench[p].read \in {None, "good"}
JobTexts == \A x \in Benches \cup Restorers : Good(job[x].text)
FileTexts == \A k \in Bench!Journals : journal[k] # None => Good(journal[k].text)
TextsGood == RunTexts /\ JobTexts /\ FileTexts

Active(p) == bench[p].pc \notin {"release", "over", "dead"}
Names(k, a) == journal[k] # None /\ journal[k].text[a] = "good"

\* What a run has captured is in its journal until the journal is cleared.
Recorded ==
  \A p \in Benches, a \in Artifacts :
    Active(p) /\ bench[p].correct[a] # None => Names(Bench!Key(p), a)

(***************************************************************************)
(* The journal of p answers for a: whoever could clear it, p itself or a   *)
(* restore, has yet to put a back.                                         *)
(***************************************************************************)
Guards(p, a) ==
  /\ Names(Bench!Key(p), a)
  /\ Active(p) => bench[p].correct[a] # None
  /\ bench[p].pc = "final" => a \in Due(job[p])
  /\ \A x \in Restorers : op[x] = Bench!Key(p) => a \in Due(job[x])

Guarded == \A a \in Artifacts : live[a] # "good" => \E p \in Benches : Guards(p, a)

JournalInv == TextsGood /\ Recorded /\ Guarded

LEMMA InitJournal == Bench!Init => JournalInv
BY DEF Bench!Init, JournalInv, TextsGood, RunTexts, JobTexts, FileTexts, Good, Recorded,
       Guarded, Bench!NoJob, Bench!NoText

LEMMA OneText ==
  ASSUME OneMutant, NEW text \in Bench!Texts, NEW p \in Benches, text # Mutant[p]
  PROVE  text = "good"
BY DEF OneMutant, Bench!Texts

LEMMA KeysDiffer ==
  ASSUME DistinctIds, NEW p \in Benches, NEW q \in Benches, p # q
  PROVE  Bench!Key(p) # Bench!Key(q)
BY DEF DistinctIds, Bench!Key

LEMMA KeyOfJournal ==
  ASSUME NEW p \in Benches
  PROVE  Bench!Key(p) \in Bench!Journals
BY DEF Bench!Key, Bench!Journals

\* A journal is the business of its run and, once that is gone, of restores.
LEMMA RestoresElsewhere ==
  ASSUME DistinctIds, LeaseInv, NEW p \in Benches, ~Bench!Gone(p), NEW x \in Restorers
  PROVE  op[x] # Bench!Key(p)
<1>1. Bench!Key(p) # None
  BY KeyOfJournal, BenchAssumption
<1> QED
  BY <1>1, KeysDiffer DEF LeaseInv, RestoresOfGone

LEMMA NewJobDue ==
  ASSUME NEW text, NEW a \in Artifacts
  PROVE  /\ Bench!Job(text).text = text
         /\ text[a] # None => a \in Due(Bench!Job(text))
BY BenchAssumption DEF Bench!Job, Bench!NoJob, Due, Bench!Named

-----------------------------------------------------------------------------
\* A step that neither touches journals, jobs and restores nor starts a final restore.
Calm ==
  /\ UNCHANGED <<journal, job, op>>
  /\ \A p \in Benches :
       /\ bench'[p].correct = bench[p].correct
       /\ Active(p)' => Active(p)
       /\ bench'[p].pc = "final" => bench[p].pc = "final"

LEMMA CalmKeepsGuards ==
  ASSUME Calm, NEW q \in Benches, NEW a, Guards(q, a)
  PROVE  Guards(q, a)'
BY DEF Calm, Guards, Names, Due, Bench!Key

LEMMA CalmKeepsJournal ==
  ASSUME JournalInv, Calm, \A p \in Benches : bench'[p].read \in {bench[p].read, None, "good"},
         \A a \in Artifacts : live'[a] # "good" => \/ live[a] # "good"
                                                 \/ \E p \in Benches : Guards(p, a)
  PROVE  JournalInv'
<1>1. TextsGood'
  BY DEF Calm, JournalInv, TextsGood, RunTexts, JobTexts, FileTexts, Good
<1>2. Recorded'
  BY DEF Calm, JournalInv, Recorded, Names, Bench!Key
<1>3. Guarded'
  BY CalmKeepsGuards DEF JournalInv, Guarded
<1> QED
  BY <1>1, <1>2, <1>3 DEF JournalInv

LEMMA LeaseStepKeepsJournal ==
  ASSUME BenchShape, JournalInv, NEW p \in Benches,
         \/ Bench!Scan(p) \/ Bench!Check(p) \/ Bench!SeeLeases(p) \/ Bench!InsertLease(p)
         \/ Bench!UndoLease(p) \/ Bench!SeeLeasesAgain(p) \/ Bench!DeleteLease(p)
         \/ Bench!Smoke(p) \/ Bench!Kill(p)
  PROVE  JournalInv'
<1>1. \/ /\ Active(p)
         /\ \E c \in {"check", "lease", "insert", "reread", "undo", "retreat", "smoke", "turn",
                     "release", "over", "dead"} : Bench!Goto(p, c)
      \/ \E c \in {"over", "dead"} : Bench!Goto(p, c)
  BY DEF Bench!Scan, Bench!Check, Bench!SeeLeases, Bench!InsertLease, Bench!UndoLease,
         Bench!SeeLeasesAgain, Bench!DeleteLease, Bench!Smoke, Bench!Kill, Bench!At, Active,
         Bench!Gone
<1>2. UNCHANGED <<live, journal, job, op>>
  BY DEF Bench!Scan, Bench!Check, Bench!SeeLeases, Bench!InsertLease, Bench!UndoLease,
         Bench!SeeLeasesAgain, Bench!DeleteLease, Bench!Smoke, Bench!Kill
<1>3. Calm /\ \A q \in Benches : bench'[q].read = bench[q].read
  BY <1>1, <1>2 DEF Calm, Active, Bench!Goto, BenchShape, RunsFit, Bench!Invocations
<1> QED
  BY <1>2, <1>3, CalmKeepsJournal

LEMMA BeginTurnKeepsJournal ==
  ASSUME BenchShape, JournalInv, NEW p \in Benches, Bench!BeginTurn(p)
  PROVE  JournalInv'
<1>1. Calm /\ \A q \in Benches : bench'[q].read = bench[q].read
  BY DEF Calm, Active, Bench!BeginTurn, Bench!At, BenchShape, RunsFit, Bench!Invocations
<1> QED
  BY <1>1, CalmKeepsJournal DEF Bench!BeginTurn

LEMMA ResetOneKeepsJournal ==
  ASSUME BenchShape, JournalInv, NEW p \in Benches, Bench!ResetOne(p)
  PROVE  JournalInv'
<1>1. Calm /\ \A q \in Benches : bench'[q].read = bench[q].read
  BY DEF Calm, Active, Bench!ResetOne, Bench!At, BenchShape, RunsFit, Bench!Invocations
<1>2. \A a \in Artifacts : live'[a] # "good" => live[a] # "good"
  <2>1. PICK a \in bench[p].todo :
          \/ Bench!Patched(a, bench[p].correct[a])
          \/ Bench!Mispatched(a, bench[p].correct[a])
    BY DEF Bench!ResetOne
  <2>2. bench[p].correct[a] = "good"
    BY DEF JournalInv, TextsGood, RunTexts, Good, BenchShape, RunsFit, Going, Bench!Named,
           Bench!Invocations
  <2> QED
    BY <2>1, <2>2 DEF Bench!Patched, Bench!Mispatched, BenchShape, RestFits
<1> QED
  BY <1>1, <1>2, CalmKeepsJournal

-----------------------------------------------------------------------------
(***************************************************************************)
(* The end of the turns: what was captured is to be put back, and while    *)
(* nothing was, the turns end before the first source is applied.          *)
(***************************************************************************)
LEMMA FinishKeepsTexts ==
  ASSUME BenchShape, JournalInv, NEW p \in Benches, Bench!Finish(p)
  PROVE  RunTexts' /\ JobTexts'
<1>1. RunTexts'
  <2>1. Bench!Goto(p, "release") \/ Bench!Goto(p, "final")
    BY DEF Bench!Finish
  <2> QED
    BY <2>1 DEF Bench!Goto, JournalInv, TextsGood, RunTexts, Good, BenchShape, RunsFit,
                Bench!Invocations
<1>2. job' = job \/ job' = [job EXCEPT ![p] = Bench!Job(bench[p].correct)]
  BY DEF Bench!Finish
<1>3. Bench!Job(bench[p].correct).text = bench[p].correct
  BY DEF Bench!Job, Bench!NoJob
<1>4. JobTexts'
  BY <1>2, <1>3 DEF JournalInv, TextsGood, JobTexts, RunTexts, Good, BenchShape, JobsFit
<1> QED
  BY <1>1, <1>4

LEMMA FinishKeepsGuards ==
  ASSUME BenchShape, LeaseInv, DistinctIds,
         NEW p \in Benches, Bench!Holding(p), bench[p].pc # "release", Bench!Finish(p),
         UNCHANGED op, NEW q \in Benches, NEW a \in Artifacts,
         Names(Bench!Key(q), a)', Guards(q, a)
  PROVE  Guards(q, a)'
<1>1. \/ Bench!Goto(p, "release") /\ job' = job
      \/ /\ Bench!Goto(p, "final")
         /\ job' = [job EXCEPT ![p] = Bench!Job(bench[p].correct)]
  BY DEF Bench!Finish
<1>2. \A x \in Restorers : x # p
  BY BenchAssumption
<1>3. (\A x \in Restorers : op[x] = Bench!Key(q) => a \in Due(job[x]))'
  BY <1>1, <1>2 DEF Guards, BenchShape, JobsFit, Bench!Key
<1>4. CASE q # p
  BY <1>1, <1>3, <1>4 DEF Guards, Bench!Goto, Active, BenchShape, RunsFit, JobsFit
<1>5. CASE q = p
  <2>1. bench[p].correct[a] # None
    BY <1>5 DEF Guards, Active, Bench!Holding
  <2>2. bench'[p].correct[a] # None /\ (bench'[p].pc = "final" => a \in Due(job'[p]))
    BY <1>1, <2>1, NewJobDue
    DEF Bench!Goto, BenchShape, RunsFit, JobsFit, Bench!Invocations
  <2> QED
    BY <1>3, <1>5, <2>2 DEF Guards
<1> QED
  BY <1>4, <1>5

\* What an active run has captured, or a finished one left behind, stays named.
StillNamed ==
  \A q \in Benches, a \in Artifacts :
    Names(Bench!Key(q), a) /\ (Active(q) => bench[q].correct[a] # None) =>
      Names(Bench!Key(q), a)'

LEMMA FinishKeepsRecorded ==
  ASSUME BenchShape, JournalInv, NEW p \in Benches, Bench!Holding(p), Bench!Finish(p),
         bench[p].pc # "release", StillNamed
  PROVE  Recorded'
<1>1. Bench!Goto(p, "release") \/ Bench!Goto(p, "final")
  BY DEF Bench!Finish
<1> QED
  BY <1>1 DEF StillNamed, JournalInv, Recorded, Active, Bench!Goto, Bench!Holding,
              BenchShape, RunsFit, Bench!Invocations, Names, Bench!Key

LEMMA FinishKeepsJournal ==
  ASSUME BenchShape, LeaseInv, DistinctIds, JournalInv,
         NEW p \in Benches, Bench!Holding(p), Bench!Finish(p), bench[p].pc # "release",
         UNCHANGED op, FileTexts', StillNamed,
         \A a \in Artifacts : live'[a] # "good" => \/ live[a] # "good"
                                                 \/ \E q \in Benches : Guards(q, a)
  PROVE  JournalInv'
<1>1. TextsGood'
  BY FinishKeepsTexts DEF TextsGood
<1>2. Recorded'
  BY FinishKeepsRecorded
<1>3. Guarded'
  <2> SUFFICES ASSUME NEW a \in Artifacts, live'[a] # "good"
               PROVE  \E q \in Benches : Guards(q, a)'
    BY DEF Guarded
  <2>1. PICK q \in Benches : Guards(q, a)
    BY DEF JournalInv, Guarded
  <2>2. Names(Bench!Key(q), a)'
    BY <2>1 DEF Guards, StillNamed
  <2> QED
    BY <2>1, <2>2, FinishKeepsGuards
<1> QED
  BY <1>1, <1>2, <1>3 DEF JournalInv

LEMMA StillNames ==
  ASSUME UNCHANGED journal
  PROVE  StillNamed
BY DEF StillNamed, Names, Bench!Key

LEMMA EndTurnsKeepsJournal ==
  ASSUME BenchShape, LeaseInv, DistinctIds, JournalInv,
         NEW p \in Benches, Bench!EndTurns(p)
  PROVE  JournalInv'
<1>1. Bench!Holding(p) /\ bench[p].pc # "release" /\ Bench!Finish(p)
      /\ UNCHANGED <<live, journal, op>>
  BY DEF Bench!EndTurns, Bench!At, Bench!Holding
<1>2. FileTexts'
  BY <1>1 DEF JournalInv, TextsGood, FileTexts, Good
<1> QED
  BY <1>1, <1>2, StillNames, FinishKeepsJournal

LEMMA EndResetKeepsJournal ==
  ASSUME BenchShape, LeaseInv, DistinctIds, JournalInv,
         NEW p \in Benches, Bench!EndReset(p)
  PROVE  JournalInv'
<1>1. Bench!Holding(p) /\ bench[p].pc = "reset" /\ UNCHANGED <<live, journal, op>>
  BY DEF Bench!EndReset, Bench!At, Bench!Holding
<1>2. CASE Bench!Finish(p)
  <2>1. FileTexts'
    BY <1>1 DEF JournalInv, TextsGood, FileTexts, Good
  <2> QED
    BY <1>1, <1>2, <2>1, StillNames, FinishKeepsJournal
<1>3. CASE Bench!Goto(p, "apply") /\ UNCHANGED job
  <2>1. Calm /\ \A q \in Benches : bench'[q].read = bench[q].read
    BY <1>1, <1>3 DEF Calm, Active, Bench!Goto, BenchShape, RunsFit, Bench!Invocations
  <2> QED
    BY <1>1, <2>1, CalmKeepsJournal
<1> QED
  BY <1>2, <1>3 DEF Bench!EndReset

LEMMA CaptureKeepsJournal ==
  ASSUME BenchShape, LeaseInv, DistinctIds, OneMutant, JournalInv,
         NEW p \in Benches, Bench!Capture(p)
  PROVE  JournalInv'
<1> DEFINE a == Bench!Target(p)
<1>1. Bench!Holding(p) /\ bench[p].pc = "apply" /\ UNCHANGED <<live, journal, op>>
  BY DEF Bench!Capture, Bench!At, Bench!Holding
<1>2. CASE Bench!Finish(p)
  <2>1. FileTexts'
    BY <1>1 DEF JournalInv, TextsGood, FileTexts, Good
  <2> QED
    BY <1>1, <1>2, <2>1, StillNames, FinishKeepsJournal
<1>3. CASE Bench!Goto(p, "patch") /\ UNCHANGED job
  <2>1. Calm /\ \A q \in Benches : bench'[q].read = bench[q].read
    BY <1>1, <1>3 DEF Calm, Active, Bench!Goto, BenchShape, RunsFit, Bench!Invocations
  <2> QED
    BY <1>1, <2>1, CalmKeepsJournal
<1>4. CASE /\ Bench!Adoptable(p, live[a]) /\ UNCHANGED job
           /\ bench' = [bench EXCEPT ![p].pc = "record", ![p].read = live[a]]
  <2>1. a \in Artifacts
    BY <1>1, TargetFits DEF BenchShape, RunsFit, Going, Bench!Invocations, Bench!Target
  <2>2. live[a] = "good"
    BY <1>4, <2>1, OneText DEF Bench!Adoptable, BenchShape, RestFits
  <2>3. Calm /\ \A q \in Benches : bench'[q].read \in {bench[q].read, "good"}
    <3> HIDE DEF a
    <3> QED
      BY <1>1, <1>4, <2>2 DEF Calm, Active, BenchShape, RunsFit, Bench!Invocations
  <2> QED
    BY <1>1, <2>3, CalmKeepsJournal
<1> QED
  BY <1>2, <1>3, <1>4 DEF Bench!Capture

LEMMA RecordKeepsJournal ==
  ASSUME BenchShape, LeaseInv, DistinctIds, JournalInv,
         NEW p \in Benches, Bench!Record(p)
  PROVE  JournalInv'
<1> DEFINE a == Bench!Target(p)
           text == [bench[p].correct EXCEPT ![a] = bench[p].read]
<1>1. Bench!Holding(p) /\ bench[p].pc = "record" /\ UNCHANGED <<live, op>> /\ ~Bench!Gone(p)
  BY DEF Bench!Record, Bench!At, Bench!Holding, Bench!Gone
<1>2. Going(p, bench[p]) /\ bench[p].correct \in Bench!Captured /\ bench[p].read = "good"
  BY <1>1, BenchAssumption
  DEF BenchShape, RunsFit, Going, Bench!Invocations, JournalInv, TextsGood, RunTexts
<1>3. a \in Artifacts
  BY <1>1, <1>2, TargetFits DEF Going, Bench!Invocations, Bench!Target
<1>4. /\ text \in Bench!Captured /\ Good(text)
      /\ \A b \in Artifacts : text[b] # None <=> b = a \/ bench[p].correct[b] # None
  BY <1>2, <1>3, BenchAssumption
  DEF Bench!Captured, Bench!Texts, Good, JournalInv, TextsGood, RunTexts
<1>5. Bench!Journalled(p) = [by |-> p, text |-> text]
  BY DEF Bench!Journalled
<1> HIDE DEF a, text
<1>6. \/ journal' = journal
      \/ journal' = [journal EXCEPT ![Bench!Key(p)] = [by |-> p, text |-> text]]
  BY <1>5 DEF Bench!Record
<1>7. [by |-> p, text |-> text] # None
  BY <1>4, BenchAssumption DEF Bench!Records
<1>8. FileTexts'
  BY <1>4, <1>6 DEF JournalInv, TextsGood, FileTexts, BenchShape, FilesFit
<1>9. \A b \in Artifacts : bench[p].correct[b] # None => Names(Bench!Key(p), b)'
  <2>1. CASE journal' = journal
    BY <1>1, <2>1 DEF JournalInv, Recorded, Active, Names, Bench!Key
  <2>2. CASE journal' = [journal EXCEPT ![Bench!Key(p)] = [by |-> p, text |-> text]]
    <3>1. journal'[Bench!Key(p)] = [by |-> p, text |-> text]
      BY <2>2, KeyOfJournal DEF BenchShape, FilesFit
    <3> QED
      BY <1>4, <1>7, <3>1 DEF Names, Bench!Key, Good
  <2> QED
    BY <1>6, <2>1, <2>2
<1>10. StillNamed
  <2> SUFFICES ASSUME NEW q \in Benches, NEW b \in Artifacts, Names(Bench!Key(q), b),
                      Active(q) => bench[q].correct[b] # None
               PROVE  Names(Bench!Key(q), b)'
    BY DEF StillNamed
  <2>1. CASE q # p
    <3>1. Bench!Key(q) # Bench!Key(p) /\ Bench!Key(q) \in Bench!Journals
      BY <2>1, KeysDiffer, KeyOfJournal
    <3> QED
      BY <1>6, <3>1 DEF Names, Bench!Key, BenchShape, FilesFit
  <2>2. CASE q = p
    <3>1. bench[p].correct[b] # None
      BY <1>1, <2>2 DEF Active
    <3> QED
      BY <1>9, <2>2, <3>1
  <2> QED
    BY <2>1, <2>2
<1>11. CASE Bench!Finish(p)
  BY <1>1, <1>8, <1>10, <1>11, FinishKeepsJournal
<1>12. CASE /\ bench' = [bench EXCEPT ![p].pc = "patch", ![p].created = TRUE,
                                      ![p].correct = text]
            /\ journal' = [journal EXCEPT ![Bench!Key(p)] = [by |-> p, text |-> text]]
            /\ UNCHANGED job
  <2>1. /\ bench'[p].correct = text /\ bench'[p].pc = "patch" /\ bench'[p].read = "good"
        /\ \A q \in Benches : q # p => bench'[q] = bench[q]
    BY <1>2, <1>12 DEF BenchShape, RunsFit, Bench!Invocations
  <2>2. TextsGood'
    BY <1>4, <1>8, <1>12, <2>1 DEF JournalInv, TextsGood, RunTexts, JobTexts, Good
  <2>3. \A b \in Artifacts : text[b] # None => Names(Bench!Key(p), b)'
    <3>1. journal'[Bench!Key(p)] = [by |-> p, text |-> text]
      BY <1>12, KeyOfJournal DEF BenchShape, FilesFit
    <3> QED
      BY <1>4, <1>7, <3>1 DEF Names, Bench!Key, Good
  <2>4. Recorded'
    BY <1>10, <2>1, <2>3 DEF JournalInv, Recorded, StillNamed, Active, Names, Bench!Key
  <2>5. Guarded'
    <3> SUFFICES ASSUME NEW b \in Artifacts, live'[b] # "good"
                 PROVE  \E q \in Benches : Guards(q, b)'
      BY DEF Guarded
    <3>1. PICK q \in Benches : Guards(q, b)
      BY <1>1 DEF JournalInv, Guarded
    <3>2. Names(Bench!Key(q), b)'
      BY <1>10, <3>1 DEF Guards, StillNamed
    <3>3. (Active(q) => bench[q].correct[b] # None)'
      BY <1>1, <1>4, <2>1, <3>1 DEF Guards, Active
    <3> QED
      BY <1>1, <1>12, <2>1, <3>1, <3>2, <3>3 DEF Guards, Bench!Key
  <2> QED
    BY <2>2, <2>4, <2>5 DEF JournalInv
<1> QED
  BY <1>5, <1>11, <1>12 DEF Bench!Record

LEMMA ApplyKeepsJournal ==
  ASSUME BenchShape, LeaseInv, DistinctIds, JournalInv,
         NEW p \in Benches, Bench!Apply(p)
  PROVE  JournalInv'
<1> DEFINE a == Bench!Target(p)
           text == IF Bench!Broken(p) THEN Mutant[p] ELSE bench[p].correct[a]
<1>1. /\ Bench!Holding(p) /\ ~Bench!Gone(p) /\ bench[p].pc = "patch"
      /\ UNCHANGED <<journal, op>>
  BY DEF Bench!Apply, Bench!At, Bench!Holding, Bench!Gone
<1>2. Going(p, bench[p]) /\ a \in Artifacts /\ bench[p].correct[a] # None
  BY <1>1, TargetFits DEF BenchShape, RunsFit, Going, Bench!Invocations, Bench!Target
<1>3. Guards(p, a)
  BY <1>1, <1>2, RestoresElsewhere DEF JournalInv, Recorded, Active, Guards
<1>4. \A b \in Artifacts : live'[b] # "good" => live[b] # "good" \/ b = a
  BY DEF Bench!Apply, Bench!Patched, Bench!Mispatched, BenchShape, RestFits
<1> HIDE DEF a
<1>5. CASE Bench!Finish(p)
  <2>1. FileTexts'
    BY <1>1 DEF JournalInv, TextsGood, FileTexts, Good
  <2> QED
    BY <1>1, <1>3, <1>4, <1>5, <2>1, StillNames, FinishKeepsJournal
<1>6. CASE bench' = [bench EXCEPT ![p].pc = "turn", ![p].turn = @ + 1] /\ UNCHANGED job
  <2>1. Calm /\ \A q \in Benches : bench'[q].read = bench[q].read
    BY <1>1, <1>6 DEF Calm, Active, BenchShape, RunsFit, Bench!Invocations
  <2> QED
    BY <1>3, <1>4, <2>1, CalmKeepsJournal
<1> QED
  BY <1>5, <1>6 DEF Bench!Apply

-----------------------------------------------------------------------------
(* Putting back.                                                           *)

(***************************************************************************)
(* The final restore of p ends: its journal goes when nothing is left to   *)
(* be put back, and keeps what is left.                                    *)
(***************************************************************************)
LEMMA ClosingKeepsJournal ==
  ASSUME BenchShape, LeaseInv, DistinctIds, JournalInv,
         NEW p \in Benches, Bench!KeepUnrestored(p) \/ Bench!ClearJournal(p)
  PROVE  JournalInv'
<1> DEFINE text == [a \in Artifacts |-> IF a \in job[p].still THEN job[p].text[a] ELSE None]
<1>1. /\ bench[p].pc = "final" /\ Bench!Goto(p, "release") /\ UNCHANGED <<live, job, op>>
      /\ job[p].pending = {} /\ job[p].on = None
  BY DEF Bench!KeepUnrestored, Bench!ClearJournal, Bench!At, Bench!Tried
<1>2. Due(job[p]) = job[p].still
  BY <1>1, BenchAssumption DEF Due, BenchShape, JobsFit, Bench!Restorations
<1>3. \/ journal' = journal
      \/ journal' = [journal EXCEPT ![Bench!Key(p)] = [by |-> p, text |-> text]]
      \/ journal' = [journal EXCEPT ![Bench!Key(p)] = None] /\ job[p].still = {}
  BY DEF Bench!KeepUnrestored, Bench!ClearJournal
<1>4. text \in Bench!Captured /\ Good(text) /\ \A a \in job[p].still : text[a] = "good"
  <2>1. Sent(job[p]) /\ Good(job[p].text) /\ job[p].text \in Bench!Captured
    BY DEF JournalInv, TextsGood, JobTexts, BenchShape, JobsFit, Bench!Restorations
  <2>2. \A a \in job[p].still : a \in Artifacts /\ job[p].text[a] = "good"
    BY <1>2, <2>1 DEF Sent, Bench!Named, Good
  <2> QED
    BY <2>1, <2>2 DEF Good, Bench!Captured
<1> HIDE DEF text
<1>5. [by |-> p, text |-> text] # None
  BY <1>4, BenchAssumption DEF Bench!Records
<1>6. /\ bench'[p].pc = "release" /\ bench'[p].correct = bench[p].correct
      /\ bench'[p].read = bench[p].read
      /\ \A q \in Benches \ {p} : bench'[q] = bench[q]
  BY <1>1 DEF Bench!Goto, BenchShape, RunsFit, Bench!Invocations
<1>7. TextsGood'
  <2>1. RunTexts'
    BY <1>6 DEF JournalInv, TextsGood, RunTexts, Good
  <2>2. JobTexts'
    BY <1>1 DEF JournalInv, TextsGood, JobTexts, Good
  <2>3. FileTexts'
    BY <1>3, <1>4 DEF JournalInv, TextsGood, FileTexts, BenchShape, FilesFit
  <2> QED
    BY <2>1, <2>2, <2>3 DEF TextsGood
<1>8. \A q \in Benches, a \in Artifacts :
        q # p /\ Names(Bench!Key(q), a) => Names(Bench!Key(q), a)'
  BY <1>3, KeysDiffer, KeyOfJournal DEF Names, Bench!Key, BenchShape, FilesFit
<1>9. Recorded'
  <2> SUFFICES ASSUME NEW q \in Benches, NEW a \in Artifacts, Active(q)',
                      bench'[q].correct[a] # None
               PROVE  Names(Bench!Key(q), a)'
    BY DEF Recorded, Names, Bench!Key
  <2>1. q # p
    BY <1>6 DEF Active
  <2>2. Active(q) /\ bench[q].correct[a] # None
    BY <1>6, <2>1 DEF Active
  <2> QED
    BY <1>8, <2>1, <2>2 DEF JournalInv, Recorded
<1>10. Guarded'
  <2> SUFFICES ASSUME NEW a \in Artifacts, live'[a] # "good"
               PROVE  \E q \in Benches : Guards(q, a)'
    BY DEF Guarded
  <2>1. PICK q \in Benches : Guards(q, a)
    BY <1>1 DEF JournalInv, Guarded
  <2>2. Names(Bench!Key(q), a)'
    <3>1. CASE q # p
      BY <1>8, <2>1, <3>1 DEF Guards
    <3>2. CASE q = p
      <4>1. a \in job[p].still
        BY <1>1, <1>2, <2>1, <3>2 DEF Guards
      <4>2. CASE journal' = journal
        BY <2>1, <4>2 DEF Guards, Names, Bench!Key
      <4>3. CASE journal' = [journal EXCEPT ![Bench!Key(p)] = [by |-> p, text |-> text]]
        <5>1. journal'[Bench!Key(p)] = [by |-> p, text |-> text]
          BY <4>3, KeyOfJournal DEF BenchShape, FilesFit
        <5> QED
          BY <1>4, <1>5, <3>2, <4>1, <5>1 DEF Names, Bench!Key
      <4> QED
        BY <1>3, <4>1, <4>2, <4>3
    <3> QED
      BY <3>1, <3>2
  <2>3. Active(q)' => bench'[q].correct[a] # None
    BY <1>6, <2>1 DEF Guards, Active
  <2>4. bench'[q].pc = "final" => a \in Due(job'[q])
    BY <1>1, <1>6, <2>1 DEF Guards, Due
  <2>5. \A x \in Restorers : op'[x] = Bench!Key(q) => a \in Due(job'[x])
    BY <1>1, <2>1 DEF Guards, Due
  <2> QED
    BY <2>2, <2>3, <2>4, <2>5 DEF Guards, Active, Bench!Key, Due
<1> QED
  BY <1>7, <1>9, <1>10 DEF JournalInv

(***************************************************************************)
(* One artifact, while a process puts back: it leaves what is due only     *)
(* when it is read back as it should be.                                   *)
(***************************************************************************)
LEMMA DueStays ==
  ASSUME BenchShape, JournalInv, NEW x \in Benches \cup Restorers,
         Bench!PutBack(x) \/ Bench!ReadBack(x) \/ Bench!Retry(x),
         NEW y \in Benches \cup Restorers, NEW a \in Due(job[y]), live'[a] # "good"
  PROVE  a \in Due(job'[y])
<1>1. job[y] \in Bench!Restorations /\ job[x] \in Bench!Restorations /\ Sent(job[x])
      /\ Good(job[x].text)
  BY DEF BenchShape, JobsFit, JournalInv, TextsGood, JobTexts
<1>2. CASE y # x
  BY <1>2 DEF Bench!PutBack, Bench!ReadBack, Bench!Retry, BenchShape, JobsFit
<1>3. CASE y = x /\ Bench!PutBack(x)
  BY <1>1, <1>3 DEF Bench!PutBack, Due, BenchShape, JobsFit, Bench!Restorations
<1>4. CASE y = x /\ Bench!Retry(x)
  BY <1>1, <1>4 DEF Bench!Retry, Due, BenchShape, JobsFit, Bench!Restorations
<1>5. CASE y = x /\ Bench!ReadBack(x)
  <2>1. a # job[x].on \/ live[a] # job[x].text[a]
    BY <1>1, <1>5 DEF Bench!ReadBack, Sent, Due, Bench!Named, Good, Bench!Restorations
  <2> QED
    BY <1>1, <1>5, <2>1 DEF Bench!ReadBack, Due, BenchShape, JobsFit, Bench!Restorations
<1> QED
  BY <1>2, <1>3, <1>4, <1>5

LEMMA RestoringKeepsJournal ==
  ASSUME BenchShape, JournalInv, NEW x \in Benches \cup Restorers,
         Bench!PutBack(x) \/ Bench!ReadBack(x) \/ Bench!Retry(x)
  PROVE  JournalInv'
<1>1. UNCHANGED <<bench, op, journal>>
  BY DEF Bench!PutBack, Bench!ReadBack, Bench!Retry
<1>2. \A y \in Benches \cup Restorers : job'[y].text = job[y].text
  <2>1. job \in [Benches \cup Restorers -> Bench!Restorations]
    BY DEF BenchShape, JobsFit
  <2>2. CASE Bench!PutBack(x)
    BY <2>1, <2>2 DEF Bench!PutBack, Bench!Restorations
  <2>3. CASE Bench!ReadBack(x)
    BY <2>1, <2>3 DEF Bench!ReadBack, Bench!Restorations
  <2>4. CASE Bench!Retry(x)
    BY <2>1, <2>4 DEF Bench!Retry, Bench!Restorations
  <2> QED
    BY <2>2, <2>3, <2>4
<1>3. TextsGood' /\ Recorded'
  BY <1>1, <1>2
  DEF JournalInv, TextsGood, RunTexts, JobTexts, FileTexts, Good, Recorded, Active, Names,
      Bench!Key
<1>4. \A a \in Artifacts : live'[a] # "good" => live[a] # "good"
  <2>1. CASE Bench!PutBack(x)
    <3>1. PICK a \in job[x].pending : \/ Bench!Patched(a, job[x].text[a])
                                     \/ Bench!Mispatched(a, job[x].text[a])
      BY <2>1 DEF Bench!PutBack
    <3>2. Sent(job[x]) /\ Good(job[x].text) /\ job[x] \in Bench!Restorations
      BY DEF BenchShape, JobsFit, JournalInv, TextsGood, JobTexts
    <3>3. a \in Due(job[x])
      BY <3>2, BenchAssumption DEF Due, Bench!Restorations
    <3>4. job[x].text[a] = "good"
      BY <3>2, <3>3 DEF Sent, Good, Bench!Named
    <3> QED
      BY <3>1, <3>4 DEF Bench!Patched, Bench!Mispatched, BenchShape, RestFits
  <2> QED
    BY <2>1 DEF Bench!ReadBack, Bench!Retry
<1>5. Guarded'
  <2> SUFFICES ASSUME NEW a \in Artifacts, live'[a] # "good"
               PROVE  \E q \in Benches : Guards(q, a)'
    BY DEF Guarded
  <2>1. PICK q \in Benches : Guards(q, a)
    BY <1>4 DEF JournalInv, Guarded
  <2>2. \A y \in Benches \cup Restorers : a \in Due(job[y]) => a \in Due(job'[y])
    BY DueStays
  <2> QED
    BY <1>1, <2>1, <2>2 DEF Guards, Names, Active, Bench!Key, Due
<1> QED
  BY <1>3, <1>5 DEF JournalInv

LEMMA BeginRestoreKeepsJournal ==
  ASSUME BenchShape, JournalInv, NEW x \in Restorers, NEW k \in Bench!Journals,
         Bench!BeginRestore(x, k)
  PROVE  JournalInv'
<1>1. /\ UNCHANGED <<live, bench, journal>> /\ op' = [op EXCEPT ![x] = k]
      /\ job' = [job EXCEPT ![x] = Bench!Job(journal[k].text)] /\ journal[k] # None
  BY DEF Bench!BeginRestore
<1>2. x \notin Benches
  BY BenchAssumption
<1>3. Bench!Job(journal[k].text).text = journal[k].text
  BY DEF Bench!Job, Bench!NoJob
<1>4. /\ job'[x] = Bench!Job(journal[k].text) /\ op'[x] = k
      /\ \A y \in Benches \cup Restorers : y # x => job'[y] = job[y]
      /\ \A y \in Restorers : y # x => op'[y] = op[y]
  BY <1>1 DEF BenchShape, JobsFit, RestFits
<1>5. TextsGood'
  BY <1>1, <1>3, <1>4 DEF JournalInv, TextsGood, RunTexts, JobTexts, FileTexts, Good
<1>6. Recorded'
  BY <1>1 DEF JournalInv, Recorded, Active, Names, Bench!Key
<1>7. Guarded'
  <2> SUFFICES ASSUME NEW a \in Artifacts, live'[a] # "good"
               PROVE  \E q \in Benches : Guards(q, a)'
    BY DEF Guarded
  <2>1. PICK q \in Benches : Guards(q, a)
    BY <1>1 DEF JournalInv, Guarded
  <2>2. bench'[q].pc = "final" => a \in Due(job'[q])
    BY <1>1, <1>2, <1>4, <2>1 DEF Guards
  <2>3. \A y \in Restorers : op'[y] = Bench!Key(q) => a \in Due(job'[y])
    <3>1. k = Bench!Key(q) => a \in Due(job'[x])
      BY <1>4, <2>1, NewJobDue, BenchAssumption DEF Guards, Names, Bench!Texts
    <3> QED
      BY <1>4, <2>1, <3>1 DEF Guards
  <2> QED
    BY <1>1, <2>1, <2>2, <2>3 DEF Guards, Names, Active, Bench!Key, Due
<1> QED
  BY <1>5, <1>6, <1>7 DEF JournalInv

LEMMA EndRestoreKeepsJournal ==
  ASSUME BenchShape, LeaseInv, DistinctIds, JournalInv, NEW x \in Restorers,
         Bench!EndRestore(x)
  PROVE  JournalInv'
<1>1. /\ UNCHANGED <<live, bench>> /\ op[x] # None
      /\ job[x].on = None /\ job[x].pending = {}
  BY DEF Bench!EndRestore, Bench!Tried
<1>2. PICK p \in Benches : op[x] = Bench!Key(p) /\ Bench!Gone(p)
  BY <1>1 DEF LeaseInv, RestoresOfGone
<1>3. CASE op' = [op EXCEPT ![x] = None] /\ UNCHANGED <<journal, job>>
  <2>1. TextsGood' /\ Recorded'
    BY <1>1, <1>3
    DEF JournalInv, TextsGood, RunTexts, JobTexts, FileTexts, Good, Recorded, Active, Names,
        Bench!Key
  <2>2. \A q \in Benches, y \in Restorers : op'[y] = Bench!Key(q) => op[y] = Bench!Key(q)
    BY <1>3, KeyOfJournal, BenchAssumption DEF BenchShape, RestFits
  <2>3. \A q \in Benches, a \in Artifacts : Guards(q, a) => Guards(q, a)'
    BY <1>1, <1>3, <2>2 DEF Guards, Names, Active, Bench!Key, Due
  <2> QED
    BY <1>1, <2>1, <2>3 DEF JournalInv, Guarded
<1>4. CASE /\ journal' = [journal EXCEPT ![op[x]] = None] /\ UNCHANGED op
           /\ job' = [job EXCEPT ![x] = Bench!NoJob] /\ job[x].still = {}
  <2>1. Good(Bench!NoJob.text)
    BY DEF Good, Bench!NoJob, Bench!NoText
  <2>2. TextsGood'
    BY <1>1, <1>4, <2>1
    DEF JournalInv, TextsGood, RunTexts, JobTexts, FileTexts, Good, BenchShape, JobsFit, FilesFit
  <2>3. \A q \in Benches, a \in Artifacts :
          q # p /\ Names(Bench!Key(q), a) => Names(Bench!Key(q), a)'
    BY <1>2, <1>4, KeysDiffer, KeyOfJournal DEF Names, Bench!Key, BenchShape, FilesFit
  <2>4. Recorded'
    BY <1>1, <1>2, <2>3 DEF JournalInv, Recorded, Active, Bench!Gone, Names, Bench!Key
  <2>5. Guarded'
    <3> SUFFICES ASSUME NEW a \in Artifacts, live'[a] # "good"
                 PROVE  \E q \in Benches : Guards(q, a)'
      BY DEF Guarded
    <3>1. PICK q \in Benches : Guards(q, a)
      BY <1>1 DEF JournalInv, Guarded
    <3>2. q # p
      BY <1>1, <1>2, <1>4, <3>1, BenchAssumption DEF Guards, Due
    <3>3. Names(Bench!Key(q), a)'
      BY <2>3, <3>1, <3>2 DEF Guards
    <3>4. bench'[q].pc = "final" => a \in Due(job'[q])
      BY <1>1, <1>4, <3>1, BenchAssumption DEF Guards, BenchShape, JobsFit
    <3>5. \A y \in Restorers : op'[y] = Bench!Key(q) => a \in Due(job'[y])
      <4>1. \A y \in Restorers : op[y] = Bench!Key(q) => y # x
        BY <1>2, <3>2, KeysDiffer
      <4> QED
        BY <1>4, <3>1, <4>1 DEF Guards, BenchShape, JobsFit
    <3> QED
      BY <1>1, <3>1, <3>3, <3>4, <3>5 DEF Guards, Names, Active, Bench!Key, Due
  <2> QED
    BY <2>2, <2>4, <2>5 DEF JournalInv
<1> QED
  BY <1>3, <1>4 DEF Bench!EndRestore

LEMMA AbandonKeepsJournal ==
  ASSUME BenchShape, JournalInv, NEW x \in Restorers,
         Bench!Unlease(x) \/ Bench!KillRestore(x)
  PROVE  JournalInv'
<1>1. UNCHANGED <<live, bench, journal, job>> /\ op' = [op EXCEPT ![x] = None]
  BY DEF Bench!Unlease, Bench!KillRestore
<1>2. TextsGood' /\ Recorded'
  BY <1>1
  DEF JournalInv, TextsGood, RunTexts, JobTexts, FileTexts, Good, Recorded, Active, Names,
      Bench!Key
<1>3. \A q \in Benches, y \in Restorers : op'[y] = Bench!Key(q) => op[y] = Bench!Key(q)
  BY <1>1, KeyOfJournal, BenchAssumption DEF BenchShape, RestFits
<1>4. \A q \in Benches, a \in Artifacts : Guards(q, a) => Guards(q, a)'
  BY <1>1, <1>3 DEF Guards, Names, Active, Bench!Key, Due
<1> QED
  BY <1>1, <1>2, <1>4 DEF JournalInv, Guarded

LEMMA NextKeepsJournal ==
  ASSUME DistinctIds, OneMutant, BenchShape, LeaseInv, JournalInv, Bench!Next
  PROVE  JournalInv'
BY BenchNextCases, LeaseStepKeepsJournal, BeginTurnKeepsJournal, EndTurnsKeepsJournal,
   ResetOneKeepsJournal, EndResetKeepsJournal, CaptureKeepsJournal, RecordKeepsJournal,
   ApplyKeepsJournal, ClosingKeepsJournal, RestoringKeepsJournal, BeginRestoreKeepsJournal,
   EndRestoreKeepsJournal, AbandonKeepsJournal

-----------------------------------------------------------------------------
(* The theorems.                                                           *)

LEMMA StillKeepsBench ==
  ASSUME UNCHANGED benchVars
  PROVE  /\ BenchShape => BenchShape'
         /\ LeaseInv => LeaseInv'
         /\ JournalInv => JournalInv'
<1> USE DEF benchVars
<1>1. BenchShape => BenchShape'
  BY DEF BenchShape, RunsFit, JobsFit, FilesFit, RestFits
<1>2. LeaseInv => LeaseInv'
  BY StillSettles, SettlingKeepsLease
<1>3. JournalInv => JournalInv'
  BY CalmKeepsJournal DEF Calm, Active
<1> QED
  BY <1>1, <1>2, <1>3

LEMMA BenchSteps ==
  ASSUME [Next]_vars
  PROVE  Bench!Next \/ UNCHANGED benchVars
BY DEF Next, BuildStep, HostStep, BenchStep, vars

LEMMA ShapeHolds == Spec => []BenchShape
<1>1. Init => BenchShape
  BY InitShape DEF Init
<1>2. BenchShape /\ [Next]_vars => BenchShape'
  BY BenchSteps, NextKeepsShape, StillKeepsBench
<1> QED
  BY <1>1, <1>2, PTL DEF Spec

LEMMA LeaseHolds == DistinctIds => (Spec => []LeaseInv)
<1> SUFFICES ASSUME DistinctIds PROVE Spec => []LeaseInv
  OBVIOUS
<1>1. Init => LeaseInv
  BY InitLease DEF Init
<1>2. BenchShape /\ LeaseInv /\ [Next]_vars => LeaseInv'
  BY BenchSteps, NextKeepsLease, StillKeepsBench
<1> QED
  BY <1>1, <1>2, ShapeHolds, PTL DEF Spec

(***************************************************************************)
(* OneRunner for any number of invocations, restores, faults and kills:    *)
(* the lease, which knows no compare and swap, is never held by two, as    *)
(* long as no two invocations are given one run id.                        *)
(***************************************************************************)
THEOREM OneRunnerHolds == DistinctIds => (Spec => []OneRunner)
<1> SUFFICES ASSUME DistinctIds PROVE Spec => []OneRunner
  OBVIOUS
<1>1. LeaseInv => OneRunner
  BY DEF LeaseInv, OneRunner
<1> QED
  BY <1>1, LeaseHolds, PTL

(***************************************************************************)
(* WayBack likewise, and for any catalogs that put one broken text in      *)
(* place: whatever is killed, lost or restored by others, each artifact    *)
(* that is not as it was is named with its correct text in a journal.      *)
(***************************************************************************)
THEOREM WayBackHolds == DistinctIds /\ OneMutant => (Spec => []WayBack)
<1> SUFFICES ASSUME DistinctIds, OneMutant PROVE Spec => []WayBack
  OBVIOUS
<1>1. Init => JournalInv
  BY InitJournal DEF Init
<1>2. BenchShape /\ LeaseInv /\ JournalInv /\ [Next]_vars => JournalInv'
  BY BenchSteps, NextKeepsJournal, StillKeepsBench
<1>3. JournalInv => WayBack
  BY KeyOfJournal DEF JournalInv, Guarded, Guards, Names, WayBack, Bench!WayBack
<1> QED
  BY <1>1, <1>2, <1>3, ShapeHolds, LeaseHolds, PTL DEF Spec
==============================================================================
