------------------------------ MODULE FileLocks ------------------------------
(***************************************************************************)
(* What keeps processes apart by files and rows that nobody can compare    *)
(* and swap: the build lock, the lock file of the host-scoped logs, and    *)
(* the lease and the restore journal of the benchmark.  They share         *)
(* nothing, so a behaviour is one of them ("which") and the variables of   *)
(* the others stay put.                                                    *)
(***************************************************************************)
EXTENDS Naturals, Sequences

CONSTANTS
  Wrappers, Parent, StartKnown, Waiting, NoWrapper,           \* BuildLock
  HostProcs, Keys, SlowWriters, MaxCalls, MaxDeaths, Free,    \* HostLog
  Benches, Restorers, Artifacts, RunId, Root, Targets,        \* Benchmark
  Baselines, Mutant, RestoreAttempts, None,
  MaxFaults, MaxCrashes, MaxRestores

VARIABLES which,
  file, running, recycled, token, pc, judged, attempt, misfired,
  kind, log, torn, lock, alive, proc, calls, mishaps,
  live, rows, journal, bench, job, op, faults, crashes, restores

Build == INSTANCE BuildLock
Host == INSTANCE HostLog WITH Procs <- HostProcs
Bench == INSTANCE Benchmark WITH Procs <- Benches, file <- journal, proc <- bench

ASSUME BuildAssumption ==
  /\ NoWrapper \notin Wrappers
  /\ Parent \in [Wrappers -> Wrappers \cup {NoWrapper}]

ASSUME HostAssumption ==
  Free \notin Host!Lock /\ Keys # {} /\ MaxCalls \in Nat

ASSUME BenchAssumption ==
  /\ DOMAIN RunId = Benches /\ DOMAIN Root = Benches
  /\ Targets \in [Benches -> Seq(Artifacts)]
  /\ Benches \cap Restorers = {} /\ RestoreAttempts \in Nat
  /\ \A p \in Benches : Mutant[p] # "good"
  /\ None \notin Artifacts /\ None \notin Bench!Texts
  /\ None \notin Bench!Journals /\ None \notin Bench!Records

buildVars == <<file, running, recycled, token, pc, judged, attempt, misfired>>
hostVars == <<kind, log, torn, lock, alive, proc, calls, mishaps>>
benchVars == <<live, rows, journal, bench, job, op, faults, crashes, restores>>
vars == <<which, buildVars, hostVars, benchVars>>

Init ==
  /\ which \in {"build", "host", "bench"}
  /\ Build!Init /\ Host!Init /\ Bench!Init
  /\ which # "host" => kind = "events"

BuildStep == which = "build" /\ Build!Next /\ UNCHANGED <<which, hostVars, benchVars>>
HostStep == which = "host" /\ Host!Next /\ UNCHANGED <<which, buildVars, benchVars>>
BenchStep == which = "bench" /\ Bench!Next /\ UNCHANGED <<which, buildVars, hostVars>>
Next == BuildStep \/ HostStep \/ BenchStep
Spec == Init /\ [][Next]_vars

(* The properties of the modules, at the lines that state them.            *)
OneHold == Build!OneHold
InheritsLiveHold == Build!InheritsLiveHold
SoundUntilMishap == Host!SoundUntilMishap
WayBack == Bench!WayBack
OneRunner == Bench!OneRunner
==============================================================================
