--------------------------- MODULE FileLocksProofs ---------------------------
(***************************************************************************)
(* Proofs about the build lock and about the lock of the host-scoped logs, *)
(* for every number of processes and every bound.                          *)
(*                                                                         *)
(* Both are lock files that a waiter may break.  Neither break is atomic,  *)
(* so neither invariant says that nobody is ever robbed: each says what    *)
(* holds as long as no break has hit the lock of a live process, and what  *)
(* every wrapper or process knows of itself all the same.                  *)
(***************************************************************************)
EXTENDS FileLocks, TLAPS

-----------------------------------------------------------------------------
(* The build lock.                                                         *)

\* Before a wrapper's command starts.
Outside == {"off", "inherit", "probe", "create", "read", "judge", "recheck", "unlink", "wait"}

(***************************************************************************)
(* What is known of a wrapper: a token names a hold that somebody has      *)
(* taken, and who is about to break a lock has judged one whose holder is  *)
(* gone for good.                                                          *)
(***************************************************************************)
Wrapped(w) ==
  /\ w \in running => pc[w] \notin {"off", "done"}
  /\ pc[w] \in Outside => token[w] = NoWrapper
  /\ pc[w] \in {"inherit", "probe"} => Parent[w] # NoWrapper
  /\ pc[w] \in {"release", "drop"} => token[w] = w
  /\ token[w] # NoWrapper =>
       /\ token[token[w]] = token[w]
       /\ token[w] = w \/ \E v \in Wrappers : Parent[v] = token[w]
  /\ judged[w] # NoWrapper => token[judged[w]] = judged[w]
  /\ w \in running /\ pc[w] \in {"judge", "recheck", "unlink"} => judged[w] # NoWrapper
  /\ w \in running /\ pc[w] \in {"recheck", "unlink"} => judged[w] \notin running

BuildInv ==
  /\ Build!BuildTypeOK
  /\ \A w \in Wrappers : Wrapped(w)
  /\ file # NoWrapper => token[file] = file
  /\ ~misfired => \A w \in Wrappers : Build!Holds(w) => file = w

LEMMA InitBuild == Build!Init => BuildInv
BY BuildAssumption
DEF Build!Init, BuildInv, Build!BuildTypeOK, Wrapped, Build!Holds

LEMMA StartKeepsBuild ==
  ASSUME BuildInv, NEW w \in Wrappers, Build!Start(w)
  PROVE  BuildInv'
<1> USE BuildAssumption
<1>1. Build!BuildTypeOK'
  BY DEF BuildInv, Build!BuildTypeOK, Build!Start, Build!Go
<1>2. ASSUME NEW v \in Wrappers
      PROVE  Wrapped(v)'
  BY DEF BuildInv, Build!BuildTypeOK, Wrapped, Outside, Build!Start, Build!Go
<1>3. (file # NoWrapper => token[file] = file)'
  BY DEF BuildInv, Build!BuildTypeOK, Wrapped, Outside, Build!Start, Build!Go
<1>4. (~misfired => \A v \in Wrappers : Build!Holds(v) => file = v)'
  BY DEF BuildInv, Build!BuildTypeOK, Build!Holds, Wrapped, Outside, Build!Start, Build!Go
<1> QED
  BY <1>1, <1>2, <1>3, <1>4 DEF BuildInv

LEMMA InheritKeepsBuild ==
  ASSUME BuildInv, NEW w \in Wrappers, Build!Inherit(w)
  PROVE  BuildInv'
<1> USE BuildAssumption
<1>1. Build!BuildTypeOK'
  BY DEF BuildInv, Build!BuildTypeOK, Build!Inherit, Build!At, Build!Go
<1>2. ASSUME NEW v \in Wrappers
      PROVE  Wrapped(v)'
  BY DEF BuildInv, Build!BuildTypeOK, Wrapped, Outside, Build!Inherit, Build!At, Build!Go
<1>3. (file # NoWrapper => token[file] = file)'
  BY DEF BuildInv, Build!BuildTypeOK, Wrapped, Outside, Build!Inherit, Build!At, Build!Go
<1>4. (~misfired => \A v \in Wrappers : Build!Holds(v) => file = v)'
  BY DEF BuildInv, Build!BuildTypeOK, Build!Holds, Wrapped, Outside, Build!Inherit,
         Build!At, Build!Go
<1> QED
  BY <1>1, <1>2, <1>3, <1>4 DEF BuildInv

LEMMA ProbeKeepsBuild ==
  ASSUME BuildInv, NEW w \in Wrappers, Build!Probe(w)
  PROVE  BuildInv'
<1> USE BuildAssumption
<1>1. Build!BuildTypeOK'
  BY DEF BuildInv, Build!BuildTypeOK, Build!Probe, Build!At, Build!Go, Build!SeemsAlive
<1>2. ASSUME NEW v \in Wrappers
      PROVE  Wrapped(v)'
  BY DEF BuildInv, Build!BuildTypeOK, Wrapped, Outside, Build!Probe, Build!At, Build!Go,
         Build!SeemsAlive
<1>3. (file # NoWrapper => token[file] = file)'
  BY DEF BuildInv, Build!BuildTypeOK, Wrapped, Outside, Build!Probe, Build!At, Build!Go,
         Build!SeemsAlive
<1>4. (~misfired => \A v \in Wrappers : Build!Holds(v) => file = v)'
  BY DEF BuildInv, Build!BuildTypeOK, Build!Holds, Wrapped, Outside, Build!Probe,
         Build!At, Build!Go, Build!SeemsAlive
<1> QED
  BY <1>1, <1>2, <1>3, <1>4 DEF BuildInv

LEMMA CreateKeepsBuild ==
  ASSUME BuildInv, NEW w \in Wrappers, Build!Create(w)
  PROVE  BuildInv'
<1> USE BuildAssumption
<1>1. Build!BuildTypeOK'
  BY DEF BuildInv, Build!BuildTypeOK, Build!Create, Build!At, Build!Go, Build!Exit,
         Build!Again, Build!WaitOrRefuse
<1>2. ASSUME NEW v \in Wrappers
      PROVE  Wrapped(v)'
  BY DEF BuildInv, Build!BuildTypeOK, Wrapped, Outside, Build!Create, Build!At, Build!Go,
         Build!Exit, Build!Again, Build!WaitOrRefuse
<1>3. (file # NoWrapper => token[file] = file)'
  BY DEF BuildInv, Build!BuildTypeOK, Wrapped, Outside, Build!Create, Build!At, Build!Go,
         Build!Exit, Build!Again, Build!WaitOrRefuse
<1>4. (~misfired => \A v \in Wrappers : Build!Holds(v) => file = v)'
  BY DEF BuildInv, Build!BuildTypeOK, Build!Holds, Wrapped, Outside, Build!Create,
         Build!At, Build!Go, Build!Exit, Build!Again, Build!WaitOrRefuse
<1> QED
  BY <1>1, <1>2, <1>3, <1>4 DEF BuildInv

LEMMA ReadKeepsBuild ==
  ASSUME BuildInv, NEW w \in Wrappers, Build!Read(w)
  PROVE  BuildInv'
<1> USE BuildAssumption
<1>1. Build!BuildTypeOK'
  BY DEF BuildInv, Build!BuildTypeOK, Build!Read, Build!At, Build!Go, Build!Exit,
         Build!Again
<1>2. ASSUME NEW v \in Wrappers
      PROVE  Wrapped(v)'
  BY DEF BuildInv, Build!BuildTypeOK, Wrapped, Outside, Build!Read, Build!At, Build!Go,
         Build!Exit, Build!Again
<1>3. (file # NoWrapper => token[file] = file)'
  BY DEF BuildInv, Build!BuildTypeOK, Wrapped, Outside, Build!Read, Build!At, Build!Go,
         Build!Exit, Build!Again
<1>4. (~misfired => \A v \in Wrappers : Build!Holds(v) => file = v)'
  BY DEF BuildInv, Build!BuildTypeOK, Build!Holds, Wrapped, Outside, Build!Read,
         Build!At, Build!Go, Build!Exit, Build!Again
<1> QED
  BY <1>1, <1>2, <1>3, <1>4 DEF BuildInv

LEMMA JudgeKeepsBuild ==
  ASSUME BuildInv, NEW w \in Wrappers, Build!Judge(w)
  PROVE  BuildInv'
<1> USE BuildAssumption
<1>1. Build!BuildTypeOK'
  BY DEF BuildInv, Build!BuildTypeOK, Build!Judge, Build!At, Build!Go, Build!Exit,
         Build!Forget, Build!WaitOrRefuse, Build!SeemsAlive
<1>2. ASSUME NEW v \in Wrappers
      PROVE  Wrapped(v)'
  BY DEF BuildInv, Build!BuildTypeOK, Wrapped, Outside, Build!Judge, Build!At, Build!Go,
         Build!Exit, Build!Forget, Build!WaitOrRefuse, Build!SeemsAlive
<1>3. (file # NoWrapper => token[file] = file)'
  BY DEF BuildInv, Build!BuildTypeOK, Wrapped, Outside, Build!Judge, Build!At, Build!Go,
         Build!Exit, Build!Forget, Build!WaitOrRefuse, Build!SeemsAlive
<1>4. (~misfired => \A v \in Wrappers : Build!Holds(v) => file = v)'
  BY DEF BuildInv, Build!BuildTypeOK, Build!Holds, Wrapped, Outside, Build!Judge,
         Build!At, Build!Go, Build!Exit, Build!Forget, Build!WaitOrRefuse,
         Build!SeemsAlive
<1> QED
  BY <1>1, <1>2, <1>3, <1>4 DEF BuildInv

LEMMA RecheckKeepsBuild ==
  ASSUME BuildInv, NEW w \in Wrappers, Build!Recheck(w)
  PROVE  BuildInv'
<1> USE BuildAssumption
<1>1. Build!BuildTypeOK'
  BY DEF BuildInv, Build!BuildTypeOK, Build!Recheck, Build!At, Build!Go, Build!Exit,
         Build!Forget, Build!Again
<1>2. ASSUME NEW v \in Wrappers
      PROVE  Wrapped(v)'
  BY DEF BuildInv, Build!BuildTypeOK, Wrapped, Outside, Build!Recheck, Build!At,
         Build!Go, Build!Exit, Build!Forget, Build!Again
<1>3. (file # NoWrapper => token[file] = file)'
  BY DEF BuildInv, Build!BuildTypeOK, Wrapped, Outside, Build!Recheck, Build!At,
         Build!Go, Build!Exit, Build!Forget, Build!Again
<1>4. (~misfired => \A v \in Wrappers : Build!Holds(v) => file = v)'
  BY DEF BuildInv, Build!BuildTypeOK, Build!Holds, Wrapped, Outside, Build!Recheck,
         Build!At, Build!Go, Build!Exit, Build!Forget, Build!Again
<1> QED
  BY <1>1, <1>2, <1>3, <1>4 DEF BuildInv

LEMMA UnlinkKeepsBuild ==
  ASSUME BuildInv, NEW w \in Wrappers, Build!Unlink(w)
  PROVE  BuildInv'
<1> USE BuildAssumption
<1>1. Build!BuildTypeOK'
  BY DEF BuildInv, Build!BuildTypeOK, Build!Unlink, Build!At, Build!Go, Build!Exit,
         Build!Forget, Build!Again
<1>2. ASSUME NEW v \in Wrappers
      PROVE  Wrapped(v)'
  BY DEF BuildInv, Build!BuildTypeOK, Wrapped, Outside, Build!Unlink, Build!At, Build!Go,
         Build!Exit, Build!Forget, Build!Again
<1>3. (file # NoWrapper => token[file] = file)'
  BY DEF BuildInv, Build!BuildTypeOK, Wrapped, Outside, Build!Unlink, Build!At, Build!Go,
         Build!Exit, Build!Forget, Build!Again
<1>4. (~misfired => \A v \in Wrappers : Build!Holds(v) => file = v)'
  <2> SUFFICES ASSUME ~misfired', NEW v \in Wrappers, Build!Holds(v)'
               PROVE  file' = v
    OBVIOUS
  <2>1. ~misfired /\ v \in running /\ (v # w => Build!Holds(v)) /\ token[v] = v
    BY DEF BuildInv, Build!BuildTypeOK, Build!Holds, Build!Unlink, Build!Exit, Build!Go
  <2>2. v # w
    BY <2>1 DEF BuildInv, Wrapped, Outside, Build!Unlink, Build!At
  <2>3. file = v
    BY <2>1, <2>2 DEF BuildInv
  <2>4. judged[w] \notin running
    BY DEF BuildInv, Wrapped, Build!Unlink, Build!At
  <2>5. file' = file
    BY <2>1, <2>3, <2>4 DEF Build!Unlink, BuildInv, Build!BuildTypeOK
  <2> QED
    BY <2>3, <2>5
<1> QED
  BY <1>1, <1>2, <1>3, <1>4 DEF BuildInv

LEMMA WaitKeepsBuild ==
  ASSUME BuildInv, NEW w \in Wrappers, Build!Wait(w)
  PROVE  BuildInv'
<1> USE BuildAssumption
<1>1. Build!BuildTypeOK'
  BY DEF BuildInv, Build!BuildTypeOK, Build!Wait, Build!At, Build!Go, Build!Exit
<1>2. ASSUME NEW v \in Wrappers
      PROVE  Wrapped(v)'
  BY DEF BuildInv, Build!BuildTypeOK, Wrapped, Outside, Build!Wait, Build!At, Build!Go,
         Build!Exit
<1>3. (file # NoWrapper => token[file] = file)'
  BY DEF BuildInv, Build!BuildTypeOK, Wrapped, Outside, Build!Wait, Build!At, Build!Go,
         Build!Exit
<1>4. (~misfired => \A v \in Wrappers : Build!Holds(v) => file = v)'
  BY DEF BuildInv, Build!BuildTypeOK, Build!Holds, Wrapped, Outside, Build!Wait,
         Build!At, Build!Go, Build!Exit
<1> QED
  BY <1>1, <1>2, <1>3, <1>4 DEF BuildInv

LEMMA CommandEndsKeepsBuild ==
  ASSUME BuildInv, NEW w \in Wrappers, Build!CommandEnds(w)
  PROVE  BuildInv'
<1> USE BuildAssumption
<1>1. Build!BuildTypeOK'
  BY DEF BuildInv, Build!BuildTypeOK, Build!CommandEnds, Build!At, Build!Go, Build!Exit
<1>2. ASSUME NEW v \in Wrappers
      PROVE  Wrapped(v)'
  BY DEF BuildInv, Build!BuildTypeOK, Wrapped, Outside, Build!CommandEnds, Build!At,
         Build!Go, Build!Exit
<1>3. (file # NoWrapper => token[file] = file)'
  BY DEF BuildInv, Build!BuildTypeOK, Wrapped, Outside, Build!CommandEnds, Build!At,
         Build!Go, Build!Exit
<1>4. (~misfired => \A v \in Wrappers : Build!Holds(v) => file = v)'
  BY DEF BuildInv, Build!BuildTypeOK, Build!Holds, Wrapped, Outside, Build!CommandEnds,
         Build!At, Build!Go, Build!Exit
<1> QED
  BY <1>1, <1>2, <1>3, <1>4 DEF BuildInv

LEMMA ReleaseKeepsBuild ==
  ASSUME BuildInv, NEW w \in Wrappers, Build!Release(w)
  PROVE  BuildInv'
<1> USE BuildAssumption
<1>1. Build!BuildTypeOK'
  BY DEF BuildInv, Build!BuildTypeOK, Build!Release, Build!At, Build!Go, Build!Exit
<1>2. ASSUME NEW v \in Wrappers
      PROVE  Wrapped(v)'
  BY DEF BuildInv, Build!BuildTypeOK, Wrapped, Outside, Build!Release, Build!At,
         Build!Go, Build!Exit
<1>3. (file # NoWrapper => token[file] = file)'
  BY DEF BuildInv, Build!BuildTypeOK, Wrapped, Outside, Build!Release, Build!At,
         Build!Go, Build!Exit
<1>4. (~misfired => \A v \in Wrappers : Build!Holds(v) => file = v)'
  BY DEF BuildInv, Build!BuildTypeOK, Build!Holds, Wrapped, Outside, Build!Release,
         Build!At, Build!Go, Build!Exit
<1> QED
  BY <1>1, <1>2, <1>3, <1>4 DEF BuildInv

LEMMA DropKeepsBuild ==
  ASSUME BuildInv, NEW w \in Wrappers, Build!Drop(w)
  PROVE  BuildInv'
<1> USE BuildAssumption
<1>1. Build!BuildTypeOK'
  BY DEF BuildInv, Build!BuildTypeOK, Build!Drop, Build!At, Build!Go, Build!Exit
<1>2. ASSUME NEW v \in Wrappers
      PROVE  Wrapped(v)'
  BY DEF BuildInv, Build!BuildTypeOK, Wrapped, Outside, Build!Drop, Build!At, Build!Go,
         Build!Exit
<1>3. (file # NoWrapper => token[file] = file)'
  BY DEF BuildInv, Build!BuildTypeOK, Wrapped, Outside, Build!Drop, Build!At, Build!Go,
         Build!Exit
<1>4. (~misfired => \A v \in Wrappers : Build!Holds(v) => file = v)'
  BY DEF BuildInv, Build!BuildTypeOK, Build!Holds, Wrapped, Outside, Build!Drop,
         Build!At, Build!Go, Build!Exit
<1> QED
  BY <1>1, <1>2, <1>3, <1>4 DEF BuildInv

LEMMA KillKeepsBuild ==
  ASSUME BuildInv, NEW w \in Wrappers, Build!Kill(w)
  PROVE  BuildInv'
<1> USE BuildAssumption
<1>1. Build!BuildTypeOK'
  BY DEF BuildInv, Build!BuildTypeOK, Build!Kill, Build!Forget, Build!Again
<1>2. ASSUME NEW v \in Wrappers
      PROVE  Wrapped(v)'
  BY DEF BuildInv, Build!BuildTypeOK, Wrapped, Outside, Build!Kill, Build!Forget,
         Build!Again
<1>3. (file # NoWrapper => token[file] = file)'
  BY DEF BuildInv, Build!BuildTypeOK, Wrapped, Outside, Build!Kill, Build!Forget,
         Build!Again
<1>4. (~misfired => \A v \in Wrappers : Build!Holds(v) => file = v)'
  BY DEF BuildInv, Build!BuildTypeOK, Build!Holds, Wrapped, Outside, Build!Kill,
         Build!Forget, Build!Again
<1> QED
  BY <1>1, <1>2, <1>3, <1>4 DEF BuildInv

LEMMA RecycleKeepsBuild ==
  ASSUME BuildInv, NEW w \in Wrappers, Build!Recycle(w)
  PROVE  BuildInv'
<1> USE BuildAssumption
<1>1. Build!BuildTypeOK'
  BY DEF BuildInv, Build!BuildTypeOK, Build!Recycle
<1>2. ASSUME NEW v \in Wrappers
      PROVE  Wrapped(v)'
  BY DEF BuildInv, Build!BuildTypeOK, Wrapped, Outside, Build!Recycle
<1>3. (file # NoWrapper => token[file] = file)'
  BY DEF BuildInv, Build!BuildTypeOK, Wrapped, Outside, Build!Recycle
<1>4. (~misfired => \A v \in Wrappers : Build!Holds(v) => file = v)'
  BY DEF BuildInv, Build!BuildTypeOK, Build!Holds, Wrapped, Outside, Build!Recycle
<1> QED
  BY <1>1, <1>2, <1>3, <1>4 DEF BuildInv

LEMMA NextKeepsBuild ==
  ASSUME BuildInv, Build!Next
  PROVE  BuildInv'
<1>1. PICK w \in Wrappers :
        \/ Build!Start(w) \/ Build!Inherit(w) \/ Build!Probe(w) \/ Build!Create(w)
        \/ Build!Read(w) \/ Build!Judge(w) \/ Build!Recheck(w) \/ Build!Unlink(w)
        \/ Build!Wait(w) \/ Build!CommandEnds(w) \/ Build!Release(w) \/ Build!Drop(w)
        \/ Build!Kill(w) \/ Build!Recycle(w)
  BY DEF Build!Next
<1> QED
  BY <1>1, StartKeepsBuild, InheritKeepsBuild, ProbeKeepsBuild, CreateKeepsBuild,
     ReadKeepsBuild, JudgeKeepsBuild, RecheckKeepsBuild, UnlinkKeepsBuild, WaitKeepsBuild,
     CommandEndsKeepsBuild, ReleaseKeepsBuild, DropKeepsBuild, KillKeepsBuild,
     RecycleKeepsBuild

LEMMA StillKeepsBuild ==
  ASSUME BuildInv, UNCHANGED buildVars
  PROVE  BuildInv'
BY DEF buildVars, BuildInv, Build!BuildTypeOK, Wrapped, Build!Holds

LEMMA BuildHolds == Spec => []BuildInv
<1>1. Init => BuildInv
  BY InitBuild DEF Init
<1>2. BuildInv /\ [Next]_vars => BuildInv'
  BY NextKeepsBuild, StillKeepsBuild DEF Next, BuildStep, HostStep, BenchStep, vars
<1> QED
  BY <1>1, <1>2, PTL DEF Spec

(***************************************************************************)
(* OneHold for any number of wrappers, nested in any way, with kills and   *)
(* recycled pids: while no break hits its window at most one of them is    *)
(* inside its command under a lock of its own.                             *)
(***************************************************************************)
THEOREM OneHoldHolds == Spec => []OneHold
<1>1. BuildInv => OneHold
  BY DEF BuildInv, OneHold, Build!OneHold
<1> QED
  BY <1>1, BuildHolds, PTL

\* The start time of who may start others is in its lock file.
ParentsKnown == \A w \in Wrappers : Parent[w] # NoWrapper => Parent[w] \in StartKnown

LEMMA InheritsLive ==
  ASSUME ParentsKnown, BuildInv, BuildStep, ~misfired', NEW w \in Wrappers,
         pc[w] # "run", pc'[w] = "run", token'[w] # w
  PROVE  token'[w] \in running /\ file = token'[w]
<1> USE BuildAssumption
<1>1. Build!Probe(w) /\ Build!SeemsAlive(token[Parent[w]]) /\ token'[w] = token[Parent[w]]
      /\ UNCHANGED <<misfired, file>>
  <2>1. PICK v \in Wrappers :
          \/ Build!Start(v) \/ Build!Inherit(v) \/ Build!Probe(v) \/ Build!Create(v)
          \/ Build!Read(v) \/ Build!Judge(v) \/ Build!Recheck(v) \/ Build!Unlink(v)
          \/ Build!Wait(v) \/ Build!CommandEnds(v) \/ Build!Release(v) \/ Build!Drop(v)
          \/ Build!Kill(v) \/ Build!Recycle(v)
    BY DEF BuildStep, Build!Next
  <2>2. Build!Probe(v) \/ Build!Create(v)
    BY <2>1 DEF BuildInv, Build!BuildTypeOK, Build!Start, Build!Inherit, Build!Read,
                Build!Judge, Build!Recheck, Build!Unlink, Build!Wait, Build!CommandEnds,
                Build!Release, Build!Drop, Build!Kill, Build!Recycle, Build!Go, Build!Exit,
                Build!WaitOrRefuse
  <2>3. ~Build!Create(v)
    BY DEF BuildInv, Build!BuildTypeOK, Build!Create, Build!Go, Build!Exit,
           Build!WaitOrRefuse
  <2>4. v = w
    BY <2>2, <2>3 DEF BuildInv, Build!BuildTypeOK, Build!Probe, Build!Go
  <2> QED
    BY <2>2, <2>3, <2>4 DEF BuildInv, Build!BuildTypeOK, Build!Probe, Build!Go
<1> DEFINE root == token[Parent[w]]
<1>2. Parent[w] \in Wrappers
  BY <1>1 DEF BuildInv, Wrapped, Build!Probe, Build!At
<1>3. root \in Wrappers
  BY <1>1, <1>2 DEF Build!SeemsAlive, BuildInv, Build!BuildTypeOK
<1>4. token[root] = root /\ root \in StartKnown
  BY <1>2, <1>3 DEF BuildInv, Wrapped, ParentsKnown
<1>5. root \in running
  BY <1>1, <1>4 DEF Build!SeemsAlive
<1>6. Build!Holds(root)
  BY <1>3, <1>4, <1>5 DEF Build!Holds, BuildInv, Build!BuildTypeOK, Wrapped, Outside
<1> QED
  BY <1>1, <1>3, <1>5, <1>6 DEF BuildInv

(***************************************************************************)
(* InheritsLiveHold likewise, where who starts others has recorded when it *)
(* was started itself: without that a pid given to a stranger passes for   *)
(* the holder's.                                                           *)
(***************************************************************************)
THEOREM InheritsLiveHoldHolds == ParentsKnown => (Spec => InheritsLiveHold)
<1> SUFFICES ASSUME ParentsKnown PROVE Spec => InheritsLiveHold
  OBVIOUS
<1> DEFINE Inherits ==
      \A w \in Wrappers :
        pc[w] # "run" /\ pc'[w] = "run" /\ token'[w] # w =>
          misfired \/ (token'[w] \in running /\ file = token'[w])
<1>1. BuildInv /\ [Next]_vars => [Inherits]_(Build!vars)
  <2> SUFFICES ASSUME BuildInv, [Next]_vars, ~UNCHANGED Build!vars,
                      NEW w \in Wrappers, pc[w] # "run", pc'[w] = "run", token'[w] # w,
                      ~misfired
               PROVE  token'[w] \in running /\ file = token'[w]
    OBVIOUS
  <2>1. BuildStep
    BY DEF Next, HostStep, BenchStep, vars, buildVars, Build!vars
  <2>2. ~misfired'
    BY <2>1 DEF BuildStep, Build!Next, BuildInv, Build!BuildTypeOK, Build!Start,
                Build!Inherit, Build!Probe, Build!Create, Build!Read, Build!Judge,
                Build!Recheck, Build!Unlink, Build!Wait, Build!CommandEnds, Build!Release,
                Build!Drop, Build!Kill, Build!Recycle, Build!Go, Build!Exit
  <2> QED
    BY <2>1, <2>2, InheritsLive
<1> HIDE DEF Inherits
<1>2. Spec => [][Inherits]_(Build!vars)
  BY <1>1, BuildHolds, PTL DEF Spec
<1> QED
  BY <1>2 DEF Inherits, InheritsLiveHold, Build!InheritsLiveHold

-----------------------------------------------------------------------------
(* The host-scoped logs: numbers, and what may be read back.               *)

\* Somewhere in a log that is not empty is its highest number.
HasMax(l) == l # <<>> => \E i \in DOMAIN l : \A j \in DOMAIN l : l[j].seq <= l[i].seq

LEMMA AppendHasMax ==
  ASSUME NEW l \in Seq(Host!Line), HasMax(l), NEW x \in Host!Line
  PROVE  HasMax(Append(l, x))
<1> DEFINE m == Append(l, x)
<1>1. /\ DOMAIN m = 1 .. Len(l) + 1 /\ m[Len(l) + 1] = x
      /\ \A i \in 1 .. Len(l) : m[i] = l[i] /\ l[i] \in Host!Line
  OBVIOUS
<1>2. CASE l = <<>>
  <2>1. DOMAIN m = {1} /\ m[1] = x
    BY <1>1, <1>2
  <2> QED
    BY <2>1 DEF HasMax, Host!Line
<1>3. CASE l # <<>>
  <2>1. PICK i \in DOMAIN l : \A j \in DOMAIN l : l[j].seq <= l[i].seq
    BY <1>3 DEF HasMax
  <2>2. i \in 1 .. Len(l) /\ \A j \in 1 .. Len(l) : l[j].seq <= l[i].seq
    BY <2>1
  <2>3. x.seq \in Nat /\ \A j \in 1 .. Len(l) : l[j].seq \in Nat
    BY <1>1 DEF Host!Line
  <2> HIDE DEF m
  <2>4. CASE x.seq <= l[i].seq
    <3>1. \A j \in DOMAIN m : m[j].seq <= m[i].seq
      BY <1>1, <2>2, <2>3, <2>4
    <3>2. i \in DOMAIN m
      BY <1>1, <2>2
    <3> QED
      BY <3>1, <3>2 DEF HasMax, m
  <2>5. CASE l[i].seq <= x.seq
    <3>1. \A j \in DOMAIN m : m[j].seq <= m[Len(l) + 1].seq
      BY <1>1, <2>2, <2>3, <2>5
    <3>2. Len(l) + 1 \in DOMAIN m
      BY <1>1
    <3> QED
      BY <3>1, <3>2 DEF HasMax, m
  <2> QED
    BY <1>1, <2>2, <2>3, <2>4, <2>5
<1> QED
  BY <1>2, <1>3

LEMMA SeqsAreNats ==
  ASSUME NEW l \in Seq(Host!Line)
  PROVE  \A i \in DOMAIN l : l[i].seq \in Nat
<1>1. \A i \in DOMAIN l : l[i] \in Host!Line
  OBVIOUS
<1> QED
  BY <1>1 DEF Host!Line

LEMMA MaxSeqIsMax ==
  ASSUME NEW l \in Seq(Host!Line), HasMax(l)
  PROVE  /\ Host!MaxSeq(l) \in Nat
         /\ \A i \in DOMAIN l : l[i].seq <= Host!MaxSeq(l)
         /\ l # <<>> => \E i \in DOMAIN l : Host!MaxSeq(l) = l[i].seq
<1>1. CASE l = <<>>
  BY <1>1 DEF Host!MaxSeq
<1>2. CASE l # <<>>
  <2> DEFINE seqs == {l[i].seq : i \in DOMAIN l}
             Highest(n) == \A i \in DOMAIN l : l[i].seq <= n
  <2>1. \E n \in seqs : Highest(n)
    BY <1>2 DEF HasMax
  <2>2. Host!MaxSeq(l) \in seqs /\ Highest(Host!MaxSeq(l))
    <3>1. Host!MaxSeq(l) = CHOOSE n \in seqs : Highest(n)
      BY <1>2 DEF Host!MaxSeq
    <3> HIDE DEF seqs, Highest
    <3> QED
      BY <2>1, <3>1
  <2>3. \A i \in DOMAIN l : l[i] \in Host!Line
    OBVIOUS
  <2> QED
    BY <1>2, <2>2, <2>3 DEF Host!Line
<1> QED
  BY <1>1, <1>2

LEMMA LinesTyped ==
  ASSUME NEW l \in Seq(Host!Line), HasMax(l),
         NEW o \in {"event", "intend", "applied", "compensated"}, NEW k \in Keys
  PROVE  /\ Host!LinesFor(l, o, k) \subseteq Host!Line
         /\ \A x \in Host!LinesFor(l, o, k) : x.op = o /\ x.key = k
<1>1. Host!MaxSeq(l) + 1 \in Nat
  BY MaxSeqIsMax
<1>2. \A i \in DOMAIN l : l[i].seq \in Nat
  BY SeqsAreNats
<1>3. \A i \in Host!EntryOf(l, k) : i \in DOMAIN l
  BY DEF Host!EntryOf, Host!Opens
<1> QED
  BY <1>1, <1>2, <1>3 DEF Host!LinesFor, Host!Line

-----------------------------------------------------------------------------
LEMMA SubSeqOfAppend ==
  ASSUME NEW S, NEW l \in Seq(S), NEW x \in S, NEW i \in 1 .. Len(l) + 1
  PROVE  SubSeq(Append(l, x), 1, i - 1) = SubSeq(l, 1, i - 1)
<1> DEFINE a == SubSeq(Append(l, x), 1, i - 1)
           b == SubSeq(l, 1, i - 1)
<1>1. a \in Seq(S) /\ b \in Seq(S) /\ Len(a) = i - 1 /\ Len(b) = i - 1
  OBVIOUS
<1>2. \A j \in 1 .. i - 1 : a[j] = b[j]
  OBVIOUS
<1> QED
  BY <1>1, <1>2

LEMMA SubSeqWhole ==
  ASSUME NEW S, NEW l \in Seq(S)
  PROVE  SubSeq(l, 1, Len(l)) = l
OBVIOUS

LEMMA EventsAppend ==
  ASSUME NEW l \in Seq(Host!Line), Host!EventsReadable(l), NEW k \in Keys,
         NEW x \in Host!LinesFor(l, "event", k)
  PROVE  Host!EventsReadable(Append(l, x))
<1>1. \A i \in DOMAIN l : l[i].op = "event" /\ l[i].seq = i
  BY DEF Host!EventsReadable
<1>2. HasMax(l)
  <2>1. l # <<>> => Len(l) \in DOMAIN l /\ \A j \in DOMAIN l : l[j].seq <= l[Len(l)].seq
    BY <1>1
  <2> QED
    BY <2>1 DEF HasMax
<1>3. Host!MaxSeq(l) = Len(l)
  <2>1. CASE l = <<>>
    BY <2>1 DEF Host!MaxSeq
  <2>2. CASE l # <<>>
    <3>1. Len(l) \in DOMAIN l /\ l[Len(l)].seq = Len(l)
      BY <1>1, <2>2
    <3> QED
      BY <1>1, <1>2, <2>2, <3>1, MaxSeqIsMax
  <2> QED
    BY <2>1, <2>2
<1>4. x = [op |-> "event", key |-> k, seq |-> Len(l) + 1]
  BY <1>3 DEF Host!LinesFor
<1> QED
  BY <1>1, <1>4 DEF Host!EventsReadable

LEMMA InfraAppend ==
  ASSUME NEW l \in Seq(Host!Line), HasMax(l), Host!InfraReadable(l), NEW k \in Keys,
         NEW o \in {"intend", "applied", "compensated"},
         NEW x \in Host!LinesFor(l, o, k)
  PROVE  Host!InfraReadable(Append(l, x))
<1> DEFINE m == Append(l, x)
<1>1. x \in Host!Line /\ x.op = o /\ x.key = k
  BY LinesTyped
<1>2. /\ m \in Seq(Host!Line) /\ DOMAIN m = DOMAIN l \cup {Len(l) + 1}
      /\ Len(l) + 1 \notin DOMAIN l /\ m[Len(l) + 1] = x
      /\ \A i \in DOMAIN l : m[i] = l[i]
  BY <1>1
<1>3. \A i \in DOMAIN m : SubSeq(m, 1, i - 1) = SubSeq(l, 1, i - 1)
  BY <1>1, SubSeqOfAppend
<1>4. SubSeq(m, 1, Len(l) + 1 - 1) = l
  BY <1>2, <1>3, SubSeqWhole
<1> HIDE DEF m
<1>5. \A i \in DOMAIN m : m[i].op \in {"intend", "applied", "compensated"}
  BY <1>1, <1>2 DEF Host!InfraReadable
<1>6. \A i, j \in Host!Opens(m) : i # j => m[i].seq # m[j].seq /\ m[i].key # m[j].key
  <2>1. CASE o = "intend"
    <3>1. Host!EntryOf(l, k) = {} /\ x = [op |-> o, key |-> k, seq |-> Host!MaxSeq(l) + 1]
      BY <2>1 DEF Host!LinesFor
    <3>2. \A i \in Host!Opens(l) : l[i].key # x.key /\ l[i].seq # x.seq
      <4>1. \A i \in DOMAIN l : l[i].seq \in Nat
        BY SeqsAreNats
      <4>2. \A i \in DOMAIN l : l[i].seq <= Host!MaxSeq(l) /\ Host!MaxSeq(l) \in Nat
        BY MaxSeqIsMax
      <4> QED
        BY <3>1, <4>1, <4>2 DEF Host!EntryOf, Host!Opens
    <3>3. Host!Opens(m) = Host!Opens(l) \cup {Len(l) + 1}
      BY <1>1, <1>2, <2>1 DEF Host!Opens
    <3> QED
      BY <1>2, <3>2, <3>3 DEF Host!InfraReadable, Host!Opens
  <2>2. CASE o # "intend"
    <3>1. Host!Opens(m) = Host!Opens(l)
      BY <1>1, <1>2, <2>2 DEF Host!Opens
    <3> QED
      BY <1>2, <3>1 DEF Host!InfraReadable, Host!Opens
  <2> QED
    BY <2>1, <2>2
<1> DEFINE Follows(s, i) ==
      LET before == SubSeq(s, 1, i - 1) IN
      /\ \E j \in Host!Opens(before) : s[j].seq = s[i].seq
      /\ Host!StateOf(before, s[i].seq) \in
           IF s[i].op = "applied" THEN {"intended"} ELSE {"intended", "applied"}
<1>7. ASSUME NEW i \in DOMAIN m \ Host!Opens(m)
      PROVE  Follows(m, i)
  <2>1. CASE i \in DOMAIN l
    <3>1. i \notin Host!Opens(l) /\ m[i] = l[i]
      BY <1>2, <1>7, <2>1 DEF Host!Opens
    <3>2. Follows(l, i)
      BY <2>1, <3>1 DEF Host!InfraReadable
    <3>3. \A j \in Host!Opens(SubSeq(l, 1, i - 1)) : m[j] = l[j]
      <4>1. DOMAIN SubSeq(l, 1, i - 1) = 1 .. i - 1 /\ i \in 1 .. Len(l)
        BY <2>1
      <4> QED
        BY <1>2, <4>1 DEF Host!Opens
    <3>4. SubSeq(m, 1, i - 1) = SubSeq(l, 1, i - 1)
      BY <1>3
    <3> QED
      BY <3>1, <3>2, <3>3, <3>4
  <2>2. CASE i = Len(l) + 1
    <3>1. SubSeq(m, 1, i - 1) = l /\ m[i] = x
      BY <1>2, <1>4, <2>2
    <3>2. o \in {"applied", "compensated"}
      BY <1>1, <1>7, <3>1 DEF Host!Opens
    <3>3. PICK j \in Host!EntryOf(l, k) :
            /\ x.seq = l[j].seq
            /\ IF o = "applied" THEN Host!StateOf(l, l[j].seq) = "intended"
                               ELSE Host!StateOf(l, l[j].seq) # "compensated"
      BY <3>2 DEF Host!LinesFor
    <3>4. j \in Host!Opens(l) /\ j \in DOMAIN l
      BY <3>3 DEF Host!EntryOf, Host!Opens
    <3>5. Host!StateOf(l, l[j].seq) \in {"intended", "applied", "compensated"}
      BY DEF Host!StateOf
    <3> QED
      BY <1>1, <1>2, <3>1, <3>2, <3>3, <3>4, <3>5
  <2> QED
    BY <1>2, <2>1, <2>2
<1> QED
  BY <1>5, <1>6, <1>7 DEF Host!InfraReadable, m


-----------------------------------------------------------------------------
(* Steps of the host-scoped logs.                                          *)

\* What holds of a process whatever others do.
Proper(p) ==
  /\ ~alive[p] => proc[p].pc = "idle"
  /\ proc[p].pc # "idle" => proc[p].op \in Host!Ops
  /\ proc[p].pc = "append" => Len(proc[p].line) = 1
  /\ proc[p].pc = "break" =>
       proc[p].judged # Free /\ (proc[p].judged.old \/ ~alive[proc[p].judged.by])

\* What holds of a process inside, as long as no lock of the living was broken.
Careful(p) ==
  Host!Inside(p) =>
    /\ lock # Free /\ lock.by = p
    /\ proc[p].pc \in {"read", "append"} => ~torn
    /\ proc[p].pc = "append" =>
         proc[p].line[1] \in Host!LinesFor(log, proc[p].op, proc[p].key)

Sound == Host!Readable(log) /\ \A p \in HostProcs : Careful(p)

HostInv ==
  /\ Host!HostTypeOK /\ HasMax(log)
  /\ \A p \in HostProcs : Proper(p)
  /\ mishaps = {} => Sound

LEMMA RestingTyped ==
  Host!Resting \in [pc : {"idle"}, op : {"event"}, key : Keys, judged : {Free},
                   line : Seq(Host!Line)]
<1>1. (CHOOSE k \in Keys : TRUE) \in Keys
  BY HostAssumption
<1> QED
  BY <1>1 DEF Host!Resting

LEMMA InitHost == Host!Init => HostInv
<1> SUFFICES ASSUME Host!Init PROVE HostInv
  OBVIOUS
<1>1. Host!Resting \in Host!Locals
  BY RestingTyped DEF Host!Locals
<1>2. Host!HostTypeOK
  <2>1. proc \in [HostProcs -> Host!Locals]
    BY <1>1 DEF Host!Init
  <2>2. calls \in [HostProcs -> 0 .. MaxCalls]
    BY HostAssumption DEF Host!Init
  <2>3. log \in Seq(Host!Line) /\ mishaps \subseteq {"slow", "overtaken"}
    BY DEF Host!Init
  <2>4. alive \in [HostProcs -> BOOLEAN] /\ torn \in BOOLEAN /\ lock \in Host!Lock \cup {Free}
    BY DEF Host!Init
  <2> QED
    BY <2>1, <2>2, <2>3, <2>4 DEF Host!Init, Host!HostTypeOK
<1>3. HasMax(log)
  BY DEF Host!Init, HasMax
<1>4. \A p \in HostProcs : Proper(p) /\ ~Host!Inside(p)
  BY RestingTyped DEF Host!Init, Proper, Host!Inside
<1>5. Host!Readable(log)
  BY DEF Host!Init, Host!Readable, Host!EventsReadable, Host!InfraReadable, Host!Opens
<1> QED
  BY <1>2, <1>3, <1>4, <1>5 DEF HostInv, Sound, Careful

LEMMA LocalMoves ==
  ASSUME HostInv, NEW p \in HostProcs, NEW m \in Host!Locals, proc' = [proc EXCEPT ![p] = m]
  PROVE  /\ proc' \in [HostProcs -> Host!Locals] /\ proc'[p] = m
         /\ \A q \in HostProcs \ {p} : proc'[q] = proc[q]
BY DEF HostInv, Host!HostTypeOK

LEMMA GoMoves ==
  ASSUME HostInv, NEW p \in HostProcs, Host!Go(p, "write") \/ Host!Go(p, "judge")
           \/ Host!Go(p, "repair") \/ Host!Go(p, "open") \/ Host!Go(p, "read")
           \/ Host!Go(p, "release")
  PROVE  /\ proc' \in [HostProcs -> Host!Locals]
         /\ proc'[p].op = proc[p].op /\ proc'[p].key = proc[p].key
         /\ \A c : Host!Go(p, c) => proc'[p].pc = c
         /\ \A q \in HostProcs \ {p} : proc'[q] = proc[q]
<1>1. PICK c \in {"write", "judge", "repair", "open", "read", "release"} : Host!Go(p, c)
  OBVIOUS
<1> DEFINE m == [proc[p] EXCEPT !.pc = c]
<1>2. proc[p] \in Host!Locals
  BY DEF HostInv, Host!HostTypeOK
<1>3. m \in Host!Locals /\ m.pc = c /\ m.op = proc[p].op /\ m.key = proc[p].key
  BY <1>2 DEF Host!Locals
<1>4. proc' = [proc EXCEPT ![p] = m]
  BY <1>1 DEF Host!Go
<1>5. \A d : Host!Go(p, d) => proc'[p].pc = d
  BY <1>2 DEF Host!Go, HostInv, Host!HostTypeOK, Host!Locals
<1> HIDE DEF m
<1> QED
  BY <1>3, <1>4, <1>5, LocalMoves

LEMMA RestMoves ==
  ASSUME HostInv, NEW p \in HostProcs, proc' = [proc EXCEPT ![p] = Host!Resting]
  PROVE  /\ proc' \in [HostProcs -> Host!Locals] /\ proc'[p].pc = "idle"
         /\ \A q \in HostProcs \ {p} : proc'[q] = proc[q]
<1>1. Host!Resting \in Host!Locals /\ Host!Resting.pc = "idle"
  BY RestingTyped DEF Host!Locals
<1> QED
  BY <1>1, LocalMoves

LEMMA CallKeepsHost ==
  ASSUME HostInv, NEW p \in HostProcs, NEW o \in Host!Ops, NEW k \in Keys, Host!Call(p, o, k)
  PROVE  HostInv'
<1>1. /\ proc' \in [HostProcs -> Host!Locals] /\ proc'[p].pc = "open" /\ proc'[p].op = o
      /\ \A q \in HostProcs \ {p} : proc'[q] = proc[q]
  <2> DEFINE m == [proc[p] EXCEPT !.pc = "open", !.op = o, !.key = k]
  <2>1. proc[p] \in Host!Locals /\ o \in {"event", "intend", "applied", "compensated"}
    BY DEF HostInv, Host!HostTypeOK, Host!Ops
  <2>2. m \in Host!Locals /\ m.pc = "open" /\ m.op = o
    BY <2>1 DEF Host!Locals
  <2>3. proc' = [proc EXCEPT ![p] = m]
    BY DEF Host!Call
  <2> HIDE DEF m
  <2> QED
    BY <2>2, <2>3, LocalMoves
<1>2. Host!HostTypeOK'
  <2>1. lock' \in Host!Lock \cup {Free}
    BY DEF Host!Call, Host!At, Host!Ops, HostInv, Host!HostTypeOK
  <2>2. alive' \in [HostProcs -> BOOLEAN] /\ calls' \in [HostProcs -> 0 .. MaxCalls]
    BY HostAssumption DEF Host!Call, HostInv, Host!HostTypeOK
  <2>3. /\ kind' \in {"infra", "events"} /\ log' \in Seq(Host!Line) /\ torn' \in BOOLEAN
        /\ mishaps' \subseteq {"slow", "overtaken"}
    BY DEF Host!Call, HostInv, Host!HostTypeOK
  <2> QED
    BY <1>1, <2>1, <2>2, <2>3 DEF Host!HostTypeOK
<1>3. HasMax(log)'
  BY DEF Host!Call, HostInv, HasMax
<1>4. ASSUME NEW q \in HostProcs
      PROVE  Proper(q)'
  BY <1>1 DEF Host!Call, Host!At, Host!Ops, HostInv, Host!HostTypeOK, Proper
<1>5. ASSUME mishaps' = {}
      PROVE  Sound'
  <2>1. mishaps = {}
    BY <1>5 DEF Host!Call
  <2>2. Host!Readable(log)'
    BY <2>1 DEF Host!Call, HostInv, Sound, Host!Readable
  <2>3. ASSUME NEW q \in HostProcs
        PROVE  Careful(q)'
    BY <1>1, <1>5, <2>1 DEF Host!Call, Host!At, Host!Ops, HostInv, Sound, Careful,
           Host!Inside, Proper
  <2> QED
    BY <2>2, <2>3 DEF Sound
<1> QED
  BY <1>2, <1>3, <1>4, <1>5 DEF HostInv

LEMMA OpenKeepsHost ==
  ASSUME HostInv, NEW p \in HostProcs, Host!Open(p)
  PROVE  HostInv'
<1>1. /\ proc' \in [HostProcs -> Host!Locals]
      /\ proc'[p].op = proc[p].op
      /\ \/ proc'[p].pc = "write" /\ lock = Free
            /\ lock' = [by |-> p, written |-> FALSE, old |-> FALSE]
         \/ proc'[p].pc = "judge" /\ lock' = lock
      /\ lock' \in Host!Lock \cup {Free}
      /\ \A q \in HostProcs \ {p} : proc'[q] = proc[q]
  <2>1. [by |-> p, written |-> FALSE, old |-> FALSE] \in Host!Lock
    BY DEF Host!Lock
  <2> QED
    BY <2>1, GoMoves DEF Host!Open, HostInv, Host!HostTypeOK
<1>2. Host!HostTypeOK'
  <2>1. lock' \in Host!Lock \cup {Free}
    BY <1>1 DEF HostInv, Host!HostTypeOK
  <2>2. alive' \in [HostProcs -> BOOLEAN] /\ calls' \in [HostProcs -> 0 .. MaxCalls]
    BY HostAssumption DEF Host!Open, HostInv, Host!HostTypeOK
  <2>3. /\ kind' \in {"infra", "events"} /\ log' \in Seq(Host!Line) /\ torn' \in BOOLEAN
        /\ mishaps' \subseteq {"slow", "overtaken"}
    BY DEF Host!Open, HostInv, Host!HostTypeOK
  <2> QED
    BY <1>1, <2>1, <2>2, <2>3 DEF Host!HostTypeOK
<1>3. HasMax(log)'
  BY DEF Host!Open, HostInv, HasMax
<1>4. ASSUME NEW q \in HostProcs
      PROVE  Proper(q)'
  BY <1>1, ZenonT(60)
     DEF Host!Open, Host!At, Host!Lock, HostInv, Host!HostTypeOK, Proper, Host!Ops
<1>6. proc'[p].pc = "write" => lock' # Free /\ lock'.by = p
  <2>1. [by |-> p, written |-> FALSE, old |-> FALSE] \in Host!Lock
    BY DEF Host!Lock
  <2>2. [by |-> p, written |-> FALSE, old |-> FALSE] # Free
    BY <2>1, HostAssumption
  <2>3. proc'[p].pc = "write" => lock' = [by |-> p, written |-> FALSE, old |-> FALSE]
    BY <1>1
  <2> QED
    BY <2>2, <2>3
<1>5. ASSUME mishaps' = {}
      PROVE  Sound'
  <2>1. mishaps = {}
    BY <1>5 DEF Host!Open
  <2>2. Host!Readable(log)'
    BY <2>1 DEF Host!Open, HostInv, Sound, Host!Readable
  <2>3. ASSUME NEW q \in HostProcs
        PROVE  Careful(q)'
    BY <1>1, <1>6, <1>5, <2>1 DEF Host!Open, Host!At, HostInv, Sound, Careful, Host!Inside,
           Proper
  <2> QED
    BY <2>2, <2>3 DEF Sound
<1> QED
  BY <1>2, <1>3, <1>4, <1>5 DEF HostInv

LEMMA WritePidKeepsHost ==
  ASSUME HostInv, NEW p \in HostProcs, Host!WritePid(p)
  PROVE  HostInv'
<1>1. /\ proc' \in [HostProcs -> Host!Locals]
      /\ proc'[p].op = proc[p].op /\ proc'[p].pc = "repair"
      /\ \A q \in HostProcs \ {p} : proc'[q] = proc[q]
  BY GoMoves DEF Host!WritePid
<1>2. Host!HostTypeOK'
  <2>1. lock' \in Host!Lock \cup {Free}
    BY DEF Host!WritePid, Host!At, Host!Lock, HostInv, Host!HostTypeOK
  <2>2. alive' \in [HostProcs -> BOOLEAN] /\ calls' \in [HostProcs -> 0 .. MaxCalls]
    BY HostAssumption DEF Host!WritePid, HostInv, Host!HostTypeOK
  <2>3. /\ kind' \in {"infra", "events"} /\ log' \in Seq(Host!Line) /\ torn' \in BOOLEAN
        /\ mishaps' \subseteq {"slow", "overtaken"}
    BY DEF Host!WritePid, HostInv, Host!HostTypeOK
  <2> QED
    BY <1>1, <2>1, <2>2, <2>3 DEF Host!HostTypeOK
<1>3. HasMax(log)'
  BY DEF Host!WritePid, HostInv, HasMax
<1>4. ASSUME NEW q \in HostProcs
      PROVE  Proper(q)'
  BY <1>1, ZenonT(60)
     DEF Host!WritePid, Host!At, Host!Lock, HostInv, Host!HostTypeOK, Proper, Host!Ops
<1>6. lock # Free => lock' # Free /\ lock'.by = lock.by
  BY HostAssumption DEF Host!WritePid, HostInv, Host!HostTypeOK, Host!Lock
<1>5. ASSUME mishaps' = {}
      PROVE  Sound'
  <2>1. mishaps = {}
    BY <1>5 DEF Host!WritePid
  <2>2. Host!Readable(log)'
    BY <2>1 DEF Host!WritePid, HostInv, Sound, Host!Readable
  <2>3. ASSUME NEW q \in HostProcs
        PROVE  Careful(q)'
    BY <1>1, <1>6, <1>5, <2>1 DEF Host!WritePid, Host!At, HostInv, Sound, Careful,
           Host!Inside, Proper
  <2> QED
    BY <2>2, <2>3 DEF Sound
<1> QED
  BY <1>2, <1>3, <1>4, <1>5 DEF HostInv

LEMMA JudgeLockKeepsHost ==
  ASSUME HostInv, NEW p \in HostProcs, Host!JudgeLock(p)
  PROVE  HostInv'
<1>1. /\ proc' \in [HostProcs -> Host!Locals]
      /\ \/ proc'[p].op = proc[p].op /\ proc'[p].pc = "open"
         \/ proc'[p].pc = "idle"
         \/ /\ proc'[p].op = proc[p].op /\ proc'[p].pc = "break" /\ proc'[p].judged = lock
            /\ lock # Free /\ Host!IsStale(lock)
      /\ \A q \in HostProcs \ {p} : proc'[q] = proc[q]
  <2>1. CASE Host!Go(p, "open")
    BY <2>1, GoMoves
  <2>2. CASE proc' = [proc EXCEPT ![p] = Host!Resting]
    BY <2>2, RestMoves
  <2>3. CASE /\ proc' = [proc EXCEPT ![p].pc = "break", ![p].judged = lock]
             /\ lock # Free /\ Host!IsStale(lock)
    <3> DEFINE m == [proc[p] EXCEPT !.pc = "break", !.judged = lock]
    <3>1. proc[p] \in Host!Locals /\ lock \in Host!Lock \cup {Free}
      BY DEF HostInv, Host!HostTypeOK
    <3>2. m \in Host!Locals /\ m.pc = "break" /\ m.op = proc[p].op /\ m.judged = lock
      BY <3>1 DEF Host!Locals
    <3>3. proc' = [proc EXCEPT ![p] = m]
      BY <2>3
    <3> HIDE DEF m
    <3> QED
      BY <2>3, <3>2, <3>3, LocalMoves
  <2> QED
    BY <2>1, <2>2, <2>3 DEF Host!JudgeLock
<1>2. Host!HostTypeOK'
  <2>1. lock' \in Host!Lock \cup {Free}
    BY DEF Host!JudgeLock, Host!At, Host!Lock, Host!IsStale, HostInv, Host!HostTypeOK
  <2>2. alive' \in [HostProcs -> BOOLEAN] /\ calls' \in [HostProcs -> 0 .. MaxCalls]
    BY HostAssumption DEF Host!JudgeLock, HostInv, Host!HostTypeOK
  <2>3. /\ kind' \in {"infra", "events"} /\ log' \in Seq(Host!Line) /\ torn' \in BOOLEAN
        /\ mishaps' \subseteq {"slow", "overtaken"}
    BY DEF Host!JudgeLock, HostInv, Host!HostTypeOK
  <2> QED
    BY <1>1, <2>1, <2>2, <2>3 DEF Host!HostTypeOK
<1>3. HasMax(log)'
  BY DEF Host!JudgeLock, HostInv, HasMax
<1>4. ASSUME NEW q \in HostProcs
      PROVE  Proper(q)'
  BY <1>1 DEF Host!JudgeLock, Host!At, Host!IsStale, HostInv, Proper, Host!Ops
<1>5. ASSUME mishaps' = {}
      PROVE  Sound'
  <2>1. mishaps = {}
    BY <1>5 DEF Host!JudgeLock
  <2>2. Host!Readable(log)'
    BY <2>1 DEF Host!JudgeLock, HostInv, Sound, Host!Readable
  <2>3. ASSUME NEW q \in HostProcs
        PROVE  Careful(q)'
    BY <1>1, <1>5, <2>1 DEF Host!JudgeLock, Host!At, Host!IsStale, HostInv, Sound, Careful,
           Host!Inside, Proper
  <2> QED
    BY <2>2, <2>3 DEF Sound
<1> QED
  BY <1>2, <1>3, <1>4, <1>5 DEF HostInv

LEMMA BreakLockKeepsHost ==
  ASSUME HostInv, NEW p \in HostProcs, Host!BreakLock(p)
  PROVE  HostInv'
<1>1. /\ proc' \in [HostProcs -> Host!Locals]
      /\ proc'[p].op = proc[p].op /\ proc'[p].pc = "open"
      /\ \A q \in HostProcs \ {p} : proc'[q] = proc[q]
  <2> DEFINE m == [proc[p] EXCEPT !.pc = "open", !.judged = Free]
  <2>1. proc[p] \in Host!Locals
    BY DEF HostInv, Host!HostTypeOK
  <2>2. m \in Host!Locals /\ m.pc = "open" /\ m.op = proc[p].op
    BY <2>1 DEF Host!Locals
  <2>3. proc' = [proc EXCEPT ![p] = m]
    BY DEF Host!BreakLock
  <2> HIDE DEF m
  <2> QED
    BY <2>2, <2>3, LocalMoves
<1>2. Host!HostTypeOK'
  <2>1. lock' \in Host!Lock \cup {Free}
    BY DEF Host!BreakLock, Host!At, HostInv, Host!HostTypeOK
  <2>2. alive' \in [HostProcs -> BOOLEAN] /\ calls' \in [HostProcs -> 0 .. MaxCalls]
    BY HostAssumption DEF Host!BreakLock, HostInv, Host!HostTypeOK
  <2>3. /\ kind' \in {"infra", "events"} /\ log' \in Seq(Host!Line) /\ torn' \in BOOLEAN
        /\ mishaps' \subseteq {"slow", "overtaken"}
    BY DEF Host!BreakLock, HostInv, Host!HostTypeOK
  <2> QED
    BY <1>1, <2>1, <2>2, <2>3 DEF Host!HostTypeOK
<1>3. HasMax(log)'
  BY DEF Host!BreakLock, HostInv, HasMax
<1>4. ASSUME NEW q \in HostProcs
      PROVE  Proper(q)'
  BY <1>1 DEF Host!BreakLock, Host!At, HostInv, Host!HostTypeOK, Proper, Host!Ops
<1>5. ASSUME mishaps' = {}
      PROVE  Sound'
  <2>1. mishaps = {}
    BY <1>5 DEF Host!BreakLock
  <2>2. Host!Readable(log)'
    BY <2>1 DEF Host!BreakLock, HostInv, Sound, Host!Readable
  <2>3. ASSUME NEW q \in HostProcs
        PROVE  Careful(q)'
    BY <1>1, <1>5, <2>1 DEF Host!BreakLock, Host!At, HostInv, Sound, Careful, Host!Inside,
           Proper
  <2> QED
    BY <2>2, <2>3 DEF Sound
<1> QED
  BY <1>2, <1>3, <1>4, <1>5 DEF HostInv

LEMMA RepairKeepsHost ==
  ASSUME HostInv, NEW p \in HostProcs, Host!Repair(p)
  PROVE  HostInv'
<1>1. /\ proc' \in [HostProcs -> Host!Locals]
      /\ proc'[p].op = proc[p].op /\ proc'[p].pc = "read"
      /\ \A q \in HostProcs \ {p} : proc'[q] = proc[q]
  BY GoMoves DEF Host!Repair
<1>2. Host!HostTypeOK'
  <2>1. lock' \in Host!Lock \cup {Free}
    BY DEF Host!Repair, Host!At, HostInv, Host!HostTypeOK
  <2>2. alive' \in [HostProcs -> BOOLEAN] /\ calls' \in [HostProcs -> 0 .. MaxCalls]
    BY HostAssumption DEF Host!Repair, HostInv, Host!HostTypeOK
  <2>3. /\ kind' \in {"infra", "events"} /\ log' \in Seq(Host!Line) /\ torn' \in BOOLEAN
        /\ mishaps' \subseteq {"slow", "overtaken"}
    BY DEF Host!Repair, HostInv, Host!HostTypeOK
  <2> QED
    BY <1>1, <2>1, <2>2, <2>3 DEF Host!HostTypeOK
<1>3. HasMax(log)'
  BY DEF Host!Repair, HostInv, HasMax
<1>4. ASSUME NEW q \in HostProcs
      PROVE  Proper(q)'
  BY <1>1 DEF Host!Repair, Host!At, HostInv, Host!HostTypeOK, Proper, Host!Ops
<1>5. ASSUME mishaps' = {}
      PROVE  Sound'
  <2>1. mishaps = {}
    BY <1>5 DEF Host!Repair
  <2>2. Host!Readable(log)'
    BY <2>1 DEF Host!Repair, HostInv, Sound, Host!Readable
  <2>3. ASSUME NEW q \in HostProcs
        PROVE  Careful(q)'
    BY <1>1, <1>5, <2>1 DEF Host!Repair, Host!At, HostInv, Sound, Careful, Host!Inside, Proper
  <2> QED
    BY <2>2, <2>3 DEF Sound
<1> QED
  BY <1>2, <1>3, <1>4, <1>5 DEF HostInv

LEMMA ReleaseLockKeepsHost ==
  ASSUME HostInv, NEW p \in HostProcs, Host!ReleaseLock(p)
  PROVE  HostInv'
<1>1. /\ proc' \in [HostProcs -> Host!Locals] /\ proc'[p].pc = "idle"
      /\ \A q \in HostProcs \ {p} : proc'[q] = proc[q]
  BY RestMoves DEF Host!ReleaseLock
<1>2. Host!HostTypeOK'
  <2>1. lock' \in Host!Lock \cup {Free}
    BY DEF Host!ReleaseLock, Host!At, HostInv, Host!HostTypeOK
  <2>2. alive' \in [HostProcs -> BOOLEAN] /\ calls' \in [HostProcs -> 0 .. MaxCalls]
    BY HostAssumption DEF Host!ReleaseLock, HostInv, Host!HostTypeOK
  <2>3. /\ kind' \in {"infra", "events"} /\ log' \in Seq(Host!Line) /\ torn' \in BOOLEAN
        /\ mishaps' \subseteq {"slow", "overtaken"}
    BY DEF Host!ReleaseLock, HostInv, Host!HostTypeOK
  <2> QED
    BY <1>1, <2>1, <2>2, <2>3 DEF Host!HostTypeOK
<1>3. HasMax(log)'
  BY DEF Host!ReleaseLock, HostInv, HasMax
<1>4. ASSUME NEW q \in HostProcs
      PROVE  Proper(q)'
  BY <1>1 DEF Host!ReleaseLock, Host!At, HostInv, Host!HostTypeOK, Proper, Host!Ops
<1>5. ASSUME mishaps' = {}
      PROVE  Sound'
  <2>1. mishaps = {}
    BY <1>5 DEF Host!ReleaseLock
  <2>2. Host!Readable(log)'
    BY <2>1 DEF Host!ReleaseLock, HostInv, Sound, Host!Readable
  <2>3. ASSUME NEW q \in HostProcs
        PROVE  Careful(q)'
    BY <1>1, <1>5, <2>1 DEF Host!ReleaseLock, Host!At, HostInv, Sound, Careful, Host!Inside,
           Proper
  <2> QED
    BY <2>2, <2>3 DEF Sound
<1> QED
  BY <1>2, <1>3, <1>4, <1>5 DEF HostInv

LEMMA AgeLockKeepsHost ==
  ASSUME HostInv, Host!AgeLock
  PROVE  HostInv'
<1>1. proc' = proc /\ proc' \in [HostProcs -> Host!Locals]
  BY DEF Host!AgeLock, HostInv, Host!HostTypeOK
<1>2. Host!HostTypeOK'
  <2>1. lock' \in Host!Lock \cup {Free}
    BY DEF Host!AgeLock, Host!Lock, HostInv, Host!HostTypeOK
  <2>2. alive' \in [HostProcs -> BOOLEAN] /\ calls' \in [HostProcs -> 0 .. MaxCalls]
    BY HostAssumption DEF Host!AgeLock, HostInv, Host!HostTypeOK
  <2>3. /\ kind' \in {"infra", "events"} /\ log' \in Seq(Host!Line) /\ torn' \in BOOLEAN
        /\ mishaps' \subseteq {"slow", "overtaken"}
    BY DEF Host!AgeLock, HostInv, Host!HostTypeOK
  <2> QED
    BY <1>1, <2>1, <2>2, <2>3 DEF Host!HostTypeOK
<1>3. HasMax(log)'
  BY DEF Host!AgeLock, HostInv, HasMax
<1>4. ASSUME NEW q \in HostProcs
      PROVE  Proper(q)'
  BY <1>1 DEF Host!AgeLock, Host!Lock, HostInv, Host!HostTypeOK, Proper, Host!Ops
<1>6. lock # Free /\ lock' # Free /\ lock'.by = lock.by
  BY HostAssumption DEF Host!AgeLock, HostInv, Host!HostTypeOK, Host!Lock
<1>5. ASSUME mishaps' = {}
      PROVE  Sound'
  <2>1. mishaps = {}
    BY <1>5 DEF Host!AgeLock
  <2>2. Host!Readable(log)'
    BY <2>1 DEF Host!AgeLock, HostInv, Sound, Host!Readable
  <2>3. ASSUME NEW q \in HostProcs
        PROVE  Careful(q)'
    BY <1>1, <1>6, <1>5, <2>1 DEF Host!AgeLock, HostInv, Sound, Careful, Host!Inside, Proper
  <2> QED
    BY <2>2, <2>3 DEF Sound
<1> QED
  BY <1>2, <1>3, <1>4, <1>5 DEF HostInv

LEMMA DieKeepsHost ==
  ASSUME HostInv, NEW p \in HostProcs, Host!Die(p)
  PROVE  HostInv'
<1>1. /\ proc' \in [HostProcs -> Host!Locals] /\ proc'[p].pc = "idle"
      /\ \A q \in HostProcs \ {p} : proc'[q] = proc[q]
  BY RestMoves DEF Host!Die
<1>2. Host!HostTypeOK'
  <2>1. lock' \in Host!Lock \cup {Free}
    BY DEF Host!Die, HostInv, Host!HostTypeOK
  <2>2. alive' \in [HostProcs -> BOOLEAN] /\ calls' \in [HostProcs -> 0 .. MaxCalls]
    BY HostAssumption DEF Host!Die, HostInv, Host!HostTypeOK
  <2>3. /\ kind' \in {"infra", "events"} /\ log' \in Seq(Host!Line) /\ torn' \in BOOLEAN
        /\ mishaps' \subseteq {"slow", "overtaken"}
    BY DEF Host!Die, HostInv, Host!HostTypeOK
  <2> QED
    BY <1>1, <2>1, <2>2, <2>3 DEF Host!HostTypeOK
<1>3. HasMax(log)'
  BY DEF Host!Die, HostInv, HasMax
<1>4. ASSUME NEW q \in HostProcs
      PROVE  Proper(q)'
  BY <1>1 DEF Host!Die, HostInv, Host!HostTypeOK, Proper, Host!Ops
<1>6. /\ UNCHANGED <<log, lock>> /\ alive[p] /\ ~alive'[p]
      /\ \A q \in HostProcs \ {p} : alive'[q] = alive[q]
      /\ torn' => torn \/ proc[p].pc = "append"
  BY DEF Host!Die, HostInv, Host!HostTypeOK
<1>5. ASSUME mishaps' = {}
      PROVE  Sound'
  <2>1. mishaps = {}
    BY <1>5 DEF Host!Die
  <2>2. Host!Readable(log)'
    BY <2>1 DEF Host!Die, HostInv, Sound, Host!Readable
  <2>3. ASSUME NEW q \in HostProcs
        PROVE  Careful(q)'
    BY <1>1, <1>6, <1>5, <2>1 DEF HostInv, Sound, Careful, Host!Inside, Proper
  <2> QED
    BY <2>2, <2>3 DEF Sound
<1> QED
  BY <1>2, <1>3, <1>4, <1>5 DEF HostInv

LEMMA ReadKeepsHost ==
  ASSUME HostInv, NEW p \in HostProcs, Host!Read(p)
  PROVE  HostInv'
<1> DEFINE lines == IF Host!Readable(log) THEN Host!LinesFor(log, proc[p].op, proc[p].key) ELSE {}
<1>1. /\ alive[p] /\ proc[p].pc = "read" /\ proc[p] \in Host!Locals
      /\ UNCHANGED <<kind, log, torn, lock, alive, calls, mishaps>>
  BY DEF Host!Read, Host!At, HostInv, Host!HostTypeOK
<1>2. proc[p].op \in {"event", "intend", "applied", "compensated"} /\ proc[p].key \in Keys
  BY <1>1 DEF Host!Locals
<1>3. lines \subseteq Host!Line
  BY <1>2, LinesTyped DEF HostInv, Host!HostTypeOK
<1>4. /\ proc' \in [HostProcs -> Host!Locals] /\ proc'[p].op = proc[p].op
      /\ \/ proc'[p].pc = "release"
         \/ /\ proc'[p].pc = "append" /\ Len(proc'[p].line) = 1
            /\ proc'[p].line[1] \in Host!LinesFor(log, proc'[p].op, proc'[p].key)
      /\ \A q \in HostProcs \ {p} : proc'[q] = proc[q]
  <2>1. CASE Host!Go(p, "release")
    BY <2>1, GoMoves
  <2>2. ASSUME NEW x \in lines, proc' = [proc EXCEPT ![p].pc = "append", ![p].line = <<x>>]
        PROVE  /\ proc' \in [HostProcs -> Host!Locals] /\ proc'[p].op = proc[p].op
               /\ \/ proc'[p].pc = "release"
                  \/ /\ proc'[p].pc = "append" /\ Len(proc'[p].line) = 1
                     /\ proc'[p].line[1] \in Host!LinesFor(log, proc'[p].op, proc'[p].key)
               /\ \A q \in HostProcs \ {p} : proc'[q] = proc[q]
    <3> DEFINE m == [proc[p] EXCEPT !.pc = "append", !.line = <<x>>]
    <3>1. <<x>> \in Seq(Host!Line) /\ Len(<<x>>) = 1 /\ <<x>>[1] = x
      BY <1>3
    <3>2. x \in Host!LinesFor(log, proc[p].op, proc[p].key)
      OBVIOUS
    <3>3. m \in Host!Locals /\ m.pc = "append" /\ m.op = proc[p].op /\ m.key = proc[p].key
          /\ m.line = <<x>>
      BY <1>1, <3>1 DEF Host!Locals
    <3>4. proc' = [proc EXCEPT ![p] = m]
      BY <2>2
    <3> HIDE DEF m, lines
    <3> QED
      BY <3>1, <3>2, <3>3, <3>4, LocalMoves
  <2>3. \/ Host!Go(p, "release")
        \/ \E x \in lines : proc' = [proc EXCEPT ![p].pc = "append", ![p].line = <<x>>]
    BY DEF Host!Read
  <2> HIDE DEF lines
  <2> QED
    BY <2>1, <2>2, <2>3
<1> HIDE DEF lines
<1>5. Host!HostTypeOK' /\ HasMax(log)'
  BY <1>1, <1>4 DEF HostInv, Host!HostTypeOK, HasMax
<1>6. ASSUME NEW q \in HostProcs
      PROVE  Proper(q)'
  BY <1>1, <1>4 DEF HostInv, Proper, Host!Ops
<1>7. ASSUME mishaps' = {}
      PROVE  Sound'
  <2>1. Host!Readable(log)'
    BY <1>1, <1>7 DEF HostInv, Sound, Host!Readable
  <2>2. ASSUME NEW q \in HostProcs
        PROVE  Careful(q)'
    BY <1>1, <1>4, <1>7 DEF HostInv, Sound, Careful, Host!Inside
  <2> QED
    BY <2>1, <2>2 DEF Sound
<1> QED
  BY <1>5, <1>6, <1>7 DEF HostInv

LEMMA AppendLineKeepsHost ==
  ASSUME HostInv, NEW p \in HostProcs, Host!AppendLine(p)
  PROVE  HostInv'
<1> DEFINE x == proc[p].line[1]
           written == IF torn THEN [x EXCEPT !.op = "spliced"] ELSE x
<1>1. /\ alive[p] /\ proc[p].pc = "append" /\ proc[p] \in Host!Locals
      /\ UNCHANGED <<kind, lock, alive, calls, mishaps>>
  BY DEF Host!AppendLine, Host!At, HostInv, Host!HostTypeOK
<1>2. x \in Host!Line /\ proc[p].line # <<>>
  <2>1. proc[p].line \in Seq(Host!Line) /\ Len(proc[p].line) = 1
    BY <1>1 DEF Host!Locals, HostInv, Proper
  <2> QED
    BY <2>1
<1>3. written \in Host!Line
  BY <1>2 DEF Host!Line
<1>4. /\ proc' \in [HostProcs -> Host!Locals] /\ proc'[p].op = proc[p].op
      /\ proc'[p].pc = "release"
      /\ \A q \in HostProcs \ {p} : proc'[q] = proc[q]
  <2> DEFINE m == [proc[p] EXCEPT !.pc = "release", !.line = <<>>]
  <2>1. m \in Host!Locals /\ m.pc = "release" /\ m.op = proc[p].op
    <3>1. <<>> \in Seq(Host!Line)
      OBVIOUS
    <3> QED
      BY <1>1, <3>1 DEF Host!Locals
  <2>2. proc' = [proc EXCEPT ![p] = m]
    BY DEF Host!AppendLine
  <2> HIDE DEF m
  <2> QED
    BY <2>1, <2>2, LocalMoves
<1> HIDE DEF x, written
<1>5. \/ log' = Append(log, written) /\ torn' = FALSE
      \/ log' = log /\ torn' = TRUE
  BY DEF Host!AppendLine, written, x
<1>6. Host!HostTypeOK' /\ HasMax(log)'
  <2>1. log \in Seq(Host!Line) /\ HasMax(log)
    BY DEF HostInv, Host!HostTypeOK
  <2>2. /\ Append(log, written) \in Seq(Host!Line)
        /\ HasMax(Append(log, written))
    BY <1>3, <2>1, AppendHasMax
  <2>3. HasMax(log')
    BY <1>5, <2>1, <2>2
  <2>4. log' \in Seq(Host!Line) /\ torn' \in BOOLEAN
    BY <1>5, <2>1, <2>2
  <2> QED
    BY <1>1, <1>4, <2>3, <2>4 DEF HostInv, Host!HostTypeOK, HasMax
<1>7. ASSUME NEW q \in HostProcs
      PROVE  Proper(q)'
  BY <1>1, <1>4 DEF HostInv, Proper, Host!Ops
<1>8. ASSUME mishaps' = {}
      PROVE  Sound'
  <2>1. Sound /\ Careful(p) /\ Host!Inside(p)
    BY <1>1, <1>8 DEF HostInv, Sound, Host!Inside
  <2>2. /\ ~torn /\ lock.by = p /\ lock # Free
        /\ x \in Host!LinesFor(log, proc[p].op, proc[p].key)
    BY <1>1, <2>1 DEF Careful, x
  <2>3. Host!Readable(log)'
    <3>1. Host!Readable(Append(log, x))
      <4>1. /\ log \in Seq(Host!Line) /\ HasMax(log) /\ Host!Readable(log)
            /\ proc[p].op \in Host!Ops /\ proc[p].key \in Keys /\ kind \in {"infra", "events"}
        BY <1>1, <2>1 DEF HostInv, Host!HostTypeOK, Sound, Proper, Host!Locals
      <4>2. CASE kind = "events"
        BY <2>2, <4>1, <4>2, EventsAppend DEF Host!Readable, Host!Ops
      <4>3. CASE kind = "infra"
        BY <2>2, <4>1, <4>3, InfraAppend DEF Host!Readable, Host!Ops
      <4> QED
        BY <4>1, <4>2, <4>3
    <3>2. written = x
      BY <2>2 DEF written
    <3> QED
      BY <1>1, <1>5, <2>1, <3>1, <3>2 DEF Host!Readable, Sound
  <2>4. ASSUME NEW q \in HostProcs
        PROVE  Careful(q)'
    <3>1. q # p => ~Host!Inside(q)
      BY <2>1, <2>2 DEF Sound, Careful
    <3> QED
      BY <1>1, <1>4, <2>2, <3>1 DEF Careful, Host!Inside
  <2> QED
    BY <2>3, <2>4 DEF Sound
<1> QED
  BY <1>6, <1>7, <1>8 DEF HostInv

LEMMA StillKeepsHost ==
  ASSUME HostInv, UNCHANGED hostVars
  PROVE  HostInv'
<1>1. Host!HostTypeOK' /\ HasMax(log)'
  BY DEF hostVars, HostInv, Host!HostTypeOK, HasMax
<1>2. ASSUME NEW q \in HostProcs
      PROVE  Proper(q)' /\ (Careful(q) => Careful(q)')
  BY DEF hostVars, HostInv, Proper, Host!Ops, Careful, Host!Inside
<1>3. Host!Readable(log) => Host!Readable(log)'
  BY DEF hostVars, Host!Readable
<1> QED
  BY <1>1, <1>2, <1>3 DEF hostVars, HostInv, Sound

LEMMA NextKeepsHost ==
  ASSUME HostInv, Host!Next
  PROVE  HostInv'
<1>1. \/ \E p \in HostProcs :
           \/ \E o \in Host!Ops, k \in Keys : Host!Call(p, o, k)
           \/ Host!Open(p) \/ Host!WritePid(p) \/ Host!JudgeLock(p) \/ Host!BreakLock(p)
           \/ Host!Repair(p) \/ Host!Read(p) \/ Host!AppendLine(p) \/ Host!ReleaseLock(p)
           \/ Host!Die(p)
      \/ Host!AgeLock
  BY DEF Host!Next
<1> QED
  BY <1>1, CallKeepsHost, OpenKeepsHost, WritePidKeepsHost, JudgeLockKeepsHost,
     BreakLockKeepsHost, RepairKeepsHost, ReadKeepsHost, AppendLineKeepsHost,
     ReleaseLockKeepsHost, DieKeepsHost, AgeLockKeepsHost

(***************************************************************************)
(* SoundUntilMishap for any number of processes, calls, keys and deaths:   *)
(* the one way to lose a line, a number or the exclusion is a break that   *)
(* hits the lock file of a live process.                                   *)
(***************************************************************************)
THEOREM SoundUntilMishapHolds == Spec => []SoundUntilMishap
<1>1. Init => HostInv
  BY InitHost DEF Init
<1>2. HostInv /\ [Next]_vars => HostInv'
  BY NextKeepsHost, StillKeepsHost DEF Next, BuildStep, HostStep, BenchStep, vars
<1>3. HostInv => SoundUntilMishap
  BY DEF HostInv, Sound, Careful, SoundUntilMishap, Host!SoundUntilMishap
<1> QED
  BY <1>1, <1>2, <1>3, PTL DEF Spec
==============================================================================
