------------------------ MODULE CollaborationLockProofs ------------------------
(***************************************************************************)
(* Why a lock file is evicted by one process at a time, and never from     *)
(* under a live author: the invariant that ties every claim to the evictor *)
(* it was won by, and its proof.                                           *)
(***************************************************************************)
EXTENDS CollaborationLock, TLAPS

-----------------------------------------------------------------------------
(* The invariant, as facts about a process p and its locals m.             *)

LocalState ==
  [call : {"none", "acquire", "release", "reclaim"},
   pc : {"idle", "create", "judge", "list", "sweep", "claim", "recheck",
         "judgeClaim", "reread", "unlink", "unclaim"},
   raw : Content \cup {NoLock}, gen : 0 .. Generations,
   step : 0 .. 2 * Generations, attempt : 0 .. Attempts,
   litter : SUBSET (Content \X Gens)]

Evicting == {"claim", "judgeClaim", "reread", "unlink"}
Sweeping == {"list", "sweep"}

\* The content has been in the lock file; what was once removed stays away.
Taken(c) == c.n <= took[c.by]

\* Which locals go together.
Coherent(p, m) ==
  /\ ~alive[p] => m.pc = "idle"
  /\ m.pc = "idle" => m = Idle
  /\ m.pc \in {"create", "judge"} \cup Sweeping =>
       m.call = "acquire" /\ m.raw = NoLock /\ m.gen = 0 /\ m.step = 0
  /\ m.call = "acquire" /\ m.pc \notin Sweeping => took[p] < MaxAcquires[p]
  /\ m.pc \in Evicting \cup {"recheck", "unclaim"} => m.raw \in Content /\ Taken(m.raw)
  /\ m.pc = "judgeClaim" => m.step < 2 * Generations
  /\ m.pc \in {"judgeClaim", "reread", "unlink", "unclaim"} => m.gen \in Gens
  /\ m.call = "release" => m.raw.by = p
  /\ m.pc = "recheck" => m.call = "release"

\* Who evicts has judged the content stale, or is releasing its own lock.
Entitled(p, m) ==
  m.pc \in Evicting => Outlived(m.raw) \/ m.call = "release"

\* Where a claim on the content that is there now stands.
Claimed(p, m) ==
  /\ m.pc \in Evicting /\ m.raw = lock =>
       \A g \in Gens : g < m.gen => /\ claims[lock][g] # NoClaim
                                    /\ ~alive[claims[lock][g].by]
  /\ m.pc \in {"reread", "unlink"} /\ m.raw = lock =>
       claims[lock][m.gen] # NoClaim /\ claims[lock][m.gen].by = p
  /\ m.pc = "unlink" => m.raw = lock
  /\ m.pc = "unclaim" => m.raw # lock

\* Who sweeps holds a lock that nobody has judged stale yet.
Sweeps(p, m) ==
  m.pc \in Sweeping =>
    /\ lock # NoLock /\ lock.by = p /\ lock \notin aged
    /\ \A q \in Procs : me[q].raw # lock
    /\ \A g \in Gens : claims[lock][g] = NoClaim
    /\ m.pc = "sweep" => \A x \in m.litter : x[1] # lock

Stands(p, m) == Coherent(p, m) /\ Entitled(p, m) /\ Claimed(p, m) /\ Sweeps(p, m)

\* Contents are fresh, and a claim grows old only when its holder is dead.
Fresh ==
  /\ lock # NoLock => Taken(lock)
  /\ \A p \in Procs : held[p] # NoLock => held[p].by = p
  /\ \A c \in aged : Taken(c)
  /\ \A c \in Content, g \in Gens : claims[c][g] # NoClaim =>
       /\ Taken(c)
       /\ claims[c][g].old => ~alive[claims[c][g].by]

EvictionInv ==
  /\ CollabTypeOK
  /\ Fresh
  /\ \A p \in Procs : Stands(p, me[p])

(***************************************************************************)
(* No process stalls in the three calls of an eviction for longer than a   *)
(* claim may live, and clocks are such that a lock has an age.             *)
(***************************************************************************)
Punctual == ~ClaimsMayStall /\ BrokenClocks = {}

-----------------------------------------------------------------------------
(* Locals and what follows from where a process stands.                    *)

LEMMA IdleType == Idle \in LocalState
BY BoundsAssumption DEF Idle, LocalState

LEMMA MyLocals ==
  ASSUME EvictionInv, NEW p \in Procs
  PROVE  me[p] \in LocalState
BY DEF EvictionInv, CollabTypeOK, LocalState

LEMMA ContentShape ==
  ASSUME NEW c \in Content
  PROVE  c.by \in Procs /\ c.n \in 1 .. MaxAcquires[c.by] /\ c # NoLock
BY NoneAssumption DEF Content

LEMMA RawIsTaken ==
  ASSUME EvictionInv, NEW p \in Procs
  PROVE  me[p].raw = NoLock \/ (me[p].raw \in Content /\ Taken(me[p].raw))
<1>1. Coherent(p, me[p])
  BY DEF EvictionInv, Stands
<1>2. CASE me[p].pc = "idle"
  BY <1>1, <1>2 DEF Coherent, Idle
<1>3. CASE me[p].pc \in {"create", "judge"} \cup Sweeping
  BY <1>1, <1>3 DEF Coherent
<1>4. CASE me[p].pc \in Evicting \cup {"recheck", "unclaim"}
  BY <1>1, <1>4 DEF Coherent
<1>5. me[p].pc \in {"idle", "create", "judge", "list", "sweep", "claim", "recheck",
                    "judgeClaim", "reread", "unlink", "unclaim"}
  BY MyLocals DEF LocalState
<1> QED
  BY <1>2, <1>3, <1>4, <1>5 DEF Evicting, Sweeping

LEMMA IdleStands ==
  ASSUME NEW p \in Procs
  PROVE  Stands(p, Idle)
BY DEF Stands, Coherent, Entitled, Claimed, Sweeps, Idle, Evicting, Sweeping

\* A lock that has just been created is not stale, whoever judges it.
LEMMA SweptIsLive ==
  ASSUME EvictionInv, NEW p \in Procs, me[p].pc \in Sweeping
  PROVE  lock # NoLock /\ lock.by = p /\ alive[lock.by] /\ lock \notin aged
BY DEF EvictionInv, Stands, Coherent, Sweeps, Sweeping

\* Two evictors are never past the re-read of the content that is there.
LEMMA OneUnlinks ==
  ASSUME EvictionInv, NEW p \in Procs, NEW q \in Procs,
         me[p].pc \in {"reread", "unlink"}, me[p].raw = lock,
         me[q].pc \in {"reread", "unlink"}, me[q].raw = lock
  PROVE  p = q
<1>1. /\ Coherent(p, me[p]) /\ Claimed(p, me[p])
      /\ Coherent(q, me[q]) /\ Claimed(q, me[q])
  BY DEF EvictionInv, Stands
<1>2. me[p].gen \in Gens /\ me[q].gen \in Gens /\ alive[p] /\ alive[q]
  BY <1>1 DEF Coherent
<1>3. claims[lock][me[p].gen].by = p /\ claims[lock][me[q].gen].by = q
  BY <1>1 DEF Claimed
<1>4. ~(me[p].gen < me[q].gen) /\ ~(me[q].gen < me[p].gen)
  BY <1>1, <1>2, <1>3 DEF Claimed, Evicting
<1> QED
  BY <1>2, <1>3, <1>4 DEF Gens

-----------------------------------------------------------------------------
(* A step that leaves the lock file alone disturbs nobody else as long as  *)
(* the claims on its content stay, and no sweep meets a new claim.         *)

LEMMA OthersStand ==
  ASSUME EvictionInv, NEW p \in Procs, NEW m \in LocalState,
         me' = [me EXCEPT ![p] = m],
         UNCHANGED <<lock, aged, alive, took>>,
         lock # NoLock => \A g \in Gens : claims[lock][g] # NoClaim =>
           claims'[lock][g] # NoClaim /\ claims'[lock][g].by = claims[lock][g].by,
         \/ \A q \in Procs : me[q].pc \notin Sweeping
         \/ m.raw # lock /\ (lock # NoLock => claims'[lock] = claims[lock]),
         NEW q \in Procs, q # p
  PROVE  Stands(q, me[q])'
<1> me'[q] = me[q] /\ Stands(q, me[q]) /\ me[q] \in LocalState
  BY MyLocals DEF EvictionInv, CollabTypeOK
<1>1. Coherent(q, me[q])'
  BY DEF Stands, Coherent, Taken
<1>2. Entitled(q, me[q])'
  BY DEF Stands, Entitled, Outlived
<1>3. Claimed(q, me[q])'
  BY NoneAssumption DEF Stands, Coherent, Claimed, Evicting
<1>4. Sweeps(q, me[q])'
  BY DEF Stands, Sweeps, EvictionInv, CollabTypeOK
<1> QED
  BY <1>1, <1>2, <1>3, <1>4 DEF Stands

\* A step of p that changes its locals only, and perhaps what it holds.
LEMMA OwnStep ==
  ASSUME EvictionInv, NEW p \in Procs, NEW m \in LocalState,
         me' = [me EXCEPT ![p] = m],
         UNCHANGED <<lock, claims, aged, alive, took>>,
         held' = held \/ held' = [held EXCEPT ![p] = NoLock],
         Stands(p, m), m.pc \in Sweeping => me[p].pc \in Sweeping,
         \/ \A q \in Procs : me[q].pc \notin Sweeping
         \/ m.raw # lock
         \/ m.raw = me[p].raw
  PROVE  EvictionInv'
<1>1. CollabTypeOK'
  BY DEF EvictionInv, CollabTypeOK, LocalState
<1>2. Fresh'
  BY DEF EvictionInv, CollabTypeOK, Fresh, Taken
<1>3. ASSUME NEW q \in Procs, me[q].pc \in Sweeping
      PROVE  m.raw # lock
  BY <1>3 DEF EvictionInv, Stands, Sweeps
<1>4. \A q \in Procs \ {p} : Stands(q, me[q])'
  BY <1>3, OthersStand
<1>5. Stands(p, me[p])'
  <2> me'[p] = m
    BY DEF EvictionInv, CollabTypeOK
  <2>1. Coherent(p, me[p])' /\ Entitled(p, me[p])' /\ Claimed(p, me[p])'
    BY DEF Stands, Coherent, Entitled, Claimed, Taken, Outlived
  <2>2. Sweeps(p, me[p])'
    BY <1>3 DEF Stands, Sweeps, EvictionInv, CollabTypeOK
  <2> QED
    BY <2>1, <2>2 DEF Stands
<1> QED
  BY <1>1, <1>2, <1>4, <1>5 DEF EvictionInv

LEMMA Returns ==
  ASSUME EvictionInv, NEW p \in Procs, Return(p),
         UNCHANGED <<lock, claims, aged, alive, took>>,
         held' = held \/ held' = [held EXCEPT ![p] = NoLock]
  PROVE  EvictionInv'
<1>1. Idle.raw = NoLock /\ Idle.pc \notin Sweeping
  BY DEF Idle, Sweeping
<1>2. (\A q \in Procs : me[q].pc \notin Sweeping) \/ Idle.raw # lock
  BY <1>1, SweptIsLive
<1> QED
  BY <1>1, <1>2, IdleType, IdleStands, OwnStep DEF Return

\* The locals a call starts its next attempt with, if it has one.
LEMMA NextAttemptLocals ==
  ASSUME EvictionInv, NEW p \in Procs, me[p].pc \notin Sweeping \cup {"idle"}, NextAttempt(p)
  PROVE  \E m \in LocalState : /\ me' = [me EXCEPT ![p] = m]
                               /\ m.pc \in {"idle", "create"} /\ m.raw = NoLock
                               /\ Stands(p, m)
<1>1. CASE me[p].call = "acquire" /\ me[p].attempt + 1 < Attempts
  <2> DEFINE m == [Idle EXCEPT !.call = "acquire", !.pc = "create",
                               !.attempt = me[p].attempt + 1]
  <2>1. me' = [me EXCEPT ![p] = m]
    BY <1>1 DEF NextAttempt
  <2>2. m \in LocalState /\ m.pc = "create" /\ m.raw = NoLock
    <3>1. me[p].attempt + 1 \in 0 .. Attempts
      BY <1>1, MyLocals, BoundsAssumption DEF LocalState
    <3>2. m \in LocalState
      BY <3>1, IdleType DEF LocalState
    <3>3. m.pc = "create"
      BY IdleType DEF LocalState
    <3>4. m.raw = NoLock
      BY DEF Idle
    <3> QED
      BY <3>2, <3>3, <3>4
  <2>3. alive[p] /\ took[p] < MaxAcquires[p]
    BY <1>1 DEF EvictionInv, Stands, Coherent
  <2>4. Stands(p, m)
    BY <2>3 DEF Stands, Coherent, Entitled, Claimed, Sweeps, Idle, Evicting, Sweeping
  <2> QED
    BY <2>1, <2>2, <2>4
<1>2. CASE ~(me[p].call = "acquire" /\ me[p].attempt + 1 < Attempts)
  BY <1>2, IdleType, IdleStands DEF NextAttempt, Return, Idle
<1> QED
  BY <1>1, <1>2

LEMMA Retries ==
  ASSUME EvictionInv, NEW p \in Procs, me[p].pc \notin Sweeping \cup {"idle"}, NextAttempt(p),
         UNCHANGED <<lock, claims, aged, alive, took>>,
         held' = held \/ held' = [held EXCEPT ![p] = NoLock]
  PROVE  EvictionInv'
<1>1. PICK m \in LocalState : /\ me' = [me EXCEPT ![p] = m]
                              /\ m.pc \in {"idle", "create"} /\ m.raw = NoLock
                              /\ Stands(p, m)
  BY NextAttemptLocals
<1>2. (\A q \in Procs : me[q].pc \notin Sweeping) \/ m.raw # lock
  BY <1>1, SweptIsLive
<1> QED
  BY <1>1, <1>2, OwnStep DEF Sweeping

-----------------------------------------------------------------------------
(* The three calls.                                                        *)

\* While anybody sweeps, the lock is not stale to anybody.
LEMMA StaleEndsSweeps ==
  ASSUME EvictionInv, Punctual, NEW p \in Procs, Stale(lock, p)
  PROVE  Outlived(lock) /\ \A q \in Procs : me[q].pc \notin Sweeping
BY SweptIsLive DEF Stale, Outlived, Punctual

\* What it takes to begin an eviction of the content that is there.
LEMMA EntersEviction ==
  ASSUME EvictionInv, NEW p \in Procs, alive[p], NEW m \in LocalState,
         lock # NoLock, m.pc = "claim", m.raw = lock, m.gen = 0,
         m.call = "acquire" => took[p] < MaxAcquires[p],
         m.call = "release" => lock.by = p,
         Outlived(lock) \/ m.call = "release"
  PROVE  Stands(p, m)
<1>1. lock \in Content /\ Taken(lock)
  BY DEF EvictionInv, CollabTypeOK, Fresh
<1> QED
  BY <1>1 DEF Stands, Coherent, Entitled, Claimed, Sweeps, Evicting, Sweeping, Gens

LEMMA JudgeStep ==
  ASSUME EvictionInv, Punctual, NEW p \in Procs, Judge(p)
  PROVE  EvictionInv'
<1>1. alive[p] /\ me[p].pc = "judge" /\ Coherent(p, me[p])
  BY DEF Judge, At, EvictionInv, Stands
<1>2. CASE lock = NoLock /\ NextAttempt(p)
  BY <1>1, <1>2, Retries DEF Judge, Sweeping
<1>3. CASE Return(p)
  BY <1>3, Returns DEF Judge
<1>4. CASE /\ lock # NoLock /\ Stale(lock, p)
           /\ me' = [me EXCEPT ![p].raw = lock, ![p].pc = "claim"]
  <2> DEFINE m == [me[p] EXCEPT !.raw = lock, !.pc = "claim"]
  <2>1. m \in LocalState
    BY MyLocals DEF LocalState, EvictionInv, CollabTypeOK
  <2>2. m.pc = "claim" /\ m.raw = lock /\ m.gen = 0 /\ m.call = "acquire"
        /\ took[p] < MaxAcquires[p]
    BY <1>1, MyLocals DEF LocalState, Coherent, Sweeping
  <2>3. Stands(p, m)
    BY <1>1, <1>4, <2>1, <2>2, StaleEndsSweeps, EntersEviction
  <2>4. me' = [me EXCEPT ![p] = m]
    BY <1>4
  <2> HIDE DEF m
  <2> QED
    BY <1>4, <2>1, <2>2, <2>3, <2>4, StaleEndsSweeps, OwnStep DEF Judge, Sweeping
<1> QED
  BY <1>2, <1>3, <1>4 DEF Judge

LEMMA ReclaimStep ==
  ASSUME EvictionInv, Punctual, NEW p \in Procs, Reclaim(p)
  PROVE  EvictionInv'
<1> DEFINE m == [me[p] EXCEPT !.call = "reclaim", !.raw = lock, !.pc = "claim"]
<1>1. alive[p] /\ me[p] = Idle
  BY DEF Reclaim, At, EvictionInv, Stands, Coherent
<1>2. m \in LocalState
  BY MyLocals DEF LocalState, EvictionInv, CollabTypeOK
<1>3. m.pc = "claim" /\ m.raw = lock /\ m.gen = 0 /\ m.call = "reclaim"
  BY <1>1 DEF Idle
<1>4. lock # NoLock /\ Stale(lock, p) /\ me' = [me EXCEPT ![p] = m]
  BY DEF Reclaim
<1> HIDE DEF m
<1>5. Stands(p, m)
  BY <1>1, <1>2, <1>3, <1>4, StaleEndsSweeps, EntersEviction
<1> QED
  BY <1>2, <1>3, <1>4, <1>5, StaleEndsSweeps, OwnStep DEF Reclaim, Sweeping

LEMMA ReleaseStep ==
  ASSUME EvictionInv, NEW p \in Procs, Release(p)
  PROVE  EvictionInv'
<1>1. alive[p] /\ me[p] = Idle /\ me[p].pc = "idle"
  BY DEF Release, At, EvictionInv, Stands, Coherent
<1>2. CASE /\ lock = held[p] /\ UNCHANGED held
           /\ me' = [me EXCEPT ![p].call = "release", ![p].pc = "claim", ![p].raw = lock]
  <2> DEFINE m == [me[p] EXCEPT !.call = "release", !.pc = "claim", !.raw = lock]
  <2>1. m \in LocalState
    BY MyLocals DEF LocalState, EvictionInv, CollabTypeOK
  <2>2. m.pc = "claim" /\ m.raw = lock /\ m.gen = 0 /\ m.call = "release"
    BY <1>1 DEF Idle
  <2>3. me' = [me EXCEPT ![p] = m]
    BY <1>2
  <2>4. lock # NoLock /\ lock.by = p
    BY <1>2 DEF Release, EvictionInv, Fresh
  <2> HIDE DEF m
  <2>5. Stands(p, m)
    BY <1>1, <2>1, <2>2, <2>4, EntersEviction
  <2>6. \A q \in Procs : me[q].pc \notin Sweeping
    BY <1>1, <2>4, SweptIsLive DEF Sweeping
  <2> QED
    BY <1>2, <2>1, <2>2, <2>3, <2>5, <2>6, OwnStep DEF Release, Sweeping
<1>3. CASE held' = [held EXCEPT ![p] = NoLock] /\ UNCHANGED me
  <2>1. me' = [me EXCEPT ![p] = me[p]]
    BY <1>3 DEF EvictionInv, CollabTypeOK
  <2>2. Stands(p, me[p])
    BY DEF EvictionInv
  <2> QED
    BY <1>3, <2>1, <2>2, MyLocals, OwnStep DEF Release
<1> QED
  BY <1>2, <1>3 DEF Release

LEMMA RecheckStep ==
  ASSUME EvictionInv, NEW p \in Procs, Recheck(p)
  PROVE  EvictionInv'
<1>1. alive[p] /\ me[p].pc = "recheck" /\ Coherent(p, me[p])
  BY DEF Recheck, At, EvictionInv, Stands
<1>2. CASE Return(p)
  BY <1>2, Returns DEF Recheck
<1>3. CASE /\ lock = me[p].raw /\ UNCHANGED held /\ me[p].attempt + 1 < Attempts
           /\ me' = [me EXCEPT ![p] = [Idle EXCEPT !.call = "release", !.pc = "claim",
                                        !.raw = lock, !.attempt = me[p].attempt + 1]]
  <2> DEFINE m == [Idle EXCEPT !.call = "release", !.pc = "claim",
                               !.raw = lock, !.attempt = me[p].attempt + 1]
  <2>1. me[p].attempt + 1 \in 0 .. Attempts
    BY <1>3, MyLocals, BoundsAssumption DEF LocalState
  <2>2. m \in LocalState
    BY <2>1, IdleType DEF LocalState, EvictionInv, CollabTypeOK
  <2>3. m.pc = "claim" /\ m.raw = lock /\ m.gen = 0 /\ m.call = "release"
    BY DEF Idle
  <2>4. me' = [me EXCEPT ![p] = m]
    BY <1>3
  <2>5. lock # NoLock /\ lock.by = p
    BY <1>1, <1>3, ContentShape DEF Coherent, Evicting
  <2> HIDE DEF m
  <2>6. Stands(p, m)
    BY <1>1, <2>2, <2>3, <2>5, EntersEviction
  <2> QED
    BY <1>3, <2>2, <2>3, <2>4, <2>6, OwnStep DEF Recheck, Sweeping
<1> QED
  BY <1>2, <1>3 DEF Recheck

-----------------------------------------------------------------------------
(* The eviction and the sweep of claims, as far as they only read.         *)

LEMMA RefusedStep ==
  ASSUME EvictionInv, NEW p \in Procs, alive[p], me[p].pc \in {"claim", "judgeClaim"},
         Refused(p), UNCHANGED <<lock, claims, aged, alive, took>>
  PROVE  EvictionInv'
<1>1. Stands(p, me[p])
  BY DEF EvictionInv
<1>2. CASE me[p].call = "release" /\ Go(p, "recheck") /\ UNCHANGED held
  <2> DEFINE m == [me[p] EXCEPT !.pc = "recheck"]
  <2>1. m \in LocalState
    BY MyLocals DEF LocalState
  <2>2. m.pc = "recheck" /\ m.raw = me[p].raw /\ m.call = "release"
    BY <1>2, MyLocals DEF LocalState
  <2>3. me' = [me EXCEPT ![p] = m]
    BY <1>2 DEF Go
  <2> HIDE DEF m
  <2>4. Stands(p, m)
    BY <1>1, <1>2, <2>2 DEF Stands, Coherent, Entitled, Claimed, Sweeps, Evicting, Sweeping
  <2> QED
    BY <1>2, <2>1, <2>2, <2>3, <2>4, OwnStep DEF Sweeping
<1>3. CASE NextAttempt(p) /\ UNCHANGED held
  BY <1>3, Retries DEF Sweeping
<1> QED
  BY <1>2, <1>3 DEF Refused

LEMMA JudgeClaimStep ==
  ASSUME EvictionInv, NEW p \in Procs, JudgeClaim(p)
  PROVE  EvictionInv'
<1>1. alive[p] /\ me[p].pc = "judgeClaim" /\ Stands(p, me[p])
  BY DEF JudgeClaim, At, EvictionInv
<1>2. /\ me[p].raw \in Content /\ me[p].gen \in Gens /\ me[p].gen + 1 \in 0 .. Generations
      /\ me[p].step + 1 \in 0 .. 2 * Generations
  BY <1>1, MyLocals, BoundsAssumption DEF Stands, Coherent, Evicting, Gens, LocalState
<1> DEFINE k == claims[me[p].raw][me[p].gen]
<1>3. CASE /\ me' = [me EXCEPT ![p].pc = "claim", ![p].step = @ + 1] /\ UNCHANGED held
  <2> DEFINE m == [me[p] EXCEPT !.pc = "claim", !.step = me[p].step + 1]
  <2>1. m \in LocalState
    BY <1>2, MyLocals DEF LocalState
  <2>2. m.pc = "claim" /\ m.raw = me[p].raw /\ m.gen = me[p].gen /\ m.call = me[p].call
    BY MyLocals DEF LocalState
  <2>3. me' = [me EXCEPT ![p] = m]
    BY <1>3
  <2> HIDE DEF m
  <2>4. Stands(p, m)
    BY <1>1, <2>2 DEF Stands, Coherent, Entitled, Claimed, Sweeps, Evicting, Sweeping
  <2> QED
    BY <1>3, <2>1, <2>2, <2>3, <2>4, OwnStep DEF JudgeClaim, Sweeping
<1>4. CASE /\ k # NoClaim /\ Abandoned(k, p)
           /\ me' = [me EXCEPT ![p].pc = "claim", ![p].gen = @ + 1, ![p].step = @ + 1]
           /\ UNCHANGED held
  <2> DEFINE m == [me[p] EXCEPT !.pc = "claim", !.gen = me[p].gen + 1, !.step = me[p].step + 1]
  <2>1. m \in LocalState
    BY <1>2, MyLocals DEF LocalState
  <2>2. m.pc = "claim" /\ m.raw = me[p].raw /\ m.gen = me[p].gen + 1 /\ m.call = me[p].call
    BY MyLocals DEF LocalState
  <2>3. me' = [me EXCEPT ![p] = m]
    BY <1>4
  <2>4. ~alive[k.by]
    BY <1>2, <1>4 DEF Abandoned, EvictionInv, Fresh
  <2> HIDE DEF m
  <2>5. Claimed(p, m)
    <3> SUFFICES ASSUME m.raw = lock, NEW g \in Gens, g < m.gen
                 PROVE  claims[lock][g] # NoClaim /\ ~alive[claims[lock][g].by]
      BY <2>2 DEF Claimed
    <3>1. CASE g < me[p].gen
      BY <1>1, <2>2, <3>1 DEF Stands, Claimed, Evicting
    <3>2. CASE g = me[p].gen
      BY <1>4, <2>2, <2>4, <3>2
    <3> QED
      BY <1>2, <2>2, <3>1, <3>2 DEF Gens
  <2>6. Stands(p, m)
    BY <1>1, <2>2, <2>5 DEF Stands, Coherent, Entitled, Sweeps, Evicting, Sweeping
  <2> QED
    BY <1>4, <2>1, <2>2, <2>3, <2>6, OwnStep DEF JudgeClaim, Sweeping
<1>5. CASE Refused(p)
  BY <1>1, <1>5, RefusedStep DEF JudgeClaim, Evicting
<1> QED
  BY <1>3, <1>4, <1>5 DEF JudgeClaim

LEMMA RereadStep ==
  ASSUME EvictionInv, NEW p \in Procs, Reread(p)
  PROVE  EvictionInv'
<1>1. alive[p] /\ me[p].pc = "reread" /\ Stands(p, me[p])
  BY DEF Reread, At, EvictionInv
<1> DEFINE m == [me[p] EXCEPT !.pc = IF lock = me[p].raw THEN "unlink" ELSE "unclaim"]
<1>2. m \in LocalState
  BY MyLocals DEF LocalState
<1>3. /\ m.pc = IF lock = me[p].raw THEN "unlink" ELSE "unclaim"
      /\ m.raw = me[p].raw /\ m.gen = me[p].gen /\ m.call = me[p].call
  BY MyLocals DEF LocalState
<1>4. me' = [me EXCEPT ![p] = m]
  BY DEF Reread, Go
<1> HIDE DEF m
<1>5. Stands(p, m)
  BY <1>1, <1>3 DEF Stands, Coherent, Entitled, Claimed, Sweeps, Evicting, Sweeping
<1> QED
  BY <1>2, <1>3, <1>4, <1>5, OwnStep DEF Reread, Sweeping

LEMMA ListStep ==
  ASSUME EvictionInv, NEW p \in Procs, ListClaims(p)
  PROVE  EvictionInv'
<1>1. alive[p] /\ me[p].pc = "list" /\ Stands(p, me[p])
  BY DEF ListClaims, At, EvictionInv
<1> DEFINE found == {x \in Content \X Gens : claims[x[1]][x[2]] # NoClaim}
           m == [me[p] EXCEPT !.pc = "sweep", !.litter = found]
<1>2. m \in LocalState
  BY MyLocals DEF LocalState
<1>3. /\ m.pc = "sweep" /\ m.litter = found
      /\ m.raw = me[p].raw /\ m.gen = me[p].gen /\ m.call = me[p].call /\ m.step = me[p].step
  BY MyLocals DEF LocalState
<1>4. me' = [me EXCEPT ![p] = m]
  BY DEF ListClaims
<1>5. \A x \in found : x[1] # lock
  BY <1>1 DEF Stands, Sweeps, Sweeping
<1> HIDE DEF m, found
<1>6. Stands(p, m)
  BY <1>1, <1>3, <1>5 DEF Stands, Coherent, Entitled, Claimed, Sweeps, Evicting, Sweeping
<1> QED
  BY <1>1, <1>2, <1>3, <1>4, <1>6, OwnStep DEF ListClaims, Sweeping

LEMMA CreateStep ==
  ASSUME EvictionInv, NEW p \in Procs, Create(p)
  PROVE  EvictionInv'
<1>a. /\ alive[p] /\ me[p].pc \in {"idle", "create"} /\ Stands(p, me[p])
      /\ me[p].pc = "idle" => took[p] < MaxAcquires[p]
  BY DEF Create, At, EvictionInv
<1>b. /\ me[p].raw = NoLock /\ me[p].gen = 0 /\ me[p].step = 0
      /\ took[p] < MaxAcquires[p]
  <2>1. CASE me[p].pc = "idle"
    BY <1>a, <2>1 DEF Stands, Coherent, Idle
  <2>2. CASE me[p].pc = "create"
    BY <1>a, <2>2 DEF Stands, Coherent, Sweeping
  <2> QED
    BY <1>a, <2>1, <2>2
<1>1. /\ alive[p] /\ me[p].pc \in {"idle", "create"} /\ Stands(p, me[p])
      /\ me[p].raw = NoLock /\ me[p].gen = 0 /\ me[p].step = 0
      /\ took[p] < MaxAcquires[p]
  BY <1>a, <1>b
<1>c. took[p] \in Nat /\ MaxAcquires[p] \in Nat
  BY BoundsAssumption DEF EvictionInv, CollabTypeOK
<1>2. PICK c \in Content : /\ c = [by |-> p, n |-> took[p] + 1]
                           /\ c # NoLock /\ c.by = p /\ c.n = took[p] + 1
  <2> DEFINE c == [by |-> p, n |-> took[p] + 1]
  <2>1. c \in Content
    BY <1>1, <1>c DEF Content
  <2> QED
    BY <2>1, NoneAssumption
<1>3. CASE /\ lock # NoLock /\ UNCHANGED <<lock, held, took>>
           /\ me' = [me EXCEPT ![p].call = "acquire", ![p].pc = "judge"]
  <2> DEFINE m == [me[p] EXCEPT !.call = "acquire", !.pc = "judge"]
  <2>1. m \in LocalState
    BY MyLocals DEF LocalState
  <2>2. m.pc = "judge" /\ m.call = "acquire" /\ m.raw = NoLock /\ m.gen = 0 /\ m.step = 0
    BY <1>1, MyLocals DEF LocalState
  <2>3. me' = [me EXCEPT ![p] = m]
    BY <1>3
  <2> HIDE DEF m
  <2>4. Stands(p, m)
    BY <1>1, <2>2 DEF Stands, Coherent, Entitled, Claimed, Sweeps, Evicting, Sweeping
  <2> QED
    BY <1>1, <1>3, <2>1, <2>2, <2>3, <2>4, OwnStep DEF Create, Sweeping
<1>4. CASE /\ lock = NoLock /\ lock' = c
           /\ held' = [held EXCEPT ![p] = c]
           /\ took' = [took EXCEPT ![p] = @ + 1]
           /\ me' = [me EXCEPT ![p].call = "acquire", ![p].pc = "list"]
  <2>2. PICK m \in LocalState :
          /\ me' = [me EXCEPT ![p] = m]
          /\ m.pc = "list" /\ m.call = "acquire" /\ m.raw = NoLock /\ m.gen = 0 /\ m.step = 0
    <3> DEFINE m == [me[p] EXCEPT !.call = "acquire", !.pc = "list"]
    <3>1. m \in LocalState
      BY MyLocals DEF LocalState
    <3>2. m.pc = "list" /\ m.call = "acquire" /\ m.raw = NoLock /\ m.gen = 0 /\ m.step = 0
      BY <1>1, MyLocals DEF LocalState
    <3>3. me' = [me EXCEPT ![p] = m]
      BY <1>4
    <3> HIDE DEF m
    <3> QED
      BY <3>1, <3>2, <3>3
  <2>3. me'[p] = m /\ UNCHANGED <<claims, aged, alive>>
    BY <2>2 DEF Create, EvictionInv, CollabTypeOK
  <2>4. /\ took' \in [Procs -> Nat] /\ took'[p] = took[p] + 1
        /\ \A q \in Procs : took'[q] >= took[q] /\ (q # p => took'[q] = took[q])
    BY <1>4 DEF EvictionInv, CollabTypeOK
  <2>5. CollabTypeOK'
    BY <1>1, <1>2, <1>4, <2>2, <2>3, <2>4, <1>c, BoundsAssumption
    DEF EvictionInv, CollabTypeOK, LocalState
  <2>6. \A d \in Content : Taken(d) => Taken(d)' /\ d # c
    BY <1>2, <2>4, ContentShape, BoundsAssumption DEF Taken, EvictionInv, CollabTypeOK
  <2>7. Taken(c)'
    BY <1>2, <2>4 DEF Taken
  <2>8. Fresh'
    BY <1>2, <1>4, <2>3, <2>6, <2>7 DEF EvictionInv, CollabTypeOK, Fresh
  <2>9. \A q \in Procs : me[q].pc \notin Sweeping /\ me[q].raw # c
    <3> SUFFICES ASSUME NEW q \in Procs
                 PROVE  me[q].pc \notin Sweeping /\ me[q].raw # c
      OBVIOUS
    <3>1. me[q].pc \notin Sweeping
      BY <1>4, SweptIsLive
    <3>2. me[q].raw = NoLock \/ (me[q].raw \in Content /\ Taken(me[q].raw))
      BY RawIsTaken
    <3> QED
      BY <1>2, <2>6, <3>1, <3>2
  <2>10. ASSUME NEW q \in Procs, q # p
         PROVE  Stands(q, me[q])'
    <3> me'[q] = me[q] /\ Stands(q, me[q])
      BY <2>2, <2>10 DEF EvictionInv, CollabTypeOK
    <3>1. Coherent(q, me[q])'
      BY <2>3, <2>4, <2>6, <2>10 DEF Stands, Coherent
    <3>2. Entitled(q, me[q])' /\ Sweeps(q, me[q])'
      BY <2>3, <2>9 DEF Stands, Entitled, Sweeps, Outlived
    <3>3. Claimed(q, me[q])'
      BY <1>4, <2>9, <1>2, NoneAssumption DEF Stands, Coherent, Claimed, Evicting
    <3> QED
      BY <3>1, <3>2, <3>3 DEF Stands
  <2>11. Stands(p, me[p])'
    <3>1. Coherent(p, m)' /\ Entitled(p, m)' /\ Claimed(p, m)'
      BY <1>1, <2>2, <2>3 DEF Coherent, Entitled, Claimed, Evicting, Sweeping
    <3>2. lock' # NoLock /\ lock'.by = p /\ lock' \notin aged'
      BY <1>2, <1>4, <2>3, <2>6 DEF EvictionInv, CollabTypeOK, Fresh
    <3>3. \A q \in Procs : me'[q].raw # lock'
      BY <1>2, <1>4, <2>2, <2>9 DEF EvictionInv, CollabTypeOK
    <3>4. \A g \in Gens : claims'[lock'][g] = NoClaim
      BY <1>2, <1>4, <2>3, <2>6 DEF EvictionInv, Fresh
    <3>5. Sweeps(p, m)'
      BY <2>2, <3>2, <3>3, <3>4 DEF Sweeps
    <3> QED
      BY <2>3, <3>1, <3>5 DEF Stands
  <2> QED
    BY <2>5, <2>8, <2>10, <2>11 DEF EvictionInv
<1> QED
  BY <1>2, <1>3, <1>4 DEF Create

-----------------------------------------------------------------------------
(* The steps that change claims or remove the lock.                        *)

LEMMA SweepStep ==
  ASSUME EvictionInv, NEW p \in Procs, SweepClaim(p)
  PROVE  EvictionInv'
<1>1. alive[p] /\ me[p].pc = "sweep" /\ Stands(p, me[p])
  BY DEF SweepClaim, At, EvictionInv
<1>2. CASE Return(p) /\ UNCHANGED claims
  BY <1>2, Returns DEF SweepClaim
<1>3. ASSUME NEW x \in me[p].litter,
             claims' = [claims EXCEPT ![x[1]][x[2]] = NoClaim],
             me' = [me EXCEPT ![p].litter = @ \ {x}]
      PROVE  EvictionInv'
  <2>1. x[1] \in Content /\ x[2] \in Gens /\ x[1] # lock
    BY <1>1, <1>3, MyLocals DEF LocalState, Stands, Sweeps, Sweeping
  <2>2. PICK m \in LocalState :
          /\ me' = [me EXCEPT ![p] = m]
          /\ m.pc = "sweep" /\ m.litter = me[p].litter \ {x}
          /\ m.call = me[p].call /\ m.raw = me[p].raw /\ m.gen = me[p].gen
          /\ m.step = me[p].step
    <3> DEFINE m == [me[p] EXCEPT !.litter = me[p].litter \ {x}]
    <3>1. m \in LocalState
      BY MyLocals DEF LocalState
    <3>2. /\ m.pc = "sweep" /\ m.litter = me[p].litter \ {x}
          /\ m.call = me[p].call /\ m.raw = me[p].raw /\ m.gen = me[p].gen
          /\ m.step = me[p].step
      BY <1>1, MyLocals DEF LocalState
    <3>3. me' = [me EXCEPT ![p] = m]
      BY <1>3
    <3> HIDE DEF m
    <3> QED
      BY <3>1, <3>2, <3>3
  <2>3. UNCHANGED <<lock, aged, alive, held, took>>
    BY DEF SweepClaim
  <2>4. CollabTypeOK'
    <3>1. claims' \in [Content -> [Gens -> Claim \cup {NoClaim}]]
      BY <1>3, <2>1 DEF EvictionInv, CollabTypeOK
    <3>2. me' \in [Procs -> LocalState]
      BY <2>2 DEF EvictionInv, CollabTypeOK, LocalState
    <3> QED
      BY <2>3, <3>1, <3>2 DEF EvictionInv, CollabTypeOK, LocalState
  <2>5. \A c \in Content, g \in Gens :
          claims'[c][g] = claims[c][g] \/ claims'[c][g] = NoClaim
    BY <1>3, <2>1 DEF EvictionInv, CollabTypeOK
  <2>6. Fresh'
    BY <2>3, <2>5 DEF EvictionInv, Fresh, Taken
  <2>7. lock # NoLock => claims'[lock] = claims[lock]
    BY <1>3, <2>1 DEF EvictionInv, CollabTypeOK
  <2>8. m.raw # lock
    BY <1>1, <2>2 DEF Stands, Sweeps, Sweeping
  <2>9. \A q \in Procs \ {p} : Stands(q, me[q])'
    BY <2>2, <2>3, <2>7, <2>8, OthersStand
  <2>10. Stands(p, me[p])'
    <3> me'[p] = m
      BY <2>2 DEF EvictionInv, CollabTypeOK
    <3>1. Coherent(p, m)' /\ Entitled(p, m)' /\ Claimed(p, m)'
      BY <1>1, <2>2, <2>3 DEF Stands, Coherent, Entitled, Claimed, Evicting, Sweeping, Taken
    <3>2. \A q \in Procs : me'[q].raw = me[q].raw
      BY <2>2 DEF EvictionInv, CollabTypeOK
    <3>3. Sweeps(p, m)'
      BY <1>1, <2>2, <2>3, <2>7, <3>2 DEF Stands, Sweeps, Sweeping
    <3> QED
      BY <3>1, <3>3 DEF Stands
  <2> QED
    BY <2>4, <2>6, <2>9, <2>10 DEF EvictionInv
<1> QED
  BY <1>2, <1>3 DEF SweepClaim

LEMMA WinClaimStep ==
  ASSUME EvictionInv, NEW p \in Procs, WinClaim(p)
  PROVE  EvictionInv'
<1>1. alive[p] /\ me[p].pc = "claim" /\ Stands(p, me[p])
  BY DEF WinClaim, At, EvictionInv
<1>2. me[p].raw \in Content /\ Taken(me[p].raw) /\ me[p].gen \in Nat
  BY <1>1, MyLocals DEF Stands, Coherent, Evicting, LocalState
<1>3. CASE Refused(p) /\ UNCHANGED claims
  BY <1>1, <1>3, RefusedStep DEF WinClaim
<1>4. CASE /\ me[p].gen < Generations /\ me[p].step < 2 * Generations
           /\ claims[me[p].raw][me[p].gen] # NoClaim /\ Go(p, "judgeClaim")
           /\ UNCHANGED <<claims, held>>
  <2> DEFINE m == [me[p] EXCEPT !.pc = "judgeClaim"]
  <2>1. m \in LocalState
    BY MyLocals DEF LocalState
  <2>2. /\ m.pc = "judgeClaim" /\ m.raw = me[p].raw /\ m.gen = me[p].gen
        /\ m.call = me[p].call /\ m.step = me[p].step
    BY MyLocals DEF LocalState
  <2>3. me' = [me EXCEPT ![p] = m]
    BY <1>4 DEF Go
  <2>4. me[p].gen \in Gens
    BY <1>2, <1>4, BoundsAssumption DEF Gens
  <2> HIDE DEF m
  <2>5. Stands(p, m)
    BY <1>1, <1>4, <2>2, <2>4
    DEF Stands, Coherent, Entitled, Claimed, Sweeps, Evicting, Sweeping
  <2> QED
    BY <1>4, <2>1, <2>2, <2>3, <2>5, OwnStep DEF WinClaim, Sweeping
<1>5. CASE /\ me[p].gen < Generations /\ claims[me[p].raw][me[p].gen] = NoClaim
           /\ claims' = [claims EXCEPT ![me[p].raw][me[p].gen] = [by |-> p, old |-> FALSE]]
           /\ Go(p, "reread") /\ UNCHANGED held
  <2>1. me[p].gen \in Gens
    BY <1>2, <1>5, BoundsAssumption DEF Gens
  <2>2. PICK m \in LocalState :
          /\ me' = [me EXCEPT ![p] = m]
          /\ m.pc = "reread" /\ m.raw = me[p].raw /\ m.gen = me[p].gen
          /\ m.call = me[p].call
    <3> DEFINE m == [me[p] EXCEPT !.pc = "reread"]
    <3>1. m \in LocalState
      BY MyLocals DEF LocalState
    <3>2. /\ m.pc = "reread" /\ m.raw = me[p].raw /\ m.gen = me[p].gen
          /\ m.call = me[p].call
      BY MyLocals DEF LocalState
    <3>3. me' = [me EXCEPT ![p] = m]
      BY <1>5 DEF Go
    <3> HIDE DEF m
    <3> QED
      BY <3>1, <3>2, <3>3
  <2>3. UNCHANGED <<lock, aged, alive, held, took>>
    BY <1>5 DEF WinClaim
  <2>4. /\ claims'[m.raw][m.gen] = [by |-> p, old |-> FALSE]
        /\ \A c \in Content, g \in Gens :
             claims'[c][g] = claims[c][g] \/ (c = m.raw /\ g = m.gen)
    BY <1>2, <1>5, <2>1, <2>2 DEF EvictionInv, CollabTypeOK
  <2>5. CollabTypeOK'
    <3>1. [by |-> p, old |-> FALSE] \in Claim
      BY DEF Claim
    <3> QED
      BY <1>2, <1>5, <2>1, <2>2, <2>3, <3>1 DEF EvictionInv, CollabTypeOK, LocalState
  <2>6. Fresh'
    BY <1>2, <2>2, <2>3, <2>4 DEF EvictionInv, Fresh, Taken
  <2>7. lock # NoLock => \A g \in Gens : claims[lock][g] # NoClaim =>
          claims'[lock][g] # NoClaim /\ claims'[lock][g].by = claims[lock][g].by
    BY <1>5, <2>1, <2>2, <2>4 DEF EvictionInv, CollabTypeOK
  <2>8. \/ \A q \in Procs : me[q].pc \notin Sweeping
        \/ m.raw # lock /\ (lock # NoLock => claims'[lock] = claims[lock])
    <3>1. ASSUME NEW q \in Procs, me[q].pc \in Sweeping
          PROVE  m.raw # lock
      BY <2>2, <3>1 DEF EvictionInv, Stands, Sweeps
    <3>2. m.raw # lock /\ lock # NoLock => claims'[lock] = claims[lock]
      BY <1>2, <1>5, <2>2 DEF EvictionInv, CollabTypeOK
    <3> QED
      BY <3>1, <3>2
  <2>9. \A q \in Procs \ {p} : Stands(q, me[q])'
    BY <2>2, <2>3, <2>7, <2>8, OthersStand
  <2>10. Stands(p, me[p])'
    <3> me'[p] = m
      BY <2>2 DEF EvictionInv, CollabTypeOK
    <3>1. Coherent(p, m)' /\ Entitled(p, m)' /\ Sweeps(p, m)'
      BY <1>1, <2>1, <2>2, <2>3
      DEF Stands, Coherent, Entitled, Sweeps, Evicting, Sweeping, Taken, Outlived
    <3>2. m.raw = lock => \A g \in Gens : g < m.gen =>
            claims'[lock][g] # NoClaim /\ ~alive[claims'[lock][g].by]
      <4> SUFFICES ASSUME m.raw = lock, NEW g \in Gens, g < m.gen
                   PROVE  claims'[lock][g] # NoClaim /\ ~alive[claims'[lock][g].by]
        OBVIOUS
      <4>1. claims'[lock][g] = claims[lock][g]
        BY <1>2, <2>1, <2>2, <2>4 DEF Gens
      <4> QED
        BY <1>1, <2>2, <4>1 DEF Stands, Claimed, Evicting
    <3>3. claims'[m.raw][m.gen] # NoClaim /\ claims'[m.raw][m.gen].by = p
      <4>1. [by |-> p, old |-> FALSE] \in Claim
        BY DEF Claim
      <4>2. [by |-> p, old |-> FALSE] # NoClaim
        BY <4>1, NoneAssumption
      <4>3. [by |-> p, old |-> FALSE].by = p
        OBVIOUS
      <4> QED
        BY <2>4, <4>2, <4>3, Zenon
    <3>4. Claimed(p, m)'
      BY <2>2, <2>3, <3>2, <3>3 DEF Claimed
    <3> QED
      BY <3>1, <3>4 DEF Stands
  <2> QED
    BY <2>5, <2>6, <2>9, <2>10 DEF EvictionInv
<1> QED
  BY <1>3, <1>4, <1>5 DEF WinClaim

LEMMA UnclaimStep ==
  ASSUME EvictionInv, NEW p \in Procs, Unclaim(p)
  PROVE  EvictionInv'
<1>1. alive[p] /\ me[p].pc = "unclaim" /\ Stands(p, me[p])
  BY DEF Unclaim, At, EvictionInv
<1>2. me[p].raw \in Content /\ me[p].gen \in Gens /\ me[p].raw # lock
  BY <1>1 DEF Stands, Coherent, Claimed
<1>3. UNCHANGED <<lock, aged, alive, took>>
      /\ (held' = held \/ held' = [held EXCEPT ![p] = NoLock])
  BY DEF Unclaim, Evicted
<1>4. PICK m \in LocalState : /\ me' = [me EXCEPT ![p] = m]
                              /\ m.pc \in {"idle", "create"} /\ m.raw = NoLock
                              /\ Stands(p, m)
  <2>1. CASE Return(p)
    BY <2>1, IdleType, IdleStands DEF Return, Idle
  <2>2. CASE NextAttempt(p)
    BY <1>1, <2>2, NextAttemptLocals DEF Sweeping
  <2> QED
    BY <2>1, <2>2 DEF Unclaim, Evicted
<1>5. claims' = [claims EXCEPT ![me[p].raw][me[p].gen] = NoClaim]
  BY DEF Unclaim
<1>6. CollabTypeOK'
  BY <1>2, <1>3, <1>4, <1>5 DEF EvictionInv, CollabTypeOK, LocalState
<1>7. \A c \in Content, g \in Gens :
        claims'[c][g] = claims[c][g] \/ claims'[c][g] = NoClaim
  BY <1>2, <1>5 DEF EvictionInv, CollabTypeOK
<1>8. Fresh'
  BY <1>3, <1>7 DEF EvictionInv, CollabTypeOK, Fresh, Taken
<1>9. lock # NoLock => claims'[lock] = claims[lock]
  BY <1>2, <1>5 DEF EvictionInv, CollabTypeOK
<1>10. (\A q \in Procs : me[q].pc \notin Sweeping) \/ m.raw # lock
  BY <1>4, SweptIsLive
<1>11. \A q \in Procs \ {p} : Stands(q, me[q])'
  BY <1>3, <1>4, <1>9, <1>10, OthersStand
<1>12. Stands(p, me[p])'
  <2> me'[p] = m
    BY <1>4 DEF EvictionInv, CollabTypeOK
  <2> QED
    BY <1>3, <1>4 DEF Stands, Coherent, Entitled, Claimed, Sweeps, Evicting, Sweeping
<1> QED
  BY <1>6, <1>8, <1>11, <1>12 DEF EvictionInv

LEMMA UnlinkStep ==
  ASSUME EvictionInv, NEW p \in Procs, UnlinkLock(p)
  PROVE  EvictionInv'
<1>1. alive[p] /\ me[p].pc = "unlink" /\ Stands(p, me[p]) /\ me[p].raw = lock
  BY DEF UnlinkLock, At, EvictionInv, Stands, Claimed
<1>2. lock' = NoLock /\ UNCHANGED <<claims, aged, alive, held, took>>
  BY DEF UnlinkLock
<1>3. PICK m \in LocalState :
        /\ me' = [me EXCEPT ![p] = m]
        /\ m.pc = "unclaim" /\ m.raw = me[p].raw /\ m.gen = me[p].gen
        /\ m.call = me[p].call
  <2> DEFINE m == [me[p] EXCEPT !.pc = "unclaim"]
  <2>1. m \in LocalState
    BY MyLocals DEF LocalState
  <2>2. /\ m.pc = "unclaim" /\ m.raw = me[p].raw /\ m.gen = me[p].gen
        /\ m.call = me[p].call
    BY MyLocals DEF LocalState
  <2>3. me' = [me EXCEPT ![p] = m]
    BY DEF UnlinkLock, Go
  <2> HIDE DEF m
  <2> QED
    BY <2>1, <2>2, <2>3
<1>4. CollabTypeOK'
  BY <1>2, <1>3 DEF EvictionInv, CollabTypeOK, LocalState
<1>5. Fresh'
  BY <1>2 DEF EvictionInv, Fresh, Taken
<1>6. ASSUME NEW q \in Procs, q # p
      PROVE  Stands(q, me[q])'
  <2> me'[q] = me[q] /\ Stands(q, me[q])
    BY <1>3, <1>6 DEF EvictionInv, CollabTypeOK
  <2>1. me[q].pc # "unlink"
    BY <1>1, <1>6, OneUnlinks DEF Stands, Claimed
  <2>2. me[q].pc \notin Sweeping
    BY <1>1 DEF Stands, Sweeps
  <2>3. Coherent(q, me[q])' /\ Entitled(q, me[q])'
    BY <1>2 DEF Stands, Coherent, Entitled, Taken, Outlived
  <2>4. Claimed(q, me[q])'
    BY <1>2, <2>1, NoneAssumption DEF Stands, Coherent, Claimed, Evicting
  <2>5. Sweeps(q, me[q])'
    BY <2>2 DEF Sweeps
  <2> QED
    BY <2>3, <2>4, <2>5 DEF Stands
<1>7. Stands(p, me[p])'
  <2> me'[p] = m
    BY <1>3 DEF EvictionInv, CollabTypeOK
  <2> QED
    BY <1>1, <1>2, <1>3, NoneAssumption
    DEF Stands, Coherent, Entitled, Claimed, Sweeps, Evicting, Sweeping, Taken
<1> QED
  BY <1>4, <1>5, <1>6, <1>7 DEF EvictionInv

-----------------------------------------------------------------------------
(* Time and death.                                                         *)

LEMMA AgeLockStep ==
  ASSUME EvictionInv, AgeLock
  PROVE  EvictionInv'
<1>1. /\ lock # NoLock /\ aged' = aged \cup {lock}
      /\ UNCHANGED <<lock, claims, alive, held, took, me>>
  BY DEF AgeLock
<1>2. CollabTypeOK'
  BY <1>1 DEF EvictionInv, CollabTypeOK
<1>3. Fresh'
  BY <1>1 DEF EvictionInv, Fresh, Taken
<1>4. ASSUME NEW q \in Procs
      PROVE  Stands(q, me[q])'
  <2>1. Stands(q, me[q])
    BY DEF EvictionInv
  <2>2. me[q].pc \notin Sweeping
    BY SweptIsLive DEF AgeLock, Sweeping
  <2>3. Coherent(q, me[q])' /\ Entitled(q, me[q])'
    BY <1>1, <2>1 DEF Stands, Coherent, Entitled, Taken, Outlived
  <2>4. Claimed(q, me[q])' /\ Sweeps(q, me[q])'
    BY <1>1, <2>1, <2>2 DEF Stands, Claimed, Sweeps
  <2> QED
    BY <2>3, <2>4 DEF Stands
<1> QED
  BY <1>2, <1>3, <1>4 DEF EvictionInv

LEMMA AgeClaimStep ==
  ASSUME EvictionInv, Punctual, NEW c \in Content, NEW g \in Gens, AgeClaim(c, g)
  PROVE  EvictionInv'
<1>1. /\ claims[c][g] # NoClaim /\ ~alive[claims[c][g].by]
      /\ claims' = [claims EXCEPT ![c][g].old = TRUE]
      /\ UNCHANGED <<lock, aged, alive, held, took, me>>
  BY DEF AgeClaim, Punctual
<1>2. claims[c][g] \in Claim
  BY <1>1 DEF EvictionInv, CollabTypeOK
<1>3. [claims[c][g] EXCEPT !.old = TRUE] \in Claim
      /\ [claims[c][g] EXCEPT !.old = TRUE].by = claims[c][g].by
  BY <1>2 DEF Claim
<1>4. claims' \in [Content -> [Gens -> Claim \cup {NoClaim}]]
  BY <1>1, <1>3 DEF EvictionInv, CollabTypeOK
<1>5. CollabTypeOK'
  BY <1>1, <1>4 DEF EvictionInv, CollabTypeOK
<1>6. \A d \in Content, h \in Gens :
        \/ claims'[d][h] = claims[d][h]
        \/ /\ claims[d][h] # NoClaim /\ claims'[d][h] # NoClaim
           /\ claims'[d][h].by = claims[d][h].by
           /\ ~alive[claims[d][h].by]
  BY <1>1, <1>3, NoneAssumption DEF EvictionInv, CollabTypeOK
<1>7. Fresh'
  BY <1>1, <1>6 DEF EvictionInv, Fresh, Taken
<1>8. ASSUME NEW q \in Procs
      PROVE  Stands(q, me[q])'
  <2>1. Stands(q, me[q])
    BY DEF EvictionInv
  <2>2. Coherent(q, me[q])' /\ Entitled(q, me[q])'
    BY <1>1, <2>1 DEF Stands, Coherent, Entitled, Taken, Outlived
  <2>3. Claimed(q, me[q])'
    <3>1. me[q].pc \in Evicting => me[q].raw \in Content
      BY <2>1 DEF Stands, Coherent
    <3>2. me[q].pc \in {"reread", "unlink"} => me[q].gen \in Gens
      BY <2>1 DEF Stands, Coherent
    <3>3. ASSUME me[q].pc \in Evicting, me[q].raw = lock, NEW h \in Gens, h < me[q].gen
          PROVE  claims'[lock][h] # NoClaim /\ ~alive[claims'[lock][h].by]
      <4>1. claims[lock][h] # NoClaim /\ ~alive[claims[lock][h].by]
        BY <2>1, <3>3 DEF Stands, Claimed
      <4> QED
        BY <1>6, <3>1, <3>3, <4>1
    <3>4. ASSUME me[q].pc \in {"reread", "unlink"}, me[q].raw = lock
          PROVE  /\ claims'[lock][me[q].gen] # NoClaim
                 /\ claims'[lock][me[q].gen].by = q
      <4>1. /\ claims[lock][me[q].gen] # NoClaim
            /\ claims[lock][me[q].gen].by = q
        BY <2>1, <3>4 DEF Stands, Claimed
      <4>2. lock \in Content /\ me[q].gen \in Gens
        BY <3>1, <3>2, <3>4 DEF Evicting
      <4> QED
        BY <1>6, <4>1, <4>2
    <3> QED
      BY <1>1, <2>1, <3>3, <3>4 DEF Stands, Claimed
  <2>4. Sweeps(q, me[q])'
    <3>1. lock # NoLock => lock \in Content
      BY DEF EvictionInv, CollabTypeOK
    <3> QED
      BY <1>1, <1>6, <2>1, <3>1 DEF Stands, Sweeps
  <2> QED
    BY <2>2, <2>3, <2>4 DEF Stands
<1> QED
  BY <1>5, <1>7, <1>8 DEF EvictionInv

LEMMA DieStep ==
  ASSUME EvictionInv, NEW p \in Procs, Die(p)
  PROVE  EvictionInv'
<1>1. /\ alive' = [alive EXCEPT ![p] = FALSE]
      /\ held' = [held EXCEPT ![p] = NoLock]
      /\ me' = [me EXCEPT ![p] = Idle]
      /\ UNCHANGED <<lock, claims, aged, took>>
  BY DEF Die, Return
<1>2. CollabTypeOK'
  BY <1>1, IdleType DEF EvictionInv, CollabTypeOK, LocalState
<1>3. \A q \in Procs : ~alive[q] => ~alive'[q]
  BY <1>1 DEF EvictionInv, CollabTypeOK
<1>4. Fresh'
  <2>1. \A c \in Content, g \in Gens : claims[c][g] # NoClaim => claims[c][g].by \in Procs
    BY DEF EvictionInv, CollabTypeOK, Claim
  <2> QED
    BY <1>1, <1>3, <2>1 DEF EvictionInv, CollabTypeOK, Fresh, Taken
<1>5. Idle.raw = NoLock /\ Idle.pc \notin Sweeping
  BY DEF Idle, Sweeping
<1>6. ASSUME NEW q \in Procs, q # p
      PROVE  Stands(q, me[q])'
  <2> me'[q] = me[q] /\ alive'[q] = alive[q] /\ Stands(q, me[q])
    BY <1>1, <1>6 DEF EvictionInv, CollabTypeOK
  <2>1. Coherent(q, me[q])'
    BY <1>1 DEF Stands, Coherent, Taken
  <2>2. Entitled(q, me[q])'
    BY <1>1, <1>3, ContentShape DEF Stands, Coherent, Entitled, Outlived
  <2>3. Claimed(q, me[q])'
    <3>1. me[q].pc \in Evicting => me[q].raw \in Content
      BY DEF Stands, Coherent
    <3>2. \A c \in Content, g \in Gens : claims[c][g] # NoClaim => claims[c][g].by \in Procs
      BY DEF EvictionInv, CollabTypeOK, Claim
    <3> QED
      BY <1>1, <1>3, <3>1, <3>2 DEF Stands, Claimed
  <2>4. Sweeps(q, me[q])'
    <3>1. lock # NoLock => \A r \in Procs : me[r].raw # lock => me'[r].raw # lock
      BY <1>1, <1>5 DEF EvictionInv, CollabTypeOK
    <3> QED
      BY <1>1, <3>1 DEF Stands, Sweeps
  <2> QED
    BY <2>1, <2>2, <2>3, <2>4 DEF Stands
<1>7. Stands(p, me[p])'
  <2> me'[p] = Idle
    BY <1>1 DEF EvictionInv, CollabTypeOK
  <2> QED
    BY DEF Stands, Coherent, Entitled, Claimed, Sweeps, Idle, Evicting, Sweeping
<1> QED
  BY <1>2, <1>4, <1>6, <1>7 DEF EvictionInv

-----------------------------------------------------------------------------
LEMMA InitEviction == Init => EvictionInv
<1> SUFFICES ASSUME Init PROVE EvictionInv
  OBVIOUS
<1>1. CollabTypeOK
  BY IdleType, BoundsAssumption DEF Init, CollabTypeOK, LocalState
<1>2. Fresh
  BY DEF Init, Fresh
<1>3. \A p \in Procs : Stands(p, me[p])
  BY IdleStands DEF Init
<1> QED
  BY <1>1, <1>2, <1>3 DEF EvictionInv

LEMMA NextEviction ==
  ASSUME EvictionInv, Punctual, [Next]_vars
  PROVE  EvictionInv'
<1>1. ASSUME NEW p \in Procs, Work(p)
      PROVE  EvictionInv'
  BY <1>1, CreateStep, JudgeStep, ListStep, SweepStep, RecheckStep, WinClaimStep,
     JudgeClaimStep, RereadStep, UnlinkStep, UnclaimStep DEF Work
<1>2. ASSUME NEW p \in Procs, Release(p) \/ Reclaim(p) \/ Die(p)
      PROVE  EvictionInv'
  BY <1>2, ReleaseStep, ReclaimStep, DieStep
<1>3. CASE AgeLock
  BY <1>3, AgeLockStep
<1>4. ASSUME NEW c \in Content, NEW g \in Gens, AgeClaim(c, g)
      PROVE  EvictionInv'
  BY <1>4, AgeClaimStep
<1>5. CASE UNCHANGED vars
  BY <1>5 DEF vars, EvictionInv, CollabTypeOK, Fresh, Taken, Stands, Coherent, Entitled,
              Claimed, Sweeps, Outlived
<1> QED
  BY <1>1, <1>2, <1>3, <1>4, <1>5 DEF Next

LEMMA EvictionHolds == Punctual => (Spec => []EvictionInv)
<1> SUFFICES ASSUME Punctual PROVE Spec => []EvictionInv
  OBVIOUS
<1> QED
  BY InitEviction, NextEviction, PTL DEF Spec

(***************************************************************************)
(* OneEvictor for any number of authors and hosts, retries, generations of *)
(* claims and deaths: the lock file is emptied by one process at a time.   *)
(***************************************************************************)
THEOREM OneEvictorHolds == Punctual => (Spec => []OneEvictor)
<1> SUFFICES ASSUME Punctual PROVE Spec => []OneEvictor
  OBVIOUS
<1>1. Spec => []EvictionInv
  BY EvictionHolds
<1>2. EvictionInv => OneEvictor
  BY OneUnlinks DEF EvictionInv, Stands, Claimed, OneEvictor
<1> QED
  BY <1>1, <1>2, PTL

(***************************************************************************)
(* LiveLockKept likewise: the lock file of an author who is alive and      *)
(* within the age window goes only by that author's own release.           *)
(***************************************************************************)
THEOREM LiveLockKeptHolds == Punctual => (Spec => LiveLockKept)
<1> SUFFICES ASSUME Punctual PROVE Spec => LiveLockKept
  OBVIOUS
<1> DEFINE Kept == lock # NoLock /\ lock' # lock =>
                     Outlived(lock) \/ (Releasing(lock.by) /\ me[lock.by].raw = lock)
<1>1. Spec => []EvictionInv
  BY EvictionHolds
<1>2. ASSUME EvictionInv, Next
      PROVE  Kept
  <2> SUFFICES ASSUME lock # NoLock, lock' # lock
               PROVE  Outlived(lock) \/ (Releasing(lock.by) /\ me[lock.by].raw = lock)
    OBVIOUS
  <2>1. PICK p \in Procs : UnlinkLock(p)
    <3>1. \E p \in Procs : Create(p) \/ UnlinkLock(p)
      BY <1>2 DEF Next, Work, Release, Reclaim, Judge, ListClaims, SweepClaim, Recheck,
                  WinClaim, JudgeClaim, Reread, Unclaim, Die, AgeLock, AgeClaim
    <3> QED
      BY <3>1 DEF Create
  <2>2. me[p].pc = "unlink" /\ me[p].raw = lock /\ Coherent(p, me[p]) /\ Entitled(p, me[p])
    BY <1>2, <2>1 DEF UnlinkLock, At, EvictionInv, Stands, Claimed
  <2> QED
    BY <2>2 DEF Coherent, Entitled, Evicting, Releasing
<1>3. ASSUME EvictionInv, [Next]_vars
      PROVE  [Kept]_vars
  BY <1>2, <1>3
<1> HIDE DEF Kept
<1>4. Spec => [][Kept]_vars
  BY <1>1, <1>3, PTL DEF Spec
<1> QED
  BY <1>4 DEF LiveLockKept, Kept

=============================================================================
