-------------------------- MODULE CollaborationLock --------------------------
(***************************************************************************)
(* The collaboration lock of store/src/collaborationLock.ts: one file that *)
(* authors on several hosts create with an atomic link, and that any of    *)
(* them may remove once it is stale.  Creation is exclusive by itself;     *)
(* removal is made exclusive by an eviction claim, a second file named     *)
(* after the very content that is to go.  One step per file-system call.   *)
(***************************************************************************)
EXTENDS Naturals, FiniteSets

CONSTANTS
  Procs,          \* the processes that push
  HostOf,         \* the host each of them runs on
  BrokenClocks,   \* those whose createdAt cannot be an age (far future)
  ClaimsMayStall, \* may a live claim holder stall past the claim's age limit
  MaxAcquires,    \* bound: acquisitions of each process
  Generations,    \* COLLABORATION_EVICT_MAX_GENERATIONS
  Attempts,       \* ACQUIRE_ATTEMPTS and RELEASE_ATTEMPTS
  MaxDeaths,      \* bound: processes that die
  NoLock, NoClaim

ASSUME HostOfAssumption == HostOf \in [Procs -> {HostOf[p] : p \in Procs}]
ASSUME BoundsAssumption ==
  /\ MaxAcquires \in [Procs -> Nat] /\ MaxDeaths \in Nat
  /\ Generations \in Nat \ {0} /\ Attempts \in Nat \ {0}
ASSUME FlagAssumption == ClaimsMayStall \in BOOLEAN /\ BrokenClocks \subseteq Procs

VARIABLES
  lock,    \* the content of the lock file, or NoLock
  claims,  \* the claim files: by the content they name and their generation
  aged,    \* contents older than COLLABORATION_LOCK_MAX_AGE_MS
  alive,   \* the processes that run
  held,    \* heldLockOwner of each process
  took,    \* acquisitions of each process so far
  me       \* the locals of the call each process is in

vars == <<lock, claims, aged, alive, held, took, me>>

Gens == 0 .. Generations - 1

(* The bytes of a lock are unique to an acquisition: they hold a fresh     *)
(* owner token.                                                            *)
Content == UNION {[by : {p}, n : 1 .. MaxAcquires[p]] : p \in Procs}
Claim == [by : Procs, old : BOOLEAN]

ASSUME NoneAssumption == NoLock \notin Content /\ NoClaim \notin Claim

(* isCollaborationLockStale, as process p judges content c: an impossible  *)
(* timestamp, a dead pid in p's own process table, or age.                 *)
Stale(c, p) ==
  \/ c.by \in BrokenClocks
  \/ HostOf[c.by] = HostOf[p] /\ ~alive[c.by]
  \/ c \in aged

(* Faulty variant: whoever did not get the claim steps over it.            *)
AbandonedOnSight(k, p) == TRUE

(* Faulty variant: a claim is never too old.                               *)
AbandonedByDeath(k, p) == HostOf[k.by] = HostOf[p] /\ ~alive[k.by]

(* isEvictionClaimAbandoned: positive evidence only.                       *)
Abandoned(k, p) == k.old \/ (HostOf[k.by] = HostOf[p] /\ ~alive[k.by])

Idle == [call |-> "none", pc |-> "idle", raw |-> NoLock, gen |-> 0,
         step |-> 0, attempt |-> 0, litter |-> {}]

Init ==
  /\ lock = NoLock
  /\ claims = [c \in Content |-> [g \in Gens |-> NoClaim]]
  /\ aged = {}
  /\ alive = [p \in Procs |-> TRUE]
  /\ held = [p \in Procs |-> NoLock]
  /\ took = [p \in Procs |-> 0]
  /\ me = [p \in Procs |-> Idle]

At(p, where) == alive[p] /\ me[p].pc = where
Go(p, where) == me' = [me EXCEPT ![p].pc = where]
Return(p) == me' = [me EXCEPT ![p] = Idle]

-----------------------------------------------------------------------------
(* The three calls.                                                        *)

(* acquireCollaborationLock: the atomic link publishes the whole content   *)
(* or fails with EEXIST.                                                   *)
Create(p) ==
  LET payload == [by |-> p, n |-> took[p] + 1] IN
  /\ At(p, "create") \/ (At(p, "idle") /\ took[p] < MaxAcquires[p])
  /\ \/ /\ lock = NoLock
        /\ lock' = payload
        /\ held' = [held EXCEPT ![p] = payload]
        /\ took' = [took EXCEPT ![p] = @ + 1]
        /\ me' = [me EXCEPT ![p].call = "acquire", ![p].pc = "list"]
     \/ /\ lock # NoLock
        /\ me' = [me EXCEPT ![p].call = "acquire", ![p].pc = "judge"]
        /\ UNCHANGED <<lock, held, took>>
  /\ UNCHANGED <<claims, aged, alive>>

(* One more turn of the attempt loop of acquire, or its refusal.           *)
NextAttempt(p) ==
  IF me[p].call = "acquire" /\ me[p].attempt + 1 < Attempts
  THEN me' = [me EXCEPT ![p] = [Idle EXCEPT !.call = "acquire", !.pc = "create",
                                            !.attempt = me[p].attempt + 1]]
  ELSE Return(p)

(* Read the lock file: gone is another attempt, live is a refusal, stale   *)
(* is worth an eviction of exactly the bytes read.                         *)
Judge(p) ==
  /\ At(p, "judge")
  /\ \/ lock = NoLock /\ NextAttempt(p)
     \/ lock # NoLock /\ ~Stale(lock, p) /\ Return(p)
     \/ /\ lock # NoLock /\ Stale(lock, p)
        /\ me' = [me EXCEPT ![p].raw = lock, ![p].pc = "claim"]
  /\ UNCHANGED <<lock, claims, aged, alive, held, took>>

(* reclaimStaleLock: the same verdict, and one eviction if it is stale.    *)
Reclaim(p) ==
  /\ At(p, "idle") /\ lock # NoLock /\ Stale(lock, p)
  /\ me' = [me EXCEPT ![p].call = "reclaim", ![p].raw = lock, ![p].pc = "claim"]
  /\ UNCHANGED <<lock, claims, aged, alive, held, took>>

(* sweepEvictionClaims of the process that has just created the lock: the  *)
(* directory listing, then an unlink per name, in any order.               *)
ListClaims(p) ==
  /\ At(p, "list")
  /\ me' = [me EXCEPT ![p].pc = "sweep",
                      ![p].litter = {x \in Content \X Gens : claims[x[1]][x[2]] # NoClaim}]
  /\ UNCHANGED <<lock, claims, aged, alive, held, took>>

SweepClaim(p) ==
  /\ At(p, "sweep")
  /\ \/ \E x \in me[p].litter :
          /\ claims' = [claims EXCEPT ![x[1]][x[2]] = NoClaim]
          /\ me' = [me EXCEPT ![p].litter = @ \ {x}]
     \/ me[p].litter = {} /\ Return(p) /\ UNCHANGED claims
  /\ UNCHANGED <<lock, aged, alive, held, took>>

(* releaseCollaborationLock: only while the file carries our own token.    *)
Release(p) ==
  /\ At(p, "idle") /\ held[p] # NoLock
  /\ \/ /\ lock = held[p]
        /\ me' = [me EXCEPT ![p].call = "release", ![p].pc = "claim", ![p].raw = lock]
        /\ UNCHANGED held
     \/ lock # held[p] /\ held' = [held EXCEPT ![p] = NoLock] /\ UNCHANGED me
  /\ UNCHANGED <<lock, claims, aged, alive, took>>

(* After a refused eviction: our bytes are gone, or try again, or throw    *)
(* with the lock still ours.                                               *)
Recheck(p) ==
  /\ At(p, "recheck")
  /\ \/ lock # me[p].raw /\ held' = [held EXCEPT ![p] = NoLock] /\ Return(p)
     \/ /\ lock = me[p].raw /\ UNCHANGED held
        /\ IF me[p].attempt + 1 < Attempts
           THEN me' = [me EXCEPT ![p] = [Idle EXCEPT !.call = "release", !.pc = "claim",
                                    !.raw = lock, !.attempt = me[p].attempt + 1]]
           ELSE Return(p)
  /\ UNCHANGED <<lock, claims, aged, alive, took>>

-----------------------------------------------------------------------------
(* evictLockFile: win a claim on the content, re-read, unlink.             *)

Evicted(p) ==
  IF me[p].call = "release"
  THEN held' = [held EXCEPT ![p] = NoLock] /\ Return(p)
  ELSE NextAttempt(p) /\ UNCHANGED held

Refused(p) ==
  /\ IF me[p].call = "release" THEN Go(p, "recheck") ELSE NextAttempt(p)
  /\ UNCHANGED held

WinClaim(p) ==
  LET g == me[p].gen IN
  /\ At(p, "claim")
  /\ \/ /\ g >= Generations \/ me[p].step >= 2 * Generations
        /\ Refused(p) /\ UNCHANGED claims
     \/ /\ g < Generations /\ me[p].step < 2 * Generations
        /\ \/ /\ claims[me[p].raw][g] = NoClaim
              /\ claims' = [claims EXCEPT ![me[p].raw][g] = [by |-> p, old |-> FALSE]]
              /\ Go(p, "reread")
           \/ claims[me[p].raw][g] # NoClaim /\ Go(p, "judgeClaim") /\ UNCHANGED claims
        /\ UNCHANGED held
  /\ UNCHANGED <<lock, aged, alive, took>>

(* Somebody else's claim: retry the same generation if it vanished, step   *)
(* over it if it is abandoned, leave the content to its holder otherwise.  *)
JudgeClaim(p) ==
  LET k == claims[me[p].raw][me[p].gen] IN
  /\ At(p, "judgeClaim")
  /\ \/ /\ k = NoClaim
        /\ me' = [me EXCEPT ![p].pc = "claim", ![p].step = @ + 1]
        /\ UNCHANGED held
     \/ /\ k # NoClaim /\ Abandoned(k, p)
        /\ me' = [me EXCEPT ![p].pc = "claim", ![p].gen = @ + 1, ![p].step = @ + 1]
        /\ UNCHANGED held
     \/ k # NoClaim /\ ~Abandoned(k, p) /\ Refused(p)
  /\ UNCHANGED <<lock, claims, aged, alive, took>>

(* Faulty variant: no second look under the claim.                         *)
RereadNothing(p) ==
  At(p, "reread") /\ Go(p, "unlink") /\ UNCHANGED <<lock, claims, aged, alive, held, took>>

(* Under the claim: only if the content is still the one it names.         *)
Reread(p) ==
  /\ At(p, "reread")
  /\ Go(p, IF lock = me[p].raw THEN "unlink" ELSE "unclaim")
  /\ UNCHANGED <<lock, claims, aged, alive, held, took>>

UnlinkLock(p) ==
  /\ At(p, "unlink")
  /\ lock' = NoLock
  /\ Go(p, "unclaim")
  /\ UNCHANGED <<claims, aged, alive, held, took>>

(* The claim goes by its name, whoever put it there.                       *)
Unclaim(p) ==
  /\ At(p, "unclaim")
  /\ claims' = [claims EXCEPT ![me[p].raw][me[p].gen] = NoClaim]
  /\ Evicted(p)
  /\ UNCHANGED <<lock, aged, alive, took>>

-----------------------------------------------------------------------------
(* Time and death.  Thirty minutes do not pass while a process is inside   *)
(* the sweep that follows its create; ten seconds pass inside an eviction  *)
(* only where ClaimsMayStall.                                              *)

AgeLock ==
  /\ lock # NoLock /\ lock \notin aged
  /\ alive[lock.by] => me[lock.by].pc \notin {"list", "sweep"}
  /\ aged' = aged \cup {lock}
  /\ UNCHANGED <<lock, claims, alive, held, took, me>>

AgeClaim(c, g) ==
  /\ claims[c][g] # NoClaim
  /\ ~claims[c][g].old
  /\ ClaimsMayStall \/ ~alive[claims[c][g].by]
  /\ claims' = [claims EXCEPT ![c][g].old = TRUE]
  /\ UNCHANGED <<lock, aged, alive, held, took, me>>

Die(p) ==
  /\ alive[p] /\ Cardinality({q \in Procs : ~alive[q]}) < MaxDeaths
  /\ alive' = [alive EXCEPT ![p] = FALSE]
  /\ held' = [held EXCEPT ![p] = NoLock]
  /\ Return(p)
  /\ UNCHANGED <<lock, claims, aged, took>>

-----------------------------------------------------------------------------
Work(p) ==
  \/ Create(p) \/ Judge(p) \/ ListClaims(p) \/ SweepClaim(p) \/ Recheck(p)
  \/ WinClaim(p) \/ JudgeClaim(p) \/ Reread(p) \/ UnlinkLock(p) \/ Unclaim(p)

Next ==
  \/ \E p \in Procs : \/ Release(p) \/ Reclaim(p)
                      \/ Work(p) \/ Die(p)
  \/ AgeLock
  \/ \E c \in Content, g \in Gens : AgeClaim(c, g)

(* A process finishes its calls, an operator retries, and the locks and    *)
(* claims of the dead grow old; nobody has to release or to die.           *)
Fairness ==
  /\ \A p \in Procs : WF_vars(Work(p) \/ Reclaim(p))
  /\ WF_vars(AgeLock)
  /\ WF_vars(\E c \in Content, g \in Gens : AgeClaim(c, g))

Spec == Init /\ [][Next]_vars
FairSpec == Spec /\ Fairness

-----------------------------------------------------------------------------
(* The lock file and what each process believes have the shape the code    *)
(* gives them.                                                             *)
CollabTypeOK ==
  /\ lock \in Content \cup {NoLock}
  /\ claims \in [Content -> [Gens -> Claim \cup {NoClaim}]]
  /\ aged \subseteq Content
  /\ alive \in [Procs -> BOOLEAN]
  /\ held \in [Procs -> Content \cup {NoLock}]
  /\ took \in [Procs -> Nat] /\ \A p \in Procs : took[p] <= MaxAcquires[p]
  /\ me \in [Procs -> [call : {"none", "acquire", "release", "reclaim"},
                       pc : {"idle", "create", "judge", "list", "sweep", "claim", "recheck",
                             "judgeClaim", "reread", "unlink", "unclaim"},
                       raw : Content \cup {NoLock}, gen : 0 .. Generations,
                       step : 0 .. 2 * Generations, attempt : 0 .. Attempts,
                       litter : SUBSET (Content \X Gens)]]

Outlived(c) == ~alive[c.by] \/ c \in aged \/ c.by \in BrokenClocks

Releasing(p) == me[p].call = "release" /\ me[p].pc = "unlink"

(* evictLockFile (REV-233): the lock file of an author who is alive and    *)
(* within the age window goes only by that author's own release, however   *)
(* many others evict, sweep, retry or die around it.                       *)
LiveLockKept ==
  [][lock # NoLock /\ lock' # lock =>
       Outlived(lock) \/ (Releasing(lock.by) /\ me[lock.by].raw = lock)]_vars

(* evictLockFile: "it is emptied by exactly one process": of the processes *)
(* past their re-read no two are about to unlink the content that is there *)
(* now, so none of them can remove what replaces it.                       *)
OneEvictor ==
  \A p, q \in Procs :
    /\ alive[p] /\ me[p].pc = "unlink"
    /\ alive[q] /\ me[q].pc = "unlink"
    /\ p # q
    => me[p].raw # me[q].raw

(* A dead author never blocks the others for good: once somebody is left   *)
(* to try, his lock file goes, with the evictors that die on the way       *)
(* fewer than the generations.                                             *)
DeadLockReclaimed ==
  (lock # NoLock /\ ~alive[lock.by]) ~> (lock = NoLock \/ alive[lock.by])
=============================================================================
