----------------------------- MODULE BuildLock ------------------------------
(***************************************************************************)
(* The workspace build lock of tessera/scripts/build-lock.mjs.  A wrapper  *)
(* process takes a lock file, runs a command under it and removes it.  The *)
(* command may start wrappers of its own, which find the hold they are     *)
(* inside through an inherited token instead of acquiring.  One step per   *)
(* file-system call or liveness probe; a wrapper runs once, so its name is *)
(* its token.                                                              *)
(***************************************************************************)
EXTENDS Naturals

CONSTANTS
  Wrappers,    \* the invocations of the script
  Parent,      \* the wrapper whose command started it, or NoWrapper
  StartKnown,  \* those whose start time the lock file can record
  Waiting,     \* those run with a wait limit above zero
  NoWrapper

VARIABLES
  file,      \* the token in the lock file, or NoWrapper
  running,   \* the wrappers whose process exists
  recycled,  \* the dead ones whose pid a stranger has been given
  token,     \* the hold each wrapper's command is inside, or NoWrapper
  pc,        \* what each wrapper does next
  judged,    \* the holder it has read
  attempt,   \* the turn of the loop in acquire
  misfired   \* history: a break has unlinked another lock than it re-read

vars == <<file, running, recycled, token, pc, judged, attempt, misfired>>

(* holderLiveness: gone needs positive evidence, a free pid or a start     *)
(* time that differs from the one recorded.                                *)
SeemsAlive(w) == w \in running \/ (w \in recycled /\ w \notin StartKnown)

Init ==
  /\ file = NoWrapper
  /\ running = {}
  /\ recycled = {}
  /\ token = [w \in Wrappers |-> NoWrapper]
  /\ pc = [w \in Wrappers |-> "off"]
  /\ judged = [w \in Wrappers |-> NoWrapper]
  /\ attempt = [w \in Wrappers |-> 1]
  /\ misfired = FALSE

At(w, where) == w \in running /\ pc[w] = where
Go(w, where) == pc' = [pc EXCEPT ![w] = where]
Exit(w) == Go(w, "done") /\ running' = running \ {w}
Forget(w) == judged' = [judged EXCEPT ![w] = NoWrapper]
Again(w, n) == attempt' = [attempt EXCEPT ![w] = n]

(* main: a nested wrapper starts while the command of its parent runs,     *)
(* also when the parent itself has been killed.                            *)
Start(w) ==
  /\ pc[w] = "off"
  /\ Parent[w] # NoWrapper => pc[Parent[w]] = "run"
  /\ running' = running \cup {w}
  /\ Go(w, IF Parent[w] = NoWrapper THEN "create" ELSE "inherit")
  /\ UNCHANGED <<file, recycled, token, judged, attempt, misfired>>

(* inheritedHold: the file must carry the inherited token right now ...    *)
Inherit(w) ==
  /\ At(w, "inherit")
  /\ Go(w, IF file = token[Parent[w]] THEN "probe" ELSE "create")
  /\ UNCHANGED <<file, running, recycled, token, judged, attempt, misfired>>

(* Faulty variant: the token in the file is taken for the holder's life.   *)
ProbeNothing(w) ==
  /\ At(w, "probe")
  /\ token' = [token EXCEPT ![w] = token[Parent[w]]] /\ Go(w, "run")
  /\ UNCHANGED <<file, running, recycled, judged, attempt, misfired>>

(* ... and its holder must be alive; otherwise acquire normally.           *)
Probe(w) ==
  LET root == token[Parent[w]] IN
  /\ At(w, "probe")
  /\ \/ SeemsAlive(root) /\ token' = [token EXCEPT ![w] = root] /\ Go(w, "run")
     \/ ~SeemsAlive(root) /\ UNCHANGED token /\ Go(w, "create")
  /\ UNCHANGED <<file, running, recycled, judged, attempt, misfired>>

(* acquireWithin: only a top-level wrapper with a wait limit tries again.  *)
WaitOrRefuse(w) ==
  IF w \in Waiting /\ Parent[w] = NoWrapper
  THEN Go(w, "wait") /\ UNCHANGED running
  ELSE Exit(w)

(* acquire, publishLockFile: the link succeeds, finds the name taken, or   *)
(* the path will not serve.                                                *)
Create(w) ==
  /\ At(w, "create")
  /\ \/ /\ file = NoWrapper
        /\ file' = w
        /\ token' = [token EXCEPT ![w] = w]
        /\ Go(w, "run") /\ UNCHANGED running
     \/ /\ file # NoWrapper
        /\ IF attempt[w] = 2 THEN WaitOrRefuse(w) ELSE Go(w, "read") /\ UNCHANGED running
        /\ UNCHANGED <<file, token>>
     \/ Exit(w) /\ UNCHANGED <<file, token>>
  /\ Again(w, 1)
  /\ UNCHANGED <<recycled, judged, misfired>>

(* acquire, readHolder: gone is the second attempt; a path that cannot be  *)
(* read is a refusal that no waiting mends.                                *)
Read(w) ==
  /\ At(w, "read")
  /\ \/ /\ file = NoWrapper /\ Go(w, "create")
        /\ Again(w, 2)
        /\ UNCHANGED <<judged, running>>
     \/ /\ file # NoWrapper /\ Go(w, "judge")
        /\ judged' = [judged EXCEPT ![w] = file]
        /\ UNCHANGED <<attempt, running>>
     \/ Exit(w) /\ UNCHANGED <<judged, attempt>>
  /\ UNCHANGED <<file, recycled, token, misfired>>

Judge(w) ==
  /\ At(w, "judge")
  /\ \/ SeemsAlive(judged[w]) /\ WaitOrRefuse(w) /\ Forget(w)
     \/ ~SeemsAlive(judged[w]) /\ Go(w, "recheck") /\ UNCHANGED <<running, judged>>
  /\ UNCHANGED <<file, recycled, token, attempt, misfired>>

(* Faulty variant: the bytes re-read are not compared with those judged.   *)
RecheckNothing(w) ==
  /\ At(w, "recheck") /\ Go(w, "unlink")
  /\ judged' = [judged EXCEPT ![w] = file]
  /\ UNCHANGED <<file, running, recycled, token, attempt, misfired>>

(* breakLock, the re-read: gone or changed is left alone and one create    *)
(* decides; a path fault abandons the break.                               *)
Recheck(w) ==
  /\ At(w, "recheck")
  /\ \/ file = judged[w] /\ Go(w, "unlink") /\ UNCHANGED <<running, attempt, judged>>
     \/ file # judged[w] /\ Go(w, "create") /\ Again(w, 2) /\ Forget(w) /\ UNCHANGED running
     \/ Exit(w) /\ Forget(w) /\ UNCHANGED attempt
  /\ UNCHANGED <<file, recycled, token, misfired>>

(* breakLock, the unlink: it takes whatever is there by then, or fails.    *)
Unlink(w) ==
  /\ At(w, "unlink")
  /\ \/ /\ file' = NoWrapper
        /\ misfired' = (misfired \/ file \notin {judged[w], NoWrapper})
        /\ Again(w, 2)
        /\ Go(w, "create") /\ UNCHANGED running
     \/ Exit(w) /\ UNCHANGED <<file, attempt, misfired>>
  /\ Forget(w)
  /\ UNCHANGED <<recycled, token>>

(* The wait ends in a fresh acquire, at the deadline or by a signal, which *)
(* finds nothing held and lets the process die.                            *)
Wait(w) ==
  /\ At(w, "wait")
  /\ \/ Go(w, "create") /\ UNCHANGED running
     \/ Exit(w)
  /\ UNCHANGED <<file, recycled, token, judged, attempt, misfired>>

(* runChild: the command ends, by itself or by a forwarded signal, whether *)
(* or not the wrappers it started have ended.                              *)
CommandEnds(w) ==
  /\ At(w, "run")
  /\ IF token[w] = w THEN Go(w, "release") /\ UNCHANGED running ELSE Exit(w)
  /\ UNCHANGED <<file, recycled, token, judged, attempt, misfired>>

(* release: only a file that carries our token.                            *)
Release(w) ==
  /\ At(w, "release")
  /\ IF file = w THEN Go(w, "drop") /\ UNCHANGED running ELSE Exit(w)
  /\ UNCHANGED <<file, recycled, token, judged, attempt, misfired>>

(* The unlink, which a path fault may refuse.                              *)
Drop(w) ==
  /\ At(w, "drop")
  /\ file' \in {file, NoWrapper}
  /\ Exit(w)
  /\ UNCHANGED <<recycled, token, judged, attempt, misfired>>

(* SIGKILL: nothing is released and the command's children live on.        *)
Kill(w) ==
  /\ w \in running
  /\ running' = running \ {w}
  /\ Forget(w) /\ Again(w, 1)
  /\ UNCHANGED <<file, recycled, token, pc, misfired>>

Recycle(w) ==
  /\ pc[w] # "off" /\ w \notin running \cup recycled
  /\ recycled' = recycled \cup {w}
  /\ UNCHANGED <<file, running, token, pc, judged, attempt, misfired>>

Next == \E w \in Wrappers :
  \/ Start(w) \/ Inherit(w) \/ Probe(w) \/ Create(w) \/ Read(w) \/ Judge(w)
  \/ Recheck(w) \/ Unlink(w) \/ Wait(w) \/ CommandEnds(w) \/ Release(w)
  \/ Drop(w) \/ Kill(w) \/ Recycle(w)

Spec == Init /\ [][Next]_vars

-----------------------------------------------------------------------------
(* Every variable keeps its type.                                          *)
BuildTypeOK ==
  /\ file \in Wrappers \cup {NoWrapper}
  /\ running \subseteq Wrappers /\ recycled \subseteq Wrappers
  /\ token \in [Wrappers -> Wrappers \cup {NoWrapper}]
  /\ pc \in [Wrappers -> {"off", "inherit", "probe", "create", "read", "judge", "recheck",
                          "unlink", "wait", "run", "release", "drop", "done"}]
  /\ judged \in [Wrappers -> Wrappers \cup {NoWrapper}]
  /\ attempt \in [Wrappers -> {1, 2}]
  /\ misfired \in BOOLEAN

Holds(w) == w \in running /\ token[w] = w /\ pc[w] \in {"run", "release", "drop"}

(* breakLock, release: two wrappers that acquired are never both inside    *)
(* their commands, unless a break has hit the window between its re-read   *)
(* and its unlink, the only one the script leaves open.                    *)
OneHold ==
  misfired \/ \A v, w \in Wrappers : Holds(v) /\ Holds(w) => v = w

(* inheritedHold: a nested wrapper runs without acquiring only under a     *)
(* hold that is in force at that moment, never on a token that outlived    *)
(* the hold it named.                                                      *)
InheritsLiveHold ==
  [][\A w \in Wrappers :
       pc[w] # "run" /\ pc'[w] = "run" /\ token'[w] # w =>
         misfired \/ (token'[w] \in running /\ file = token'[w])]_vars
=============================================================================
