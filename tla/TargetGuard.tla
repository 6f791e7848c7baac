---------------------------- MODULE TargetGuard -----------------------------
(***************************************************************************)
(* The guard every mutation of an instance passes (guard/targetGuard.ts).  *)
(* An instance is classified once per role, from the configuration and a   *)
(* read-only probe, while other callers may ask for the same class; a      *)
(* write is let through on a class this guard has issued, under an         *)
(* override only with the override on the ledger.                          *)
(***************************************************************************)
EXTENDS Naturals

CONSTANTS
  Hosts,
  NonProdAllowlist, ProdInstances,  \* the configuration
  NamedProd,                        \* hosts whose name carries a prod marker
  MaxAsks                           \* bound: classify calls

Roles == {"source", "runner", "target"}
Keys == Hosts \X Roles
Ack == [reason : BOOLEAN, surface : {"cli", "mcp"}, humanConfirmed : BOOLEAN]
NoAck == [reason |-> FALSE, surface |-> "none", humanConfirmed |-> FALSE]

VARIABLES
  acknowledgeProd,  \* the override of this run
  audit,            \* does the guard have a run id and a ledger sink
  asked,            \* classify calls so far
  probing,          \* probes on their way
  said,             \* history: what the probes for each key have answered
  cls,              \* the class issued for each key, "none" before
  journalled,       \* keys whose override this guard has journalled
  ledger,           \* overrides that are on the ledger
  writes            \* writes let through, with what was on the ledger then

vars == <<acknowledgeProd, audit, asked, probing, said, cls, journalled, ledger, writes>>

Init ==
  /\ acknowledgeProd \in Ack \cup {NoAck}
  /\ audit \in BOOLEAN
  /\ asked = 0
  /\ probing = [k \in Keys |-> 0]
  /\ said = [k \in Keys |-> {}]
  /\ cls = [k \in Keys |-> "none"]
  /\ journalled = {} /\ ledger = {} /\ writes = {}

-----------------------------------------------------------------------------
(* computeClassification: what the configuration settles alone; a host     *)
(* declared prod stays so when it is allowlisted too.                      *)
Declared(h) == IF h \in ProdInstances THEN "prod"
               ELSE IF h \in NonProdAllowlist THEN "allowlisted" ELSE "unknown"

(* Heuristics only downgrade; a probe that fails warns.                    *)
ClassOf(h, answer) ==
  IF h \in NamedProd \/ answer = "downgrade" THEN "prod-suspect" ELSE "sub-prod"

(* Faulty variant: only finished classifications are remembered.           *)
SharedOnceKnown(k) == cls[k] # "none"

(* classify: concurrent callers share one probe and one pinned result.     *)
Shared(k) == probing[k] > 0 \/ cls[k] # "none"

Classify(k) ==
  /\ asked < MaxAsks
  /\ asked' = asked + 1
  /\ \/ Shared(k) /\ UNCHANGED <<probing, cls>>
     \/ /\ ~Shared(k) /\ Declared(k[1]) = "allowlisted"
        /\ probing' = [probing EXCEPT ![k] = @ + 1] /\ UNCHANGED cls
     \/ /\ ~Shared(k) /\ Declared(k[1]) # "allowlisted"
        /\ cls' = [cls EXCEPT ![k] = Declared(k[1])] /\ UNCHANGED probing
  /\ UNCHANGED <<acknowledgeProd, audit, said, journalled, ledger, writes>>

Answer(k, answer) ==
  /\ probing[k] > 0
  /\ probing' = [probing EXCEPT ![k] = @ - 1]
  /\ said' = [said EXCEPT ![k] = @ \cup {answer}]
  /\ cls' = [cls EXCEPT ![k] = ClassOf(k[1], answer)]
  /\ UNCHANGED <<acknowledgeProd, audit, asked, journalled, ledger, writes>>

-----------------------------------------------------------------------------
(* overrideProblem: a reason, and for one that came by MCP a human.        *)
Usable(ack) ==
  /\ ack # NoAck /\ ack.reason
  /\ ack.surface = "mcp" => ack.humanConfirmed

(* authorizeSuspect and journalOverride, when they return ...              *)
Journal(k) ==
  /\ Usable(acknowledgeProd)
  /\ k \in journalled \/ audit
  /\ journalled' = journalled \cup {k}
  /\ ledger' = IF k \in journalled THEN ledger ELSE ledger \cup {k}

(* ... and when the ledger throws, with the entry written or not.          *)
FailToJournal(k) ==
  /\ k[2] = "runner" /\ cls[k] = "prod-suspect"
  /\ Usable(acknowledgeProd) /\ audit /\ k \notin journalled
  /\ ledger' = ledger \cup {k}
  /\ UNCHANGED <<acknowledgeProd, audit, asked, probing, said, cls, journalled, writes>>

(* assertRunnerWritable, before the adapters are built.                    *)
AssertRunnerWritable(k) ==
  /\ k[2] = "runner" /\ cls[k] = "prod-suspect"
  /\ Journal(k)
  /\ UNCHANGED <<acknowledgeProd, audit, asked, probing, said, cls, writes>>

(* assertWrite, where it returns; everywhere else it throws and changes    *)
(* nothing.                                                                *)
AssertWrite(k) ==
  /\ k[2] = "runner"
  /\ \/ cls[k] = "sub-prod" /\ UNCHANGED <<journalled, ledger>>
     \/ cls[k] = "prod-suspect" /\ Journal(k)
  /\ writes' = writes \cup {[key |-> k, covered |-> k \in ledger']}
  /\ UNCHANGED <<acknowledgeProd, audit, asked, probing, said, cls>>

Next ==
  \E k \in Keys :
    \/ Classify(k)
    \/ \E answer \in {"clean", "downgrade", "warning"} : Answer(k, answer)
    \/ FailToJournal(k) \/ AssertRunnerWritable(k) \/ AssertWrite(k)

Spec == Init /\ [][Next]_vars

-----------------------------------------------------------------------------
(* No mutation reaches a host the configuration has not cleared, nor any   *)
(* role but the runner; and where anything ever said of that runner it     *)
(* looks like production, however many callers asked for its class at      *)
(* once, a usable override was on the ledger before the write.             *)
WritesCleared ==
  \A w \in writes :
    LET h == w.key[1] IN
    /\ w.key[2] = "runner"
    /\ h \in NonProdAllowlist \ ProdInstances
    /\ h \in NamedProd \/ "downgrade" \in said[w.key] =>
         w.covered /\ Usable(acknowledgeProd)
=============================================================================
