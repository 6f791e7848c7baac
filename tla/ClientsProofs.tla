---------------------------- MODULE ClientsProofs ----------------------------
(***************************************************************************)
(* What is proved of the clients of an instance, one section for each: the *)
(* REST client, the ATF runner and the results it reads, the target guard, *)
(* the provisioner, the verdict and the state sync.  Each has an inductive *)
(* invariant of its own, which a step of Clients keeps while that client   *)
(* is the one that runs.                                                   *)
(***************************************************************************)
EXTENDS Clients, FiniteSetTheorems, WellFoundedInduction, TLAPS

(* One client runs, and it stays the same.                                 *)
LEMMA OneAtATime ==
  ASSUME [Next]_vars
  PROVE  /\ which' = which
         /\ which = "rest" => Rest!Next \/ UNCHANGED restVars
         /\ which = "atf" => Atf!Next \/ UNCHANGED atfVars
         /\ which = "results" => ReadResults \/ UNCHANGED resultVars
         /\ which = "guard" => Guard!Next \/ UNCHANGED guardVars
         /\ which = "setup" => Setup!Next \/ UNCHANGED setupVars
         /\ which = "gate" => Gate!Next \/ UNCHANGED gateVars
         /\ which = "sync" => Sync!Next \/ UNCHANGED syncVars
BY DEF Next, vars, RestStep, AtfStep, ResultStep, GuardStep, SetupStep, GateStep, SyncStep

LEMMA Least == ASSUME NEW S \in SUBSET Nat, S # {} PROVE \E m \in S : \A k \in S : m <= k
<1>1. OpToRel(<, Nat) = {ss \in Nat \X Nat : ss[1] < ss[2]}
  BY DEF OpToRel
<1>2. PICK m \in S : \A k \in S : <<k, m>> \notin OpToRel(<, Nat)
  BY NatLessThanWellFounded, WFMin
<1>3. \A k \in S : ~(k < m)
  BY <1>1, <1>2
<1> QED BY <1>3

-----------------------------------------------------------------------------
(***************************************************************************)
(* What the client keeps.  Attempts, answers and slots are not counted.    *)
(***************************************************************************)
Locals == [pc : {"token", "join", "slot", "queued", "sent", "answered", "body",
                 "done", "failed"},
           attempt : Nat, retried401 : BOOLEAN, token : Rest!Flights \cup {Rest!NoToken},
           rejected : SUBSET Rest!Flights, answer : Rest!Outcome]

FlightTypeOK ==
  /\ cached \in Rest!Flights \cup {Rest!NoToken}
  /\ inFlight \in Rest!Flights \cup {Rest!NoToken}
  /\ generation \in Nat /\ upsets \in Nat
  /\ flight \in [Rest!Flights -> [state : {"unsent", "sent", "granted", "landed", "failed"},
                                  generation : Nat]]
  /\ dead \subseteq Rest!Flights

CallTypeOK ==
  /\ call \in [Calls -> Locals] /\ waiters \in Seq(Calls)
  /\ applied \in [Calls -> Nat] /\ journalled \in [Calls -> Nat]

Landed == {f \in Rest!Flights : flight[f].state = "landed"}
Airborne == {f \in Rest!Flights : flight[f].state \in {"sent", "granted"}}
Made == Landed \cup Airborne

(* The cache and the map of flights are of the present credentials, and    *)
(* never both in use.                                                      *)
CacheOK ==
  /\ cached # Rest!NoToken => cached \in Landed /\ flight[cached].generation = generation
  /\ inFlight # Rest!NoToken =>
       /\ cached = Rest!NoToken /\ inFlight \in Airborne
       /\ flight[inFlight].generation = generation
  /\ \A f \in Airborne : flight[f].generation = generation => f = inFlight
  /\ \A f \in Rest!Flights : flight[f].generation <= generation
  /\ \A f \in dead : flight[f].state \notin {"unsent", "sent"}

(* A request for a token is only made where neither the cache nor a flight *)
(* has one that still counts, and only an upset or a failure brings that   *)
(* about.                                                                  *)
Starving ==
  /\ cached = Rest!NoToken \/ cached \in dead
  /\ inFlight = Rest!NoToken \/ inFlight \in dead

Thrifty ==
  /\ Cardinality(Made) <= 1 + upsets
  /\ Starving => Cardinality(Made) <= upsets

Bearing == {"slot", "queued", "sent", "answered"}
Turned(c) == call[c].pc = "answered" /\ call[c].answer = "unauthorized"

(* No call is sent twice with a token that was turned down.                *)
CallOK(c) ==
  /\ call[c].pc = "join" => call[c].token \in Airborne
  /\ call[c].pc \in Bearing => call[c].token \in Landed
  /\ ~Rest!Ended(c) => call[c].rejected \subseteq Landed
  /\ Turned(c) =>
       /\ call[c].token \in dead \cap call[c].rejected
       /\ cached \notin call[c].rejected \ {call[c].token}
       /\ call[c].retried401 => call[c].rejected # {call[c].token}
  /\ ~Rest!Ended(c) /\ ~Turned(c) =>
       /\ cached \notin call[c].rejected
       /\ call[c].retried401 => call[c].rejected # {}
       /\ call[c].pc \in Bearing => call[c].token \notin call[c].rejected
  /\ call[c].pc = "failed" /\ call[c].answer = "unauthorized" =>
       \E s, t \in call[c].rejected : s # t

(* What is known of a write by the time its body is read.                  *)
Entered(c) == applied[c] = 1 /\ (journalled[c] = 1 \/ c \in warned)

(* A write is sent again only where it was not applied, and is entered in  *)
(* the journal on the one way that leads to its body.                      *)
WriteOK(c) ==
  /\ applied[c] \in {0, 1} /\ journalled[c] \in {0, applied[c]}
  /\ call[c].pc \in {"token", "join", "slot", "queued", "sent"} => applied[c] = 0
  /\ call[c].pc \notin {"body", "done", "failed"} => journalled[c] = 0 /\ c \notin warned
  /\ call[c].pc = "answered" => call[c].answer \in Rest!Answer
  /\ call[c].pc = "answered" /\ call[c].answer = "ok" => applied[c] = 1
  /\ call[c].pc \in {"answered", "failed"} /\ applied[c] = 1 =>
       call[c].answer \in {"ok", "lost", "refused", "unread"}
  /\ call[c].pc \in {"body", "done"} => Entered(c)
  /\ call[c].pc = "failed" => IF call[c].answer = "unread" THEN Entered(c)
                              ELSE journalled[c] = 0 /\ c \notin warned

WaitersOK ==
  /\ \A i \in DOMAIN waiters : call[waiters[i]].pc = "queued"
  /\ \A i, j \in DOMAIN waiters : waiters[i] = waiters[j] => i = j

CallsOK == /\ \A c \in Calls : CallOK(c)
           /\ \A c \in Writers : WriteOK(c)

RestInv == FlightTypeOK /\ CallTypeOK /\ CacheOK /\ Thrifty /\ CallsOK /\ WaitersOK

-----------------------------------------------------------------------------
(* What becomes of a call depends on its locals, on tokens that have       *)
(* landed, which stay landed and dead, and on a cache that takes up none   *)
(* of these again.                                                         *)
Onward ==
  /\ Landed \subseteq Landed'
  /\ cached' \in {cached, Rest!NoToken} \/ cached' \notin Landed
  /\ dead \cap Landed \subseteq dead'

LEMMA OnwardKeepsCall ==
  ASSUME FlightTypeOK, CallTypeOK, Onward, NEW c \in Calls, CallOK(c), call'[c] = call[c],
         call[c].pc = "join" => call[c].token \in Airborne'
  PROVE  CallOK(c)'
<1>1. Rest!NoToken \notin Landed
  BY DEF Landed, Rest!Flights, Rest!NoToken
<1> QED
  BY <1>1 DEF Onward, CallOK, Turned, Rest!Ended, Rest!At, Bearing, CallTypeOK, Locals

LEMMA StillKeepsWrite ==
  ASSUME NEW c, WriteOK(c), call'[c] = call[c], applied'[c] = applied[c],
         journalled'[c] = journalled[c], c \in warned' <=> c \in warned
  PROVE  WriteOK(c)'
BY DEF WriteOK, Entered

LEMMA FlightsFinite == IsFiniteSet(Made) /\ Cardinality(Made) \in Nat
<1>1. IsFiniteSet(Rest!Flights)
  BY RestAssumption, FS_Interval DEF Rest!Flights
<1>2. Made \subseteq Rest!Flights
  BY DEF Made, Landed, Airborne
<1> QED BY <1>1, <1>2, FS_Subset, FS_CardinalityType

(* Steps that leave tokens alone.                                          *)
TokensStill == UNCHANGED <<cached, inFlight, generation, flight, dead, upsets>>

LEMMA TokensStillKeep ==
  ASSUME FlightTypeOK, CacheOK, Thrifty, TokensStill
  PROVE  /\ FlightTypeOK' /\ CacheOK' /\ Thrifty' /\ Onward
         /\ Landed' = Landed /\ Airborne' = Airborne
BY DEF TokensStill, FlightTypeOK, CacheOK, Thrifty, Onward, Landed, Airborne, Made, Starving

(* One call goes on while the others stay.                                 *)
LEMMA OneCallMoves ==
  ASSUME FlightTypeOK, CallTypeOK, CallsOK, Onward, NEW c \in Calls,
         \A d \in Calls : call[d].pc = "join" /\ d # c => call[d].token \in Airborne',
         \A d \in Calls : d # c => /\ call'[d] = call[d] /\ applied'[d] = applied[d]
                                   /\ journalled'[d] = journalled[d]
                                   /\ d \in warned' <=> d \in warned,
         CallOK(c)', c \in Writers => WriteOK(c)'
  PROVE  CallsOK'
<1>1. ASSUME NEW d \in Calls, d # c PROVE CallOK(d)'
  BY <1>1, OnwardKeepsCall DEF CallsOK
<1>2. ASSUME NEW d \in Writers, d # c PROVE WriteOK(d)'
  BY <1>2, StillKeepsWrite, RestAssumption DEF CallsOK
<1> QED BY <1>1, <1>2 DEF CallsOK

LEMMA WaitersStay ==
  ASSUME WaitersOK, CallTypeOK, waiters' = waiters,
         \A d \in Calls : call[d].pc = "queued" => call'[d].pc = "queued"
  PROVE  WaitersOK'
BY DEF WaitersOK, CallTypeOK

-----------------------------------------------------------------------------
LEMMA LocalsMove ==
  ASSUME NEW l \in Locals,
         NEW next \in {"token", "join", "slot", "queued", "sent", "answered", "body", "done",
                       "failed"}
  PROVE  /\ [l EXCEPT !.pc = next] \in Locals
         /\ \A f \in Rest!Flights : [l EXCEPT !.pc = next, !.token = f] \in Locals
  BY DEF Locals

LEMMA OthersKeepLocals ==
  ASSUME call \in [Calls -> Locals], NEW c \in Calls, NEW l \in Locals
  PROVE  [call EXCEPT ![c] = l] \in [Calls -> Locals]
  OBVIOUS

LEMMA RestInit == Rest!Init => RestInv
<1> SUFFICES ASSUME Rest!Init PROVE RestInv
  OBVIOUS
<1>0. 1 \in Rest!Flights /\ Rest!NoToken = 0 /\ Rest!Flights \subseteq Nat
      /\ Rest!NoToken \notin Rest!Flights
  BY RestAssumption DEF Rest!Flights, Rest!NoToken
<1>1. FlightTypeOK
  BY <1>0 DEF Rest!Init, FlightTypeOK
<1>2. CallTypeOK
  BY <1>0 DEF Rest!Init, CallTypeOK, Locals, Rest!Begun, Rest!Outcome, Rest!Answer
<1>3. Landed = {1} /\ Airborne = {}
  BY <1>0 DEF Rest!Init, Landed, Airborne
<1>4. CacheOK
  BY <1>0, <1>3 DEF Rest!Init, CacheOK
<1>5. Thrifty
  <2>1. Made = {1} /\ upsets = 1
    BY <1>3 DEF Made, Rest!Init
  <2>2. Cardinality(Made) = 1
    <3>1. Cardinality({1}) = 1
      BY FS_Singleton
    <3> QED BY <2>1, <3>1
  <2> QED BY <2>1, <2>2 DEF Thrifty
<1>6. CallsOK
  <2>1. \A c \in Calls : /\ call[c] = Rest!Begun /\ applied[c] = 0 /\ journalled[c] = 0
                         /\ c \notin warned
                         /\ Rest!Begun.rejected = {} /\ Rest!Begun.pc = "token"
                         /\ Rest!Begun.retried401 = FALSE
    BY DEF Rest!Init, Rest!Begun
  <2>2. \A c \in Calls : CallOK(c) /\ WriteOK(c)
    BY <2>1 DEF CallOK, WriteOK, Turned, Bearing, Rest!Ended
  <2> QED BY <2>2, RestAssumption DEF CallsOK
<1>7. WaitersOK
  BY DEF Rest!Init, WaitersOK
<1> QED BY <1>1, <1>2, <1>4, <1>5, <1>6, <1>7 DEF RestInv

(* Calls that read the cache, join a flight, take or await a slot.         *)
LEMMA WaitingKeeps ==
  ASSUME RestInv, NEW c \in Calls,
         Rest!UseCached(c) \/ Rest!JoinFlight(c) \/ Rest!TakeSlot(c)
  PROVE  RestInv'
<1> USE DEF RestInv
<1>1. PICK next \in {"slot", "join", "sent"} : \E token \in Rest!Flights :
        /\ call[c].pc \in {"token", "slot"}
        /\ call' = [call EXCEPT ![c].pc = next, ![c].token = token]
        /\ next = "join" => token \in Airborne
        /\ next \in {"slot", "sent"} => token \in Landed /\ token \notin call[c].rejected
        /\ UNCHANGED <<waiters, cached, inFlight, generation, flight, dead, upsets,
                       applied, journalled, warned>>
  <2> USE DEF Rest!client, Rest!instance, Rest!journal, Rest!At
  <2>0. call[c] \in Locals /\ CallOK(c) /\ call \in [Calls -> Locals]
    BY DEF CallTypeOK, CallsOK
  <2>1. CASE Rest!UseCached(c)
    <3>1. cached \in Landed /\ cached \in Rest!Flights /\ cached \notin call[c].rejected
      BY <2>0, <2>1 DEF Rest!UseCached, CacheOK, CallOK, Landed, Rest!Ended, Turned
    <3> QED BY <2>1, <3>1 DEF Rest!UseCached
  <2>2. CASE Rest!JoinFlight(c)
    <3>1. inFlight \in Airborne /\ inFlight \in Rest!Flights
      BY <2>2 DEF Rest!JoinFlight, CacheOK, Airborne
    <3> QED BY <2>2, <3>1 DEF Rest!JoinFlight
  <2>3. CASE Rest!TakeSlot(c)
    <3>1. call[c].token \in Landed /\ call[c].token \in Rest!Flights
          /\ call[c].token \notin call[c].rejected
      BY <2>0, <2>3 DEF Rest!TakeSlot, CallOK, Bearing, Landed, Rest!Ended, Turned
    <3>2. call' = [call EXCEPT ![c].pc = "sent", ![c].token = call[c].token]
      BY <2>0, <2>3 DEF Rest!TakeSlot, Locals
    <3> QED BY <2>3, <3>1, <3>2 DEF Rest!TakeSlot
  <2> QED BY <2>1, <2>2, <2>3
<1>2. PICK token \in Rest!Flights :
        /\ call[c].pc \in {"token", "slot"}
        /\ call' = [call EXCEPT ![c].pc = next, ![c].token = token]
        /\ next = "join" => token \in Airborne
        /\ next \in {"slot", "sent"} => token \in Landed /\ token \notin call[c].rejected
        /\ UNCHANGED <<waiters, cached, inFlight, generation, flight, dead, upsets,
                       applied, journalled, warned>>
  BY <1>1
<1>3. CallTypeOK'
  <2>1. call[c] \in Locals /\ call \in [Calls -> Locals]
    BY DEF CallTypeOK
  <2>2. [call[c] EXCEPT !.pc = next, !.token = token] \in Locals
    BY <2>1, LocalsMove
  <2>3. call' = [call EXCEPT ![c] = [call[c] EXCEPT !.pc = next, !.token = token]]
    BY <1>2, <2>1 DEF Locals
  <2>4. call' \in [Calls -> Locals]
    BY <2>1, <2>2, <2>3, OthersKeepLocals
  <2> QED BY <1>2, <2>4 DEF CallTypeOK
<1>4. FlightTypeOK' /\ CacheOK' /\ Thrifty' /\ Onward /\ Landed' = Landed /\ Airborne' = Airborne
  BY <1>2, TokensStillKeep DEF TokensStill
<1>5. call'[c] = [call[c] EXCEPT !.pc = next, !.token = token]
      /\ \A d \in Calls : d # c => call'[d] = call[d]
  BY <1>2 DEF CallTypeOK
<1>6. CallOK(c)'
  <2>1. call[c] \in Locals /\ CallOK(c)
    BY DEF CallTypeOK, CallsOK
  <2>2. /\ call'[c].pc = next /\ call'[c].token = token
        /\ call'[c].rejected = call[c].rejected /\ call'[c].retried401 = call[c].retried401
    BY <1>5, <2>1 DEF Locals
  <2>3. /\ ~Rest!Ended(c) /\ ~Turned(c) /\ ~Rest!Ended(c)' /\ ~Turned(c)'
    BY <1>2, <2>2 DEF Turned, Rest!Ended
  <2>4. /\ call'[c].rejected \subseteq Landed' /\ cached' \notin call'[c].rejected
        /\ call'[c].retried401 => call'[c].rejected # {}
    BY <1>2, <1>4, <2>1, <2>2, <2>3 DEF CallOK
  <2>5. /\ call'[c].pc = "join" => call'[c].token \in Airborne'
        /\ call'[c].pc \in Bearing => call'[c].token \in Landed'
                                     /\ call'[c].token \notin call'[c].rejected
    BY <1>2, <1>4, <2>2 DEF Bearing
  <2>6. call'[c].pc # "failed"
    BY <1>2, <2>2
  <2> QED BY <2>3, <2>4, <2>5, <2>6 DEF CallOK
<1>7. c \in Writers => WriteOK(c)'
  <2>1. c \in Writers => WriteOK(c)
    BY DEF CallsOK
  <2>2. call'[c].pc = next
    BY <1>5 DEF CallTypeOK, Locals
  <2> QED BY <1>2, <2>1, <2>2 DEF WriteOK
<1>8. CallsOK'
  <2>1. \A d \in Calls : call[d].pc = "join" => call[d].token \in Airborne'
    BY <1>4 DEF CallsOK, CallOK
  <2> QED BY <1>2, <1>4, <1>5, <1>6, <1>7, <2>1, OneCallMoves
<1>9. WaitersOK'
  BY <1>2, <1>5, WaitersStay
<1> QED BY <1>3, <1>4, <1>8, <1>9

LEMMA AwaitSlotKeeps ==
  ASSUME RestInv, NEW c \in Calls, Rest!AwaitSlot(c) PROVE RestInv'
<1> USE DEF RestInv
<1>1. /\ call[c].pc = "slot" /\ waiters' = Append(waiters, c)
      /\ call' = [call EXCEPT ![c].pc = "queued"]
      /\ TokensStill /\ UNCHANGED <<applied, journalled, warned>>
  BY DEF Rest!AwaitSlot, Rest!At, Rest!client, Rest!instance, Rest!journal, TokensStill
<1>2. /\ call[c] \in Locals /\ CallOK(c) /\ waiters \in Seq(Calls)
      /\ call'[c] = [call[c] EXCEPT !.pc = "queued"]
      /\ \A d \in Calls : d # c => call'[d] = call[d]
  BY <1>1 DEF CallTypeOK, CallsOK
<1>3. /\ call'[c].pc = "queued" /\ call'[c].token = call[c].token
      /\ call'[c].rejected = call[c].rejected /\ call'[c].retried401 = call[c].retried401
      /\ call'[c] \in Locals
  BY <1>2 DEF Locals
<1>4. CallTypeOK'
  <2>1. waiters' \in Seq(Calls)
    BY <1>1, <1>2
  <2>2. [call[c] EXCEPT !.pc = "queued"] \in Locals
    BY <1>2, LocalsMove
  <2>3. call \in [Calls -> Locals] /\ call' = [call EXCEPT ![c] = [call[c] EXCEPT !.pc = "queued"]]
    BY <1>1 DEF CallTypeOK
  <2>4. call' \in [Calls -> Locals]
    BY <2>2, <2>3, OthersKeepLocals
  <2> QED BY <1>1, <2>1, <2>4 DEF CallTypeOK
<1>5. FlightTypeOK' /\ CacheOK' /\ Thrifty' /\ Onward /\ Landed' = Landed /\ Airborne' = Airborne
  BY <1>1, TokensStillKeep
<1>6. CallOK(c)'
  BY <1>1, <1>2, <1>3, <1>5 DEF TokensStill, CallOK, Turned, Bearing, Rest!Ended
<1>7. c \in Writers => WriteOK(c)'
  <2> SUFFICES ASSUME c \in Writers PROVE WriteOK(c)'
    OBVIOUS
  <2>1. WriteOK(c)
    BY DEF CallsOK
  <2> QED BY <1>1, <1>3, <2>1 DEF WriteOK
<1>8. CallsOK'
  <2>1. \A d \in Calls : call[d].pc = "join" => call[d].token \in Airborne'
    BY <1>5 DEF CallsOK, CallOK
  <2> QED BY <1>1, <1>2, <1>5, <1>6, <1>7, <2>1, OneCallMoves
<1>9. WaitersOK'
  <2>1. /\ DOMAIN waiters' = 1 .. Len(waiters) + 1 /\ Len(waiters) \in Nat
        /\ DOMAIN waiters = 1 .. Len(waiters)
        /\ \A i \in DOMAIN waiters : waiters'[i] = waiters[i] /\ waiters[i] \in Calls
        /\ waiters'[Len(waiters) + 1] = c
    BY <1>1, <1>2
  <2>2. \A i \in DOMAIN waiters : waiters[i] # c
    BY <1>1 DEF WaitersOK
  <2>3. \A i \in DOMAIN waiters' : i \in DOMAIN waiters \/ i = Len(waiters) + 1
    BY <2>1
  <2>4. ASSUME NEW i \in DOMAIN waiters' PROVE call'[waiters'[i]].pc = "queued"
    <3>1. CASE i = Len(waiters) + 1
      BY <1>3, <2>1, <3>1
    <3>2. CASE i \in DOMAIN waiters
      <4>1. waiters'[i] = waiters[i] /\ waiters[i] \in Calls /\ waiters[i] # c
        BY <2>1, <2>2, <3>2
      <4>2. call[waiters[i]].pc = "queued"
        BY <3>2 DEF WaitersOK
      <4> QED BY <1>2, <4>1, <4>2
    <3> QED BY <2>3, <3>1, <3>2
  <2>5. ASSUME NEW i \in DOMAIN waiters', NEW j \in DOMAIN waiters', waiters'[i] = waiters'[j]
        PROVE  i = j
    BY <2>1, <2>2, <2>3, <2>5 DEF WaitersOK
  <2> QED BY <2>4, <2>5 DEF WaitersOK
<1> QED BY <1>4, <1>5, <1>8, <1>9

(* A flight of one's own: one more token, and somebody to wait for.        *)
LEMMA StartFlightKeeps ==
  ASSUME RestInv, NEW c \in Calls, Rest!StartFlight(c) PROVE RestInv'
<1> USE DEF RestInv
<1>1. PICK f \in Rest!Flights :
        /\ flight[f].state = "unsent"
        /\ flight' = [flight EXCEPT ![f] = [state |-> "sent", generation |-> generation]]
        /\ inFlight' = f
        /\ call' = [call EXCEPT ![c].pc = "join", ![c].token = f]
  BY DEF Rest!StartFlight, Rest!Sent
<1>2. /\ call[c].pc = "token" /\ cached = Rest!NoToken /\ inFlight = Rest!NoToken
      /\ UNCHANGED <<waiters, cached, generation, dead, upsets, applied, journalled, warned>>
  BY DEF Rest!StartFlight, Rest!At, Rest!instance, Rest!journal
<1>3. f # Rest!NoToken /\ Rest!NoToken \notin Rest!Flights
  BY DEF Rest!Flights, Rest!NoToken
<1>4. FlightTypeOK' /\ CallTypeOK'
  <2>1. call' \in [Calls -> Locals]
    <3>1. call \in [Calls -> Locals] /\ call[c] \in Locals
      BY DEF CallTypeOK
    <3>2. [call[c] EXCEPT !.pc = "join", !.token = f] \in Locals
      BY <3>1, LocalsMove
    <3>3. call' = [call EXCEPT ![c] = [call[c] EXCEPT !.pc = "join", !.token = f]]
      BY <1>1, <3>1 DEF Locals
    <3> QED BY <3>1, <3>2, <3>3, OthersKeepLocals
  <2>2. [state |-> "sent", generation |-> generation]
          \in [state : {"unsent", "sent", "granted", "landed", "failed"}, generation : Nat]
    BY DEF FlightTypeOK
  <2>3. flight' \in [Rest!Flights -> [state : {"unsent", "sent", "granted", "landed", "failed"},
                                     generation : Nat]]
    BY <1>1, <2>2 DEF FlightTypeOK
  <2> QED BY <1>1, <1>2, <2>1, <2>3 DEF FlightTypeOK, CallTypeOK
<1>5. Landed' = Landed /\ Airborne' = Airborne \cup {f} /\ f \notin Airborne /\ f \notin Landed
  BY <1>1, <1>4 DEF FlightTypeOK, Landed, Airborne
<1>6. CacheOK'
  <2>1. /\ flight'[f].state = "sent" /\ flight'[f].generation = generation
        /\ \A g \in Rest!Flights : g # f => flight'[g] = flight[g]
    BY <1>1 DEF FlightTypeOK
  <2>2. \A g \in Airborne : flight[g].generation # generation
    BY <1>2, <1>3 DEF CacheOK, Airborne
  <2>3. \A g \in Airborne' : flight'[g].generation = generation' => g = inFlight'
    BY <1>1, <1>2, <1>5, <2>1, <2>2 DEF Airborne
  <2>4. \A g \in Rest!Flights : flight'[g].generation <= generation'
    BY <1>2, <2>1 DEF CacheOK, FlightTypeOK
  <2>5. \A g \in dead' : flight'[g].state \notin {"unsent", "sent"}
    BY <1>1, <1>2, <2>1 DEF CacheOK, FlightTypeOK
  <2>6. cached' = Rest!NoToken /\ inFlight' = f /\ f \in Airborne'
        /\ flight'[f].generation = generation'
    BY <1>1, <1>2, <1>5, <2>1
  <2> QED BY <2>3, <2>4, <2>5, <2>6 DEF CacheOK
<1>7. Thrifty'
  <2>1. Starving
    BY <1>2 DEF Starving
  <2>2. Cardinality(Made') = Cardinality(Made) + 1
    <3>1. Made' = Made \cup {f} /\ f \notin Made
      BY <1>5 DEF Made
    <3> QED BY <3>1, FlightsFinite, FS_AddElement
  <2>3. ~Starving'
    <3>1. f \notin dead
      BY <1>1 DEF CacheOK
    <3> QED BY <1>1, <1>2, <1>3, <3>1 DEF Starving
  <2> QED BY <1>2, <2>1, <2>2, <2>3, FlightsFinite DEF Thrifty, FlightTypeOK
<1>8. Onward
  BY <1>2, <1>5 DEF Onward
<1>9. /\ call'[c].pc = "join" /\ call'[c].token = f
      /\ call'[c].rejected = call[c].rejected /\ call'[c].retried401 = call[c].retried401
      /\ \A d \in Calls : d # c => call'[d] = call[d]
  BY <1>1 DEF CallTypeOK, Locals
<1>10. CallOK(c)'
  BY <1>2, <1>5, <1>9 DEF CallsOK, CallOK, Turned, Bearing, Rest!Ended
<1>11. c \in Writers => WriteOK(c)'
  BY <1>2, <1>9 DEF CallsOK, WriteOK
<1>12. CallsOK'
  <2>1. \A d \in Calls : call[d].pc = "join" => call[d].token \in Airborne'
    BY <1>5 DEF CallsOK, CallOK
  <2> QED BY <1>2, <1>8, <1>9, <1>10, <1>11, <2>1, OneCallMoves
<1>13. WaitersOK'
  BY <1>2, <1>9, WaitersStay
<1> QED BY <1>4, <1>6, <1>7, <1>12, <1>13

(* The instance answers: 401 for dead tokens alone, nothing applied but by *)
(* a write that succeeds or whose answer is lost.                          *)
LEMMA ServeKeeps ==
  ASSUME RestInv, NEW c \in Calls, Rest!Serve(c) PROVE RestInv'
<1> USE DEF RestInv
<1>1. PICK a \in Rest!Answer, lands \in BOOLEAN :
        /\ a = "unauthorized" => call[c].token \in dead
        /\ a = "ok" => (lands <=> c \in Writers)
        /\ a \in {"unauthorized", "limited"} => ~lands
        /\ call' = [call EXCEPT ![c].pc = "answered", ![c].answer = a,
                      ![c].rejected = @ \cup IF a = "unauthorized"
                                             THEN {call[c].token} ELSE {}]
        /\ applied' = [applied EXCEPT ![c] = @ + IF lands THEN 1 ELSE 0]
  BY DEF Rest!Serve
<1>2. call[c].pc = "sent" /\ TokensStill /\ UNCHANGED <<waiters, journalled, warned>>
  BY DEF Rest!Serve, Rest!At, Rest!client, Rest!journal, TokensStill
<1>3. call[c] \in Locals /\ CallOK(c) /\ call[c].token \in Landed
      /\ Landed \subseteq Rest!Flights /\ applied[c] \in Nat
  BY <1>2 DEF CallTypeOK, CallsOK, CallOK, Bearing, Landed
<1> DEFINE more == IF a = "unauthorized" THEN {call[c].token} ELSE {}
<1>0. a \in Rest!Outcome
  BY DEF Rest!Outcome
<1>4. /\ call'[c].pc = "answered" /\ call'[c].answer = a /\ call'[c].token = call[c].token
      /\ call'[c].rejected = call[c].rejected \cup more
      /\ call'[c].retried401 = call[c].retried401
      /\ \A d \in Calls : d # c => call'[d] = call[d]
  BY <1>1, <1>3 DEF CallTypeOK, Locals
<1>5. CallTypeOK'
  <2>1. more \subseteq Rest!Flights
    BY <1>3
  <2>2. [call[c] EXCEPT !.pc = "answered", !.answer = a,
                        !.rejected = @ \cup more] \in Locals
    BY <1>0, <1>3, <2>1 DEF Locals
  <2>3. call' = [call EXCEPT ![c] = [call[c] EXCEPT !.pc = "answered", !.answer = a,
                                                    !.rejected = @ \cup more]]
    BY <1>1, <1>3 DEF CallTypeOK
  <2>4. applied' \in [Calls -> Nat]
    BY <1>1 DEF CallTypeOK
  <2> HIDE DEF more
  <2> QED BY <1>2, <2>2, <2>3, <2>4 DEF CallTypeOK
<1>6. FlightTypeOK' /\ CacheOK' /\ Thrifty' /\ Onward /\ Landed' = Landed /\ Airborne' = Airborne
  BY <1>2, TokensStillKeep
<1>7. CallOK(c)'
  <2>1. /\ ~Rest!Ended(c) /\ ~Turned(c) /\ ~Rest!Ended(c)'
        /\ Turned(c)' <=> a = "unauthorized"
    BY <1>2, <1>4 DEF Rest!Ended, Turned
  <2>2. /\ cached \notin call[c].rejected /\ call[c].rejected \subseteq Landed
        /\ call[c].retried401 => call[c].rejected # {}
        /\ call[c].token \notin call[c].rejected
    BY <1>2, <1>3, <2>1 DEF CallOK, Bearing
  <2>3. CASE a = "unauthorized"
    <3>0. /\ call'[c].token = call[c].token /\ dead' = dead /\ Landed' = Landed
          /\ call'[c].rejected = call[c].rejected \cup {call[c].token}
      BY <1>2, <1>4, <1>6, <2>3 DEF TokensStill
    <3>1. /\ call'[c].token \in dead' \cap call'[c].rejected
          /\ call'[c].token \in Landed' /\ call'[c].rejected \subseteq Landed'
      <4>1. call[c].token \in dead
        BY <1>1, <2>3
      <4> QED BY <1>3, <2>2, <3>0, <4>1
    <3>2. cached' \notin call'[c].rejected \ {call'[c].token}
      BY <1>2, <1>4, <2>2, <2>3 DEF TokensStill
    <3>3. call'[c].retried401 => call'[c].rejected # {call'[c].token}
      BY <1>4, <2>2, <2>3
    <3> QED BY <1>4, <2>1, <2>3, <3>1, <3>2, <3>3 DEF CallOK
  <2>4. CASE a # "unauthorized"
    BY <1>1, <1>2, <1>3, <1>4, <1>6, <2>1, <2>2, <2>4 DEF CallOK, TokensStill
  <2> QED BY <2>3, <2>4
<1>8. c \in Writers => WriteOK(c)'
  <2> SUFFICES ASSUME c \in Writers PROVE WriteOK(c)'
    OBVIOUS
  <2>1. applied[c] = 0 /\ journalled[c] = 0 /\ c \notin warned
    BY <1>2 DEF CallsOK, WriteOK
  <2>2. applied'[c] = IF lands THEN 1 ELSE 0
    BY <1>1, <2>1 DEF CallTypeOK
  <2>3. lands => a \in {"ok", "lost", "refused"}
    BY <1>1 DEF Rest!Answer
  <2> QED BY <1>1, <1>2, <1>4, <2>1, <2>2, <2>3 DEF WriteOK
<1>9. \A d \in Calls : d # c => applied'[d] = applied[d]
  BY <1>1 DEF CallTypeOK
<1>10. CallsOK'
  <2>1. \A d \in Calls : call[d].pc = "join" => call[d].token \in Airborne'
    BY <1>6 DEF CallsOK, CallOK
  <2> QED BY <1>2, <1>4, <1>6, <1>7, <1>8, <1>9, <2>1, OneCallMoves
<1>11. WaitersOK'
  BY <1>2, <1>4, WaitersStay
<1> QED BY <1>5, <1>6, <1>10, <1>11

(* A token on its way: only Landed, Airborne and who joined it matter.     *)
LEMMA GrantKeeps ==
  ASSUME RestInv, NEW f \in Rest!Flights, Rest!Grant(f) PROVE RestInv'
<1> USE DEF RestInv
<1>1. /\ flight[f].state = "sent" /\ flight' = [flight EXCEPT ![f].state = "granted"]
      /\ UNCHANGED <<call, waiters, cached, inFlight, generation, dead, upsets, applied,
                     journalled, warned>>
  BY DEF Rest!Grant, Rest!instance, Rest!journal
<1>2. /\ flight'[f].state = "granted" /\ flight'[f].generation = flight[f].generation
      /\ \A g \in Rest!Flights : g # f => flight'[g] = flight[g]
  BY <1>1 DEF FlightTypeOK
<1>3. FlightTypeOK' /\ CallTypeOK'
  BY <1>1 DEF FlightTypeOK, CallTypeOK
<1>4. Landed' = Landed /\ Airborne' = Airborne /\ Made' = Made
  BY <1>1, <1>2 DEF Landed, Airborne, Made
<1>5. CacheOK'
  <2>1. \A g \in Rest!Flights : flight'[g].generation = flight[g].generation
    BY <1>2
  <2>2. \A g \in dead : flight'[g].state \notin {"unsent", "sent"}
    BY <1>2 DEF CacheOK, FlightTypeOK
  <2> QED BY <1>1, <1>4, <2>1, <2>2 DEF CacheOK, FlightTypeOK, Airborne
<1>6. Thrifty'
  BY <1>1, <1>4 DEF Thrifty, Starving
<1>7. Onward
  BY <1>1, <1>4 DEF Onward
<1>8. CallsOK' /\ WaitersOK'
  <2>1. \A c \in Calls : CallOK(c)'
    BY <1>1, <1>4, <1>7, OnwardKeepsCall DEF CallsOK, CallOK
  <2>2. \A c \in Writers : WriteOK(c)'
    BY <1>1, StillKeepsWrite DEF CallsOK
  <2>3. WaitersOK'
    BY <1>1 DEF WaitersOK
  <2> QED BY <2>1, <2>2, <2>3 DEF CallsOK
<1> QED BY <1>3, <1>5, <1>6, <1>8

LEMMA LandKeeps ==
  ASSUME RestInv, NEW f \in Rest!Flights, Rest!Land(f) PROVE RestInv'
<1> USE DEF RestInv
<1>1. /\ flight[f].state = "granted" /\ flight' = [flight EXCEPT ![f].state = "landed"]
      /\ cached' = IF flight[f].generation = generation THEN f ELSE cached
      /\ inFlight' = IF inFlight = f THEN Rest!NoToken ELSE inFlight
      /\ UNCHANGED <<waiters, generation, dead, upsets, applied, journalled, warned>>
  BY DEF Rest!Land, Rest!instance, Rest!journal, Rest!Stored
<1>2. /\ flight'[f].state = "landed" /\ flight'[f].generation = flight[f].generation
      /\ \A g \in Rest!Flights : g # f => flight'[g] = flight[g]
  BY <1>1 DEF FlightTypeOK
<1>3. \A d \in Calls :
        call'[d] = IF call[d].pc = "join" /\ call[d].token = f
                   THEN [call[d] EXCEPT !.pc = "slot"] ELSE call[d]
  BY DEF Rest!Land, Rest!Joined, Rest!At
<1>4. f \in Airborne /\ f \notin Landed /\ f # Rest!NoToken /\ Rest!NoToken \notin Rest!Flights
  BY <1>1 DEF Airborne, Landed, Rest!Flights, Rest!NoToken
<1>5. Landed' = Landed \cup {f} /\ Airborne' = Airborne \ {f} /\ Made' = Made
  BY <1>1, <1>2, <1>4 DEF Landed, Airborne, Made
<1>6. \/ /\ flight[f].generation = generation /\ inFlight = f /\ cached = Rest!NoToken
         /\ cached' = f /\ inFlight' = Rest!NoToken
      \/ /\ flight[f].generation # generation /\ inFlight # f
         /\ cached' = cached /\ inFlight' = inFlight
  BY <1>1, <1>4 DEF CacheOK
<1>7. FlightTypeOK'
  BY <1>1 DEF FlightTypeOK
<1>8. CallTypeOK'
  <2>1. \A d \in Calls : call'[d] \in Locals
    BY <1>3, LocalsMove DEF CallTypeOK
  <2>2. call' = [d \in Calls |-> call'[d]]
    BY DEF Rest!Land
  <2> QED BY <1>1, <2>1, <2>2 DEF CallTypeOK
<1>9. CacheOK'
  <2>1. \A g \in Rest!Flights : flight'[g].generation = flight[g].generation
    BY <1>2
  <2>2. \A g \in dead : flight'[g].state \notin {"unsent", "sent"}
    BY <1>2 DEF CacheOK, FlightTypeOK
  <2>3. /\ \A g \in Airborne' : flight'[g].generation = generation' => g = inFlight'
        /\ cached' # Rest!NoToken =>
             cached' \in Landed' /\ flight'[cached'].generation = generation'
        /\ inFlight' # Rest!NoToken =>
             /\ cached' = Rest!NoToken /\ inFlight' \in Airborne'
             /\ flight'[inFlight'].generation = generation'
    <3>1. Airborne \subseteq Rest!Flights /\ Landed \subseteq Rest!Flights
      BY DEF Airborne, Landed
    <3> QED BY <1>1, <1>4, <1>5, <1>6, <2>1, <3>1 DEF CacheOK
  <2> QED BY <1>1, <2>1, <2>2, <2>3 DEF CacheOK
<1>10. Thrifty'
  <2>1. Starving' => Starving
    BY <1>1, <1>4, <1>6 DEF Starving
  <2> QED BY <1>1, <1>5, <2>1 DEF Thrifty
<1>11. Onward
  BY <1>1, <1>4, <1>5, <1>6 DEF Onward
<1>12. ASSUME NEW d \in Calls PROVE CallOK(d)'
  <2>1. CallOK(d) /\ call[d] \in Locals
    BY DEF CallsOK, CallTypeOK
  <2>2. CASE call[d].pc = "join" /\ call[d].token = f
    <3>1. call'[d] = [call[d] EXCEPT !.pc = "slot"]
      BY <1>3, <2>2
    <3>2. /\ call'[d].pc = "slot" /\ call'[d].token = f
          /\ call'[d].rejected = call[d].rejected /\ call'[d].retried401 = call[d].retried401
      BY <2>1, <2>2, <3>1 DEF Locals
    <3>3. /\ call[d].rejected \subseteq Landed /\ cached \notin call[d].rejected
          /\ call[d].retried401 => call[d].rejected # {}
      BY <2>1, <2>2 DEF CallOK, Rest!Ended, Turned
    <3>4. call[d].rejected \subseteq Landed' /\ cached' \notin call[d].rejected
          /\ f \notin call[d].rejected /\ f \in Landed'
      BY <1>4, <1>5, <1>6, <3>3
    <3> QED BY <3>2, <3>3, <3>4 DEF CallOK, Turned, Bearing, Rest!Ended
  <2>3. CASE ~(call[d].pc = "join" /\ call[d].token = f)
    <3>1. call'[d] = call[d]
      BY <1>3, <2>3
    <3>2. call[d].pc = "join" => call[d].token \in Airborne'
      BY <1>5, <2>1, <2>3 DEF CallOK
    <3> QED BY <1>11, <2>1, <3>1, <3>2, OnwardKeepsCall
  <2> QED BY <2>2, <2>3
<1>13. ASSUME NEW d \in Writers PROVE WriteOK(d)'
  <2>1. d \in Calls /\ WriteOK(d) /\ call[d] \in Locals
    BY RestAssumption DEF CallsOK, CallTypeOK
  <2>2. CASE call[d].pc = "join"
    <3>1. call'[d].pc \in {"join", "slot"}
      BY <1>3, <2>1, <2>2 DEF Locals
    <3> QED BY <1>1, <2>1, <2>2, <3>1 DEF WriteOK
  <2>3. CASE call[d].pc # "join"
    BY <1>1, <1>3, <2>1, <2>3, StillKeepsWrite
  <2> QED BY <2>2, <2>3
<1>14. WaitersOK'
  <2>1. \A d \in Calls : call[d].pc = "queued" => call'[d].pc = "queued"
    BY <1>3
  <2> QED BY <1>1, <2>1, WaitersStay
<1> QED BY <1>7, <1>8, <1>9, <1>10, <1>12, <1>13, <1>14 DEF CallsOK

LEMMA CrashKeeps ==
  ASSUME RestInv, NEW f \in Rest!Flights, Rest!Crash(f) PROVE RestInv'
<1> USE DEF RestInv
<1>1. /\ flight[f].state \in {"sent", "granted"}
      /\ flight' = [flight EXCEPT ![f] = [state |-> "failed", generation |-> 0]]
      /\ inFlight' = IF inFlight = f THEN Rest!NoToken ELSE inFlight
      /\ UNCHANGED <<waiters, cached, generation, dead, upsets, applied, journalled, warned>>
  BY DEF Rest!Crash, Rest!journal
<1>2. /\ flight'[f].state = "failed" /\ flight'[f].generation = 0
      /\ \A g \in Rest!Flights : g # f => flight'[g] = flight[g]
  BY <1>1 DEF FlightTypeOK
<1>3. \A d \in Calls :
        call'[d] = IF call[d].pc = "join" /\ call[d].token = f
                   THEN Rest!Returned(d, "failed", "refused") ELSE call[d]
  BY DEF Rest!Crash, Rest!Joined, Rest!At
<1>4. f \in Airborne /\ f \notin Landed /\ f # Rest!NoToken
  BY <1>1 DEF Airborne, Landed, Rest!Flights, Rest!NoToken
<1>5. Landed' = Landed /\ Airborne' = Airborne \ {f}
      /\ Made' = Made \ {f} /\ f \in Made
  BY <1>1, <1>2, <1>4 DEF Landed, Airborne, Made
<1>6. FlightTypeOK'
  BY <1>1 DEF FlightTypeOK
<1>7. \A d \in Calls : /\ Rest!Returned(d, "failed", "refused") \in Locals
                       /\ Rest!Returned(d, "failed", "refused").pc = "failed"
                       /\ Rest!Returned(d, "failed", "refused").answer = "refused"
  BY DEF Rest!Returned, Rest!Begun, Locals, Rest!Outcome, Rest!Answer
<1>8. CallTypeOK'
  <2>1. \A d \in Calls : call'[d] \in Locals
    BY <1>3, <1>7 DEF CallTypeOK
  <2>2. call' = [d \in Calls |-> call'[d]]
    BY DEF Rest!Crash
  <2> QED BY <1>1, <2>1, <2>2 DEF CallTypeOK
<1>9. CacheOK'
  <2>1. \A g \in Airborne' : flight'[g].generation = generation' => g = inFlight'
    BY <1>1, <1>2, <1>5 DEF CacheOK, Airborne
  <2>2. \A g \in Rest!Flights : flight'[g].generation <= generation'
    BY <1>1, <1>2 DEF CacheOK, FlightTypeOK
  <2>3. \A g \in dead' : flight'[g].state \notin {"unsent", "sent"}
    BY <1>1, <1>2 DEF CacheOK, FlightTypeOK
  <2>4. cached' # Rest!NoToken =>
          cached' \in Landed' /\ flight'[cached'].generation = generation'
    BY <1>1, <1>2, <1>4, <1>5 DEF CacheOK, Landed
  <2>5. inFlight' # Rest!NoToken =>
          /\ cached' = Rest!NoToken /\ inFlight' \in Airborne'
          /\ flight'[inFlight'].generation = generation'
    BY <1>1, <1>2, <1>5 DEF CacheOK, Airborne
  <2> QED BY <2>1, <2>2, <2>3, <2>4, <2>5 DEF CacheOK
<1>10. Thrifty'
  <2>1. Cardinality(Made') = Cardinality(Made) - 1
    BY <1>5, FlightsFinite, FS_RemoveElement
  <2> QED BY <1>1, <2>1, FlightsFinite DEF Thrifty, FlightTypeOK
<1>11. Onward
  BY <1>1, <1>5 DEF Onward
<1>12. ASSUME NEW d \in Calls PROVE CallOK(d)'
  <2>1. CallOK(d) /\ call[d] \in Locals
    BY DEF CallsOK, CallTypeOK
  <2>2. CASE call[d].pc = "join" /\ call[d].token = f
    BY <1>3, <1>7, <2>2 DEF CallOK, Turned, Bearing, Rest!Ended
  <2>3. CASE ~(call[d].pc = "join" /\ call[d].token = f)
    <3>1. call'[d] = call[d]
      BY <1>3, <2>3
    <3>2. call[d].pc = "join" => call[d].token \in Airborne'
      BY <1>5, <2>1, <2>3 DEF CallOK
    <3> QED BY <1>11, <2>1, <3>1, <3>2, OnwardKeepsCall
  <2> QED BY <2>2, <2>3
<1>13. ASSUME NEW d \in Writers PROVE WriteOK(d)'
  <2>1. d \in Calls /\ WriteOK(d)
    BY RestAssumption DEF CallsOK
  <2>2. CASE call[d].pc = "join"
    <3>1. CASE call[d].token = f
      <4>1. call'[d] = Rest!Returned(d, "failed", "refused")
        BY <1>3, <2>1, <2>2, <3>1
      <4>2. call'[d].pc = "failed" /\ call'[d].answer = "refused"
        BY <1>7, <2>1, <4>1
      <4> QED BY <1>1, <2>1, <2>2, <4>2 DEF WriteOK
    <3>2. CASE call[d].token # f
      BY <1>1, <1>3, <2>1, <3>2, StillKeepsWrite
    <3> QED BY <3>1, <3>2
  <2>3. CASE call[d].pc # "join"
    BY <1>1, <1>3, <2>1, <2>3, StillKeepsWrite
  <2> QED BY <2>2, <2>3
<1>14. WaitersOK'
  <2>1. \A d \in Calls : call[d].pc = "queued" => call'[d].pc = "queued"
    BY <1>3
  <2> QED BY <1>1, <2>1, WaitersStay
<1> QED BY <1>6, <1>8, <1>9, <1>10, <1>12, <1>13, <1>14 DEF CallsOK

-----------------------------------------------------------------------------
(* A slot is given back: who waited longest looks again.                   *)
LEMMA FreeSlotKeeps ==
  ASSUME RestInv, NEW c \in Calls, NEW next \in Locals, call[c].pc = "answered",
         Rest!FreeSlot(c, next), cached' \in {cached, Rest!NoToken},
         journalled' \in [Calls -> Nat],
         \A d \in Calls : d # c => /\ journalled'[d] = journalled[d]
                                   /\ d \in warned' <=> d \in warned,
         next.pc # "join", CallOK(c)', c \in Writers => WriteOK(c)'
  PROVE  CallTypeOK' /\ CallsOK' /\ WaitersOK'
<1> USE DEF RestInv
<1>1. /\ waiters' = IF waiters = <<>> THEN <<>> ELSE Tail(waiters)
      /\ call' = [d \in Calls |->
                    IF d = c THEN next
                    ELSE IF d \in Rest!Woken THEN [call[d] EXCEPT !.pc = "slot"] ELSE call[d]]
      /\ UNCHANGED <<inFlight, generation, flight, dead, applied, upsets>>
  BY DEF Rest!FreeSlot, Rest!instance
<1>2. Landed' = Landed /\ Airborne' = Airborne /\ Onward
  BY <1>1 DEF Landed, Airborne, Onward
<1>3. waiters \in Seq(Calls) /\ call \in [Calls -> Locals]
  BY DEF CallTypeOK
<1>4. \A d \in Rest!Woken : d \in Calls /\ call[d].pc = "queued" /\ waiters # <<>> /\ d = waiters[1]
  BY <1>3 DEF Rest!Woken, WaitersOK
<1>5. CallTypeOK'
  <2>1. \A d \in Calls : call'[d] \in Locals
    BY <1>1, <1>3, LocalsMove
  <2>2. call' = [d \in Calls |-> call'[d]]
    BY <1>1
  <2>3. waiters' \in Seq(Calls)
    BY <1>1, <1>3
  <2> QED BY <1>1, <2>1, <2>2, <2>3 DEF CallTypeOK
<1>6. ASSUME NEW d \in Calls, d # c PROVE CallOK(d)'
  <2>1. CallOK(d) /\ call[d] \in Locals
    BY <1>3 DEF CallsOK
  <2>2. CASE d \in Rest!Woken
    <3>1. call'[d] = [call[d] EXCEPT !.pc = "slot"] /\ call[d].pc = "queued"
      BY <1>1, <1>4, <1>6, <2>2
    <3>2. /\ call'[d].pc = "slot" /\ call'[d].token = call[d].token
          /\ call'[d].rejected = call[d].rejected /\ call'[d].retried401 = call[d].retried401
      BY <2>1, <3>1 DEF Locals
    <3>3. /\ call[d].token \in Landed /\ call[d].rejected \subseteq Landed
          /\ cached \notin call[d].rejected /\ call[d].token \notin call[d].rejected
          /\ call[d].retried401 => call[d].rejected # {}
      BY <2>1, <3>1 DEF CallOK, Rest!Ended, Turned, Bearing
    <3>4. Rest!NoToken \notin Landed
      BY DEF Landed, Rest!Flights, Rest!NoToken
    <3> QED BY <1>2, <3>2, <3>3, <3>4 DEF CallOK, Turned, Bearing, Rest!Ended
  <2>3. CASE d \notin Rest!Woken
    <3>1. call'[d] = call[d]
      BY <1>1, <1>6, <2>3
    <3>2. call[d].pc = "join" => call[d].token \in Airborne'
      BY <1>2, <2>1 DEF CallOK
    <3> QED BY <1>2, <2>1, <3>1, <3>2, OnwardKeepsCall
  <2> QED BY <2>2, <2>3
<1>7. ASSUME NEW d \in Writers, d # c PROVE WriteOK(d)'
  <2>1. /\ d \in Calls /\ WriteOK(d)
        /\ journalled'[d] = journalled[d] /\ applied'[d] = applied[d]
        /\ d \in warned' <=> d \in warned
    BY <1>1, <1>7, RestAssumption DEF CallsOK
  <2>2. CASE d \in Rest!Woken
    <3>1. call'[d].pc = "slot" /\ call[d].pc = "queued"
      BY <1>1, <1>3, <1>4, <1>7, <2>1, <2>2 DEF Locals
    <3> QED BY <2>1, <3>1 DEF WriteOK
  <2>3. CASE d \notin Rest!Woken
    BY <1>1, <1>7, <2>1, <2>3, StillKeepsWrite
  <2> QED BY <2>2, <2>3
<1>8. CallsOK'
  BY <1>6, <1>7 DEF CallsOK
<1>9. WaitersOK'
  <2>1. CASE waiters = <<>>
    BY <1>1, <2>1 DEF WaitersOK
  <2>2. CASE waiters # <<>>
    <3>1. /\ Len(waiters') = Len(waiters) - 1 /\ waiters' \in Seq(Calls)
          /\ Len(waiters) \in Nat
          /\ \A i \in 1 .. Len(waiters) - 1 : waiters'[i] = waiters[i + 1]
      BY <1>1, <1>3, <2>2
    <3>2. DOMAIN waiters' = 1 .. Len(waiters) - 1 /\ DOMAIN waiters = 1 .. Len(waiters)
      BY <1>3, <3>1
    <3>3. ASSUME NEW i \in DOMAIN waiters' PROVE call'[waiters'[i]].pc = "queued"
      <4>1. i + 1 \in DOMAIN waiters /\ waiters'[i] = waiters[i + 1] /\ i + 1 # 1
            /\ 1 \in DOMAIN waiters
        BY <3>1, <3>2
      <4>2. call[waiters[i + 1]].pc = "queued" /\ waiters[i + 1] # waiters[1]
            /\ waiters[i + 1] \in Calls
        BY <1>3, <4>1 DEF WaitersOK
      <4> QED BY <1>1, <1>4, <4>1, <4>2
    <3>4. ASSUME NEW i \in DOMAIN waiters', NEW j \in DOMAIN waiters', waiters'[i] = waiters'[j]
          PROVE  i = j
      <4>0. i \in 1 .. Len(waiters) - 1 /\ j \in 1 .. Len(waiters) - 1
        BY <3>2
      <4>1. i + 1 \in DOMAIN waiters /\ j + 1 \in DOMAIN waiters
            /\ waiters[i + 1] = waiters[j + 1]
        <5>1. waiters'[i] = waiters[i + 1] /\ waiters'[j] = waiters[j + 1]
          BY <3>1, <4>0
        <5>2. i + 1 \in DOMAIN waiters /\ j + 1 \in DOMAIN waiters
          BY <3>1, <3>2, <4>0
        <5> QED BY <3>4, <5>1, <5>2
      <4>2. i + 1 = j + 1
        BY <4>1 DEF WaitersOK
      <4> QED BY <4>0, <4>2
    <3> QED BY <3>3, <3>4 DEF WaitersOK
  <2> QED BY <2>1, <2>2
<1> QED BY <1>5, <1>8, <1>9

(* The answer to a call that goes back to its loop, or returns.            *)
LEMMA ReauthenticateKeeps ==
  ASSUME RestInv, NEW c \in Calls, Rest!Reauthenticate(c) PROVE RestInv'
<1> USE DEF RestInv
<1> DEFINE next == [call[c] EXCEPT !.pc = "token", !.attempt = @ + 1, !.retried401 = TRUE]
<1>1. /\ Turned(c) /\ Rest!FreeSlot(c, next) /\ UNCHANGED <<journalled, warned>>
      /\ cached' = IF cached = call[c].token THEN Rest!NoToken ELSE cached
      /\ UNCHANGED <<inFlight, generation, flight, dead, applied, upsets>>
  BY DEF Rest!Reauthenticate, Rest!Reauthenticates, Rest!At, Turned, Rest!FreeSlot,
     Rest!instance, Rest!journal, Rest!Invalidated
<1>2. call[c] \in Locals /\ CallOK(c) /\ ~Rest!Ended(c)
  BY <1>1 DEF CallTypeOK, CallsOK, Turned, Rest!Ended
<1>3. /\ next \in Locals /\ next.pc = "token" /\ next.retried401 = TRUE
      /\ next.rejected = call[c].rejected
  <2>1. call[c].attempt + 1 \in Nat
    BY <1>2 DEF Locals
  <2>2. \A n \in Nat :
          LET l == [call[c] EXCEPT !.pc = "token", !.attempt = n, !.retried401 = TRUE]
          IN l \in Locals /\ l.pc = "token" /\ l.retried401 = TRUE
             /\ l.rejected = call[c].rejected
    BY <1>2 DEF Locals
  <2> QED BY <2>1, <2>2
<1>4. call'[c] = next
  BY <1>1 DEF Rest!FreeSlot
<1>5. /\ call[c].token \in dead \cap call[c].rejected
      /\ cached \notin call[c].rejected \ {call[c].token}
      /\ call[c].rejected \subseteq Landed
  BY <1>1, <1>2 DEF CallOK
<1>6. Landed' = Landed /\ Airborne' = Airborne /\ Made' = Made
  BY <1>1 DEF Landed, Airborne, Made
<1>7. Rest!NoToken \notin Landed
  BY DEF Landed, Rest!Flights, Rest!NoToken
<1>8. CallOK(c)'
  <2> HIDE DEF next
  <2>1. cached' \notin call[c].rejected
    BY <1>1, <1>5, <1>7
  <2> QED BY <1>3, <1>4, <1>5, <1>6, <2>1 DEF CallOK, Turned, Bearing, Rest!Ended
<1>9. c \in Writers => WriteOK(c)'
  <2>1. c \in Writers => WriteOK(c) /\ call[c].pc = "answered" /\ call[c].answer = "unauthorized"
    BY <1>1 DEF CallsOK, Turned
  <2> HIDE DEF next
  <2> QED BY <1>1, <1>3, <1>4, <2>1 DEF WriteOK
<1>10. CallTypeOK' /\ CallsOK' /\ WaitersOK'
  <2> HIDE DEF next
  <2>1. journalled' \in [Calls -> Nat] /\ call[c].pc = "answered"
    BY <1>1 DEF CallTypeOK, Turned
  <2> QED BY <1>1, <1>3, <1>8, <1>9, <2>1, FreeSlotKeeps
<1>11. FlightTypeOK' /\ CacheOK'
  BY <1>1, <1>6 DEF FlightTypeOK, CacheOK
<1>12. Thrifty'
  <2>1. Starving' => Starving
    BY <1>1, <1>5 DEF Starving
  <2> QED BY <1>1, <1>6, <2>1 DEF Thrifty
<1> QED BY <1>10, <1>11, <1>12

LEMMA RetryKeeps ==
  ASSUME RestInv, NEW c \in Calls, Rest!Retry(c) PROVE RestInv'
<1> USE DEF RestInv
<1> DEFINE next == [call[c] EXCEPT !.pc = "token", !.attempt = @ + 1]
<1>1. /\ call[c].pc = "answered" /\ Rest!FreeSlot(c, next)
      /\ UNCHANGED <<cached, journalled, warned>>
      /\ UNCHANGED <<inFlight, generation, flight, dead, applied, upsets>>
      /\ call[c].answer = "limited" \/ (call[c].answer = "lost" /\ c \notin Writers)
  BY DEF Rest!Retry, Rest!Again, Rest!Retryable, Rest!At, Rest!FreeSlot, Rest!instance,
     Rest!journal
<1>2. call[c] \in Locals /\ CallOK(c) /\ ~Rest!Ended(c) /\ ~Turned(c)
  BY <1>1 DEF CallTypeOK, CallsOK, Turned, Rest!Ended
<1>3. /\ next \in Locals /\ next.pc = "token" /\ next.retried401 = call[c].retried401
      /\ next.rejected = call[c].rejected
  <2>1. call[c].attempt + 1 \in Nat
    BY <1>2 DEF Locals
  <2>2. \A n \in Nat :
          LET l == [call[c] EXCEPT !.pc = "token", !.attempt = n]
          IN l \in Locals /\ l.pc = "token" /\ l.retried401 = call[c].retried401
             /\ l.rejected = call[c].rejected
    BY <1>2 DEF Locals
  <2> QED BY <2>1, <2>2
<1>4. call'[c] = next
  BY <1>1 DEF Rest!FreeSlot
<1>5. TokensStill
  BY <1>1 DEF TokensStill
<1>6. FlightTypeOK' /\ CacheOK' /\ Thrifty' /\ Landed' = Landed
  BY <1>5, TokensStillKeep
<1> HIDE DEF next
<1>7. CallOK(c)'
  BY <1>1, <1>2, <1>3, <1>4, <1>6 DEF CallOK, Turned, Bearing, Rest!Ended
<1>8. c \in Writers => WriteOK(c)'
  BY <1>1, <1>3, <1>4 DEF CallsOK, WriteOK
<1>9. CallTypeOK' /\ CallsOK' /\ WaitersOK'
  <2>1. journalled' \in [Calls -> Nat]
    BY <1>1 DEF CallTypeOK
  <2> QED BY <1>1, <1>3, <1>7, <1>8, <2>1, FreeSlotKeeps
<1> QED BY <1>6, <1>9

LEMMA ThrowKeeps ==
  ASSUME RestInv, NEW c \in Calls, Rest!Throw(c) PROVE RestInv'
<1> USE DEF RestInv
<1> DEFINE next == Rest!Returned(c, "failed", call[c].answer)
<1>1. /\ call[c].pc = "answered" /\ Rest!FreeSlot(c, next)
      /\ call[c].answer # "ok" /\ Turned(c) => call[c].retried401
      /\ UNCHANGED <<cached, journalled, warned>>
  BY DEF Rest!Throw, Rest!At, Rest!Reauthenticates, Turned, Rest!journal
<1>2. call[c] \in Locals /\ CallOK(c) /\ ~Rest!Ended(c)
  BY <1>1 DEF CallTypeOK, CallsOK, Rest!Ended, Rest!At
<1>3. /\ next \in Locals /\ next.pc = "failed" /\ next.answer = call[c].answer
      /\ Turned(c) => next.rejected = call[c].rejected
  BY <1>1, <1>2 DEF Locals, Rest!Returned, Rest!Begun, Turned
<1>4. call'[c] = next
  BY <1>1 DEF Rest!FreeSlot
<1>5. TokensStill /\ applied' = applied
  BY <1>1 DEF TokensStill, Rest!FreeSlot, Rest!instance
<1>6. FlightTypeOK' /\ CacheOK' /\ Thrifty' /\ Landed' = Landed
  BY <1>5, TokensStillKeep
<1> HIDE DEF next
<1>7. CallOK(c)'
  <2>1. call[c].answer = "unauthorized" => \E s, t \in call[c].rejected : s # t
    <3> SUFFICES ASSUME call[c].answer = "unauthorized"
                 PROVE  \E s, t \in call[c].rejected : s # t
      OBVIOUS
    <3>1. /\ call[c].token \in call[c].rejected /\ call[c].rejected # {call[c].token}
      BY <1>1, <1>2 DEF CallOK, Turned
    <3> QED BY <3>1
  <2>2. call'[c].pc = "failed" /\ call'[c].answer = call[c].answer
    BY <1>3, <1>4
  <2>3. call[c].answer = "unauthorized" => call'[c].rejected = call[c].rejected
    BY <1>1, <1>3, <1>4 DEF Turned
  <2> QED BY <2>1, <2>2, <2>3 DEF CallOK, Turned, Bearing, Rest!Ended, Rest!At
<1>8. c \in Writers => WriteOK(c)'
  <2> SUFFICES ASSUME c \in Writers PROVE WriteOK(c)'
    OBVIOUS
  <2>1. WriteOK(c) /\ call'[c].pc = "failed" /\ call'[c].answer = call[c].answer
    BY <1>3, <1>4 DEF CallsOK
  <2>2. call[c].answer \in Rest!Answer /\ "unread" \notin Rest!Answer
    BY <1>1, <2>1 DEF WriteOK, Rest!Answer
  <2> QED BY <1>1, <1>5, <2>1, <2>2 DEF WriteOK
<1>9. CallTypeOK' /\ CallsOK' /\ WaitersOK'
  <2>1. journalled' \in [Calls -> Nat]
    BY <1>1 DEF CallTypeOK
  <2> QED BY <1>1, <1>3, <1>7, <1>8, <2>1, FreeSlotKeeps
<1> QED BY <1>6, <1>9

(* A success: the journal, with or without a warning.                      *)
LEMMA SucceedKeeps ==
  ASSUME RestInv, NEW c \in Calls, Rest!Succeed(c) PROVE RestInv'
<1> USE DEF RestInv
<1> DEFINE next == Rest!Returned(c, "body", "ok")
<1>1. /\ call[c].pc = "answered" /\ call[c].answer = "ok" /\ Rest!FreeSlot(c, next)
      /\ cached' = cached
  BY DEF Rest!Succeed, Rest!At
<1>2. call[c] \in Locals /\ CallOK(c)
  BY DEF CallTypeOK, CallsOK
<1>3. /\ next \in Locals /\ next.pc = "body" /\ next.answer = "ok"
      /\ next.rejected = {} /\ next.retried401 = FALSE
  BY DEF Locals, Rest!Returned, Rest!Begun, Rest!Outcome, Rest!Answer
<1>4. call'[c] = next
  BY <1>1 DEF Rest!FreeSlot
<1>5. TokensStill /\ applied' = applied
  BY <1>1 DEF TokensStill, Rest!FreeSlot, Rest!instance
<1>6. FlightTypeOK' /\ CacheOK' /\ Thrifty' /\ Landed' = Landed
  BY <1>5, TokensStillKeep
<1>7. /\ journalled' \in [Calls -> Nat]
      /\ \A d \in Calls : d # c => journalled'[d] = journalled[d]
                                 /\ (d \in warned' <=> d \in warned)
      /\ journalled'[c] \in {journalled[c], journalled[c] + 1}
      /\ c \in Writers => c \in warned' \/ journalled'[c] = journalled[c] + 1
  <2>0. journalled \in [Calls -> Nat]
    BY DEF CallTypeOK
  <2>1. CASE c \notin Writers
    BY <2>0, <2>1 DEF Rest!Succeed, Rest!journal
  <2>2. CASE c \in Writers
    <3>1. Rest!Journal(c)
      BY <2>2 DEF Rest!Succeed
    <3>2. PICK lines \in {0, 1} :
            /\ journalled' = [journalled EXCEPT ![c] = @ + lines]
            /\ warned' = warned \/ warned' = warned \cup {c}
            /\ warned' = warned \cup {c} \/ lines = 1
      BY <3>1 DEF Rest!Journal
    <3>3. journalled[c] + lines \in Nat
      BY <2>0
    <3> QED BY <2>0, <3>2, <3>3
  <2> QED BY <2>1, <2>2
<1> HIDE DEF next
<1>8. CallOK(c)'
  BY <1>3, <1>4, <1>6 DEF CallOK, Turned, Bearing, Rest!Ended, Rest!At
<1>9. c \in Writers => WriteOK(c)'
  <2> SUFFICES ASSUME c \in Writers PROVE WriteOK(c)'
    OBVIOUS
  <2>1. applied[c] = 1 /\ journalled[c] = 0
    BY <1>1 DEF CallsOK, WriteOK
  <2> QED BY <1>3, <1>4, <1>5, <1>7, <2>1 DEF WriteOK, Entered
<1>10. CallTypeOK' /\ CallsOK' /\ WaitersOK'
  BY <1>1, <1>3, <1>7, <1>8, <1>9, FreeSlotKeeps
<1> QED BY <1>6, <1>10

(* The body arrives, or does not.                                          *)
LEMMA BodyKeeps ==
  ASSUME RestInv, NEW c \in Calls, Rest!ReadBody(c) \/ Rest!LoseBody(c) PROVE RestInv'
<1> USE DEF RestInv
<1>1. PICK how \in {"done", "failed"}, answer \in {"ok", "unread"} :
        /\ call[c].pc = "body" /\ call' = [call EXCEPT ![c] = Rest!Returned(c, how, answer)]
        /\ how = "failed" => answer = "unread"
  BY DEF Rest!ReadBody, Rest!LoseBody, Rest!At
<1> DEFINE next == Rest!Returned(c, how, answer)
<1>2. TokensStill /\ UNCHANGED <<waiters, applied, journalled, warned>>
  BY DEF Rest!ReadBody, Rest!LoseBody, Rest!client, Rest!instance, Rest!journal, TokensStill
<1>3. /\ next \in Locals /\ next.pc = how /\ next.answer = answer
      /\ how = "failed" => answer = "unread"
  BY <1>1 DEF Locals, Rest!Returned, Rest!Begun, Rest!Outcome, Rest!Answer
<1> HIDE DEF next
<1>4. CallTypeOK' /\ call'[c] = next /\ \A d \in Calls : d # c => call'[d] = call[d]
  <2>1. call' = [call EXCEPT ![c] = next]
    BY <1>1 DEF next
  <2> QED BY <1>2, <1>3, <2>1 DEF CallTypeOK
<1>5. FlightTypeOK' /\ CacheOK' /\ Thrifty' /\ Onward /\ Landed' = Landed /\ Airborne' = Airborne
  BY <1>2, TokensStillKeep
<1>6. CallOK(c)'
  BY <1>3, <1>4 DEF CallOK, Turned, Bearing, Rest!Ended, Rest!At
<1>7. c \in Writers => WriteOK(c)'
  <2>1. c \in Writers => WriteOK(c)
    BY DEF CallsOK
  <2> QED BY <1>1, <1>2, <1>3, <1>4, <2>1 DEF WriteOK, Entered
<1>8. CallsOK'
  <2>1. \A d \in Calls : call[d].pc = "join" => call[d].token \in Airborne'
    BY <1>5 DEF CallsOK, CallOK
  <2> QED BY <1>2, <1>4, <1>5, <1>6, <1>7, <2>1, OneCallMoves
<1>9. WaitersOK'
  BY <1>1, <1>2, <1>4, WaitersStay
<1> QED BY <1>4, <1>5, <1>8, <1>9

(* The instance, the clock, the operator.                                  *)
LEMMA UpsetKeeps ==
  ASSUME RestInv, Rest!Revoke \/ Rest!Expire \/ Rest!InvalidateTokens PROVE RestInv'
<1> USE DEF RestInv
<1>1. UNCHANGED <<call, waiters, flight, applied, journalled, warned>> /\ upsets' = upsets + 1
  BY DEF Rest!Revoke, Rest!Expire, Rest!InvalidateTokens, Rest!Upset, Rest!client,
     Rest!journal
<1>2. Landed' = Landed /\ Airborne' = Airborne /\ Made' = Made
  BY <1>1 DEF Landed, Airborne, Made
<1>3. cached' \in {cached, Rest!NoToken} /\ dead \cap Landed \subseteq dead'
  BY DEF Rest!Revoke, Rest!Expire, Rest!InvalidateTokens, Rest!client, Rest!Granted, Landed
<1>4. CallTypeOK' /\ WaitersOK'
  BY <1>1 DEF CallTypeOK, WaitersOK
<1>5. FlightTypeOK' /\ CacheOK'
  <2>1. CASE Rest!Revoke
    BY <1>1, <1>2, <2>1 DEF Rest!Revoke, Rest!client, Rest!Granted, FlightTypeOK, CacheOK
  <2>2. CASE Rest!Expire
    BY <1>1, <1>2, <2>2 DEF Rest!Expire, FlightTypeOK, CacheOK
  <2>3. CASE Rest!InvalidateTokens
    <3>1. FlightTypeOK'
      BY <1>1, <2>3 DEF Rest!InvalidateTokens, FlightTypeOK
    <3>2. \A f \in Rest!Flights : flight[f].generation < generation'
      BY <2>3 DEF Rest!InvalidateTokens, FlightTypeOK, CacheOK
    <3>3. Airborne \subseteq Rest!Flights
      BY DEF Airborne
    <3>4. \A f \in Rest!Flights : flight[f].generation # generation'
                                  /\ flight[f].generation <= generation'
      BY <3>1, <3>2, <1>1 DEF FlightTypeOK
    <3> QED BY <1>1, <1>2, <2>3, <3>1, <3>3, <3>4 DEF Rest!InvalidateTokens, CacheOK
  <2> QED BY <2>1, <2>2, <2>3
<1>6. Thrifty'
  BY <1>1, <1>2, FlightsFinite DEF Thrifty, FlightTypeOK
<1>7. CallsOK'
  <2>1. Onward
    BY <1>2, <1>3 DEF Onward
  <2>2. \A c \in Calls : CallOK(c)'
    BY <1>1, <1>2, <2>1, OnwardKeepsCall DEF CallsOK, CallOK
  <2> QED BY <1>1, <2>2, StillKeepsWrite DEF CallsOK
<1> QED BY <1>4, <1>5, <1>6, <1>7

LEMMA RestNext == RestInv /\ (Rest!Next \/ UNCHANGED restVars) => RestInv'
<1> SUFFICES ASSUME RestInv, Rest!Next \/ UNCHANGED restVars PROVE RestInv'
  OBVIOUS
<1>1. CASE Rest!Next
  BY <1>1, WaitingKeeps, AwaitSlotKeeps, StartFlightKeeps, ServeKeeps, GrantKeeps, LandKeeps,
     CrashKeeps, ReauthenticateKeeps, RetryKeeps, ThrowKeeps, SucceedKeeps, BodyKeeps,
     UpsetKeeps
  DEF Rest!Next, Rest!Step
<1>2. CASE UNCHANGED restVars
  <2>1. TokensStill /\ UNCHANGED <<call, waiters, applied, journalled, warned>>
    BY <1>2 DEF restVars, TokensStill
  <2>2. FlightTypeOK' /\ CacheOK' /\ Thrifty' /\ Onward /\ Airborne' = Airborne
    BY <2>1, TokensStillKeep DEF RestInv
  <2>3. \A c \in Calls : CallOK(c)'
    BY <2>1, <2>2, OnwardKeepsCall DEF RestInv, CallsOK, CallOK
  <2>4. \A c \in Writers : WriteOK(c)'
    BY <2>1, StillKeepsWrite DEF RestInv, CallsOK
  <2> QED BY <2>1, <2>2, <2>3, <2>4 DEF RestInv, CallTypeOK, CallsOK, WaitersOK
<1> QED BY <1>1, <1>2

-----------------------------------------------------------------------------
LEMMA RestCardinality == \A S : Rest!Cardinality(S) = Cardinality(S)
  BY DEF Cardinality, Rest!Cardinality

LEMMA InvTokens == RestInv => Rest!TokensSound
<1> SUFFICES ASSUME RestInv PROVE Rest!TokensSound
  OBVIOUS
<1> USE DEF RestInv
<1>1. {f \in Rest!Flights : Rest!Sent(f) /\ flight[f].state # "failed"} = Made
  BY DEF Rest!Sent, Made, Landed, Airborne, FlightTypeOK
<1>2. ASSUME NEW c \in Calls, Rest!At(c, "failed"), call[c].answer = "unauthorized"
      PROVE  Cardinality(call[c].rejected) >= 2
  <2>1. PICK s \in call[c].rejected, t \in call[c].rejected : s # t
    BY <1>2 DEF CallsOK, CallOK, Rest!At
  <2>2. IsFiniteSet(call[c].rejected)
    <3>1. call[c].rejected \subseteq Rest!Flights
      BY DEF CallTypeOK, Locals
    <3>2. IsFiniteSet(Rest!Flights)
      BY RestAssumption, FS_Interval DEF Rest!Flights
    <3> QED BY <3>1, <3>2, FS_Subset
  <2>3. Cardinality({s, t}) = 2 /\ {s, t} \subseteq call[c].rejected
    <3>1. Cardinality({s}) = 1 /\ IsFiniteSet({s}) /\ t \notin {s} /\ {s, t} = {s} \cup {t}
      BY <2>1, FS_Singleton
    <3>2. Cardinality({s} \cup {t}) = Cardinality({s}) + 1
      BY <3>1, FS_AddElement
    <3> QED BY <3>1, <3>2
  <2>4. Cardinality({s, t}) <= Cardinality(call[c].rejected)
    BY <2>2, <2>3, FS_Subset
  <2> QED BY <2>2, <2>3, <2>4, FS_CardinalityType
<1>3. cached # Rest!NoToken => flight[cached].generation = generation
  BY DEF CacheOK
<1>4. Cardinality(Made) <= 1 + upsets
  BY DEF Thrifty
<1> QED BY <1>1, <1>2, <1>3, <1>4, RestCardinality DEF Rest!TokensSound

LEMMA InvWrites == RestInv => Rest!WriteAppliedOnce
  BY RestAssumption
  DEF RestInv, CallsOK, WriteOK, Entered, CallTypeOK, Rest!WriteAppliedOnce, Rest!At

LEMMA RestHolds == Spec => [](which = "rest" => RestInv)
<1>1. Init => (which = "rest" => RestInv)
  BY RestInit DEF Init
<1>2. (which = "rest" => RestInv) /\ [Next]_vars => (which = "rest" => RestInv)'
  BY RestNext, OneAtATime DEF Next
<1> QED BY <1>1, <1>2, PTL DEF Spec

(***************************************************************************)
(* TokensSound for any number of calls, token requests, retries and upsets *)
(* and any limit on concurrent requests.                                   *)
(***************************************************************************)
THEOREM TokensSoundHolds == Spec => []TokensSound
<1>1. (which = "rest" => RestInv) => TokensSound
  BY InvTokens DEF TokensSound
<1> QED BY <1>1, RestHolds, PTL

(***************************************************************************)
(* WriteAppliedOnce likewise: no retry or re-authentication of any         *)
(* interleaving of calls repeats a write that may have been applied, and   *)
(* what the journal, the warnings and the way a call ended say of a write  *)
(* agrees with what the instance did.                                      *)
(***************************************************************************)
THEOREM WriteAppliedOnceHolds == Spec => []WriteAppliedOnce
<1>1. (which = "rest" => RestInv) => WriteAppliedOnce
  BY InvWrites DEF WriteAppliedOnce
<1> QED BY <1>1, RestHolds, PTL

-----------------------------------------------------------------------------
Verdicts == {"pass", "fail", "error", "skipped", "missing"}

(* How far the call has come, suite by suite: those before the group are   *)
(* done with, those after it are untouched.                                *)
AtfTypeOK ==
  /\ exec \in [1 .. Suites -> {"none", "live", "ended"}]
  /\ pc \in {"loop", "poll", "asked", "report", "resolved", "rejected"}
  /\ group \in 1 .. Suites + 1 /\ halted \in BOOLEAN
  /\ outcome \in [Atf!AllTests -> Verdicts \cup {"none", "waiting-timeout"}]

Executed ==
  /\ pc \in {"poll", "asked", "report"} => group <= Suites /\ ~halted
  /\ pc = "report" => exec[group] = "ended"
  /\ pc = "resolved" => halted \/ group > Suites
  /\ halted => group <= Suites
  /\ \A g \in 1 .. Suites : exec[g] = "live" => g = group

(* Of the group itself nothing is known but that it was given up on.       *)
Accounted ==
  \A g \in 1 .. Suites : \A t \in Tests[g] :
    /\ g < group => outcome[t] \in Verdicts
    /\ g >= group =>
         outcome[t] \in IF pc = "resolved" THEN {"waiting-timeout"}
                        ELSE IF halted /\ g = group THEN {"none", "waiting-timeout"}
                        ELSE {"none"}

AtfInv == AtfTypeOK /\ Executed /\ Accounted

LEMMA TestsOfSuites == \A g \in 1 .. Suites : Tests[g] \subseteq Atf!AllTests
  BY DEF Atf!AllTests

LEMMA ResultsAreVerdicts ==
  ASSUME NEW w, NEW tests, NEW t PROVE Atf!ResultOf(w, tests, t) \in Verdicts
  BY DEF Atf!ResultOf, Atf!WorstOf, Verdicts

LEMMA AtfInit == Atf!Init => AtfInv
<1> SUFFICES ASSUME Atf!Init PROVE AtfInv
  OBVIOUS
<1>1. AtfTypeOK
  <2>1. exec \in [1 .. Suites -> {"none", "live", "ended"}]
    BY DEF Atf!Init
  <2>2. outcome \in [Atf!AllTests -> Verdicts \cup {"none", "waiting-timeout"}]
    BY DEF Atf!Init
  <2>3. group \in 1 .. Suites + 1
    BY AtfAssumption DEF Atf!Init
  <2>4. halted \in BOOLEAN /\ pc = "loop"
    BY DEF Atf!Init
  <2> QED BY <2>1, <2>2, <2>3, <2>4, Zenon DEF AtfTypeOK
<1>3. Executed
  BY AtfAssumption DEF Atf!Init, Executed
<1>2. Accounted
  BY AtfAssumption, TestsOfSuites DEF Atf!Init, Accounted
<1> QED BY <1>1, <1>2, <1>3 DEF AtfInv

(* Steps that record nothing.                                              *)
LEMMA PollingKeeps ==
  ASSUME AtfInv,
         \/ Atf!HaltBefore \/ Atf!Trigger \/ Atf!Ask \/ Atf!Reject \/ Atf!RejectReport
         \/ Atf!Abort \/ Atf!Expire \/ UNCHANGED atfVars
         \/ \E g \in 1 .. Suites : Atf!End(g)
  PROVE  AtfInv'
<1> USE AtfAssumption DEF AtfInv, AtfTypeOK, Executed, Accounted, Atf!outside
<1>1. CASE Atf!HaltBefore
  BY <1>1 DEF Atf!HaltBefore
<1>2. CASE Atf!Trigger
  BY <1>2 DEF Atf!Trigger
<1>3. CASE Atf!Ask \/ Atf!Reject \/ Atf!RejectReport
  BY <1>3 DEF Atf!Ask, Atf!Reject, Atf!RejectReport
<1>4. CASE Atf!Abort \/ Atf!Expire \/ UNCHANGED atfVars
  BY <1>4 DEF Atf!Abort, Atf!Expire, atfVars
<1>5. CASE \E g \in 1 .. Suites : Atf!End(g)
  BY <1>5 DEF Atf!End
<1> QED BY <1>1, <1>2, <1>3, <1>4, <1>5

(* The tests of the group given up on are no other group's.                *)
LEMMA GivingUpKeeps ==
  ASSUME AtfInv, pc \in {"poll", "asked"}, Atf!GiveUp, UNCHANGED exec
  PROVE  AtfInv'
<1> USE AtfAssumption DEF AtfInv, AtfTypeOK, Executed
<1>1. /\ pc' = "loop" /\ halted' = TRUE /\ group' = group /\ group \in 1 .. Suites
      /\ outcome' = [t \in Atf!AllTests |->
                       IF t \in Tests[group] THEN "waiting-timeout" ELSE outcome[t]]
  BY DEF Atf!GiveUp, Atf!Record
<1>2. Accounted'
  <2> SUFFICES ASSUME NEW g \in 1 .. Suites, NEW t \in Tests[g]
               PROVE  /\ g < group => outcome'[t] \in Verdicts
                      /\ g = group => outcome'[t] = "waiting-timeout"
                      /\ g > group => outcome'[t] = "none"
    BY <1>1 DEF Accounted
  <2>1. t \in Atf!AllTests /\ (t \in Tests[group] <=> g = group)
    BY <1>1, TestsOfSuites
  <2> QED BY <1>1, <2>1 DEF Accounted
<1> QED BY <1>1, <1>2

LEMMA AnsweredKeeps ==
  ASSUME AtfInv, Atf!StopAsking \/ Atf!Answer PROVE AtfInv'
<1>1. CASE Atf!StopAsking
  BY <1>1, GivingUpKeeps DEF Atf!StopAsking, Atf!outside
<1>2. CASE Atf!Answer /\ Atf!GiveUp
  BY <1>2, GivingUpKeeps DEF Atf!Answer, Atf!outside
<1>3. CASE Atf!Answer /\ ~Atf!GiveUp
  BY <1>3 DEF Atf!Answer, Atf!outside, AtfInv, AtfTypeOK, Executed, Accounted
<1> QED BY <1>1, <1>2, <1>3

LEMMA ReportKeeps ==
  ASSUME AtfInv, Atf!Report PROVE AtfInv'
<1> USE AtfAssumption DEF AtfInv, AtfTypeOK, Executed
<1>1. pc = "report" /\ UNCHANGED <<exec, halted>> /\ group \in 1 .. Suites /\ ~halted
  BY DEF Atf!Report, Atf!outside
<1>2. PICK w \in Worlds[group] :
        IF Atf!Unreadable(w) THEN pc' = "rejected" /\ UNCHANGED <<group, outcome>>
        ELSE /\ pc' = "loop" /\ group' = group + 1
             /\ outcome' = [t \in Atf!AllTests |->
                              IF t \in Tests[group] THEN Atf!ResultOf(w, Tests[group], t)
                              ELSE outcome[t]]
  BY DEF Atf!Report, Atf!Record
<1>3. CASE Atf!Unreadable(w)
  BY <1>1, <1>2, <1>3 DEF Accounted
<1>4. CASE ~Atf!Unreadable(w)
  <2>1. AtfTypeOK' /\ Executed'
    BY <1>1, <1>2, <1>4, ResultsAreVerdicts
  <2>2. Accounted'
    <3> SUFFICES ASSUME NEW g \in 1 .. Suites, NEW t \in Tests[g]
                 PROVE  /\ g <= group => outcome'[t] \in Verdicts
                        /\ g > group => outcome'[t] = "none"
      BY <1>1, <1>2, <1>4 DEF Accounted
    <3>1. t \in Atf!AllTests /\ (t \in Tests[group] <=> g = group)
      BY <1>1, TestsOfSuites
    <3> QED BY <1>1, <1>2, <1>4, <3>1, ResultsAreVerdicts DEF Accounted
  <2> QED BY <2>1, <2>2
<1> QED BY <1>3, <1>4

LEMMA ResolveKeeps ==
  ASSUME AtfInv, Atf!Resolve PROVE AtfInv'
<1> USE AtfAssumption DEF AtfInv, AtfTypeOK, Executed
<1>1. /\ pc = "loop" /\ pc' = "resolved" /\ UNCHANGED <<exec, group, halted>>
      /\ halted \/ group > Suites
      /\ outcome' = [t \in Atf!AllTests |->
                       IF t \in (IF halted THEN Atf!Pending ELSE {}) THEN "waiting-timeout"
                       ELSE outcome[t]]
  BY DEF Atf!Resolve, Atf!Record, Atf!outside
<1>2. Accounted'
  <2> SUFFICES ASSUME NEW g \in 1 .. Suites, NEW t \in Tests[g]
               PROVE  /\ g < group => outcome'[t] \in Verdicts
                      /\ g >= group => outcome'[t] = "waiting-timeout"
    BY <1>1 DEF Accounted
  <2>1. t \in Atf!AllTests /\ (t \in Atf!Pending <=> outcome[t] = "none")
    BY TestsOfSuites DEF Atf!Pending
  <2>2. CASE g < group
    <3>1. outcome[t] \in Verdicts
      BY <2>2 DEF Accounted
    <3> QED BY <1>1, <2>1, <2>2, <3>1 DEF Verdicts
  <2>3. CASE g >= group
    <3>1. halted /\ outcome[t] \in {"none", "waiting-timeout"}
      BY <1>1, <2>3 DEF Accounted
    <3> QED BY <1>1, <2>1, <2>3, <3>1
  <2> QED BY <2>2, <2>3
<1> QED BY <1>1, <1>2

LEMMA AtfNext == AtfInv /\ (Atf!Next \/ UNCHANGED atfVars) => AtfInv'
  BY PollingKeeps, AnsweredKeeps, ReportKeeps, ResolveKeeps DEF Atf!Next, Atf!Run

LEMMA AtfCardinality == \A S : Atf!Cardinality(S) = Cardinality(S)
  BY DEF Cardinality, Atf!Cardinality

LEMMA InvAccounts == AtfInv => Atf!EverySpecAccounted
<1> SUFFICES ASSUME AtfInv PROVE Atf!EverySpecAccounted
  OBVIOUS
<1> DEFINE Live == {g \in 1 .. Suites : exec[g] = "live"}
<1>1. Live \subseteq {group}
  BY DEF AtfInv, Executed
<1>2. Cardinality(Live) <= 1
  <2>1. IsFiniteSet({group}) /\ Cardinality({group}) = 1
    BY FS_Singleton
  <2> HIDE DEF Live
  <2>2. Live = {} \/ Live = {group}
    BY <1>1
  <2> QED BY <2>1, <2>2, FS_EmptySet
<1>3. ASSUME pc = "resolved", NEW g \in 1 .. Suites, NEW t \in Tests[g]
      PROVE  outcome[t] # "none" /\ (outcome[t] = "waiting-timeout" <=> g >= group)
  BY <1>3, AtfAssumption DEF AtfInv, AtfTypeOK, Accounted, Verdicts
<1>4. Cardinality({g \in 1 .. Suites : exec[g] = "live"}) <= 1
  BY <1>2
<1>5. pc = "resolved" =>
        \A g \in 1 .. Suites : \A t \in Tests[g] :
          outcome[t] # "none" /\ (outcome[t] = "waiting-timeout" <=> g >= group)
  BY <1>3
<1> HIDE DEF Live
<1> QED BY <1>4, <1>5, AtfCardinality DEF Atf!EverySpecAccounted

(***************************************************************************)
(* run(): at most one execution of a call is under way, and a call that    *)
(* resolves has a result for each spec, read for those of the suites that  *)
(* ended, "waiting-timeout" from the suite it gave up on; for any suites,  *)
(* any results they leave, any polls.                                      *)
(***************************************************************************)
THEOREM EverySpecAccountedHolds == Spec => []EverySpecAccounted
<1> DEFINE Inv == which = "atf" => AtfInv
<1>1. Init => Inv
  BY AtfInit DEF Init
<1>2. Inv /\ [Next]_vars => Inv'
  BY AtfNext, OneAtATime DEF Next
<1>3. Inv => EverySpecAccounted
  BY InvAccounts DEF EverySpecAccounted
<1> QED BY <1>1, <1>2, <1>3, PTL DEF Spec

-----------------------------------------------------------------------------
(***************************************************************************)
(* The results of an execution.                                            *)
(***************************************************************************)
(* How a page is read: what is not known to be partial is all there is,    *)
(* and a row that comes before a row of the page is on it.                 *)
IsTable(rows) == IsFiniteSet(rows) /\ \A r \in rows : r.at \in Nat /\ r.readable \in BOOLEAN

Newer(rows, r) == {s \in rows : s.at > r.at}

LEMMA FirstIsUpward ==
  ASSUME NEW rows, IsTable(rows), NEW limit \in Int,
         NEW q \in Atf!First(rows, limit), NEW r \in rows, r.at >= q.at
  PROVE  r \in Atf!First(rows, limit)
<1>1. Newer(rows, r) \subseteq Newer(rows, q) /\ Newer(rows, q) \subseteq rows
  BY DEF Newer, IsTable, Atf!First
<1>2. IsFiniteSet(Newer(rows, q)) /\ IsFiniteSet(Newer(rows, r))
  BY <1>1, FS_Subset DEF IsTable
<1>3. Cardinality(Newer(rows, r)) <= Cardinality(Newer(rows, q))
  BY <1>1, <1>2, FS_Subset
<1>4. Cardinality(Newer(rows, r)) \in Nat /\ Cardinality(Newer(rows, q)) \in Nat
  BY <1>2, FS_CardinalityType
<1>5. Cardinality(Newer(rows, q)) < limit
  BY AtfCardinality DEF Atf!First, Newer
<1>6. Cardinality(Newer(rows, r)) < limit
  BY <1>3, <1>4, <1>5
<1> QED BY <1>6, AtfCardinality DEF Atf!First, Newer

LEMMA NewestIsFirst ==
  ASSUME NEW rows, IsTable(rows), NEW r \in rows, \A s \in rows : s.at <= r.at
  PROVE  r \in Atf!First(rows, 1)
<1>1. Newer(rows, r) = {}
  BY DEF Newer, IsTable
<1>2. Cardinality(Newer(rows, r)) = 0
  BY <1>1, FS_EmptySet
<1> QED BY <1>2, AtfCardinality DEF Atf!First, Newer

LEMMA ReadIsMatching ==
  ASSUME NEW w, NEW rows, NEW limit
  PROVE  \A r \in Atf!ReadTable(w, rows, limit).rows : r \in rows /\ r.readable
  BY DEF Atf!ReadTable, Atf!First, Atf!Readable

LEMMA ReadableIsRead ==
  ASSUME NEW w, NEW rows, NEW limit, NEW r \in Atf!First(rows, limit), r.readable
  PROVE  r \in Atf!ReadTable(w, rows, limit).rows
  BY DEF Atf!ReadTable, Atf!Readable

LEMMA WholeIsAll ==
  ASSUME NEW w, NEW rows, IsTable(rows), NEW limit, w.count # "filtered",
         ~Atf!ReadTable(w, rows, limit).truncated
  PROVE  Atf!ReadTable(w, rows, limit).rows = rows
<1> DEFINE paged == Atf!ReadTable(w, rows, limit).rows
<1>1. paged \subseteq rows
  BY ReadIsMatching
<1>2. IsFiniteSet(paged) /\ Cardinality(paged) \in Nat /\ Cardinality(rows) \in Nat
  BY <1>1, FS_Subset, FS_CardinalityType DEF IsTable
<1>3. /\ Cardinality(paged) <= Cardinality(rows)
      /\ Cardinality(paged) = Cardinality(rows) => paged = rows
  BY <1>1, FS_Subset DEF IsTable
<1>4. Cardinality(paged) = Cardinality(rows)
  <2>1. paged = Atf!Readable(Atf!First(rows, limit))
    BY DEF Atf!ReadTable
  <2>2. CASE w.count = "total"
    <3>1. ~(Cardinality(rows) > Cardinality(paged))
      BY <2>1, <2>2, AtfCardinality DEF Atf!ReadTable
    <3> QED BY <3>1, <1>2, <1>3
  <2>3. CASE w.count = "exact"
    BY <2>1, <2>3, AtfCardinality DEF Atf!ReadTable
  <2>4. CASE w.count \notin {"total", "exact"}
    <3>1. Cardinality(paged) = -1
      BY <2>1, <2>4, AtfCardinality DEF Atf!ReadTable
    <3> QED BY <3>1, <1>2
  <2> QED BY <2>2, <2>3, <2>4
<1> QED BY <1>3, <1>4

-----------------------------------------------------------------------------
(* The levels of the tree.                                                 *)
Root == [ids |-> {"root"}, frontier |-> {"root"}, fault |-> FALSE]
Deeper(w, prev, n) ==
  IF prev.fault \/ prev.frontier = {} THEN prev ELSE Atf!Level(w, prev, n)
AreLevels(w, f, m) ==
  f = [n \in 0 .. m |-> IF n = 0 THEN Root ELSE Deeper(w, f[n - 1], n)]

LEMMA LevelsExist == \A w : \A m \in Nat : \E f : AreLevels(w, f, m)
<1> SUFFICES ASSUME NEW w PROVE \A m \in Nat : \E f : AreLevels(w, f, m)
  OBVIOUS
<1> DEFINE None == {m \in Nat : ~\E f : AreLevels(w, f, m)}
<1>1. SUFFICES None = {}
  OBVIOUS
<1>2. SUFFICES ASSUME None # {} PROVE FALSE
  OBVIOUS
<1>3. PICK m \in None : \A k \in None : m <= k
  BY <1>2, Least
<1>4. m # 0
  <2>1. AreLevels(w, [n \in 0 .. 0 |-> Root], 0)
    BY DEF AreLevels
  <2> QED BY <1>3, <2>1
<1>5. m - 1 \in Nat /\ m - 1 \notin None
  BY <1>3, <1>4
<1>6. PICK f : AreLevels(w, f, m - 1)
  BY <1>5
<1> DEFINE g == [n \in 0 .. m |-> IF n < m THEN f[n] ELSE Deeper(w, f[m - 1], m)]
<1>7. AreLevels(w, g, m)
  <2> DEFINE h == [n \in 0 .. m |-> IF n = 0 THEN Root ELSE Deeper(w, g[n - 1], n)]
  <2>1. ASSUME NEW n \in 0 .. m PROVE g[n] = h[n]
    <3>1. CASE n = m
      BY <3>1, <1>4, <1>5
    <3>2. CASE n < m /\ n # 0
      <4>1. g[n] = f[n] /\ n \in 0 .. m - 1 /\ n - 1 \in 0 .. m - 1 /\ n - 1 \in 0 .. m /\ n - 1 < m
        BY <3>2, <1>5
      <4>2. f[n] = Deeper(w, f[n - 1], n)
        BY <4>1, <3>2, <1>6 DEF AreLevels
      <4>3. g[n - 1] = f[n - 1]
        BY <4>1
      <4> QED BY <4>1, <4>2, <4>3, <3>2
    <3>3. CASE n = 0
      <4>1. g[n] = f[0] /\ 0 \in 0 .. m - 1
        BY <3>3, <1>4, <1>5
      <4>2. f[0] = Root
        BY <4>1, <1>6 DEF AreLevels
      <4> QED BY <4>1, <4>2, <3>3
    <3> QED BY <3>1, <3>2, <3>3, <1>5
  <2>2. g = h
    BY <2>1
  <2> QED BY <2>2 DEF AreLevels
<1> QED BY <1>3, <1>7

LEMMA TreeIsLastLevel ==
  ASSUME NEW w
  PROVE  \E f : /\ AreLevels(w, f, MaxSuiteDepth + 1)
                /\ Atf!SuiteResultTree(w) = f[MaxSuiteDepth + 1]
<1> DEFINE f == CHOOSE f : AreLevels(w, f, MaxSuiteDepth + 1)
<1>1. AreLevels(w, f, MaxSuiteDepth + 1)
  BY LevelsExist, ResultsAssumption
<1>2. Atf!SuiteResultTree(w) = f[MaxSuiteDepth + 1]
  BY DEF Atf!SuiteResultTree, AreLevels, Deeper, Root
<1> QED BY <1>1, <1>2

(* A level that is not at fault holds what is below the root as far as it  *)
(* has come.                                                               *)
LevelOK(w, level) ==
  /\ "root" \in level.ids /\ level.frontier \subseteq level.ids
  /\ level.ids \subseteq Atf!Below(w)
  /\ w.count # "filtered" =>
       \A s \in w.suites : s.parent \in level.ids \ level.frontier => s.id \in level.ids

LEMMA BelowIsClosed ==
  ASSUME NEW w
  PROVE  /\ "root" \in Atf!Below(w)
         /\ \A s \in w.suites : s.parent \in Atf!Below(w) => s.id \in Atf!Below(w)
  BY DEF Atf!Below

LEMMA BelowIsLeast ==
  ASSUME NEW w, NEW S, "root" \in S, \A s \in w.suites : s.parent \in S => s.id \in S
  PROVE  Atf!Below(w) \subseteq S
<1> DEFINE All == {"root"} \cup {s.id : s \in w.suites}
<1>1. "root" \in S \cap All /\ \A s \in w.suites : s.parent \in S \cap All => s.id \in S \cap All
  OBVIOUS
<1>2. S \cap All \in SUBSET All
  OBVIOUS
<1> QED BY <1>1, <1>2 DEF Atf!Below

LEMMA DeeperKeeps ==
  ASSUME NEW w \in Executions, NEW prev, NEW n, ~prev.fault => LevelOK(w, prev)
  PROVE  ~Deeper(w, prev, n).fault => LevelOK(w, Deeper(w, prev, n))
<1> SUFFICES ASSUME ~Deeper(w, prev, n).fault, ~prev.fault, prev.frontier # {}
             PROVE  LevelOK(w, Deeper(w, prev, n))
  BY DEF Deeper
<1> DEFINE level == Atf!Level(w, prev, n)
           children == {s \in w.suites : "suites" \in w.leaky \/ s.parent \in prev.frontier}
           limit == MaxSuiteResults - Cardinality(prev.ids) + 1
           paged == Atf!ReadTable(w, children, limit)
           found == {s.id : s \in paged.rows}
<1>1. Deeper(w, prev, n) = level
  BY DEF Deeper
<1>2. level.ids = prev.ids \cup found /\ level.frontier = found
  BY AtfCardinality DEF Atf!Level
<1>3. /\ ~paged.truncated
      /\ \A s \in paged.rows : s.parent \in prev.frontier
      /\ found \cap prev.ids = {}
  <2>1. ~level.fault
    BY <1>1
  <2> QED BY <2>1, AtfCardinality DEF Atf!Level
<1>4. LevelOK(w, prev)
  OBVIOUS
<1>5. paged.rows \subseteq w.suites
  BY ReadIsMatching
<1>6. found \subseteq Atf!Below(w)
  BY <1>3, <1>4, <1>5, BelowIsClosed DEF LevelOK
<1>7. ASSUME w.count # "filtered", NEW s \in w.suites, s.parent \in level.ids \ level.frontier
      PROVE  s.id \in level.ids
  <2>1. IsTable(children)
    <3>1. IsTable(w.suites)
      BY ResultsAssumption DEF IsTable
    <3> QED BY <3>1, FS_Subset DEF IsTable
  <2>2. paged.rows = children
    BY <1>3, <1>7, <2>1, WholeIsAll
  <2>3. s.parent \in prev.ids
    BY <1>2, <1>7
  <2>4. CASE s.parent \in prev.frontier
    BY <1>2, <2>2, <2>4
  <2>5. CASE s.parent \notin prev.frontier
    BY <1>2, <1>4, <1>7, <2>3, <2>5 DEF LevelOK
  <2> QED BY <2>4, <2>5
<1> QED BY <1>1, <1>2, <1>4, <1>6, <1>7 DEF LevelOK

(* The tree that was read is the tree there is.                            *)
LEMMA TreeIsRead ==
  ASSUME NEW w \in Executions, ~Atf!SuiteResultTree(w).fault
  PROVE  LET ids == Atf!SuiteResultTree(w).ids IN
         /\ "root" \in ids /\ ids \subseteq Atf!Below(w) /\ IsFiniteSet(ids)
         /\ w.count # "filtered" => ids = Atf!Below(w)
<1> DEFINE last == MaxSuiteDepth + 1
           tree == Atf!SuiteResultTree(w)
<1>1. PICK f : AreLevels(w, f, last) /\ tree = f[last]
  BY TreeIsLastLevel
<1>2. last \in Nat /\ last - 1 \in Nat /\ last - 1 \in 0 .. last /\ last \in 0 .. last /\ last # 0
  BY ResultsAssumption
<1>3. \A n \in 0 .. last : f[n] = IF n = 0 THEN Root ELSE Deeper(w, f[n - 1], n)
  BY <1>1 DEF AreLevels
<1>4. \A n \in 0 .. last : ~f[n].fault => LevelOK(w, f[n])
  <2> DEFINE Off == {n \in 0 .. last : ~(~f[n].fault => LevelOK(w, f[n]))}
  <2> SUFFICES ASSUME Off # {} PROVE FALSE
    OBVIOUS
  <2>1. Off \in SUBSET Nat
    OBVIOUS
  <2>2. PICK m \in Off : \A k \in Off : m <= k
    BY <2>1, Least
  <2> HIDE DEF last
  <2>3. CASE m = 0
    <3>1. f[m] = Root
      BY <1>3, <2>3
    <3>2. LevelOK(w, Root)
      BY BelowIsClosed DEF LevelOK, Root
    <3> QED BY <3>1, <3>2
  <2>4. CASE m # 0
    <3>1. m - 1 \in 0 .. last /\ m - 1 \notin Off
      BY <2>2, <2>4, <1>2
    <3>2. f[m] = Deeper(w, f[m - 1], m)
      BY <1>3, <2>4
    <3> QED BY <3>1, <3>2, DeeperKeeps
  <2> QED BY <2>3, <2>4
<1>5. LevelOK(w, tree)
  BY <1>1, <1>2, <1>4
<1>6. tree.frontier = {}
  <2>1. tree = Deeper(w, f[last - 1], last)
    BY <1>1, <1>2, <1>3
  <2>2. CASE f[last - 1].fault
    BY <2>1, <2>2 DEF Deeper
  <2>3. CASE ~f[last - 1].fault /\ f[last - 1].frontier = {}
    BY <2>1, <2>3 DEF Deeper
  <2>4. CASE ~f[last - 1].fault /\ f[last - 1].frontier # {}
    <3>1. tree = Atf!Level(w, f[last - 1], last)
      BY <2>1, <2>4 DEF Deeper
    <3>2. ~Atf!Level(w, f[last - 1], last).fault
      BY <3>1
    <3>3. ~(Atf!Level(w, f[last - 1], last).frontier # {} /\ last > MaxSuiteDepth)
      <4> HIDE DEF last
      <4> QED BY <3>2, Zenon DEF Atf!Level
    <3> QED BY <3>1, <3>3, ResultsAssumption
  <2> QED BY <2>2, <2>3, <2>4
<1>7. IsFiniteSet(tree.ids)
  <2>1. IsFiniteSet({s.id : s \in w.suites})
    <3> DEFINE id == [s \in w.suites |-> s.id]
    <3>1. {s.id : s \in w.suites} = {id[s] : s \in w.suites}
      OBVIOUS
    <3>2. IsFiniteSet(w.suites)
      BY ResultsAssumption
    <3>3. id \in Surjection(w.suites, {s.id : s \in w.suites})
      BY DEF Surjection
    <3> QED BY <3>2, <3>3, FS_Surjection
  <2>2. IsFiniteSet({"root"} \cup {s.id : s \in w.suites})
    BY <2>1, FS_Singleton, FS_Union
  <2>3. Atf!Below(w) \subseteq {"root"} \cup {s.id : s \in w.suites}
    BY DEF Atf!Below
  <2> QED BY <1>5, <2>2, <2>3, FS_Subset DEF LevelOK
<1>8. w.count # "filtered" => Atf!Below(w) \subseteq tree.ids
  BY <1>5, <1>6, BelowIsLeast DEF LevelOK
<1> QED BY <1>5, <1>7, <1>8 DEF LevelOK

-----------------------------------------------------------------------------
(* What is taken for results is of the execution, and can be read.         *)
LEMMA ResultsAreLinked ==
  ASSUME NEW w, NEW tests, NEW links
  PROVE  \A r \in Atf!TestResults(w, tests, links) :
           r \in w.rows /\ r.readable /\ r.link \in links
<1> DEFINE batch == Atf!Matching(w, tests, links)
           perPair == Atf!Cardinality(links) * RowsPerTest
           paged == Atf!ReadTable(w, batch, Atf!Cardinality(tests) * perPair)
           again(t) == Atf!ReadTable(w, Atf!Matching(w, {t}, links), perPair)
           nested == Atf!Cardinality(links) > 1
           known(t) == Atf!Admissible(paged.rows \cup IF nested THEN again(t).rows ELSE {}, links)
           starved(t) == IF nested /\ ~again(t).truncated THEN {}
                         ELSE Atf!Starved(known(t), t, links)
           newest(t, k) == Atf!ReadTable(w, Atf!Matching(w, {t}, {k}), 1).rows
           all(t) == known(t) \cup UNION {newest(t, k) : k \in starved(t)}
           found == IF paged.truncated THEN UNION {all(t) : t \in tests} ELSE paged.rows
<1>1. Atf!TestResults(w, tests, links) = Atf!Admissible(found, links)
  BY DEF Atf!TestResults
<1>2. \A ts, ks : \A r \in Atf!Matching(w, ts, ks) : r \in w.rows
  BY DEF Atf!Matching
<1>3. \A r \in paged.rows : r \in w.rows /\ r.readable
  BY <1>2, ReadIsMatching
<1>4. \A t : \A r \in again(t).rows : r \in w.rows /\ r.readable
  BY <1>2, ReadIsMatching
<1>5. \A t, k : \A r \in newest(t, k) : r \in w.rows /\ r.readable
  BY <1>2, ReadIsMatching
<1>6. \A t : \A r \in known(t) : r \in w.rows /\ r.readable
  <2> HIDE DEF paged, again, nested
  <2> QED BY <1>3, <1>4 DEF Atf!Admissible
<1>7. \A r \in found : r \in w.rows /\ r.readable
  <2> HIDE DEF known, newest, paged, starved
  <2> QED BY <1>3, <1>5, <1>6
<1> HIDE DEF found
<1> QED BY <1>1, <1>7 DEF Atf!Admissible

(* The last row of a suite result is among those read, if any row of the   *)
(* test is: it comes before the others of the pair, in whichever read      *)
(* returns one.  Where the instance ignores the suite, that is so of a     *)
(* single one.                                                             *)
LEMMA LastRowIsRead ==
  ASSUME NEW w \in Executions, w.count # "filtered",
         NEW tests, IsFiniteSet(tests), NEW links, IsFiniteSet(links), "root" \in links,
         "results" \in w.leaky => links = {"root"},
         NEW t \in tests, NEW r \in w.rows, r.test = t, r.readable, r.link \in links,
         \A s \in w.rows : s.test = t /\ s.link = r.link => s.at <= r.at,
         NEW x \in Atf!TestResults(w, tests, links), x.test = t
  PROVE  r \in Atf!TestResults(w, tests, links)
<1> DEFINE batch == Atf!Matching(w, tests, links)
           perPair == Atf!Cardinality(links) * RowsPerTest
           limit == Atf!Cardinality(tests) * perPair
           paged == Atf!ReadTable(w, batch, limit)
           again(u) == Atf!ReadTable(w, Atf!Matching(w, {u}, links), perPair)
           nested == Atf!Cardinality(links) > 1
           known(u) == Atf!Admissible(paged.rows \cup IF nested THEN again(u).rows ELSE {}, links)
           starved(u) == IF nested /\ ~again(u).truncated THEN {}
                         ELSE Atf!Starved(known(u), u, links)
           newest(u, k) == Atf!ReadTable(w, Atf!Matching(w, {u}, {k}), 1).rows
           all(u) == known(u) \cup UNION {newest(u, k) : k \in starved(u)}
           found == IF paged.truncated THEN UNION {all(u) : u \in tests} ELSE paged.rows
           Pair(s) == s.test = t /\ s.link = r.link
<1>1. Atf!TestResults(w, tests, links) = Atf!Admissible(found, links)
  BY DEF Atf!TestResults
<1>2. perPair \in Int /\ limit \in Int
  <2>1. Cardinality(links) \in Nat /\ Cardinality(tests) \in Nat
    BY FS_CardinalityType
  <2> QED BY <2>1, AtfCardinality, ResultsAssumption
<1>3. ASSUME NEW ts, NEW ks PROVE IsTable(Atf!Matching(w, ts, ks))
  <2>1. IsTable(w.rows)
    BY ResultsAssumption DEF IsTable
  <2>2. Atf!Matching(w, ts, ks) \subseteq w.rows
    BY DEF Atf!Matching
  <2> QED BY <2>1, <2>2, FS_Subset DEF IsTable
(* Whatever read returns a row of the pair returns this one. *)
<1>4. ASSUME NEW ts, NEW ks, t \in ts, r.link \in ks, NEW n \in Int,
             NEW q \in Atf!ReadTable(w, Atf!Matching(w, ts, ks), n).rows, Pair(q)
      PROVE  r \in Atf!ReadTable(w, Atf!Matching(w, ts, ks), n).rows
  <2> DEFINE rows == Atf!Matching(w, ts, ks)
  <2>1. r \in rows
    BY <1>4 DEF Atf!Matching
  <2>2. q \in Atf!First(rows, n) /\ q \in w.rows
    BY <1>4 DEF Atf!ReadTable, Atf!Readable, Atf!First, Atf!Matching
  <2>3. r.at >= q.at
    BY <1>4, <2>2, ResultsAssumption
  <2>4. r \in Atf!First(rows, n)
    BY <1>3, <2>1, <2>2, <2>3, FirstIsUpward
  <2> QED BY <2>4, ReadableIsRead
<1>5. ASSUME NEW u, NEW q \in known(u), Pair(q) PROVE r \in known(t)
  <2>1. q \in paged.rows \/ (nested /\ q \in again(u).rows)
    <3> HIDE DEF paged, again, nested
    <3> QED BY <1>5 DEF Atf!Admissible
  <2>2. CASE q \in paged.rows
    <3>1. r \in paged.rows
      BY <1>2, <1>4, <1>5, <2>2
    <3> HIDE DEF paged, again, nested
    <3> QED BY <3>1 DEF Atf!Admissible
  <2>3. CASE nested /\ q \in again(u).rows
    <3>1. q \in Atf!Matching(w, {u}, links)
      BY <2>3, ReadIsMatching
    <3>2. u = t
      BY <1>5, <3>1 DEF Atf!Matching
    <3>3. r \in again(t).rows
      BY <1>2, <1>4, <1>5, <2>3, <3>2
    <3> HIDE DEF paged, again, nested
    <3> QED BY <2>3, <3>3 DEF Atf!Admissible
  <2> QED BY <2>1, <2>2, <2>3
<1>6. ~paged.truncated => r \in paged.rows
  <2>1. r \in batch
    BY DEF Atf!Matching
  <2>2. ~paged.truncated => paged.rows = batch
    BY <1>3, WholeIsAll
  <2> QED BY <2>1, <2>2
<1>7. nested /\ ~again(t).truncated => r \in known(t)
  <2> SUFFICES ASSUME nested, ~again(t).truncated PROVE r \in known(t)
    OBVIOUS
  <2>1. r \in Atf!Matching(w, {t}, links)
    BY DEF Atf!Matching
  <2>2. again(t).rows = Atf!Matching(w, {t}, links)
    BY <1>3, WholeIsAll
  <2>3. r \in again(t).rows
    BY <2>1, <2>2
  <2> HIDE DEF paged, again, nested
  <2> QED BY <2>3 DEF Atf!Admissible
<1>8. "results" \notin w.leaky => r \in newest(t, r.link)
  <2> SUFFICES ASSUME "results" \notin w.leaky PROVE r \in newest(t, r.link)
    OBVIOUS
  <2> DEFINE rows == Atf!Matching(w, {t}, {r.link})
  <2>1. r \in rows /\ \A s \in rows : s.at <= r.at
    BY DEF Atf!Matching
  <2>2. r \in Atf!First(rows, 1)
    BY <1>3, <2>1, NewestIsFirst
  <2> QED BY <2>2, ReadableIsRead
(* A row of the pair was read, or the row itself. *)
<1>9. paged.truncated /\ r \notin all(t) => "results" \in w.leaky /\ ~\E q \in all(t) : Pair(q)
  <2> SUFFICES ASSUME paged.truncated, r \notin all(t)
               PROVE  "results" \in w.leaky /\ ~\E q \in all(t) : Pair(q)
    OBVIOUS
  <2>1. ~\E q \in known(t) : Pair(q)
    BY <1>5
  <2>2. r.link \in starved(t)
    <3> HIDE DEF paged, again, nested, known
    <3> QED BY <1>7, <2>1 DEF Atf!Starved
  <2>3. r \notin newest(t, r.link)
    <3> HIDE DEF paged, again, nested, known, newest, starved
    <3> QED BY <2>2
  <2>4. "results" \in w.leaky
    BY <1>8, <2>3
  <2>5. ASSUME NEW k \in starved(t), NEW q \in newest(t, k), Pair(q) PROVE FALSE
    <3>1. k = r.link
      <4>1. k \in links
        <5> HIDE DEF paged, again, nested, known, newest
        <5> QED BY DEF Atf!Starved
      <4> QED BY <2>4, <4>1
    <3> QED BY <1>4, <2>3, <2>5, <3>1
  <2> HIDE DEF paged, again, nested, known, newest, starved
  <2> QED BY <2>1, <2>4, <2>5
<1>10. r \in found
  <2>1. CASE ~paged.truncated
    BY <1>6, <2>1
  <2>2. CASE paged.truncated
    <3> SUFFICES ASSUME r \notin all(t) PROVE FALSE
      <4> HIDE DEF all, paged
      <4> QED BY <2>2
    <3>1. "results" \in w.leaky /\ ~\E q \in all(t) : Pair(q)
      BY <1>9, <2>2
    <3>2. x.link = "root" /\ r.link = "root" /\ x \in found
      <4> HIDE DEF found
      <4> QED BY <1>1, <3>1 DEF Atf!Admissible
    <3>3. PICK u \in tests : x \in all(u)
      <4> HIDE DEF all, paged
      <4> QED BY <2>2, <3>2
    <3>4. x \in known(u) \/ \E k \in starved(u) : x \in newest(u, k)
      <4> HIDE DEF paged, known, newest, starved
      <4> QED BY <3>3
    <3>5. CASE x \in known(u)
      <4>1. r \in known(t)
        BY <1>5, <3>2, <3>5
      <4> HIDE DEF paged, known, newest, starved
      <4> QED BY <4>1
    <3>6. CASE \E k \in starved(u) : x \in newest(u, k)
      <4>1. \A k : x \in newest(u, k) => u = t
        <5>1. \A k : x \in newest(u, k) => x \in Atf!Matching(w, {u}, {k})
          BY ReadIsMatching
        <5> QED BY <5>1 DEF Atf!Matching
      <4>2. u = t
        <5> HIDE DEF newest, starved
        <5> QED BY <3>6, <4>1
      <4> HIDE DEF all
      <4> QED BY <3>1, <3>2, <3>3, <4>2
    <3> QED BY <3>4, <3>5, <3>6
  <2> QED BY <2>1, <2>2
<1> HIDE DEF found
<1> QED BY <1>1, <1>10 DEF Atf!Admissible

LEMMA PassIsWorst ==
  ASSUME NEW rows, Atf!WorstOf(rows) = "pass",
         \A r \in rows : r.status \in {"pass", "fail", "error", "skipped"}
  PROVE  \A r \in rows : r.status = "pass"
  BY DEF Atf!WorstOf

(***************************************************************************)
(* parseSpecResults: a pass rests on a row of this execution, and no last  *)
(* row of a suite of its tree says otherwise; for any tables, any limits   *)
(* on pages and trees, whatever is hidden, cut short or ignored.           *)
(***************************************************************************)
THEOREM PassProvenHolds == Spec => []PassProven
<1> DEFINE Inv == which = "results" => world \in Executions /\ read \subseteq {Listed}
<1>1. Init => Inv
  BY DEF Init
<1>2. Inv /\ [Next]_vars => Inv'
  BY OneAtATime DEF ReadResults, resultVars
<1>3. ASSUME NEW w \in Executions PROVE Atf!PassProven(w, Listed)
  <2> SUFFICES ASSUME NEW t \in Listed, ~Atf!Unreadable(w), Atf!ResultOf(w, Listed, t) = "pass"
               PROVE  /\ w.linked
                      /\ \E r \in Atf!Evidence(w, t) : r.status = "pass"
                      /\ \/ w.count = "filtered"
                         \/ "results" \in w.leaky /\ Atf!SuiteResultTree(w).ids # {"root"}
                         \/ \A r \in Atf!LastWords(w, t) : r.status = "pass"
    BY DEF Atf!PassProven
  <2> DEFINE links == Atf!SuiteResultTree(w).ids
             results == Atf!TestResults(w, Listed, links)
             rows == {r \in Atf!Newest(results) : r.test = t}
  <2>1. w.linked /\ rows # {} /\ Atf!WorstOf(rows) = "pass"
    BY DEF Atf!ResultOf
  <2>2. ~Atf!SuiteResultTree(w).fault
    BY <2>1 DEF Atf!Unreadable
  <2>3. /\ "root" \in links /\ links \subseteq Atf!Below(w) /\ IsFiniteSet(links)
        /\ w.count # "filtered" => links = Atf!Below(w)
    BY <2>2, TreeIsRead
  <2> HIDE DEF links
  <2>4. \A r \in results : r \in w.rows /\ r.readable /\ r.link \in links
    BY ResultsAreLinked
  <2> HIDE DEF results
  <2>5. \A r \in rows : r \in results /\ r.test = t
    BY DEF Atf!Newest
  <2>6. \A r \in rows : r.status = "pass"
    <3>1. \A r \in rows : r.status \in {"pass", "fail", "error", "skipped"}
      BY <2>4, <2>5, ResultsAssumption
    <3> HIDE DEF rows
    <3> QED BY <2>1, <3>1, PassIsWorst
  <2>7. \E r \in Atf!Evidence(w, t) : r.status = "pass"
    <3>1. PICK r \in rows : TRUE
      BY <2>1
    <3> HIDE DEF rows
    <3> QED BY <2>3, <2>4, <2>5, <2>6, <3>1 DEF Atf!Evidence
  <2>8. ASSUME w.count # "filtered", ~("results" \in w.leaky /\ links # {"root"}),
               NEW r \in Atf!LastWords(w, t)
        PROVE  r.status = "pass"
    <3>1. /\ r \in w.rows /\ r.test = t /\ r.readable /\ r.link \in links
          /\ \A s \in w.rows : s.test = t /\ s.link = r.link => s.at <= r.at
      BY <2>3, <2>8 DEF Atf!LastWords, Atf!Evidence, Atf!Newest
    <3>2. PICK x \in results : x.test = t
      <4> HIDE DEF rows
      <4> QED BY <2>1, <2>5
    <3>3. r \in results
      BY <2>3, <2>8, <3>1, <3>2, ResultsAssumption, LastRowIsRead DEF results
    <3>4. r \in rows
      BY <2>4, <3>1, <3>3 DEF Atf!Newest
    <3> HIDE DEF rows
    <3> QED BY <2>6, <3>4
  <2> QED BY <2>1, <2>7, <2>8 DEF links
<1>4. Inv => PassProven
  BY <1>3 DEF PassProven
<1> QED BY <1>1, <1>2, <1>4, PTL DEF Spec

-----------------------------------------------------------------------------
(***************************************************************************)
(* The target guard.                                                       *)
(***************************************************************************)

Classes == {"none", "sub-prod", "prod-suspect", "prod", "unknown"}
ProbeAnswers == {"clean", "downgrade", "warning"}

(* The types of what the guard keeps.                                      *)
GuardTypeOK ==
  /\ asked \in Nat
  /\ probing \in [Guard!Keys -> Nat]
  /\ said \in [Guard!Keys -> SUBSET ProbeAnswers]
  /\ cls \in [Guard!Keys -> Classes]
  /\ acked \subseteq Guard!Keys /\ ledger \subseteq Guard!Keys
  /\ writes \subseteq [key : Guard!Keys, covered : BOOLEAN]

(* One probe for each key, and no answer before it or after its class.     *)
Pinned ==
  \A k \in Guard!Keys :
    /\ probing[k] <= 1
    /\ probing[k] = 1 => cls[k] = "none" /\ said[k] = {}
                         /\ Guard!Declared(k[1]) = "allowlisted"
    /\ cls[k] = "none" => said[k] = {}

(* A class says of its host what the configuration and the probe said.     *)
Judged ==
  \A k \in Guard!Keys :
    /\ cls[k] \in {"sub-prod", "prod-suspect"} => Guard!Declared(k[1]) = "allowlisted"
    /\ cls[k] = "sub-prod" => k[1] \notin NamedProd /\ "downgrade" \notin said[k]

(* A write was let through on a class that stands, suspects under a usable *)
(* override that was on the ledger.                                        *)
Cleared ==
  /\ acked \subseteq ledger
  /\ \A w \in writes :
       /\ w.key[2] = "runner"
       /\ cls[w.key] \in {"sub-prod", "prod-suspect"}
       /\ cls[w.key] = "prod-suspect" => w.covered /\ Guard!Usable(acknowledgeProd)

GuardInv == GuardTypeOK /\ Pinned /\ Judged /\ Cleared

-----------------------------------------------------------------------------
LEMMA GuardInit == Guard!Init => GuardInv
  BY DEF Guard!Init, GuardInv, GuardTypeOK, Pinned, Judged, Cleared, Classes, ProbeAnswers, Guard!Keys

(* A second caller joins the probe of the first; nobody replaces a class.  *)
LEMMA ClassifyKeeps ==
  ASSUME GuardInv, NEW k \in Guard!Keys, Guard!Classify(k)
  PROVE  GuardInv'
<1> USE DEF GuardInv
<1>1. GuardTypeOK'
  BY DEF Guard!Classify, GuardTypeOK, Guard!Declared, Classes
<1>2. Pinned'
  BY DEF Guard!Classify, GuardTypeOK, Pinned, Guard!Shared, Guard!Declared
<1>3. Judged'
  BY DEF Guard!Classify, GuardTypeOK, Judged, Guard!Declared
<1>4. Cleared'
  BY DEF Guard!Classify, GuardTypeOK, Cleared, Guard!Shared
<1> QED BY <1>1, <1>2, <1>3, <1>4

LEMMA AnswerKeeps ==
  ASSUME GuardInv, NEW k \in Guard!Keys, NEW answer \in ProbeAnswers, Guard!Answer(k, answer)
  PROVE  GuardInv'
<1> USE DEF GuardInv
<1>0. probing[k] = 1 /\ cls[k] = "none" /\ said[k] = {}
  BY DEF Guard!Answer, GuardTypeOK, Pinned
<1>1. GuardTypeOK'
  BY <1>0 DEF Guard!Answer, GuardTypeOK, Guard!ClassOf, Classes
<1>2. Pinned'
  BY <1>0 DEF Guard!Answer, GuardTypeOK, Pinned, Guard!ClassOf
<1>3. Judged'
  BY <1>0 DEF Guard!Answer, GuardTypeOK, Pinned, Judged, Guard!ClassOf
<1>4. Cleared'
  BY <1>0 DEF Guard!Answer, GuardTypeOK, Cleared
<1> QED BY <1>1, <1>2, <1>3, <1>4

(* Journalling adds to both sets, or to none where the entry is there.     *)
LEMMA JournalKeeps ==
  ASSUME GuardTypeOK, Cleared, NEW k \in Guard!Keys, Guard!Journal(k)
  PROVE  /\ acked' \subseteq Guard!Keys /\ ledger' \subseteq Guard!Keys
         /\ acked' \subseteq ledger' /\ k \in ledger'
         /\ Guard!Usable(acknowledgeProd)
  BY DEF GuardTypeOK, Cleared, Guard!Journal

LEMMA AssertWriteKeeps ==
  ASSUME GuardInv, NEW k \in Guard!Keys, Guard!AssertWrite(k)
  PROVE  GuardInv'
<1> USE DEF GuardInv
<1> DEFINE w == [key |-> k, covered |-> k \in ledger']
<1>1. /\ writes' = writes \cup {w}
      /\ UNCHANGED <<acknowledgeProd, audit, asked, probing, said, cls>>
      /\ k[2] = "runner"
  BY DEF Guard!AssertWrite
<1>2. \/ cls[k] = "sub-prod" /\ UNCHANGED <<acked, ledger>>
      \/ cls[k] = "prod-suspect" /\ Guard!Journal(k)
  BY DEF Guard!AssertWrite
<1>3. /\ acked' \subseteq Guard!Keys /\ ledger' \subseteq Guard!Keys
      /\ acked' \subseteq ledger'
      /\ cls[k] \in {"sub-prod", "prod-suspect"}
      /\ cls[k] = "prod-suspect" => k \in ledger' /\ Guard!Usable(acknowledgeProd)
  <2>1. CASE cls[k] = "sub-prod" /\ UNCHANGED <<acked, ledger>>
    BY <2>1 DEF GuardTypeOK, Cleared
  <2>2. CASE cls[k] = "prod-suspect" /\ Guard!Journal(k)
    BY <2>2, JournalKeeps
  <2> QED BY <1>2, <2>1, <2>2
<1>4. GuardTypeOK'
  <2>1. w \in [key : Guard!Keys, covered : BOOLEAN]
    OBVIOUS
  <2> QED BY <1>1, <1>3, <2>1 DEF GuardTypeOK
<1>5. Pinned' /\ Judged'
  BY <1>1 DEF Pinned, Judged
<1>6. Cleared'
  <2> SUFFICES ASSUME NEW v \in writes'
               PROVE  /\ v.key[2] = "runner"
                      /\ cls[v.key] \in {"sub-prod", "prod-suspect"}
                      /\ cls[v.key] = "prod-suspect" => v.covered /\ Guard!Usable(acknowledgeProd)
    BY <1>1, <1>3 DEF Cleared, Guard!Usable
  <2>1. CASE v \in writes
    BY <2>1 DEF Cleared
  <2>2. CASE v = w
    <3>1. v.key = k /\ v.covered = (k \in ledger')
      BY <2>2
    <3> QED BY <3>1, <1>1, <1>3
  <2> QED BY <1>1, <2>1, <2>2
<1> QED BY <1>4, <1>5, <1>6

LEMMA AcksKeep ==
  ASSUME GuardInv, NEW k \in Guard!Keys, Guard!AssertRunnerWritable(k) \/ Guard!FailToJournal(k)
  PROVE  GuardInv'
<1> USE DEF GuardInv
<1>1. CASE Guard!AssertRunnerWritable(k)
  BY <1>1, JournalKeeps DEF Guard!AssertRunnerWritable, GuardTypeOK, Pinned, Judged, Cleared
<1>2. CASE Guard!FailToJournal(k)
  BY <1>2 DEF Guard!FailToJournal, GuardTypeOK, Pinned, Judged, Cleared
<1> QED BY <1>1, <1>2

LEMMA GuardNext == GuardInv /\ (Guard!Next \/ UNCHANGED guardVars) => GuardInv'
<1> SUFFICES ASSUME GuardInv, (Guard!Next \/ UNCHANGED guardVars) PROVE GuardInv'
  OBVIOUS
<1>1. CASE UNCHANGED guardVars
  BY <1>1 DEF guardVars, GuardInv, GuardTypeOK, Pinned, Judged, Cleared
<1>2. CASE Guard!Next
  BY <1>2, ClassifyKeeps, AnswerKeeps, AssertWriteKeeps, AcksKeep DEF Guard!Next, ProbeAnswers
<1> QED BY <1>1, <1>2

LEMMA InvClears == GuardInv => Guard!WritesCleared
<1> SUFFICES ASSUME GuardInv, NEW w \in writes
             PROVE  /\ w.key[2] = "runner"
                    /\ w.key[1] \in NonProdAllowlist \ ProdInstances
                    /\ w.key[1] \in NamedProd \/ "downgrade" \in said[w.key] =>
                         w.covered /\ Guard!Usable(acknowledgeProd)
  BY DEF Guard!WritesCleared
<1>1. w.key \in Guard!Keys
  BY DEF GuardInv, GuardTypeOK
<1>2. Guard!Declared(w.key[1]) = "allowlisted"
  BY <1>1 DEF GuardInv, Judged, Cleared
<1> QED BY <1>1, <1>2 DEF GuardInv, Judged, Cleared, Guard!Declared

(* targetGuard.ts assertWrite: a mutation reaches only a runner that the   *)
(* configuration has cleared, and one that anything ever said looks like   *)
(* production only with a usable override on the ledger before the write.  *)
THEOREM WritesClearedHolds == Spec => []WritesCleared
<1> DEFINE Inv == which = "guard" => GuardInv
<1>1. Init => Inv
  BY GuardInit DEF Init
<1>2. Inv /\ [Next]_vars => Inv'
  BY GuardNext, OneAtATime DEF Next
<1>3. Inv => WritesCleared
  BY InvClears DEF WritesCleared
<1> QED BY <1>1, <1>2, <1>3, PTL DEF Spec

-----------------------------------------------------------------------------
(***************************************************************************)
(* The provisioner.                                                        *)
(***************************************************************************)

PlanStep == [precondition : Setup!Rows, row : Setup!Rows, write : {"recipe", "other"}]
BeforeWrites == {"diagnose", "recipes", "planned", "refused"}
AfterWrites == {"rediagnose", "applied", "unconfirmed"}

SetupTypeOK ==
  /\ phase \in BeforeWrites \cup AfterWrites \cup {"write", "failed"}
  /\ row \in [Setup!Rows -> {"true", "false", "absent"}]
  /\ finding \in [Preconditions -> {"none", "ready", "not-ready", "unknown"}]
  /\ plan \in [steps : Seq(PlanStep), hashed : Seq(PlanStep)]
  /\ steps \in Nat
  /\ sent \in Seq(PlanStep)
  /\ seen \subseteq Setup!Rows

(* What is on the wire is the beginning of a plan that was trusted.        *)
OnWire(n) == Len(sent) = n /\ \A i \in 1 .. n : sent[i] = plan.steps[i]

Progressed ==
  /\ phase \in BeforeWrites => sent = <<>> /\ steps = 0
  /\ phase \notin BeforeWrites => Setup!Trusted(plan) /\ steps <= Len(plan.steps)
  /\ phase = "write" => OnWire(steps)
  /\ phase \in AfterWrites => OnWire(steps) /\ steps = Len(plan.steps)
  /\ phase = "failed" =>
       OnWire(steps) \/ (steps < Len(plan.steps) /\ OnWire(steps + 1))

(* What holds after a write was seen to; a precondition was found ready    *)
(* only if it was seen.                                                    *)
Witnessed ==
  /\ sent # <<>> => {p \in Setup!Rows : row[p] = "true"} \subseteq seen
  /\ phase = "rediagnose" =>
       sent # <<>> /\ \A p \in Preconditions : finding[p] = "ready" => p \in seen
  /\ phase = "applied" => \A i \in DOMAIN sent : sent[i].precondition \in seen

SetupInv == SetupTypeOK /\ Progressed /\ Witnessed

-----------------------------------------------------------------------------
LEMMA SetupInit == Setup!Init => SetupInv
  BY DEF Setup!Init, SetupInv, SetupTypeOK, Progressed, Witnessed, BeforeWrites, AfterWrites, Setup!Nothing,
     Setup!NoPlan, Setup!Rows

(* Steps that leave the plan, the wire and the instance alone.             *)
LEMMA ProbeKeeps ==
  ASSUME SetupInv, NEW p \in Preconditions, Setup!Probe(p) PROVE SetupInv'
<1> USE DEF SetupInv
<1>1. SetupTypeOK'
  BY DEF Setup!Probe, Setup!Verdicts, SetupTypeOK, Setup!Holds
<1>2. Progressed'
  BY DEF Setup!Probe, Progressed, OnWire
<1>3. Witnessed'
  <2>1. finding'[p] = "ready" => row[p] = "true"
    BY DEF Setup!Probe, Setup!Verdicts, Setup!Holds, SetupTypeOK
  <2>2. \A q \in Preconditions : q # p => finding'[q] = finding[q]
    BY DEF Setup!Probe, SetupTypeOK
  <2> QED BY <2>1, <2>2 DEF Setup!Probe, Witnessed, Setup!Rows
<1> QED BY <1>1, <1>2, <1>3

LEMMA StepIsTyped == \A p \in Setup!Rows : Setup!StepFor(p) \in PlanStep
  BY DEF Setup!StepFor, PlanStep

LEMMA PlanningKeeps ==
  ASSUME SetupInv,
         Setup!Consider \/ Setup!Planned \/ \E p \in Preconditions : Setup!Recipe(p)
  PROVE  SetupInv'
<1> USE DEF SetupInv
<1>1. CASE Setup!Consider
  BY <1>1 DEF Setup!Consider, SetupTypeOK, Progressed, Witnessed, BeforeWrites, AfterWrites
<1>2. CASE Setup!Planned
  BY <1>2 DEF Setup!Planned, SetupTypeOK, Progressed, Witnessed, BeforeWrites, AfterWrites
<1>3. ASSUME NEW p \in Preconditions, Setup!Recipe(p) PROVE SetupInv'
  <2>1. plan' \in [steps : Seq(PlanStep), hashed : Seq(PlanStep)]
    <3> DEFINE more == Append(plan.steps, Setup!StepFor(p))
    <3>1. plan' \in {plan, [plan EXCEPT !.steps = more]}
      BY <1>3 DEF Setup!Recipe
    <3>2. more \in Seq(PlanStep)
      BY StepIsTyped DEF SetupTypeOK, Setup!Rows
    <3> HIDE DEF more
    <3> QED BY <3>1, <3>2 DEF SetupTypeOK
  <2> QED BY <1>3, <2>1 DEF Setup!Recipe, SetupTypeOK, Progressed, Witnessed, BeforeWrites, AfterWrites
<1> QED BY <1>1, <1>2, <1>3

LEMMA EditKeeps ==
  ASSUME SetupInv, NEW p \in Setup!Rows, Setup!Edit(p) PROVE SetupInv'
<1> USE DEF SetupInv
<1>1. Setup!Edits(p) \subseteq Seq(PlanStep)
  <2>1. Setup!StepFor(p) \in PlanStep
    BY StepIsTyped
  <2>2. [Setup!StepFor(p) EXCEPT !.write = "other"] \in PlanStep
        /\ \A r \in Setup!Rows : [Setup!StepFor(p) EXCEPT !.row = r] \in PlanStep
    BY <2>1 DEF PlanStep
  <2>3. \A s \in PlanStep : <<s>> \in Seq(PlanStep) /\ <<s, s>> \in Seq(PlanStep)
    OBVIOUS
  <2>4. <<>> \in Seq(PlanStep) /\ <<[Setup!StepFor(p) EXCEPT !.write = "other"]>> \in Seq(PlanStep)
        /\ <<Setup!StepFor(p), Setup!StepFor(p)>> \in Seq(PlanStep)
    BY <2>1, <2>2, <2>3
  <2>5. {<<[Setup!StepFor(p) EXCEPT !.row = r]>> : r \in Setup!Rows} \subseteq Seq(PlanStep)
    <3> SUFFICES ASSUME NEW r \in Setup!Rows
                 PROVE  <<[Setup!StepFor(p) EXCEPT !.row = r]>> \in Seq(PlanStep)
      OBVIOUS
    <3> DEFINE other == [Setup!StepFor(p) EXCEPT !.row = r]
    <3>1. other \in PlanStep
      BY <2>2
    <3> HIDE DEF other
    <3>2. <<other>> \in Seq(PlanStep)
      BY <2>3, <3>1
    <3> QED BY <3>2 DEF other
  <2> QED BY <2>4, <2>5, Zenon DEF Setup!Edits
<1>2. plan' \in [steps : Seq(PlanStep), hashed : Seq(PlanStep)]
  <2>1. PICK edit \in Setup!Edits(p) :
          plan' \in {[plan EXCEPT !.steps = edit], [steps |-> edit, hashed |-> edit]}
    BY DEF Setup!Edit
  <2>2. edit \in Seq(PlanStep) /\ plan \in [steps : Seq(PlanStep), hashed : Seq(PlanStep)]
    BY <1>1, <2>1 DEF SetupTypeOK
  <2>3. [plan EXCEPT !.steps = edit] \in [steps : Seq(PlanStep), hashed : Seq(PlanStep)]
    BY <2>2
  <2>4. [steps |-> edit, hashed |-> edit] \in [steps : Seq(PlanStep), hashed : Seq(PlanStep)]
    BY <2>2
  <2> QED BY <2>1, <2>3, <2>4
<1> QED BY <1>2 DEF Setup!Edit, SetupTypeOK, Progressed, Witnessed, BeforeWrites, AfterWrites

LEMMA BeginKeeps ==
  ASSUME SetupInv, Setup!Begin \/ Setup!StopWriting \/ Setup!Written PROVE SetupInv'
<1> USE DEF SetupInv, BeforeWrites, AfterWrites
<1>1. CASE Setup!Begin
  BY <1>1 DEF Setup!Begin, SetupTypeOK, Progressed, Witnessed, OnWire
<1>2. CASE Setup!StopWriting
  BY <1>2 DEF Setup!StopWriting, SetupTypeOK, Progressed, Witnessed, OnWire
<1>3. CASE Setup!Written
  BY <1>3 DEF Setup!Written, SetupTypeOK, Progressed, Witnessed, OnWire, Setup!Nothing
<1> QED BY <1>1, <1>2, <1>3

(* One more step of the plan is on the wire, done or not.                  *)
LEMMA WriteKeeps ==
  ASSUME SetupInv, Setup!Write PROVE SetupInv'
<1> USE DEF SetupInv
<1> DEFINE step == plan.steps[steps + 1]
<1>1. step \in PlanStep /\ steps + 1 \in 1 .. Len(plan.steps)
  BY DEF Setup!Write, SetupTypeOK
<1>2. /\ sent' = Append(sent, step) /\ plan' = plan
      /\ row' \in {row, [row EXCEPT ![step.row] = "true"]}
      /\ seen' = {p \in Setup!Rows : row'[p] = "true"}
      /\ phase = "write" /\ finding' = finding
      /\ \/ steps' = steps + 1 /\ phase' = phase
         \/ phase' = "failed" /\ steps' = steps
  BY DEF Setup!Write
<1>3. SetupTypeOK'
  <2>1. row' \in [Setup!Rows -> {"true", "false", "absent"}]
    BY <1>1, <1>2 DEF SetupTypeOK, PlanStep
  <2>2. sent' \in Seq(PlanStep)
    BY <1>1, <1>2 DEF SetupTypeOK
  <2>3. steps' \in Nat /\ phase' \in BeforeWrites \cup AfterWrites \cup {"write", "failed"}
    BY <1>2 DEF SetupTypeOK
  <2>4. seen' \subseteq Setup!Rows /\ plan' = plan /\ finding' = finding
    BY <1>2
  <2> QED BY <2>1, <2>2, <2>3, <2>4 DEF SetupTypeOK
<1>4. Len(sent') = steps + 1 /\ \A i \in 1 .. steps + 1 : sent'[i] = plan.steps[i]
  <2>1. OnWire(steps) /\ sent \in Seq(PlanStep) /\ steps \in Nat
    BY <1>2 DEF SetupTypeOK, Progressed
  <2>2. Len(sent') = steps + 1 /\ sent'[steps + 1] = step
    BY <1>2, <2>1 DEF OnWire
  <2>3. ASSUME NEW i \in 1 .. steps PROVE sent'[i] = plan.steps[i]
    BY <1>2, <2>1 DEF OnWire
  <2>4. ASSUME NEW i \in 1 .. steps + 1 PROVE sent'[i] = plan.steps[i]
    <3>1. i \in 1 .. steps \/ i = steps + 1
      BY <2>1
    <3> QED BY <2>2, <2>3, <3>1
  <2> QED BY <2>2, <2>4
<1>5. Progressed'
  BY <1>1, <1>2, <1>4 DEF SetupTypeOK, Progressed, OnWire, BeforeWrites, AfterWrites, Setup!Trusted
<1>6. Witnessed'
  BY <1>2 DEF Witnessed
<1> QED BY <1>3, <1>5, <1>6

LEMMA VerifyKeeps ==
  ASSUME SetupInv, Setup!Verify PROVE SetupInv'
<1> USE DEF SetupInv, BeforeWrites, AfterWrites
<1>1. SetupTypeOK' /\ Progressed'
  BY DEF Setup!Verify, SetupTypeOK, Progressed, OnWire
<1>2. Witnessed'
  <2>1. ASSUME phase' = "applied", NEW i \in DOMAIN sent PROVE sent[i].precondition \in seen
    <3>1. i \in DOMAIN plan.steps /\ sent[i] = plan.steps[i]
      BY DEF Setup!Verify, SetupTypeOK, Progressed, OnWire
    <3>2. Setup!Confirmed(plan.steps[i].precondition)
      BY <2>1, <3>1 DEF Setup!Verify
    <3> QED BY <3>1, <3>2 DEF Setup!Confirmed, Setup!Verify, Witnessed
  <2> QED BY <2>1 DEF Setup!Verify, Witnessed
<1> QED BY <1>1, <1>2

LEMMA OutsideKeeps ==
  ASSUME SetupInv,
         Setup!Abort \/ \E p \in Setup!Rows, value \in {"true", "false", "absent"} : Setup!Drift(p, value)
  PROVE  SetupInv'
<1> USE DEF SetupInv
<1>1. CASE Setup!Abort
  BY <1>1 DEF Setup!Abort, SetupTypeOK, Progressed, OnWire, Witnessed
<1>2. ASSUME NEW p \in Setup!Rows, NEW value \in {"true", "false", "absent"}, Setup!Drift(p, value)
      PROVE  SetupInv'
  BY <1>2 DEF Setup!Drift, Setup!Over, SetupTypeOK, Progressed, OnWire, Witnessed
<1> QED BY <1>1, <1>2

LEMMA SetupNext == SetupInv /\ (Setup!Next \/ UNCHANGED setupVars) => SetupInv'
<1> SUFFICES ASSUME SetupInv, (Setup!Next \/ UNCHANGED setupVars) PROVE SetupInv'
  OBVIOUS
<1>1. CASE UNCHANGED setupVars
  BY <1>1 DEF setupVars, SetupInv, SetupTypeOK, Progressed, OnWire, Witnessed
<1>2. CASE Setup!Next
  BY <1>2, ProbeKeeps, PlanningKeeps, EditKeeps, BeginKeeps, WriteKeeps, VerifyKeeps,
     OutsideKeeps DEF Setup!Next
<1> QED BY <1>1, <1>2

-----------------------------------------------------------------------------
LEMMA InvTells == SetupInv => Setup!ToldAsWritten
<1> SUFFICES ASSUME SetupInv PROVE Setup!ToldAsWritten
  OBVIOUS
<1> USE DEF SetupInv
<1>1. phase = "refused" => sent = <<>>
  BY DEF Progressed, BeforeWrites
<1>2. phase = "failed" => Len(sent) \in {steps, steps + 1}
  BY DEF Progressed, OnWire
<1>3. phase = "applied" => sent = plan.steps /\ \A i \in DOMAIN sent : sent[i].precondition \in seen
  BY DEF SetupTypeOK, Progressed, OnWire, Witnessed, AfterWrites
<1>4. \A i \in DOMAIN sent : i \in DOMAIN plan.steps /\ sent[i] = plan.steps[i]
  BY DEF SetupTypeOK, Progressed, OnWire, BeforeWrites, AfterWrites
<1>5. sent # <<>> => Setup!Trusted(plan)
  BY DEF Progressed
<1>6. \A i \in DOMAIN sent : sent[i].write = "recipe"
  BY <1>4, <1>5 DEF SetupTypeOK, Setup!Trusted
<1>7. \A i, j \in DOMAIN sent : i # j => sent[i].row # sent[j].row
  BY <1>4, <1>5 DEF SetupTypeOK, Setup!Trusted
<1> QED BY <1>1, <1>2, <1>3, <1>6, <1>7 DEF Setup!ToldAsWritten

(* apply(): a refusal wrote nothing, a failure says how far it came, and   *)
(* success means that every step was sent once and every precondition held *)
(* after the last of them; nothing but recipes' writes is ever sent.       *)
THEOREM ToldAsWrittenHolds == Spec => []ToldAsWritten
<1> DEFINE Inv == which = "setup" => SetupInv
<1>1. Init => Inv
  BY SetupInit DEF Init
<1>2. Inv /\ [Next]_vars => Inv'
  BY SetupNext, OneAtATime DEF Next
<1>3. Inv => ToldAsWritten
  BY InvTells DEF ToldAsWritten
<1> QED BY <1>1, <1>2, <1>3, PTL DEF Spec

-----------------------------------------------------------------------------
(***************************************************************************)
(* The verdict.  The reducer folds outcomes into one raw outcome for each  *)
(* spec and that into a status; the lemmas say what each fold means for the*)
(* outcomes themselves, whatever they are and in whatever order they came. *)
(***************************************************************************)

Answered == [status |-> Gate!Status, token |-> Gate!Status = "GO",
             overridden |-> Gate!Status = "GO" /\ \E s \in Gate!Planned : Gate!Overridden(s)]

(* A verdict is that of the outcomes there are, which it has closed.       *)
VerdictInv ==
  /\ coverage \in Coverages
  /\ verdict = Gate!NoVerdict \/ verdict = Answered

-----------------------------------------------------------------------------
(* What is neither missing nor flaky is what every outcome says.           *)
LEMMA RawIsUnanimous ==
  ASSUME NEW s, NEW raw, raw \notin {"missing", "flaky"}
  PROVE  Gate!Raw(s) = raw <=> Gate!Only(s, raw)
<1>1. ASSUME Gate!Only(s, raw) PROVE Gate!Raw(s) = raw
  <2>1. Gate!Raws(s) = {raw}
    BY <1>1 DEF Gate!Only, Gate!Raws
  <2> QED BY <2>1 DEF Gate!Raw
<1>2. ASSUME Gate!Raw(s) = raw PROVE Gate!Only(s, raw)
  <2>1. Gate!Raws(s) # {} /\ \A a, b \in Gate!Raws(s) : a = b
    BY <1>2 DEF Gate!Raw
  <2>2. raw \in Gate!Raws(s)
    BY <1>2, <2>1 DEF Gate!Raw
  <2> QED BY <2>1, <2>2 DEF Gate!Only, Gate!Raws
<1> QED BY <1>1, <1>2

(* A spec fails on failures alone, or for want of any outcome.             *)
LEMMA FailIsUnanimous ==
  ASSUME NEW s
  PROVE  Gate!StatusOf(Gate!Raw(s)) = "fail" <=> Gate!Only(s, "fail") \/ Gate!Raws(s) \subseteq {"missing"}
<1>1. Gate!Raw(s) = "missing" <=> Gate!Raws(s) \subseteq {"missing"}
  <2>1. CASE Gate!Raws(s) = {}
    BY <2>1 DEF Gate!Raw
  <2>2. CASE Gate!Raws(s) # {} /\ \E a, b \in Gate!Raws(s) : a # b
    BY <2>2 DEF Gate!Raw
  <2>3. CASE Gate!Raws(s) # {} /\ \A a, b \in Gate!Raws(s) : a = b
    BY <2>3 DEF Gate!Raw
  <2> QED BY <2>1, <2>2, <2>3
<1>2. Gate!StatusOf(Gate!Raw(s)) = "fail" <=> Gate!Raw(s) = "fail" \/ Gate!Raw(s) = "missing"
  BY DEF Gate!StatusOf
<1> QED BY <1>1, <1>2, RawIsUnanimous

LEMMA PassIsUnanimous ==
  ASSUME NEW s
  PROVE  Gate!StatusOf(Gate!Raw(s)) = "pass" <=> Gate!Only(s, "pass")
<1>1. Gate!StatusOf(Gate!Raw(s)) = "pass" <=> Gate!Raw(s) = "pass"
  BY DEF Gate!StatusOf
<1> QED BY <1>1, RawIsUnanimous

LEMMA OverriddenIsSkipped ==
  ASSUME NEW s
  PROVE  Gate!Overridden(s) <=> Gate!Only(s, "skipped") /\ Gate!AllowSkipped
  BY RawIsUnanimous DEF Gate!Overridden

LEMMA StatusIsOneOfThree ==
  ASSUME NEW raw PROVE Gate!StatusOf(raw) \in {"pass", "fail", "inconclusive"}
  BY DEF Gate!StatusOf

-----------------------------------------------------------------------------
(* The rungs of the ladder, in terms of outcomes.                          *)
LEMMA GoIsEarned ==
  ASSUME Gate!Status = "GO"
  PROVE  /\ demanded # {} /\ demanded = Gate!Planned
         /\ \A s \in demanded : Gate!Only(s, "pass") \/ (Gate!Only(s, "skipped") /\ Gate!AllowSkipped)
         /\ (\E s \in Gate!Planned : Gate!Overridden(s)) <=> \E s \in demanded : Gate!Only(s, "skipped")
         /\ ~Gate!BelowFloor
<1>1. /\ demanded # {} /\ demanded = Gate!Planned /\ ~Gate!BelowFloor
      /\ \A s \in Gate!Planned : ~Gate!Blocking(s, "fail") /\ ~Gate!Blocking(s, "inconclusive")
  BY DEF Gate!Status, Gate!ParityBreach
<1>2. ASSUME NEW s \in Gate!Planned PROVE Gate!Only(s, "pass") \/ Gate!Overridden(s)
  BY <1>1, PassIsUnanimous, StatusIsOneOfThree DEF Gate!Blocking
<1>3. ASSUME NEW s \in Gate!Planned, Gate!Only(s, "skipped") PROVE Gate!Overridden(s)
  <2>1. Gate!Raw(s) = "skipped"
    BY <1>3, RawIsUnanimous
  <2>2. Gate!StatusOf(Gate!Raw(s)) = "inconclusive"
    BY <2>1 DEF Gate!StatusOf
  <2> QED BY <1>1, <2>2 DEF Gate!Blocking
<1> QED BY <1>1, <1>2, <1>3, OverriddenIsSkipped

LEMMA NoGoIsEarned ==
  Gate!Status = "NO_GO" <=>
    /\ demanded = Gate!Planned
    /\ \E s \in demanded : Gate!Only(s, "fail") \/ Gate!Raws(s) \subseteq {"missing"}
<1>1. ASSUME NEW s PROVE Gate!Blocking(s, "fail") <=> Gate!StatusOf(Gate!Raw(s)) = "fail"
  BY DEF Gate!Blocking, Gate!Overridden, Gate!StatusOf
<1>2. Gate!Status = "NO_GO" <=> demanded = Gate!Planned /\ \E s \in Gate!Planned : Gate!Blocking(s, "fail")
  BY DEF Gate!Status, Gate!ParityBreach
<1> QED BY <1>1, <1>2, FailIsUnanimous

LEMMA FloorIsKept ==
  ASSUME coverage \in [confirmed : Nat, impacted : Nat, floor : Nat], ~Gate!BelowFloor,
         coverage.impacted > 0
  PROVE  coverage.confirmed * 100 >= coverage.floor * coverage.impacted
<1> DEFINE c == coverage.confirmed  i == coverage.impacted  f == coverage.floor
<1>1. c \in Nat /\ i \in Nat /\ f \in Nat
  OBVIOUS
<1>2. f > 0 => ~(c * 100 < f * i)
  BY DEF Gate!BelowFloor
<1>3. f = 0 => f * i = 0
  BY <1>1
<1>4. f * i \in Nat /\ c * 100 \in Nat
  BY <1>1
<1> HIDE DEF c, i, f
<1>5. c * 100 >= f * i
  BY <1>1, <1>2, <1>3, <1>4
<1> QED BY <1>5 DEF c, i, f

-----------------------------------------------------------------------------
LEMMA VerdictInit == Gate!Init => VerdictInv
  BY DEF Gate!Init, VerdictInv

LEMMA VerdictNext == VerdictInv /\ (Gate!Next \/ UNCHANGED gateVars) => VerdictInv'
<1> SUFFICES ASSUME VerdictInv, (Gate!Next \/ UNCHANGED gateVars) PROVE VerdictInv'
  OBVIOUS
<1> USE DEF VerdictInv
<1>1. CASE Gate!AggregateVerdict
  <2>1. Answered' = Answered
    BY <1>1, SMTT(40) DEF Gate!AggregateVerdict, Answered, Gate!Status, Gate!Planned, Gate!ParityBreach, Gate!BelowFloor,
       Gate!Blocking, Gate!Overridden, Gate!AllowSkipped, Gate!Raw, Gate!Raws
  <2> QED BY <1>1, <2>1 DEF Gate!AggregateVerdict, Answered
<1>2. ASSUME NEW s \in Reported, NEW raw \in RawOutcomes, Gate!Report(s, raw) PROVE VerdictInv'
  BY <1>2 DEF Gate!Report
<1>3. CASE UNCHANGED gateVars
  <2>1. Answered' = Answered
    BY <1>3, SMTT(40) DEF gateVars, Answered, Gate!Status, Gate!Planned, Gate!ParityBreach, Gate!BelowFloor,
       Gate!Blocking, Gate!Overridden, Gate!AllowSkipped, Gate!Raw, Gate!Raws
  <2> QED BY <1>3, <2>1 DEF gateVars
<1> QED BY <1>1, <1>2, <1>3 DEF Gate!Next

LEMMA InvEarns ==
  ASSUME VerdictInv PROVE Gate!VerdictEarned
<1> SUFFICES ASSUME verdict # Gate!NoVerdict PROVE Gate!VerdictEarned
  BY DEF Gate!VerdictEarned
<1>1. /\ verdict.status = Gate!Status
      /\ verdict.token <=> Gate!Status = "GO"
      /\ verdict.overridden <=> Gate!Status = "GO" /\ \E s \in Gate!Planned : Gate!Overridden(s)
  <2>1. verdict = Answered
    BY DEF VerdictInv
  <2>2. Answered.status = Gate!Status
    BY DEF Answered
  <2>3. Answered.token = (Gate!Status = "GO")
    BY DEF Answered
  <2>4. Answered.overridden = (Gate!Status = "GO" /\ \E s \in Gate!Planned : Gate!Overridden(s))
    BY DEF Answered
  <2> QED BY <2>1, <2>2, <2>3, <2>4
<1>2. coverage \in [confirmed : Nat, impacted : Nat, floor : Nat]
  BY GateAssumption DEF VerdictInv
<1>3. Gate!Status = "GO" /\ coverage.impacted > 0 =>
        coverage.confirmed * 100 >= coverage.floor * coverage.impacted
  BY <1>2, GoIsEarned, FloorIsKept
<1> QED BY <1>1, <1>3, GoIsEarned, NoGoIsEarned, Zenon DEF Gate!VerdictEarned

(* aggregateVerdict: a confirm token exists on GO alone, and a GO means    *)
(* that everything demanded was planned and everything reported of it      *)
(* passed, or was skipped by leave; nothing lifts a NO_GO.                 *)
THEOREM VerdictEarnedHolds == Spec => []VerdictEarned
<1> DEFINE Inv == which = "gate" => VerdictInv
<1>1. Init => Inv
  BY VerdictInit DEF Init
<1>2. Inv /\ [Next]_vars => Inv'
  BY VerdictNext, OneAtATime DEF Next
<1>3. Inv => VerdictEarned
  BY InvEarns DEF VerdictEarned
<1> QED BY <1>1, <1>2, <1>3, PTL DEF Spec

-----------------------------------------------------------------------------
(***************************************************************************)
(* The state sync.                                                         *)
(***************************************************************************)
(* What is committed and what is pulled are tests, and the suite links     *)
(* tests that were pulled.                                                 *)
Test == [id : Scopes \X {Slug[n] : n \in Names}, sysId : SysIds, name : Names]

SyncInv ==
  /\ test \in [SysIds -> {Sync!Gone} \cup [scope : Scopes, name : Names]]
  /\ manifest.tests \in Seq(Test) /\ pulled \in Seq(Test)
  /\ stage = "merge" => linked \subseteq {pulled[i] : i \in DOMAIN pulled}

LEMMA SyncInit == Sync!Init => SyncInv
  BY DEF Sync!Init, SyncInv, Sync!NoManifest

LEMMA SyncCounts == \A S : Sync!Cardinality(S) = Cardinality(S)
  BY DEF Cardinality, Sync!Cardinality

LEMMA RowIsSeq == ASSUME NEW n \in Nat, NEW S, NEW f \in [1 .. n -> S] PROVE f \in Seq(S)
  OBVIOUS

LEMMA ReadPageKeeps == SyncInv /\ Sync!ReadPage => SyncInv'
<1> SUFFICES ASSUME SyncInv, Sync!ReadPage PROVE SyncInv'
  OBVIOUS
<1> DEFINE matching == {x \in SysIds : Sync!Exists(x)}
           place(x) == Sync!Cardinality({y \in matching : y < x})
           window == {x \in matching : place(x) \in page * PageSize .. (page + 1) * PageSize - 1}
           Pulled(rows) == [i \in DOMAIN rows |->
             [id |-> Sync!FreshId(rows[i]), sysId |-> rows[i], name |-> test[rows[i]].name]]
<1>1. PICK rows \in Sync!Listing(window \ hidden) : pulled' = pulled \o Pulled(rows)
  BY Zenon DEF Sync!ReadPage
<1>2. Cardinality(window \ hidden) \in Nat
  BY SyncAssumption, FS_Subset, FS_CardinalityType
<1>3. rows \in [1 .. Cardinality(window \ hidden) -> matching]
  <2>1. rows \in [1 .. Cardinality(window \ hidden) -> window \ hidden]
    BY SyncCounts DEF Sync!Listing
  <2> QED BY <2>1
<1>4. \A i \in DOMAIN rows :
        [id |-> Sync!FreshId(rows[i]), sysId |-> rows[i], name |-> test[rows[i]].name] \in Test
  <2> SUFFICES ASSUME NEW i \in DOMAIN rows
               PROVE  [id |-> Sync!FreshId(rows[i]), sysId |-> rows[i],
                       name |-> test[rows[i]].name] \in Test
    OBVIOUS
  <2>1. rows[i] \in SysIds /\ test[rows[i]] \in [scope : Scopes, name : Names]
    BY <1>3 DEF SyncInv, Sync!Exists
  <2> QED BY <2>1 DEF Sync!FreshId, Test
<1>5. Pulled(rows) \in Seq(Test)
  <2> HIDE DEF Test
  <2>1. Pulled(rows) \in [1 .. Cardinality(window \ hidden) -> Test]
    BY <1>3, <1>4
  <2> HIDE DEF Pulled, window
  <2> QED BY <1>2, <2>1, RowIsSeq
<1>6. pulled' \in Seq(Test)
  <2> HIDE DEF Pulled
  <2> QED BY <1>1, <1>5 DEF SyncInv
<1>7. UNCHANGED <<test, manifest>> /\ stage' # "merge"
  BY DEF Sync!ReadPage
<1> QED BY <1>6, <1>7 DEF SyncInv

LEMMA ReadSuiteKeeps == SyncInv /\ Sync!ReadSuite => SyncInv'
<1> SUFFICES ASSUME SyncInv, Sync!ReadSuite PROVE SyncInv'
  OBVIOUS
<1>1. linked' \subseteq {pulled[i] : i \in DOMAIN pulled}
  BY DEF Sync!ReadSuite
<1> QED BY <1>1 DEF SyncInv, Sync!ReadSuite

-----------------------------------------------------------------------------
(* The merge.  A test keeps its fields but the id.                         *)
LEMMA FinalIdIsId ==
  ASSUME SyncInv, NEW t \in Test PROVE Sync!FinalId(t) \in Scopes \X {Slug[n] : n \in Names}
<1>1. CASE Sync!Matches(t) = {}
  BY <1>1 DEF Sync!FinalId, Test
<1>2. CASE Sync!Matches(t) # {}
  <2>1. Sync!Matches(t) \in SUBSET (DOMAIN manifest.tests) /\ DOMAIN manifest.tests \in SUBSET Nat
    BY DEF Sync!Matches, SyncInv
  <2>2. \E i \in Sync!Matches(t) : \A j \in Sync!Matches(t) : i <= j
    BY <1>2, <2>1, Least
  <2>3. PICK i \in DOMAIN manifest.tests : Sync!FinalId(t) = manifest.tests[i].id
    BY <1>2, <2>1, <2>2 DEF Sync!FinalId
  <2>4. manifest.tests[i] \in Test
    BY DEF SyncInv
  <2> QED BY <2>3, <2>4 DEF Test
<1> QED BY <1>1, <1>2

LEMMA MergedIsTests ==
  ASSUME SyncInv
  PROVE  /\ Sync!Merged \in [DOMAIN pulled -> Test]
         /\ \A i \in DOMAIN pulled :
              Sync!Merged[i].id = Sync!FinalId(pulled[i]) /\ Sync!Merged[i].sysId = pulled[i].sysId
<1>1. ASSUME NEW i \in DOMAIN pulled
      PROVE  /\ Sync!Merged[i] \in Test
             /\ Sync!Merged[i].id = Sync!FinalId(pulled[i]) /\ Sync!Merged[i].sysId = pulled[i].sysId
  <2>1. pulled[i] \in Test
    BY DEF SyncInv
  <2>2. Sync!FinalId(pulled[i]) \in Scopes \X {Slug[n] : n \in Names}
    BY <2>1, FinalIdIsId
  <2>3. Sync!Merged[i] = [pulled[i] EXCEPT !.id = Sync!FinalId(pulled[i])]
    BY DEF Sync!Merged
  <2> QED BY <2>1, <2>2, <2>3 DEF Test
<1>2. Sync!Merged \in [DOMAIN pulled -> Test]
  BY <1>1 DEF Sync!Merged
<1> QED BY <1>1, <1>2

(* What a merge that is not refused commits.                               *)
Committed(order) ==
  /\ order \in [DOMAIN pulled -> DOMAIN pulled]
  /\ \A i \in DOMAIN pulled : \E j \in DOMAIN pulled : order[j] = i
  /\ DOMAIN manifest'.tests = DOMAIN pulled
  /\ \A i \in DOMAIN pulled : manifest'.tests[i] = Sync!Merged[order[i]]
  /\ manifest'.members = Sync!Remapped(linked) /\ manifest'.suited = suited

LEMMA MergeCommits ==
  ASSUME SyncInv, Sync!Merge
  PROVE  UNCHANGED manifest \/ (~Sync!Refused /\ \E order : Committed(order))
<1>1. CASE Sync!Refused
  BY <1>1 DEF Sync!Merge
<1>2. CASE ~Sync!Refused
  <2>1. PICK order \in [DOMAIN pulled -> DOMAIN pulled] :
          /\ Sync!Sorts(order, Sync!Merged)
          /\ manifest' = [tests |-> [i \in DOMAIN pulled |-> Sync!Merged[order[i]]],
                          members |-> Sync!Remapped(linked), suited |-> suited, never |-> FALSE]
    BY <1>2 DEF Sync!Merge
  <2>2. DOMAIN Sync!Merged = DOMAIN pulled
    BY DEF Sync!Merged
  <2>3. Committed(order)
    BY <2>1, <2>2 DEF Sync!Sorts, Committed
  <2> QED BY <1>2, <2>3
<1> QED BY <1>1, <1>2

LEMMA MergeKeeps == SyncInv /\ Sync!Merge => SyncInv'
<1> SUFFICES ASSUME SyncInv, Sync!Merge PROVE SyncInv'
  OBVIOUS
<1>1. manifest'.tests \in Seq(Test)
  <2>1. CASE UNCHANGED manifest
    BY <2>1 DEF SyncInv
  <2>2. CASE ~Sync!Refused
    <3>1. PICK order \in [DOMAIN pulled -> DOMAIN pulled] :
            manifest'.tests = [i \in DOMAIN pulled |-> Sync!Merged[order[i]]]
      <4>1. PICK order \in [DOMAIN pulled -> DOMAIN pulled] :
              manifest' = [tests |-> [i \in DOMAIN pulled |-> Sync!Merged[order[i]]],
                           members |-> Sync!Remapped(linked), suited |-> suited, never |-> FALSE]
        BY <2>2 DEF Sync!Merge
      <4> QED BY <4>1
    <3>2. manifest'.tests \in [DOMAIN pulled -> Test]
      BY <3>1, MergedIsTests
    <3>3. Len(pulled) \in Nat /\ DOMAIN pulled = 1 .. Len(pulled)
      BY DEF SyncInv
    <3> QED BY <3>2, <3>3
  <2> QED BY <2>1, <2>2, MergeCommits
<1> QED BY <1>1 DEF Sync!Merge, SyncInv

LEMMA ChangeKeeps ==
  ASSUME SyncInv, NEW x \in SysIds, NEW t \in {Sync!Gone} \cup [scope : Scopes, name : Names],
         Sync!Change(x, t)
  PROVE  SyncInv'
  BY DEF Sync!Change, SyncInv

LEMMA SyncNext == SyncInv /\ (Sync!Next \/ UNCHANGED syncVars) => SyncInv'
<1> SUFFICES ASSUME SyncInv, Sync!Next \/ UNCHANGED syncVars PROVE SyncInv'
  OBVIOUS
<1>1. CASE Sync!Load
  BY <1>1 DEF Sync!Load, SyncInv
<1>2. CASE UNCHANGED syncVars
  BY <1>2 DEF syncVars, SyncInv
<1> QED BY <1>1, <1>2, ReadPageKeeps, ReadSuiteKeeps, MergeKeeps, ChangeKeeps DEF Sync!Next

-----------------------------------------------------------------------------
LEMMA ReadOnceIsUnique ==
  ASSUME NEW m, NEW n \in Nat, DOMAIN m.tests = 1 .. n, NEW x, Sync!ReadOnce(x, m),
         NEW i \in DOMAIN m.tests, NEW j \in DOMAIN m.tests,
         m.tests[i].sysId = x, m.tests[j].sysId = x
  PROVE  i = j
<1> DEFINE S == {k \in DOMAIN m.tests : m.tests[k].sysId = x}
<1>1. IsFiniteSet(S)
  BY FS_Interval, FS_Subset
<1>2. Cardinality(S) = 1
  BY SyncCounts DEF Sync!ReadOnce
<1> HIDE DEF S
<1>3. \E k : S = {k}
  BY <1>1, <1>2, FS_Singleton
<1> QED BY <1>3 DEF S

LEMMA MergeFollows ==
  ASSUME SyncInv, Sync!Merge PROVE Sync!ManifestStep
<1> SUFFICES ASSUME ~Sync!Refused, NEW order, Committed(order)
             PROVE  Sync!IdsKept /\ Sync!MembersKept /\ Sync!NotErased
  BY MergeCommits DEF Sync!ManifestStep
<1> DEFINE new == manifest'
<1>1. /\ Len(pulled) \in Nat /\ DOMAIN new.tests = 1 .. Len(pulled) /\ DOMAIN pulled = 1 .. Len(pulled)
      /\ Len(manifest.tests) \in Nat /\ DOMAIN manifest.tests = 1 .. Len(manifest.tests)
  BY DEF SyncInv, Committed
<1>2. \A i \in DOMAIN new.tests :
        /\ order[i] \in DOMAIN pulled
        /\ new.tests[i].id = Sync!FinalId(pulled[order[i]])
        /\ new.tests[i].sysId = pulled[order[i]].sysId
  BY MergedIsTests DEF Committed
<1>3. ASSUME NEW e \in Sync!Entries(manifest), NEW f \in Sync!Entries(new), e.sysId = f.sysId,
             Sync!ReadOnce(e.sysId, manifest)
      PROVE  e.id = f.id
  <2>1. PICK i \in DOMAIN manifest.tests : e = manifest.tests[i]
    BY DEF Sync!Entries
  <2>2. PICK j \in DOMAIN new.tests : f = new.tests[j]
    BY DEF Sync!Entries
  <2> DEFINE t == pulled[order[j]]
  <2>3. f.id = Sync!FinalId(t) /\ t.sysId = e.sysId
    BY <1>2, <1>3, <2>2
  <2>4. {k \in DOMAIN manifest.tests : manifest.tests[k].sysId = t.sysId} = {i}
    <3>1. \A k \in DOMAIN manifest.tests : manifest.tests[k].sysId = e.sysId => k = i
      BY <1>1, <1>3, <2>1, ReadOnceIsUnique
    <3>2. t.sysId = e.sysId
      BY <2>3
    <3> HIDE DEF t
    <3> QED BY <2>1, <3>1, <3>2
  <2>5. Sync!Matches(t) = {i}
    BY <2>4 DEF Sync!Matches
  <2>6. Sync!FinalId(t) = manifest.tests[i].id
    <3>1. (CHOOSE k \in Sync!Matches(t) : \A l \in Sync!Matches(t) : k <= l) = i
      BY <1>1, <2>5
    <3> QED BY <2>5, <3>1 DEF Sync!FinalId
  <2> QED BY <2>1, <2>3, <2>6
<1>4. Sync!MembersKept
  <2> DEFINE listed == {e \in Sync!Entries(new) : \E t \in linked : t.sysId = e.sysId}
  <2>1. linked \subseteq {pulled[i] : i \in DOMAIN pulled}
    BY DEF SyncInv, Sync!Merge
  <2>2. new.members = {Sync!FinalId(t) : t \in linked}
    BY DEF Committed, Sync!Remapped
  <2>3. ASSUME NEW t \in linked PROVE \E e \in listed : e.id = Sync!FinalId(t)
    <3>1. PICK i \in DOMAIN pulled : t = pulled[i]
      BY <2>1
    <3>2. PICK j \in DOMAIN pulled : order[j] = i
      BY DEF Committed
    <3>3. /\ new.tests[j] \in Sync!Entries(new)
          /\ new.tests[j].id = Sync!FinalId(t) /\ new.tests[j].sysId = t.sysId
      BY <1>1, <1>2, <3>1, <3>2 DEF Sync!Entries
    <3> QED BY <3>3
  <2>4. ASSUME NEW e \in listed, Sync!ReadOnce(e.sysId, new) PROVE e.id \in new.members
    <3>1. PICK j \in DOMAIN new.tests : e = new.tests[j]
      BY DEF Sync!Entries
    <3>2. PICK t \in linked : t.sysId = e.sysId
      OBVIOUS
    <3>3. PICK i \in DOMAIN pulled : t = pulled[i]
      BY <2>1
    <3>4. PICK k \in DOMAIN pulled : order[k] = i
      BY DEF Committed
    <3>5. k \in DOMAIN new.tests /\ new.tests[k].sysId = e.sysId /\ new.tests[k].id = Sync!FinalId(t)
      BY <1>1, <1>2, <3>2, <3>3, <3>4
    <3>6. k = j
      BY <1>1, <2>4, <3>1, <3>5, ReadOnceIsUnique
    <3> QED BY <2>2, <3>1, <3>5, <3>6
  <2> HIDE DEF listed
  <2>5. new.members \subseteq {e.id : e \in listed}
    BY <2>2, <2>3
  <2>6. {e.id : e \in {f \in listed : Sync!ReadOnce(f.sysId, new)}} \subseteq new.members
    BY <2>4
  <2> QED BY <2>5, <2>6 DEF Sync!MembersKept, listed
<1>5. Sync!NotErased
  <2> SUFFICES ASSUME new.tests = <<>>, manifest.tests # <<>>, ~new.suited
               PROVE  allowEmpty /\ ~Sync!SecurityTrimmed
    BY DEF Sync!NotErased
  <2>1. pulled = <<>>
    <3>1. DOMAIN new.tests = {}
      OBVIOUS
    <3>2. Len(pulled) = 0
      BY <1>1, <3>1
    <3> QED BY <3>2 DEF SyncInv
  <2>2. ~suited
    BY DEF Committed
  <2> QED BY <2>1, <2>2 DEF Sync!Refused
<1> QED BY <1>3, <1>4, <1>5 DEF Sync!IdsKept

(***************************************************************************)
(* mergeManifest: whatever others do to the tests and however pages fall,  *)
(* a sync keeps the logical ids of the tests that stay, lists the suite    *)
(* under them, and commits an all-empty snapshot over coverage only if     *)
(* asked for and if no row is known to be hidden; for any tests, names,    *)
(* slugs, page size and number of syncs and changes.                       *)
(***************************************************************************)
THEOREM ManifestFollowsHolds == Spec => ManifestFollows
<1> DEFINE Inv == which = "sync" => SyncInv
<1>1. Init => Inv
  BY SyncInit DEF Init
<1>2. Inv /\ [Next]_vars => Inv'
  BY SyncNext, OneAtATime
<1>3. Inv /\ [Next]_vars => [which = "sync" => Sync!ManifestStep]_vars
  <2> SUFFICES ASSUME Inv, Next, which = "sync" PROVE Sync!ManifestStep
    BY DEF vars
  <2>1. CASE Sync!Merge
    BY <2>1, MergeFollows
  <2>2. CASE UNCHANGED manifest
    BY <2>2 DEF Sync!ManifestStep
  <2>3. Sync!Next \/ UNCHANGED syncVars
    BY OneAtATime
  <2> QED BY <2>1, <2>2, <2>3
      DEF Sync!Next, Sync!Load, Sync!ReadPage, Sync!ReadSuite, Sync!Change, syncVars
<1> QED BY <1>1, <1>2, <1>3, PTL DEF Spec, ManifestFollows
=============================================================================
