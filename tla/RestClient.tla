----------------------------- MODULE RestClient -----------------------------
(***************************************************************************)
(* snRequest (sn-client/src/core/http.ts), the OAuth token cache           *)
(* (auth.ts) and the per-host semaphore (http-util.ts): calls of one       *)
(* process to one host.  A token is the number of the request (the         *)
(* "flight") that fetched it.  A step runs from one await to the next.     *)
(***************************************************************************)
EXTENDS Naturals, Sequences, FiniteSets

CONSTANTS
  Calls,         \* calls of snRequest
  Writers,       \* those whose method is not GET
  MaxConcurrent, \* getMaxConcurrent
  MaxRetries,    \* getMaxRetries
  MaxFlights,    \* bound: token requests
  MaxAnswers,    \* bound: answers other than success and 401, and token
                 \* requests that fail
  MaxUpsets      \* bound: revocations, expiries, credential changes

VARIABLES
  call,       \* per call: the locals of its retry loop, and the tokens
              \* the instance has answered it 401 for
  active, waiters,               \* the host's slot
  cached, inFlight, generation,  \* tokenCache, tokenInFlight, tokenGeneration
  flight,     \* per token request: its state and the generation it began in
  dead,       \* tokens the instance no longer takes
  applied, journalled,           \* per call: how often the instance applied
                                 \* it, how often the journal names it
  warned,     \* calls whose append to the journal failed, as the log warns
  answers, upsets

vars == <<call, active, waiters, cached, inFlight, generation, flight, dead,
          applied, journalled, warned, answers, upsets>>
client == <<active, waiters, cached, inFlight, generation, flight>>
instance == <<dead, applied, answers, upsets>>
journal == <<journalled, warned>>

Flights == 1 .. MaxFlights
NoToken == 0

(* 2xx; 401; 429; no answer, or 502, 503, 504 of a gateway; any other.     *)
Answer == {"ok", "unauthorized", "limited", "lost", "refused"}

(* How a call ends: with one of these, or with a 2xx whose body was lost.  *)
Outcome == Answer \cup {"unread"}

Begun == [pc |-> "token", attempt |-> 0, retried401 |-> FALSE, token |-> NoToken,
          rejected |-> {}, answer |-> "ok"]

(* A call that has returned keeps how it ended, none of its locals.        *)
Returned(c, pc, answer) ==
  [Begun EXCEPT !.pc = pc, !.answer = answer,
                !.rejected = IF answer = "unauthorized" THEN call[c].rejected ELSE {}]

(* The first token is in the cache and has been revoked since.             *)
Init ==
  /\ call = [c \in Calls |-> Begun]
  /\ active = 0 /\ waiters = <<>>
  /\ cached = 1 /\ inFlight = NoToken /\ generation = 0
  /\ flight = [f \in Flights |->
                 [state |-> IF f = 1 THEN "landed" ELSE "unsent", generation |-> 0]]
  /\ dead = {1}
  /\ applied = [c \in Calls |-> 0]
  /\ journalled = [c \in Calls |-> 0] /\ warned = {}
  /\ answers = 0 /\ upsets = 1

At(c, pc) == call[c].pc = pc
Sent(f) == flight[f].state # "unsent"

(***************************************************************************)
(* getToken: the cached token, or the answer of the request in flight, or  *)
(* a request of its own.                                                   *)
(***************************************************************************)
UseCached(c) ==
  /\ At(c, "token") /\ cached # NoToken
  /\ call' = [call EXCEPT ![c].pc = "slot", ![c].token = cached]
  /\ UNCHANGED <<client, instance, journal>>

JoinFlight(c) ==
  /\ At(c, "token") /\ cached = NoToken /\ inFlight # NoToken
  /\ call' = [call EXCEPT ![c].pc = "join", ![c].token = inFlight]
  /\ UNCHANGED <<client, instance, journal>>

StartFlight(c) ==
  /\ At(c, "token") /\ cached = NoToken /\ inFlight = NoToken
  /\ \E f \in Flights :
       /\ ~Sent(f) /\ \A g \in Flights : g < f => Sent(g)
       /\ flight' = [flight EXCEPT
                       ![f] = [state |-> "sent", generation |-> generation]]
       /\ inFlight' = f
       /\ call' = [call EXCEPT ![c].pc = "join", ![c].token = f]
  /\ UNCHANGED <<active, waiters, cached, generation, instance, journal>>

(* The instance grants the token; the answer is on its way.                *)
Grant(f) ==
  /\ flight[f].state = "sent"
  /\ flight' = [flight EXCEPT ![f].state = "granted"]
  /\ UNCHANGED <<call, active, waiters, cached, inFlight, generation, instance,
                 journal>>

Joined(f) == {c \in Calls : At(c, "join") /\ call[c].token = f}

(* What the cache holds once the token of flight f is there.               *)
Stored(f) == IF flight[f].generation = generation THEN f ELSE cached

(* fetchToken resolves: the token is cached unless credentials changed     *)
(* since, the map forgets this flight, everybody who joined it goes on.    *)
Land(f) ==
  /\ flight[f].state = "granted"
  /\ flight' = [flight EXCEPT ![f].state = "landed"]
  /\ cached' = Stored(f)
  /\ inFlight' = IF inFlight = f THEN NoToken ELSE inFlight
  /\ call' = [c \in Calls |->
                IF c \in Joined(f) THEN [call[c] EXCEPT !.pc = "slot"] ELSE call[c]]
  /\ UNCHANGED <<active, waiters, generation, instance, journal>>

(* fetchToken rejects: everybody who joined fails, the next caller asks    *)
(* again.                                                                  *)
Crash(f) ==
  /\ flight[f].state \in {"sent", "granted"} /\ answers < MaxAnswers
  /\ flight' = [flight EXCEPT ![f] = [state |-> "failed", generation |-> 0]]
  /\ inFlight' = IF inFlight = f THEN NoToken ELSE inFlight
  /\ call' = [c \in Calls |->
                IF c \in Joined(f)
                THEN Returned(c, "failed", "refused")
                ELSE call[c]]
  /\ answers' = answers + 1
  /\ UNCHANGED <<active, waiters, cached, generation, dead, applied, upsets, journal>>

(***************************************************************************)
(* withSlot.                                                               *)
(***************************************************************************)
TakeSlot(c) ==
  /\ At(c, "slot") /\ active < MaxConcurrent
  /\ active' = active + 1
  /\ call' = [call EXCEPT ![c].pc = "sent"]
  /\ UNCHANGED <<waiters, cached, inFlight, generation, flight, instance, journal>>

AwaitSlot(c) ==
  /\ At(c, "slot") /\ active >= MaxConcurrent
  /\ waiters' = Append(waiters, c)
  /\ call' = [call EXCEPT ![c].pc = "queued"]
  /\ UNCHANGED <<active, cached, inFlight, generation, flight, instance, journal>>

(* Faulty variant: nobody is resumed while other requests are active.      *)
WokenWhenIdle == IF waiters = <<>> \/ active > 0 THEN {} ELSE {Head(waiters)}

(* The waiter that is resumed when a slot is freed looks again.            *)
Woken == IF waiters = <<>> THEN {} ELSE {Head(waiters)}

(***************************************************************************)
(* The instance answers.  A dead token is answered 401 unless something in *)
(* front of the instance answers first; a lost answer or a server error    *)
(* says nothing of whether a write was applied.                            *)
(***************************************************************************)
Serve(c) ==
  /\ At(c, "sent")
  /\ \E a \in Answer, lands \in BOOLEAN :
       /\ a = "unauthorized" => call[c].token \in dead
       /\ call[c].token \in dead => ~lands /\ a \notin {"ok", "refused"}
       /\ a = "ok" => (lands <=> c \in Writers)
       /\ a \in {"unauthorized", "limited"} => ~lands
       /\ lands => c \in Writers
       /\ IF a \in {"ok", "unauthorized"} THEN UNCHANGED answers
          ELSE answers < MaxAnswers /\ answers' = answers + 1
       /\ call' = [call EXCEPT ![c].pc = "answered", ![c].answer = a,
                     ![c].rejected = @ \cup IF a = "unauthorized"
                                            THEN {call[c].token} ELSE {}]
       /\ applied' = [applied EXCEPT ![c] = @ + IF lands THEN 1 ELSE 0]
  /\ UNCHANGED <<client, dead, upsets, journal>>

(* Faulty variant: a write that timed out is sent again.                   *)
RetryableWrite(c, a) == a \in {"limited", "lost"}

(* The transport errors and statuses snRequest sends again for.            *)
Retryable(c, a) == a = "limited" \/ (a = "lost" /\ c \notin Writers)

Again(c) == call[c].attempt < MaxRetries /\ Retryable(c, call[c].answer)

Reauthenticates(c) == call[c].answer = "unauthorized" /\ ~call[c].retried401

(* Faulty variant: whatever token is cached by now.                        *)
InvalidatedAny(c) == NoToken

(* invalidateToken: only the token this attempt was sent with.             *)
Invalidated(c) == IF cached = call[c].token THEN NoToken ELSE cached

(* The slot is given back and the answer looked at: sign in again once,    *)
(* send again, or throw.                                                   *)
FreeSlot(c, next) ==
  /\ active' = active - 1
  /\ waiters' = IF waiters = <<>> THEN <<>> ELSE Tail(waiters)
  /\ call' = [d \in Calls |->
                IF d = c THEN next
                ELSE IF d \in Woken THEN [call[d] EXCEPT !.pc = "slot"] ELSE call[d]]
  /\ UNCHANGED <<inFlight, generation, flight, instance>>

Reauthenticate(c) ==
  /\ At(c, "answered") /\ Reauthenticates(c)
  /\ FreeSlot(c, [call[c] EXCEPT !.pc = "token", !.attempt = @ + 1,
                                 !.retried401 = TRUE])
  /\ cached' = Invalidated(c)
  /\ UNCHANGED journal

Retry(c) ==
  /\ At(c, "answered") /\ Again(c)
  /\ FreeSlot(c, [call[c] EXCEPT !.pc = "token", !.attempt = @ + 1])
  /\ UNCHANGED <<cached, journal>>

Throw(c) ==
  /\ At(c, "answered") /\ call[c].answer # "ok"
  /\ ~Reauthenticates(c) /\ ~Again(c)
  /\ FreeSlot(c, Returned(c, "failed", call[c].answer))
  /\ UNCHANGED <<cached, journal>>

(* appendWriteJournal: a line in write-journal.jsonl, a row in the .md. A   *)
(* file-system error, before the line or after it, is logged and no more.  *)
Journal(c) ==
  \/ /\ journalled' = [journalled EXCEPT ![c] = @ + 1]
     /\ UNCHANGED warned
  \/ /\ \E lines \in {0, 1} : journalled' = [journalled EXCEPT ![c] = @ + lines]
     /\ warned' = warned \cup {c}

(* A 2xx: a write is applied by now and is journalled, whatever becomes of *)
(* the answer's body, which is read next and outside the slot.             *)
Succeed(c) ==
  /\ At(c, "answered") /\ call[c].answer = "ok"
  /\ FreeSlot(c, Returned(c, "body", "ok"))
  /\ IF c \in Writers THEN Journal(c) ELSE UNCHANGED journal
  /\ UNCHANGED cached

ReadBody(c) ==
  /\ At(c, "body")
  /\ call' = [call EXCEPT ![c] = Returned(c, "done", "ok")]
  /\ UNCHANGED <<client, instance, journal>>

(* res.text() rejects: the connection is gone or the time is up, and what  *)
(* succeeded ends as a call that failed.                                   *)
LoseBody(c) ==
  /\ At(c, "body")
  /\ call' = [call EXCEPT ![c] = Returned(c, "failed", "unread")]
  /\ UNCHANGED <<client, instance, journal>>

(***************************************************************************)
(* What happens to tokens: the instance revokes all it has granted, the    *)
(* cached one comes near its end, the operator changes the credentials     *)
(* (invalidateTokens).                                                     *)
(***************************************************************************)
Upset == upsets < MaxUpsets /\ upsets' = upsets + 1

Granted == {f \in Flights : flight[f].state \in {"granted", "landed"}}

Revoke ==
  /\ Upset /\ Granted \ dead # {}
  /\ dead' = Granted
  /\ UNCHANGED <<call, client, applied, answers, journal>>

Expire ==
  /\ Upset /\ cached # NoToken
  /\ cached' = NoToken
  /\ UNCHANGED <<call, active, waiters, inFlight, generation, flight, dead, applied,
                 answers, journal>>

InvalidateTokens ==
  /\ Upset
  /\ cached' = NoToken /\ inFlight' = NoToken /\ generation' = generation + 1
  /\ UNCHANGED <<call, active, waiters, flight, dead, applied, answers, journal>>

Step(c) ==
  \/ UseCached(c) \/ JoinFlight(c) \/ StartFlight(c) \/ TakeSlot(c) \/ AwaitSlot(c)
  \/ Reauthenticate(c) \/ Retry(c) \/ Throw(c) \/ Succeed(c)
  \/ ReadBody(c)

Next ==
  \/ \E c \in Calls : Step(c) \/ Serve(c) \/ LoseBody(c)
  \/ \E f \in Flights : Grant(f) \/ Land(f) \/ Crash(f)
  \/ Revoke \/ Expire \/ InvalidateTokens

Spec == Init /\ [][Next]_vars

(* The event loop does not stop while a continuation is ready, and every   *)
(* request is answered or times out.                                       *)
Progress == \/ \E c \in Calls : Step(c) \/ Serve(c)
            \/ \E f \in Flights : Grant(f) \/ Land(f)

FairSpec == Spec /\ WF_vars(Progress)

Ended(c) == call[c].pc \in {"done", "failed"}

RestTypeOK ==
  /\ call \in [Calls -> [pc : {"token", "join", "slot", "queued", "sent", "answered",
                               "body", "done", "failed"},
                         attempt : 0 .. MaxRetries + 2, retried401 : BOOLEAN,
                         token : Flights \cup {NoToken}, rejected : SUBSET Flights,
                         answer : Outcome]]
  /\ active \in 0 .. MaxConcurrent /\ waiters \in Seq(Calls)
  /\ {cached, inFlight} \subseteq Flights \cup {NoToken} /\ generation \in 0 .. MaxUpsets

(* http.ts 526-541, auth.ts: a token request that is not itself failing is *)
(* made for the first token and once for each revocation, expiry and       *)
(* change of credentials, however many calls of a burst meet it; and a     *)
(* call fails with 401 only after two different tokens were turned down,   *)
(* whatever the other calls did to the cache in between; and no token of   *)
(* credentials that have changed since stays in the cache.                 *)
TokensSound ==
  /\ Cardinality({f \in Flights : Sent(f) /\ flight[f].state # "failed"}) <= 1 + upsets
  /\ \A c \in Calls : At(c, "failed") /\ call[c].answer = "unauthorized" =>
       Cardinality(call[c].rejected) >= 2
  /\ cached # NoToken => flight[cached].generation = generation

(* http.ts 534-616, http-util.ts 107-119, write-journal.ts 72-98: however  *)
(* often a write is sent, it is applied at most once, and whoever is told  *)
(* of a rate limit or a refused sign-in may send it again.  A call that    *)
(* returned was applied, and the journal names it unless the log warns; a  *)
(* call that failed is in the journal just if its answer was a success     *)
(* whose body was lost, and never if nothing was applied.                  *)
WriteAppliedOnce ==
  \A c \in Writers :
    /\ applied[c] <= 1 /\ journalled[c] <= applied[c]
    /\ At(c, "done") => applied[c] = 1 /\ (journalled[c] = 1 \/ c \in warned)
    /\ At(c, "failed") =>
         /\ call[c].answer \in {"unauthorized", "limited"} => applied[c] = 0
         /\ call[c].answer # "unread" => journalled[c] = 0 /\ c \notin warned
         /\ call[c].answer = "unread" =>
              applied[c] = 1 /\ (journalled[c] = 1 \/ c \in warned)

(* Calls that need a slot or somebody else's token are not forgotten.      *)
CallsEnd == <>(\A c \in Calls : Ended(c))
=============================================================================
