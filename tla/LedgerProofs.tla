----------------------------- MODULE LedgerProofs -----------------------------
(***************************************************************************)
(* The log of a run, in every environment and whatever the calls are:      *)
(* what was durable stays in it, its numbering is sound, it can be read,   *)
(* and what callers are told of it is kept.                                *)
(***************************************************************************)
EXTENDS LedgerClaims, SequenceTheorems, FiniteSetTheorems, TLAPS

------------------------------------------------------------------------------
(* What was durable stays.  The property asks for little: that the synced  *)
(* lines are a prefix of the lines.  What the lines are does not matter,   *)
(* so the invariant does not say it.                                       *)

LogShape ==
  /\ \E S : lines \in Seq(S)
  /\ synced \in 0..Len(lines)

Kept ==
  \A i \in 1..synced :
    lines[i] # Garbage => i <= Len(lines') /\ lines'[i] = lines[i]

LEMMA PrefixShape ==
  ASSUME NEW S, NEW s \in Seq(S), NEW n \in 0..Len(s)
  PROVE  /\ SubSeq(s, 1, n) \in Seq(S)
         /\ Len(SubSeq(s, 1, n)) = n
         /\ \A i \in 1..n : SubSeq(s, 1, n)[i] = s[i]
  BY LenProperties

LEMMA AppendShape ==
  ASSUME NEW S, NEW s \in Seq(S), NEW x
  PROVE  /\ Append(s, x) \in Seq(S \cup {x})
         /\ Len(Append(s, x)) = Len(s) + 1
         /\ \A i \in 1..Len(s) : Append(s, x)[i] = s[i]
<1>1. s \in Seq(S \cup {x})
  BY LenProperties
<1> QED
  BY <1>1, AppendProperties

\* A repair takes a torn tail or one unparsable line, and nothing else.
LEMMA CommittedKeepsRecords ==
  ASSUME NEW S, NEW s \in Seq(S), NEW torn
  PROVE  /\ Committed(s, torn) \in 0..Len(s)
         /\ \A i \in 1..Len(s) : s[i] # Garbage => i <= Committed(s, torn)
<1>1. Len(s) \in Nat /\ (s # <<>> => Len(s) > 0)
  BY LenProperties, EmptySeq
<1> QED
  BY <1>1 DEF Committed

LEMMA ParsedShape ==
  ASSUME NEW S, NEW s \in Seq(S)
  PROVE  Len(Parsed(s)) \in 0..Len(s)
<1>1. Len(s) \in Nat /\ (s # <<>> => Len(s) > 0)
  BY LenProperties, EmptySeq
<1>2. CASE s # <<>> /\ s[Len(s)] = Garbage
  <2>1. Len(s) - 1 \in 0..Len(s)
    BY <1>1, <1>2
  <2> QED
    BY <2>1, <1>2, PrefixShape DEF Parsed
<1>3. CASE ~(s # <<>> /\ s[Len(s)] = Garbage)
  BY <1>1, <1>3 DEF Parsed
<1> QED
  BY <1>2, <1>3

LEMMA RepairKeeps ==
  ASSUME LogShape, Repair
  PROVE  LogShape' /\ Kept
<1>1. PICK S : lines \in Seq(S)
  BY DEF LogShape
<1>2. CASE repaired
  BY <1>1, <1>2 DEF LogShape, Kept, Repair, file
<1>3. CASE ~repaired
  <2> DEFINE cut == Committed(lines, tail)
  <2>1. /\ cut \in 0..Len(lines)
        /\ \A i \in 1..Len(lines) : lines[i] # Garbage => i <= cut
    BY <1>1, CommittedKeepsRecords
  <2>2. /\ lines' = SubSeq(lines, 1, cut)
        /\ synced' = IF tail \/ cut < Len(lines) THEN cut ELSE synced
    BY <1>3 DEF Repair
  <2>3. /\ lines' \in Seq(S)
        /\ Len(lines') = cut
        /\ \A i \in 1..cut : lines'[i] = lines[i]
    BY <1>1, <2>1, <2>2, PrefixShape
  <2>4. Len(lines) \in Nat
    BY <1>1, LenProperties
  <2> HIDE DEF cut
  <2>5. synced' \in 0..Len(lines')
    BY <2>1, <2>2, <2>3, <2>4 DEF LogShape
  <2>6. Kept
    BY <2>1, <2>3, <2>4 DEF LogShape, Kept
  <2> QED
    BY <2>3, <2>5, <2>6 DEF LogShape
<1> QED
  BY <1>2, <1>3

LEMMA AppendKeeps ==
  ASSUME LogShape, AppendLine
  PROVE  LogShape' /\ Kept
<1>1. PICK S : lines \in Seq(S)
  BY DEF LogShape
<1>2. Len(lines) \in Nat
  BY <1>1, LenProperties
<1>3. CASE UNCHANGED lines
  BY <1>1, <1>2, <1>3 DEF LogShape, Kept, AppendLine
<1>4. CASE lines' = Append(lines, IF tail THEN Garbage ELSE call.line)
  <2>1. PICK x : lines' = Append(lines, x)
    BY <1>4
  <2>2. /\ lines' \in Seq(S \cup {x})
        /\ Len(lines') = Len(lines) + 1
        /\ \A i \in 1..Len(lines) : lines'[i] = lines[i]
    BY <1>1, <2>1, AppendShape
  <2>3. synced' = synced
    BY DEF AppendLine
  <2> QED
    BY <1>2, <2>2, <2>3 DEF LogShape, Kept
<1> QED
  BY <1>3, <1>4 DEF AppendLine

LEMMA SyncKeeps ==
  ASSUME LogShape, Sync
  PROVE  LogShape' /\ Kept
<1>1. PICK S : lines \in Seq(S)
  BY DEF LogShape
<1>2. Len(lines) \in Nat
  BY <1>1, LenProperties
<1> QED
  BY <1>1, <1>2 DEF LogShape, Kept, Sync

LEMMA PowerLossKeeps ==
  ASSUME LogShape, PowerLoss
  PROVE  LogShape' /\ Kept
<1>1. PICK S : lines \in Seq(S)
  BY DEF LogShape
<1>2. Len(lines) \in Nat
  BY <1>1, LenProperties
<1>3. PICK n \in synced..Len(lines) :
        LET kept == SubSeq(lines, 1, n) IN
        /\ synced' = Len(Parsed(kept))
        /\ lines' = kept \/ lines' = Append(kept, Garbage)
  BY DEF PowerLoss
<1> DEFINE kept == SubSeq(lines, 1, n)
<1>4. n \in 0..Len(lines)
  BY <1>2, <1>3 DEF LogShape
<1>5. /\ kept \in Seq(S)
      /\ Len(kept) = n
      /\ \A i \in 1..n : kept[i] = lines[i]
  BY <1>1, <1>4, PrefixShape
<1>6. synced' = Len(Parsed(kept)) /\ (lines' = kept \/ lines' = Append(kept, Garbage))
  BY <1>3
<1> HIDE DEF kept
<1>7. synced' \in 0..n
  BY <1>5, <1>6, ParsedShape
<1>8. CASE lines' = kept
  BY <1>2, <1>3, <1>4, <1>5, <1>7, <1>8 DEF LogShape, Kept
<1>9. CASE lines' = Append(kept, Garbage)
  <2>1. /\ lines' \in Seq(S \cup {Garbage})
        /\ Len(lines') = n + 1
        /\ \A i \in 1..n : lines'[i] = kept[i]
    BY <1>5, <1>9, AppendShape
  <2> QED
    BY <1>2, <1>3, <1>4, <1>5, <1>7, <2>1 DEF LogShape, Kept
<1> QED
  BY <1>6, <1>8, <1>9

LEMMA ElsewhereKeeps ==
  ASSUME LogShape, UNCHANGED <<lines, synced>>
  PROVE  LogShape' /\ Kept
<1>1. PICK S : lines \in Seq(S)
  BY DEF LogShape
<1>2. Len(lines) \in Nat
  BY <1>1, LenProperties
<1> QED
  BY <1>1, <1>2 DEF LogShape, Kept

LEMMA NextKeeps ==
  ASSUME LogShape, [Next]_vars
  PROVE  LogShape' /\ Kept
<1>1. CASE Repair
  BY <1>1, RepairKeeps
<1>2. CASE AppendLine
  BY <1>2, AppendKeeps
<1>3. CASE Sync
  BY <1>3, SyncKeeps
<1>4. CASE PowerLoss
  BY <1>4, PowerLossKeeps
<1>5. CASE Begin \/ Return \/ Kill \/ UNCHANGED vars
  <2>1. UNCHANGED <<lines, synced>>
    BY <1>5 DEF Begin, Return, Kill, vars, file
  <2> QED
    BY <2>1, ElsewhereKeeps
<1> QED
  BY <1>1, <1>2, <1>3, <1>4, <1>5 DEF Next

LEMMA InitShape ==
  ASSUME Init
  PROVE  LogShape
<1>1. <<>> \in Seq({}) /\ Len(<<>>) = 0
  BY EmptySeq
<1> QED
  BY <1>1 DEF Init, LogShape

(***************************************************************************)
(* DurableIsKept for any keys, environments and number of mishaps: no      *)
(* step, a repair or a power loss in particular, takes or moves a record   *)
(* that an fsync has covered.                                              *)
(***************************************************************************)
THEOREM DurableHolds == Spec => DurableIsKept
<1>1. Init => LogShape
  BY InitShape
<1>2. LogShape /\ [Next]_vars => LogShape'
  BY NextKeeps
<1>3. LogShape /\ [Next]_vars => [Kept]_vars
  BY NextKeeps
<1> QED
  BY <1>1, <1>2, <1>3, PTL DEF Spec, DurableIsKept, Kept

------------------------------------------------------------------------------
(* Lemmas about the operators of LogFile. *)

\* A bounded set of numbers has a greatest one.
LEMMA Greatest ==
  ASSUME NEW b \in Nat, NEW T \in SUBSET (0..b), T # {}
  PROVE  \E m \in T : \A k \in T : k <= m
<1> DEFINE above(t) == { k \in T : t < k }
           F == { above(t) : t \in T }
<1>1. \A t, u \in T : t \in Int /\ (t < u \/ u <= t)
  OBVIOUS
<1>2. F \in SUBSET FiniteSubsetsOf(T) /\ F # {}
  <2>1. IsFiniteSet(0..b)
    BY FS_Interval
  <2>2. IsFiniteSet(T)
    BY <2>1, FS_Subset
  <2>3. \A t : above(t) \in FiniteSubsetsOf(T)
    BY <2>2, FS_Subset DEF FiniteSubsetsOf
  <2> QED
    BY <2>3
<1>3. PICK A \in F : \A B \in F : <<B, A>> \notin StrictSubsetOrdering(T)
  <2> HIDE DEF F
  <2> QED
    BY <1>2, FS_StrictSubsetOrderingWellFounded, WFMin
<1>4. PICK m \in T : A = above(m)
  BY <1>3
<1>5. ASSUME NEW k \in T, m < k
      PROVE  FALSE
  <2>1. \A j \in T : k < j => m < j
    BY <1>1, <1>5
  <2>2. above(k) \subseteq above(m)
    BY <2>1
  <2>4. k \in above(m) /\ k \notin above(k)
    BY <1>5
  <2>3. <<above(k), above(m)>> \in StrictSubsetOrdering(T)
    BY <2>2, <2>4 DEF StrictSubsetOrdering
  <2> QED
    BY <2>3, <1>3, <1>4
<1> QED
  BY <1>1, <1>5

\* t is a beginning of s.
Begins(t, s) == Len(t) <= Len(s) /\ \A i \in 1..Len(t) : t[i] = s[i]

LEMMA BeginningIsSound ==
  ASSUME NEW S, NEW s \in Seq(S), NEW t \in Seq(S), Begins(t, s), Sound(s)
  PROVE  Sound(t)
<1>1. Len(s) \in Nat /\ Len(t) \in Nat /\ Len(t) <= Len(s)
  BY LenProperties DEF Begins
<1>2. \A i \in 1..Len(t) : i \in 1..Len(s) /\ t[i] = s[i]
  BY <1>1 DEF Begins
<1>3. Numbered(t)
  <2> SUFFICES ASSUME NEW i \in 1..Len(t)
               PROVE  /\ t[i].seq \in 0..i
                      /\ \A m \in 1..t[i].seq : \E j \in 1..i : t[j].seq = m
    BY DEF Numbered
  <2>1. /\ s[i].seq \in 0..i
        /\ \A m \in 1..s[i].seq : \E j \in 1..i : s[j].seq = m
    BY <1>2 DEF Sound, Numbered
  <2>2. \A j \in 1..i : t[j] = s[j]
    BY <1>1, <1>2
  <2> QED
    BY <1>2, <2>1, <2>2
<1> QED
  BY <1>2, <1>3 DEF Sound, OpensOnce

LEMMA BeginningReplays ==
  ASSUME NEW S, NEW s \in Seq(S), NEW t \in Seq(S), Begins(t, s), Replayable(s)
  PROVE  Replayable(t)
<1>1. Len(s) \in Nat /\ Len(t) \in Nat /\ Len(t) <= Len(s)
  BY LenProperties DEF Begins
<1> SUFFICES ASSUME NEW i \in 1..Len(t)
             PROVE  Legal(t, i)
  BY DEF Replayable
<1>2. \A j \in 1..i : t[j] = s[j]
  BY <1>1 DEF Begins
<1>3. t[i] = s[i] /\ Legal(s, i)
  BY <1>1, <1>2 DEF Replayable
<1>4. Earlier(t, i) = Earlier(s, i) /\ \A j \in Earlier(s, i) : t[j] = s[j]
  BY <1>2, <1>3 DEF Earlier
<1> QED
  BY <1>3, <1>4 DEF Legal

LEMMA PrefixBegins ==
  ASSUME NEW S, NEW s \in Seq(S), NEW n \in 0..Len(s)
  PROVE  /\ SubSeq(s, 1, n) \in Seq(S)
         /\ Len(SubSeq(s, 1, n)) = n
         /\ Begins(SubSeq(s, 1, n), s)
<1>1. Len(s) \in Nat
  BY LenProperties
<1> QED
  BY <1>1, PrefixShape DEF Begins

\* The records are the lines, or all of them but a last one that is garbage.
LEMMA ParsedBegins ==
  ASSUME NEW S, NEW s \in Seq(S)
  PROVE  /\ Parsed(s) \in Seq(S)
         /\ Begins(Parsed(s), s)
         /\ \/ Parsed(s) = s
            \/ /\ Len(s) > 0 /\ s[Len(s)] = Garbage
               /\ Len(Parsed(s)) = Len(s) - 1
<1>1. Len(s) \in Nat /\ (s # <<>> => Len(s) > 0)
  BY LenProperties, EmptySeq
<1>2. CASE s # <<>> /\ s[Len(s)] = Garbage
  <2>1. Len(s) - 1 \in 0..Len(s) /\ Len(s) > 0
    BY <1>1, <1>2
  <2>2. Parsed(s) = SubSeq(s, 1, Len(s) - 1)
    BY <1>2 DEF Parsed
  <2> QED
    BY <1>2, <2>1, <2>2, PrefixBegins
<1>3. CASE ~(s # <<>> /\ s[Len(s)] = Garbage)
  <2>1. Parsed(s) = s
    BY <1>3 DEF Parsed
  <2> QED
    BY <1>1, <2>1 DEF Begins
<1> QED
  BY <1>2, <1>3

\* What replays holds no garbage, so all of it are records.
LEMMA ReplayableIsParsed ==
  ASSUME NEW S, NEW s \in Seq(S), Replayable(s)
  PROVE  /\ Parsed(s) = s
         /\ \A i \in 1..Len(s) : s[i] \in Line
<1>1. \A i \in 1..Len(s) : s[i] \in Line
  BY DEF Replayable, Legal
<1>2. Len(s) \in Nat /\ (s # <<>> => Len(s) > 0)
  BY LenProperties, EmptySeq
<1>3. Garbage \notin Line
  BY DEF Garbage, Line
<1> QED
  BY <1>1, <1>2, <1>3 DEF Parsed

LEMMA AppendParsed ==
  ASSUME NEW S, NEW s \in Seq(S), NEW x \in S
  PROVE  Parsed(Append(s, x)) = IF x = Garbage THEN s ELSE Append(s, x)
<1> DEFINE t == Append(s, x)
<1>1. /\ t \in Seq(S) /\ Len(t) = Len(s) + 1 /\ Len(s) \in Nat
      /\ t[Len(s) + 1] = x /\ t # <<>>
  BY AppendProperties, LenProperties, EmptySeq
<1>2. CASE x # Garbage
  BY <1>1, <1>2 DEF Parsed
<1>3. CASE x = Garbage
  <2>1. Parsed(t) = SubSeq(t, 1, Len(s))
    BY <1>1, <1>3 DEF Parsed
  <2>2. SubSeq(t, 1, Len(s)) = s
    BY SMT
  <2> QED
    BY <1>3, <2>1, <2>2
<1> QED
  BY <1>2, <1>3

LEMMA GarbageKeepsSound ==
  ASSUME NEW S, NEW s \in Seq(S), Sound(s)
  PROVE  Sound(Append(s, Garbage))
<1> DEFINE t == Append(s, Garbage)
<1>1. /\ Len(t) = Len(s) + 1 /\ Len(s) \in Nat
      /\ \A i \in 1..Len(s) : t[i] = s[i]
      /\ t[Len(s) + 1] = Garbage
  BY AppendShape, AppendProperties, LenProperties
<1> HIDE DEF t
<1>2. ~IsOpening(Garbage) /\ Garbage.seq = 0
  BY DEF IsOpening, Garbage
<1>3. Numbered(t)
  <2> SUFFICES ASSUME NEW i \in 1..Len(t)
               PROVE  /\ t[i].seq \in 0..i
                      /\ \A m \in 1..t[i].seq : \E j \in 1..i : t[j].seq = m
    BY DEF Numbered
  <2>1. CASE i = Len(s) + 1
    BY <1>1, <1>2, <2>1
  <2>2. CASE i # Len(s) + 1
    <3>1. i \in 1..Len(s) /\ \A j \in 1..i : t[j] = s[j]
      BY <1>1, <2>2
    <3>2. /\ s[i].seq \in 0..i
          /\ \A m \in 1..s[i].seq : \E j \in 1..i : s[j].seq = m
      BY <3>1 DEF Sound, Numbered
    <3>3. t[i].seq = s[i].seq /\ \A j \in 1..i : t[j].seq = s[j].seq
      BY <1>1, <3>1
    <3>4. t[i].seq \in 0..i
      BY <3>2, <3>3
    <3>5. ASSUME NEW m \in 1..t[i].seq
          PROVE  \E j \in 1..i : t[j].seq = m
      <4>1. PICK j \in 1..i : s[j].seq = m
        BY <3>2, <3>3
      <4> QED
        BY <3>3, <4>1
    <3> QED
      BY <3>4, <3>5
  <2> QED
    BY <2>1, <2>2
<1>4. \A i \in 1..Len(t) : IsOpening(t[i]) => i \in 1..Len(s) /\ t[i] = s[i]
  BY <1>1, <1>2
<1>5. OpensOnce(t)
  BY <1>4 DEF Sound, OpensOnce
<1> QED
  BY <1>3, <1>5 DEF Sound, t

\* What may come next by its number and its key.
LEMMA NextIsSound ==
  ASSUME NEW S, NEW s \in Seq(S), NEW l, Sound(s), l.seq \in 0..Len(s) + 1,
         \A m \in 1..l.seq - 1 : \E j \in 1..Len(s) : s[j].seq = m,
         IsOpening(l) => \A j \in 1..Len(s) : ~(IsOpening(s[j]) /\ s[j].key = l.key)
  PROVE  Sound(Append(s, l))
<1> DEFINE t == Append(s, l)
<1>1. /\ Len(t) = Len(s) + 1 /\ Len(s) \in Nat
      /\ \A i \in 1..Len(s) : t[i] = s[i]
      /\ t[Len(s) + 1] = l
  BY AppendShape, AppendProperties, LenProperties
<1> HIDE DEF t
<1>2. Numbered(t)
  <2> SUFFICES ASSUME NEW i \in 1..Len(t)
               PROVE  /\ t[i].seq \in 0..i
                      /\ \A m \in 1..t[i].seq : \E j \in 1..i : t[j].seq = m
    BY DEF Numbered
  <2>1. CASE i = Len(s) + 1
    <3>1. t[i].seq \in 0..i
      BY <1>1, <2>1
    <3>2. ASSUME NEW m \in 1..t[i].seq
          PROVE  \E j \in 1..i : t[j].seq = m
      <4>1. CASE m = l.seq
        BY <1>1, <2>1, <4>1
      <4>2. CASE m # l.seq
        <5>1. m \in 1..l.seq - 1
          BY <1>1, <2>1, <4>2
        <5>2. PICK j \in 1..Len(s) : s[j].seq = m
          BY <5>1
        <5> QED
          BY <1>1, <2>1, <5>2
      <4> QED
        BY <4>1, <4>2
    <3> QED
      BY <3>1, <3>2
  <2>2. CASE i # Len(s) + 1
    <3>1. i \in 1..Len(s) /\ \A j \in 1..i : t[j] = s[j]
      BY <1>1, <2>2
    <3>2. /\ s[i].seq \in 0..i
          /\ \A m \in 1..s[i].seq : \E j \in 1..i : s[j].seq = m
      BY <3>1 DEF Sound, Numbered
    <3>3. t[i].seq = s[i].seq /\ \A j \in 1..i : t[j].seq = s[j].seq
      BY <1>1, <3>1
    <3>4. t[i].seq \in 0..i
      BY <3>2, <3>3
    <3>5. ASSUME NEW m \in 1..t[i].seq
          PROVE  \E j \in 1..i : t[j].seq = m
      <4>1. PICK j \in 1..i : s[j].seq = m
        BY <3>2, <3>3
      <4> QED
        BY <3>3, <4>1
    <3> QED
      BY <3>4, <3>5
  <2> QED
    BY <2>1, <2>2
<1>3. OpensOnce(t)
  <2> SUFFICES ASSUME NEW i \in 1..Len(t), NEW j \in 1..Len(t),
                      IsOpening(t[i]), IsOpening(t[j]), t[i].key = t[j].key
               PROVE  i = j
    BY DEF OpensOnce
  <2>1. CASE i \in 1..Len(s) /\ j \in 1..Len(s)
    BY <1>1, <2>1 DEF Sound, OpensOnce
  <2>2. CASE i = Len(s) + 1
    BY <1>1, <2>2
  <2>3. CASE j = Len(s) + 1
    BY <1>1, <2>3
  <2> QED
    BY <1>1, <2>1, <2>2, <2>3
<1> QED
  BY <1>2, <1>3 DEF Sound, t

\* A line that fits the records is sound after the garbage behind them too.
LEMMA FitsBehindGarbage ==
  ASSUME NEW S, NEW s \in Seq(S), NEW l, Sound(s), Sound(Append(Parsed(s), l))
  PROVE  Sound(Append(s, l))
<1> DEFINE r == Parsed(s)
           t == Append(r, l)
<1>1. CASE r = s
  BY <1>1
<1>2. CASE r # s
  <2>1. /\ r \in Seq(S) /\ Begins(r, s) /\ Len(s) > 0
        /\ s[Len(s)] = Garbage /\ Len(r) = Len(s) - 1
        /\ Len(s) \in Nat /\ Len(r) \in Nat
    BY <1>2, ParsedBegins, LenProperties
  <2> HIDE DEF r
  <2>2. /\ Len(t) = Len(s)
        /\ \A i \in 1..Len(r) : t[i] = s[i]
        /\ t[Len(s)] = l
    BY <2>1, AppendShape, AppendProperties DEF Begins
  <2> HIDE DEF t
  <2>3. Sound(t)
    BY DEF t, r
  <2>s. /\ l.seq \in 0..Len(s)
        /\ \A m \in 1..l.seq : \E j \in 1..Len(s) : t[j].seq = m
    BY <2>1, <2>2, <2>3 DEF Sound, Numbered
  <2>4. ASSUME NEW m \in 1..l.seq - 1
        PROVE  \E j \in 1..Len(s) : s[j].seq = m
    <3>1. m \in 1..l.seq /\ m # l.seq
      BY <2>s
    <3>2. PICK j \in 1..Len(s) : t[j].seq = m
      BY <2>s, <3>1
    <3>3. j \in 1..Len(r)
      BY <2>1, <2>2, <3>1, <3>2
    <3> QED
      BY <2>1, <2>2, <3>2, <3>3
  <2>5. ASSUME IsOpening(l), NEW j \in 1..Len(s), IsOpening(s[j]), s[j].key = l.key
        PROVE  FALSE
    <3>1. j \in 1..Len(r)
      BY <2>1, <2>5 DEF IsOpening, Garbage
    <3> QED
      BY <2>1, <2>2, <2>3, <2>5, <3>1 DEF Sound, OpensOnce
  <2>6. l.seq \in 0..Len(s) + 1
    BY <2>1, <2>s
  <2> QED
    BY <2>4, <2>5, <2>6, NextIsSound
<1> QED
  BY <1>1, <1>2

LEMMA HighestIs ==
  ASSUME NEW S, NEW s \in Seq(S), Numbered(s)
  PROVE  /\ Highest(s) \in 0..Len(s)
         /\ \A i \in 1..Len(s) : s[i].seq \in 0..Highest(s)
         /\ Highest(s) = 0 \/ \E i \in 1..Len(s) : s[i].seq = Highest(s)
<1> DEFINE T == { n \in 0..Len(s) : n = 0 \/ \E i \in 1..Len(s) : s[i].seq = n }
           IsHighest(n) == /\ \A i \in 1..Len(s) : s[i].seq <= n
                           /\ n = 0 \/ \E i \in 1..Len(s) : s[i].seq = n
<1>1. Len(s) \in Nat
  BY LenProperties
<1>2. \A i \in 1..Len(s) : s[i].seq \in 0..Len(s)
  <2> SUFFICES ASSUME NEW i \in 1..Len(s)
               PROVE  s[i].seq \in 0..Len(s)
    OBVIOUS
  <2>1. s[i].seq \in 0..i
    BY DEF Numbered
  <2> QED
    BY <1>1, <2>1
<1>3. PICK h \in T : \A k \in T : k <= h
  <2>1. T \in SUBSET (0..Len(s)) /\ 0 \in T
    BY <1>1
  <2> HIDE DEF T
  <2> QED
    BY <1>1, <2>1, Greatest
<1>4. h \in 0..Len(s) /\ IsHighest(h)
  BY <1>2, <1>3
<1>5. Highest(s) = CHOOSE n \in 0..Len(s) : IsHighest(n)
  BY DEF Highest
<1>6. Highest(s) \in 0..Len(s) /\ IsHighest(Highest(s))
  <2> HIDE DEF IsHighest
  <2> QED
    BY <1>4, <1>5
<1>7. \A i \in 1..Len(s) : s[i].seq \in 0..Highest(s)
  BY <1>2, <1>6
<1> QED
  BY <1>6, <1>7

\* The state of an entry is what its last line says.
LEMMA EntryNowIs ==
  ASSUME NEW S, NEW s \in Seq(S), NEW n, HasEntry(s, n)
  PROVE  \E i \in LinesOf(s, n) :
           /\ \A j \in LinesOf(s, n) : j <= i
           /\ EntryNow(s, n) = s[i].state
<1> DEFINE IsLast(i) == \A j \in LinesOf(s, n) : j <= i
<1>1. Len(s) \in Nat
  BY LenProperties
<1>2. PICK i \in LinesOf(s, n) : IsLast(i)
  <2>1. LinesOf(s, n) \in SUBSET (0..Len(s)) /\ LinesOf(s, n) # {}
    BY <1>1 DEF LinesOf, HasEntry
  <2> QED
    BY <1>1, <2>1, Greatest
<1> DEFINE last == CHOOSE j \in LinesOf(s, n) : IsLast(j)
<1>3. last \in LinesOf(s, n) /\ IsLast(last)
  <2> HIDE DEF IsLast
  <2> QED
    BY <1>2
<1>4. EntryNow(s, n) = s[last].state
  BY DEF EntryNow
<1> QED
  BY <1>3, <1>4

\* What the replay accepts next.
LEMMA NextReplays ==
  ASSUME NEW S, NEW s \in Seq(S), NEW l \in Line, Replayable(s),
         \/ IsOpening(l) /\ ~HasEntry(s, l.seq)
         \/ /\ ~IsOpening(l) /\ HasEntry(s, l.seq)
            /\ l.state \in EntryTransitions[EntryNow(s, l.seq)]
  PROVE  Replayable(Append(s, l))
<1> DEFINE t == Append(s, l)
           z == Len(s) + 1
<1>1. /\ Len(t) = z /\ Len(s) \in Nat
      /\ \A i \in 1..Len(s) : t[i] = s[i]
      /\ t[z] = l
  BY AppendShape, AppendProperties, LenProperties
<1> HIDE DEF t
<1>2. ASSUME NEW i \in 1..Len(s)
      PROVE  Legal(t, i)
  <2>1. Legal(s, i)
    BY DEF Replayable
  <2>2. \A j \in 1..i : t[j] = s[j]
    BY <1>1
  <2>3. Earlier(t, i) = Earlier(s, i) /\ \A j \in Earlier(s, i) : t[j] = s[j]
    BY <2>2 DEF Earlier
  <2> QED
    BY <1>1, <2>1, <2>3 DEF Legal
<1>3. Earlier(t, z) = LinesOf(s, l.seq)
  BY <1>1 DEF Earlier, LinesOf
<1>4. Legal(t, z)
  <2>1. CASE IsOpening(l)
    BY <1>1, <1>3, <2>1 DEF Legal, HasEntry
  <2>2. CASE ~IsOpening(l)
    <3>1. PICK i \in LinesOf(s, l.seq) :
            /\ \A j \in LinesOf(s, l.seq) : j <= i
            /\ EntryNow(s, l.seq) = s[i].state
      BY <2>2, EntryNowIs
    <3>2. t[i] = s[i]
      BY <1>1 DEF LinesOf
    <3> QED
      BY <1>1, <1>3, <2>2, <3>1, <3>2 DEF Legal
  <2> QED
    BY <2>1, <2>2
<1> QED
  BY <1>1, <1>2, <1>4 DEF Replayable, t

LEMMA StateKnown ==
  ASSUME NEW S, NEW s \in Seq(S), Replayable(s), NEW n, HasEntry(s, n)
  PROVE  EntryNow(s, n) \in EntryState /\ n \in Nat \ {0}
<1>1. PICK i \in LinesOf(s, n) : EntryNow(s, n) = s[i].state
  BY EntryNowIs
<1>2. s[i] \in Line /\ s[i].seq = n
  BY DEF LinesOf, Replayable, Legal
<1> QED
  BY <1>1, <1>2 DEF Line

LEMMA OpeningFits ==
  ASSUME NEW S, NEW s \in Seq(S), Replayable(s), Sound(s),
         NEW k \in Keys, Openings(s, k) = {}
  PROVE  /\ Opens(k, Highest(s) + 1) \in Line
         /\ Fits(s, Opens(k, Highest(s) + 1))
<1> DEFINE n == Highest(s) + 1
           l == Opens(k, n)
<1>1. /\ Highest(s) \in 0..Len(s) /\ Len(s) \in Nat
      /\ \A i \in 1..Len(s) : s[i].seq \in 0..Highest(s)
      /\ Highest(s) = 0 \/ \E i \in 1..Len(s) : s[i].seq = Highest(s)
  BY HighestIs, LenProperties DEF Sound
<1>2. n \in Nat \ {0} /\ n \in 0..Len(s) + 1 /\ n - 1 = Highest(s)
  BY <1>1
<1>3. l.seq = n /\ l.key = k /\ IsOpening(l) /\ l \in Line
  BY <1>2 DEF Opens, IsOpening, Line, EntryState
<1>4. ~HasEntry(s, n)
  BY <1>1 DEF HasEntry, LinesOf
<1>5. ASSUME NEW m \in 1..Highest(s)
      PROVE  \E j \in 1..Len(s) : s[j].seq = m
  <2>1. PICK i \in 1..Len(s) : s[i].seq = Highest(s)
    BY <1>1
  <2>2. PICK j \in 1..i : s[j].seq = m
    BY <2>1 DEF Sound, Numbered
  <2> QED
    BY <1>1, <2>2
<1>6. \A j \in 1..Len(s) : ~(IsOpening(s[j]) /\ s[j].key = k)
  BY DEF Openings
<1> HIDE DEF n, l
<1>7. Sound(Append(s, l))
  BY <1>2, <1>3, <1>5, <1>6, NextIsSound
<1>8. Replayable(Append(s, l))
  BY <1>3, <1>4, NextReplays
<1> QED
  BY <1>3, <1>7, <1>8 DEF Fits, l, n

LEMMA MoveFits ==
  ASSUME NEW S, NEW s \in Seq(S), Replayable(s), Sound(s),
         NEW n, HasEntry(s, n), NEW to \in EntryTransitions[EntryNow(s, n)]
  PROVE  Moves(n, to) \in Line /\ Fits(s, Moves(n, to))
<1> DEFINE l == Moves(n, to)
<1>1. EntryNow(s, n) \in EntryState /\ n \in Nat \ {0} /\ Len(s) \in Nat
  BY StateKnown, LenProperties
<1>2. to \in EntryState \ {"intended"}
  BY <1>1 DEF EntryTransitions, EntryState
<1>3. l \in Line /\ ~IsOpening(l) /\ l.seq = n /\ l.state = to
  BY <1>1, <1>2 DEF Moves, IsOpening, Line
<1>4. PICK i \in 1..Len(s) : s[i].seq = n
  BY DEF HasEntry, LinesOf
<1>5. /\ n \in 0..i
      /\ \A m \in 1..n : \E j \in 1..i : s[j].seq = m
  BY <1>4 DEF Sound, Numbered
<1> HIDE DEF l
<1>6. Sound(Append(s, l))
  <2>1. n \in 0..Len(s) + 1
    BY <1>1, <1>5
  <2>2. ASSUME NEW m \in 1..n - 1
        PROVE  \E j \in 1..Len(s) : s[j].seq = m
    <3>1. m \in 1..n
      BY <1>1
    <3>2. PICK j \in 1..i : s[j].seq = m
      BY <1>5, <3>1
    <3> QED
      BY <1>1, <3>2
  <2> QED
    BY <1>3, <2>1, <2>2, NextIsSound
<1>7. Replayable(Append(s, l))
  BY <1>3, NextReplays
<1> QED
  BY <1>3, <1>6, <1>7 DEF Fits, l

------------------------------------------------------------------------------
(* The calls of a process judge by sound records and append what fits. *)

LogLines == Line \cup {Garbage}
LogInv   == LedgerTypeOK /\ SoundInv

LEMMA RecordsAre ==
  ASSUME LogInv
  PROVE  /\ lines \in Seq(LogLines) /\ Records \in Seq(LogLines)
         /\ Begins(Records, lines) /\ Sound(Records)
         /\ Len(lines) \in Nat
<1>1. lines \in Seq(LogLines) /\ Sound(lines)
  BY DEF LogInv, LedgerTypeOK, LogLines, SoundInv
<1> QED
  BY <1>1, ParsedBegins, BeginningIsSound, LenProperties DEF Records

LEMMA AppendBegins ==
  ASSUME NEW S, NEW s \in Seq(S), NEW x \in S
  PROVE  Append(s, x) \in Seq(S) /\ Begins(s, Append(s, x))
<1>1. Len(s) \in Nat /\ Append(s, x) \in Seq(S)
  BY AppendProperties, LenProperties
<1> QED
  BY <1>1, AppendShape DEF Begins

LEMMA FitsReplays ==
  ASSUME LogInv, call.pc \in {"repair", "append"}
  PROVE  Replayable(Records) /\ call.line \in LogLines /\ Fits(Records, call.line)
<1>1. call.line \in LogLines /\ Fits(Records, call.line)
  BY DEF LogInv, LedgerTypeOK, LogLines, SoundInv
<1> QED
  BY <1>1, RecordsAre, AppendBegins, BeginningReplays DEF Fits

LEMMA AnswerIsState ==
  ASSUME LogInv, Replayable(Records), NEW n, HasEntry(Records, n), Answer(n)
  PROVE  told' \in [Keys -> EntryState \cup {"none"}]
<1>1. EntryNow(Records, n) \in EntryState
  BY RecordsAre, StateKnown
<1>2. told \in [Keys -> EntryState \cup {"none"}]
  BY DEF LogInv, LedgerTypeOK
<1> QED
  BY <1>1, <1>2 DEF Answer

\* A call that begins asks for nothing or for a line that fits.
LEMMA BeginFits ==
  ASSUME LogInv, Begin
  PROVE  /\ told' \in [Keys -> EntryState \cup {"none"}]
         /\ \/ call' = call
            \/ /\ call'.pc = "repair" /\ Fits(Records, call'.line)
               /\ call' \in [pc : CallPc, line : LogLines]
<1>1. /\ Records \in Seq(LogLines) /\ Sound(Records) /\ Replayable(Records)
      /\ told \in [Keys -> EntryState \cup {"none"}]
  BY RecordsAre DEF Begin, LogInv, LedgerTypeOK
<1>2. ASSUME NEW l \in Line, Fits(Records, l), Write(l)
      PROVE  /\ call'.pc = "repair" /\ Fits(Records, call'.line)
             /\ call' \in [pc : CallPc, line : LogLines]
  BY <1>2 DEF Write, CallPc, LogLines
<1>3. ASSUME NEW k \in Keys, Intend(k)
      PROVE  /\ told' \in [Keys -> EntryState \cup {"none"}]
             /\ \/ call' = call
                \/ /\ call'.pc = "repair" /\ Fits(Records, call'.line)
                   /\ call' \in [pc : CallPc, line : LogLines]
  <2>1. CASE Openings(Records, k) = {}
    <3>1. Write(Opens(k, Highest(Records) + 1)) /\ told' = told
      BY <1>3, <2>1 DEF Intend
    <3> QED
      BY <1>1, <1>2, <2>1, <3>1, OpeningFits
  <2>2. CASE Openings(Records, k) # {}
    <3>1. Answer(SeqOf(Records, k)) /\ call' = call
      BY <1>3, <2>2 DEF Intend
    <3>2. HasEntry(Records, SeqOf(Records, k))
      BY <2>2 DEF SeqOf, Openings, HasEntry, LinesOf
    <3> QED
      BY <1>1, <3>1, <3>2, AnswerIsState
  <2> QED
    BY <2>1, <2>2
<1>4. ASSUME NEW n \in 1..Cardinality(Keys), HasEntry(Records, n),
             Confirm(n) \/ Compensate(n)
      PROVE  /\ told' \in [Keys -> EntryState \cup {"none"}]
             /\ \/ call' = call
                \/ /\ call'.pc = "repair" /\ Fits(Records, call'.line)
                   /\ call' \in [pc : CallPc, line : LogLines]
  <2>1. EntryNow(Records, n) \in EntryState
    BY <1>1, <1>4, StateKnown
  <2>2. CASE Answer(n) /\ call' = call
    BY <1>1, <1>4, <2>2, AnswerIsState
  <2>3. CASE ~(Answer(n) /\ call' = call)
    <3>1. PICK to \in EntryTransitions[EntryNow(Records, n)] :
            Write(Moves(n, to)) /\ told' = told
      BY <1>4, <2>1, <2>3 DEF Confirm, Compensate, EntryTransitions, EntryState
    <3> QED
      BY <1>1, <1>2, <1>4, <3>1, MoveFits
  <2> QED
    BY <2>2, <2>3
<1> QED
  BY <1>3, <1>4 DEF Begin

\* What the repair takes away was no record.
LEMMA RepairKeepsRecords ==
  ASSUME NEW S, NEW s \in Seq(S), Replayable(Parsed(s)), NEW torn
  PROVE  Parsed(SubSeq(s, 1, Committed(s, torn))) = Parsed(s)
<1>1. Len(s) \in Nat /\ Parsed(s) \in Seq(S)
  BY LenProperties, ParsedBegins
<1>2. CASE ~torn /\ s # <<>> /\ s[Len(s)] = Garbage
  <2>1. SubSeq(s, 1, Committed(s, torn)) = Parsed(s)
    BY <1>2 DEF Committed, Parsed
  <2> QED
    BY <1>1, <2>1, ReplayableIsParsed
<1>3. CASE ~(~torn /\ s # <<>> /\ s[Len(s)] = Garbage)
  <2>1. SubSeq(s, 1, Committed(s, torn)) = s
    BY <1>1, <1>3, SMT DEF Committed
  <2> QED
    BY <2>1
<1> QED
  BY <1>2, <1>3

LEMMA BeginLogs ==
  ASSUME LogInv, Begin
  PROVE  LogInv'
<1>1. UNCHANGED <<env, lines, tail, synced, repaired, mishaps>> /\ Records' = Records
  BY DEF Begin, file, Records
<1>2. LedgerTypeOK'
  BY <1>1, BeginFits DEF LogInv, LedgerTypeOK, LogLines
<1>3. SoundInv'
  BY <1>1, BeginFits DEF LogInv, SoundInv
<1> QED
  BY <1>2, <1>3 DEF LogInv

LEMMA RepairLogs ==
  ASSUME LogInv, Repair
  PROVE  LogInv' /\ Records' = Records
<1>1. /\ lines \in Seq(LogLines) /\ Len(lines) \in Nat /\ Sound(lines)
      /\ Replayable(Records) /\ Fits(Records, call.line)
  BY RecordsAre, FitsReplays DEF Repair, LogInv, SoundInv
<1>2. /\ lines' \in Seq(LogLines) /\ Sound(lines') /\ Records' = Records
      /\ tail' \in BOOLEAN /\ synced' \in 0..Len(lines')
  <2>1. CASE repaired
    BY <1>1, <2>1 DEF Repair, file, Records, LogInv, LedgerTypeOK
  <2>2. CASE ~repaired
    <3> DEFINE cut == Committed(lines, tail)
    <3>1. cut \in 0..Len(lines)
      BY <1>1, CommittedKeepsRecords
    <3>2. /\ lines' = SubSeq(lines, 1, cut) /\ tail' = FALSE
          /\ synced' = IF tail \/ cut < Len(lines) THEN cut ELSE synced
      BY <2>2 DEF Repair
    <3>3. Records' = Records
      BY <1>1, <3>2, RepairKeepsRecords DEF Records
    <3> HIDE DEF cut
    <3>4. lines' \in Seq(LogLines) /\ Len(lines') = cut /\ Begins(lines', lines)
      BY <1>1, <3>1, <3>2, PrefixBegins
    <3>5. Sound(lines')
      BY <1>1, <3>4, BeginningIsSound
    <3>6. synced' \in 0..Len(lines')
      BY <1>1, <3>1, <3>2, <3>4 DEF LogInv, LedgerTypeOK
    <3> QED
      BY <3>2, <3>3, <3>4, <3>5, <3>6
  <2> QED
    BY <2>1, <2>2
<1>3. LedgerTypeOK'
  BY <1>2 DEF Repair, LogInv, LedgerTypeOK, LogLines, CallPc
<1>4. SoundInv'
  <2>1. /\ call'.pc = "append" /\ call'.line = call.line /\ repaired'
    BY DEF Repair, LogInv, LedgerTypeOK
  <2> QED
    BY <1>1, <1>2, <2>1 DEF SoundInv
<1> QED
  BY <1>2, <1>3, <1>4 DEF LogInv

LEMMA AppendLogs ==
  ASSUME LogInv, AppendLine
  PROVE  LogInv'
<1>1. /\ lines \in Seq(LogLines) /\ Len(lines) \in Nat /\ Sound(lines)
      /\ call.line \in LogLines /\ Fits(Records, call.line)
  BY RecordsAre, FitsReplays DEF AppendLine, LogInv, SoundInv
<1>2. CASE AppendLine /\ call' = [call EXCEPT !.pc = "sync"]
  <2>1. /\ lines' = Append(lines, IF tail THEN Garbage ELSE call.line)
        /\ tail' = FALSE /\ mishaps' = mishaps
    BY <1>2 DEF AppendLine, Throw, NoCall, LogInv, LedgerTypeOK
  <2>2. PICK x \in LogLines : lines' = Append(lines, x) /\ Sound(lines')
    <3>1. Sound(Append(lines, call.line))
      BY <1>1, FitsBehindGarbage DEF Fits, Records
    <3>2. Sound(Append(lines, Garbage)) /\ Garbage \in LogLines
      BY <1>1, GarbageKeepsSound DEF LogLines
    <3> QED
      BY <1>1, <2>1, <3>1, <3>2
  <2>3. lines' \in Seq(LogLines) /\ Len(lines') = Len(lines) + 1
    BY <1>1, <2>2, AppendProperties
  <2>6. call' \in [pc : CallPc, line : LogLines]
    BY <1>2 DEF LogInv, LedgerTypeOK, LogLines, CallPc
  <2>7. synced' \in 0..Len(lines')
    BY <1>1, <1>2, <2>3 DEF AppendLine, LogInv, LedgerTypeOK
  <2>4. LedgerTypeOK'
    BY <1>2, <2>1, <2>3, <2>6, <2>7
       DEF AppendLine, LogInv, LedgerTypeOK, LogLines
  <2>5. call'.pc = "sync" /\ repaired'
    BY <1>2 DEF AppendLine, LogInv, LedgerTypeOK, SoundInv
  <2> QED
    BY <2>2, <2>4, <2>5 DEF LogInv, SoundInv
<1>3. CASE AppendLine /\ UNCHANGED lines /\ Throw
  <2>1. tail' = TRUE \/ tail' = FALSE
    BY <1>3 DEF AppendLine
  <2>2. mishaps' \in 0..MaxMishaps
    BY <1>3, MishapsAssumption DEF AppendLine, Suffers, LogInv, LedgerTypeOK
  <2>3. LedgerTypeOK'
    BY <1>1, <1>3, <2>1, <2>2
       DEF AppendLine, Throw, NoCall, LogInv, LedgerTypeOK, CallPc
  <2>4. SoundInv'
    BY <1>1, <1>3 DEF Throw, NoCall, SoundInv
  <2> QED
    BY <2>3, <2>4 DEF LogInv
<1> QED
  BY <1>2, <1>3 DEF AppendLine

LEMMA SyncLogs ==
  ASSUME LogInv, Sync
  PROVE  LogInv'
<1>1. Len(lines) \in Nat /\ repaired
  BY RecordsAre DEF Sync, LogInv, SoundInv
<1>2. /\ synced' \in 0..Len(lines)
      /\ call' = NoCall \/ call' = [call EXCEPT !.pc = "save"]
      /\ mishaps' \in 0..MaxMishaps
  BY <1>1, MishapsAssumption DEF Sync, Suffers, Throw, LogInv, LedgerTypeOK
<1>3. call' \in [pc : CallPc, line : LogLines] /\ call'.pc \in {"idle", "save"}
  BY <1>2 DEF NoCall, LogInv, LedgerTypeOK, CallPc, LogLines
<1>4. LedgerTypeOK'
  BY <1>2, <1>3 DEF Sync, LogInv, LedgerTypeOK, LogLines
<1>5. SoundInv'
  BY <1>1, <1>3 DEF Sync, LogInv, SoundInv
<1> QED
  BY <1>4, <1>5 DEF LogInv

LEMMA ReturnLogs ==
  ASSUME LogInv, Return
  PROVE  LogInv'
<1>1. told' \in [Keys -> EntryState \cup {"none"}] /\ mishaps' \in 0..MaxMishaps
  BY AnswerIsState, MishapsAssumption DEF Return, Suffers, LogInv, LedgerTypeOK
<1>2. LedgerTypeOK'
  BY <1>1 DEF Return, Throw, NoCall, file, LogInv, LedgerTypeOK, CallPc
<1>3. SoundInv'
  BY DEF Return, Throw, NoCall, file, LogInv, SoundInv
<1> QED
  BY <1>2, <1>3 DEF LogInv

LEMMA KillLogs ==
  ASSUME LogInv, Kill
  PROVE  LogInv'
<1>1. tail' \in BOOLEAN /\ mishaps' \in 0..MaxMishaps
  BY MishapsAssumption DEF Kill, Suffers, LogInv, LedgerTypeOK
<1>2. LedgerTypeOK'
  BY <1>1 DEF Kill, NoCall, LogInv, LedgerTypeOK, CallPc
<1>3. SoundInv'
  BY DEF Kill, NoCall, LogInv, SoundInv
<1> QED
  BY <1>2, <1>3 DEF LogInv

LEMMA PowerLossLogs ==
  ASSUME LogInv, PowerLoss
  PROVE  LogInv'
<1>1. lines \in Seq(LogLines) /\ Len(lines) \in Nat /\ Sound(lines)
  BY RecordsAre DEF LogInv, SoundInv
<1>2. PICK n \in synced..Len(lines) :
        LET kept == SubSeq(lines, 1, n) IN
        /\ synced' = Len(Parsed(kept))
        /\ lines' = kept \/ lines' = Append(kept, Garbage)
        /\ tail' \in BOOLEAN
  BY DEF PowerLoss, LogInv, LedgerTypeOK
<1> DEFINE kept == SubSeq(lines, 1, n)
<1>3. n \in 0..Len(lines)
  BY <1>1, <1>2 DEF LogInv, LedgerTypeOK
<1>4. /\ kept \in Seq(LogLines) /\ Len(kept) = n /\ Sound(kept)
      /\ Len(Parsed(kept)) \in 0..n
  <2>1. kept \in Seq(LogLines) /\ Len(kept) = n /\ Begins(kept, lines)
    BY <1>1, <1>3, PrefixBegins
  <2> HIDE DEF kept
  <2> QED
    BY <1>1, <2>1, ParsedShape, BeginningIsSound
<1>5. /\ synced' = Len(Parsed(kept)) /\ tail' \in BOOLEAN
      /\ lines' = kept \/ lines' = Append(kept, Garbage)
  BY <1>2
<1> HIDE DEF kept
<1>6. lines' \in Seq(LogLines) /\ Len(lines') \in {n, n + 1} /\ Sound(lines')
  <2>1. CASE lines' = kept
    BY <1>4, <2>1
  <2>2. CASE lines' = Append(kept, Garbage)
    <3>1. Garbage \in LogLines
      BY DEF LogLines
    <3> QED
      BY <1>4, <2>2, <3>1, GarbageKeepsSound, AppendProperties
  <2> QED
    BY <1>5, <2>1, <2>2
<1>7. synced' \in 0..Len(lines')
  BY <1>3, <1>4, <1>5, <1>6
<1>8. mishaps' \in 0..MaxMishaps
  BY MishapsAssumption DEF PowerLoss, Suffers, LogInv, LedgerTypeOK
<1>9. LedgerTypeOK'
  BY <1>5, <1>6, <1>7, <1>8
     DEF PowerLoss, NoCall, LogInv, LedgerTypeOK, CallPc, LogLines
<1>10. SoundInv'
  BY <1>6 DEF PowerLoss, NoCall, SoundInv
<1> QED
  BY <1>9, <1>10 DEF LogInv

LEMMA NextLogs ==
  ASSUME LogInv, [Next]_vars
  PROVE  LogInv'
<1>1. CASE UNCHANGED vars
  BY <1>1 DEF vars, LogInv, LedgerTypeOK, SoundInv, Records
<1> QED
  BY <1>1, BeginLogs, RepairLogs, AppendLogs, SyncLogs, ReturnLogs, KillLogs,
     PowerLossLogs DEF Next

LEMMA InitLogs ==
  ASSUME Init
  PROVE  LogInv
<1>1. lines \in Seq(LogLines) /\ Len(lines) = 0
  BY EmptySeq DEF Init
<1>t. /\ told \in [Keys -> EntryState \cup {"none"}]
      /\ call \in [pc : CallPc, line : LogLines]
  BY DEF Init, NoCall, CallPc, LogLines
<1>2. LedgerTypeOK
  <2>1. synced \in 0..Len(lines) /\ mishaps \in 0..MaxMishaps
    BY <1>1, MishapsAssumption DEF Init
  <2> QED
    BY <1>1, <1>t, <2>1 DEF Init, LedgerTypeOK, LogLines
<1>3. SoundInv
  BY <1>1 DEF Init, NoCall, SoundInv, Sound, Numbered, OpensOnce
<1> QED
  BY <1>2, <1>3 DEF LogInv

LEMMA LogInvHolds == Spec => []LogInv
  BY InitLogs, NextLogs, PTL DEF Spec

(***************************************************************************)
(* Every reachable log, call and answer is well typed, for any keys,       *)
(* environments and number of mishaps.  Numbers that are given out are     *)
(* numbers because the log is sound: Highest exists.                       *)
(***************************************************************************)
THEOREM LedgerTypeCorrect == Spec => []LedgerTypeOK
  BY LogInvHolds, PTL DEF LogInv

LEMMA SoundOpensOnce ==
  ASSUME NEW S, NEW s \in Seq(S), Sound(s), NEW k
  PROVE  Cardinality(Openings(s, k)) <= 1
<1>1. CASE Openings(s, k) = {}
  BY <1>1, FS_EmptySet
<1>2. CASE Openings(s, k) # {}
  <2>1. PICK i : i \in Openings(s, k)
    BY <1>2
  <2>2. Openings(s, k) = {i}
    BY <2>1 DEF Openings, Sound, OpensOnce
  <2>3. Cardinality({i}) = 1
    BY FS_Singleton
  <2> QED
    BY <2>2, <2>3
<1> QED
  BY <1>1, <1>2

LEMMA SoundHasNoGaps ==
  ASSUME NEW S, NEW s \in Seq(S), Sound(s)
  PROVE  { s[i].seq : i \in 1..Len(s) } \ {0} = 1..Highest(s)
<1> DEFINE h == Highest(s)
<1>1. /\ h \in 0..Len(s) /\ Len(s) \in Nat
      /\ \A i \in 1..Len(s) : s[i].seq \in 0..h
      /\ h = 0 \/ \E i \in 1..Len(s) : s[i].seq = h
  BY HighestIs, LenProperties DEF Sound
<1> HIDE DEF h
<1>2. ASSUME NEW m \in 1..h
      PROVE  \E j \in 1..Len(s) : s[j].seq = m
  <2>1. PICK i \in 1..Len(s) : s[i].seq = h
    BY <1>1
  <2>2. PICK j \in 1..i : s[j].seq = m
    BY <2>1 DEF Sound, Numbered
  <2> QED
    BY <1>1, <2>2
<1>3. \A i \in 1..Len(s) : s[i].seq # 0 => s[i].seq \in 1..h
  BY <1>1
<1>4. \A m \in 1..h : m # 0
  BY <1>1
<1> QED
  BY <1>2, <1>3, <1>4 DEF h

(***************************************************************************)
(* KeysOpenOnce for any keys, environments and number of mishaps, appends  *)
(* that fail half-way included: a retried intend opens no second entry,    *)
(* and numbers have no gap, whatever the crashes take away.                *)
(***************************************************************************)
THEOREM KeysOpenOnceHolds == Spec => []KeysOpenOnce
<1>1. ASSUME LogInv
      PROVE  KeysOpenOnce
  <2>1. Records \in Seq(LogLines) /\ Sound(Records)
    BY <1>1, RecordsAre
  <2>2. \A k \in Keys : Cardinality(Openings(Records, k)) <= 1
    BY <2>1, SoundOpensOnce
  <2>3. { Records[i].seq : i \in 1..Len(Records) } \ {0} = 1..Highest(Records)
    BY <2>1, SoundHasNoGaps
  <2>4. Garbage.seq = 0
    BY DEF Garbage
  <2> QED
    BY <2>2, <2>3, <2>4 DEF KeysOpenOnce
<1>2. LogInv => KeysOpenOnce
  BY <1>1
<1> QED
  BY <1>2, LogInvHolds, PTL

------------------------------------------------------------------------------
(* Where a torn record may stand. *)

LEMMA RepairLeavesRecords ==
  ASSUME LogInv, OneTail, Repair, "short" \notin env
  PROVE  lines' = Records /\ ~tail'
<1>1. CASE repaired
  BY <1>1 DEF OneTail, Repair, file
<1>2. CASE ~repaired
  <2>1. lines' = SubSeq(lines, 1, Committed(lines, tail)) /\ tail' = FALSE
    BY <1>2 DEF Repair
  <2>2. CASE ~tail /\ lines # <<>> /\ lines[Len(lines)] = Garbage
    BY <2>1, <2>2 DEF Committed, Records, Parsed
  <2>3. CASE ~(~tail /\ lines # <<>> /\ lines[Len(lines)] = Garbage)
    <3>1. lines \in Seq(LogLines)
      BY RecordsAre
    <3>2. lines' = lines
      BY <2>1, <2>3, <3>1, SMT DEF Committed
    <3>3. CASE tail
      BY <2>1, <3>2, <3>3 DEF OneTail
    <3>4. CASE ~tail
      BY <2>1, <2>3, <3>2, <3>4 DEF Records, Parsed
    <3> QED
      BY <3>3, <3>4
  <2> QED
    BY <2>2, <2>3
<1> QED
  BY <1>1, <1>2

\* What a power loss leaves of the lines is what replays, if any is lost.
LEMMA KeptReplays ==
  ASSUME LogInv, OneTail, "short" \notin env, NEW n \in 0..Len(lines)
  PROVE  \/ n < Len(lines)
         \/ tail
         \/ call.pc = "append"
         => Replayable(SubSeq(lines, 1, n))
<1> DEFINE kept == SubSeq(lines, 1, n)
<1>1. /\ lines \in Seq(LogLines) /\ Len(lines) \in Nat
      /\ Records \in Seq(LogLines) /\ Begins(Records, lines)
      /\ Replayable(Records)
  BY RecordsAre DEF OneTail
<1>2. kept \in Seq(LogLines) /\ Len(kept) = n /\ Begins(kept, lines)
  BY <1>1, PrefixBegins
<1> HIDE DEF kept
<1>3. Len(Records) >= Len(lines) - 1 /\ Len(Records) \in Nat
  BY <1>1, ParsedBegins, LenProperties DEF Records
<1>4. tail \/ call.pc = "append" => Records = lines
  BY DEF OneTail, LogInv, SoundInv
<1>5. ASSUME n < Len(lines) \/ Records = lines
      PROVE  Replayable(kept)
  <2>1. Len(kept) <= Len(Records)
    BY <1>1, <1>2, <1>3, <1>5
  <2>2. Begins(kept, Records)
    BY <1>1, <1>2, <1>3, <2>1 DEF Begins
  <2> QED
    BY <1>1, <1>2, <2>2, BeginningReplays
<1> QED
  BY <1>4, <1>5 DEF kept

LEMMA PowerLossKeepsOneTail ==
  ASSUME LogInv, OneTail, PowerLoss
  PROVE  OneTail'
<1> SUFFICES ASSUME "short" \notin env
             PROVE  Replayable(Records') /\ ~repaired' /\ (tail' => lines' = Records')
  BY DEF PowerLoss, OneTail, Records
<1>1. lines \in Seq(LogLines) /\ Len(lines) \in Nat /\ Replayable(Records)
  BY RecordsAre DEF OneTail
<1>2. PICK n \in synced..Len(lines) :
        LET kept == SubSeq(lines, 1, n) IN
        \/ lines' = kept /\ (tail' => tail /\ n = Len(lines))
        \/ /\ tail \/ n < Len(lines) \/ call.pc = "append"
           /\ \/ lines' = kept /\ tail' = TRUE
              \/ lines' = Append(kept, Garbage) /\ tail' = FALSE
  BY DEF PowerLoss
<1> DEFINE kept == SubSeq(lines, 1, n)
<1>3. n \in 0..Len(lines) /\ ~repaired'
  BY <1>1, <1>2 DEF LogInv, LedgerTypeOK, PowerLoss
<1>4. kept \in Seq(LogLines)
  BY <1>1, <1>3, PrefixBegins
<1>5. CASE Replayable(kept)
  <2>1. lines' = kept \/ (lines' = Append(kept, Garbage) /\ tail' = FALSE)
    BY <1>2
  <2> HIDE DEF kept
  <2>2. Garbage \in LogLines
    BY DEF LogLines
  <2>3. Records' = kept
    BY <1>4, <1>5, <2>1, <2>2, ReplayableIsParsed, AppendParsed DEF Records
  <2> QED
    BY <1>3, <1>5, <2>1, <2>3
<1>6. CASE ~Replayable(kept)
  <2>1. n = Len(lines) /\ ~tail /\ call.pc # "append"
    BY <1>1, <1>3, <1>6, KeptReplays
  <2>2. kept = lines
    BY <1>1, <2>1, SMT
  <2>3. ~(tail \/ n < Len(lines) \/ call.pc = "append")
    BY <1>1, <2>1
  <2>4. lines' = lines /\ ~tail'
    BY <1>2, <2>1, <2>2, <2>3
  <2> QED
    BY <1>1, <1>3, <2>4 DEF Records
<1> QED
  BY <1>5, <1>6

LEMMA NextKeepsOneTail ==
  ASSUME LogInv, OneTail, [Next]_vars
  PROVE  OneTail'
<1>0. env' = env
  BY DEF Next, Begin, Repair, AppendLine, Sync, Return, Kill, PowerLoss, vars
<1> SUFFICES ASSUME "short" \notin env
             PROVE  /\ Replayable(Records')
                    /\ tail' \/ repaired' => lines' = Records'
                    /\ repaired' => ~tail'
  BY <1>0 DEF OneTail, Records
<1>1. /\ Replayable(Records)
      /\ tail \/ repaired => lines = Records
      /\ repaired => ~tail
  BY DEF OneTail
<1>2. CASE Repair
  BY <1>1, <1>2, RepairLogs, RepairLeavesRecords
<1>3. CASE AppendLine
  <2>1. repaired /\ lines = Records /\ tail = FALSE
    BY <1>1, <1>3 DEF AppendLine, LogInv, SoundInv, LedgerTypeOK
  <2>2. /\ lines' = Append(lines, call.line) /\ tail' = FALSE
    BY <1>3, <2>1 DEF AppendLine, Suffers
  <2>3. lines' \in Seq(LogLines) /\ Replayable(lines')
    BY <1>3, <2>1, <2>2, RecordsAre, FitsReplays, AppendProperties
       DEF AppendLine, Fits
  <2>4. Records' = lines'
    BY <2>3, ReplayableIsParsed DEF Records
  <2> QED
    BY <2>2, <2>3, <2>4
<1>4. CASE Kill
  <2>1. lines' = lines /\ Records' = Records /\ repaired' = FALSE
    BY <1>4 DEF Kill, Records
  <2>2. tail' = tail \/ (call.pc = "append" /\ repaired)
    BY <1>4 DEF Kill, LogInv, SoundInv
  <2> QED
    BY <1>1, <2>1, <2>2
<1>5. CASE PowerLoss
  BY <1>0, <1>5, PowerLossKeepsOneTail DEF OneTail, Records
<1>6. CASE Begin \/ Sync \/ Return \/ UNCHANGED vars
  <2>1. UNCHANGED <<lines, tail, repaired>> /\ Records' = Records
    BY <1>6 DEF Begin, Sync, Return, vars, file, Records
  <2> QED
    BY <1>1, <2>1
<1> QED
  BY <1>2, <1>3, <1>4, <1>5, <1>6 DEF Next

LEMMA OneTailHolds == Spec => []OneTail
<1>1. Init => OneTail
  <2> SUFFICES ASSUME Init PROVE OneTail
    OBVIOUS
  <2>1. lines = <<>> /\ Len(lines) = 0 /\ tail = FALSE /\ repaired = FALSE
    BY EmptySeq DEF Init
  <2>2. Records = lines
    BY <2>1 DEF Records, Parsed
  <2> QED
    BY <2>1, <2>2 DEF OneTail, Replayable
<1>2. OneTail /\ LogInv /\ [Next]_vars => OneTail'
  BY NextKeepsOneTail
<1> QED
  BY <1>1, <1>2, LogInvHolds, PTL DEF Spec

(***************************************************************************)
(* LogReadable for any keys, environments and number of mishaps.  The      *)
(* exception of the property, appends that fail half-way in a process that *)
(* goes on, is the one of ledger_splice; with it the statement is false.   *)
(***************************************************************************)
THEOREM LogReadableHolds == Spec => []LogReadable
<1>1. OneTail => LogReadable
  BY DEF OneTail, LogReadable
<1> QED
  BY <1>1, OneTailHolds, PTL

------------------------------------------------------------------------------
(* How the entry of a write follows the lines. *)

LEMMA LaterEntry ==
  ASSUME NEW S, NEW s \in Seq(S), NEW l, NEW n
  PROVE  LET t == Append(s, l) IN
         /\ l.seq = n => HasEntry(t, n) /\ EntryNow(t, n) = l.state
         /\ l.seq # n => HasEntry(t, n) = HasEntry(s, n)
         /\ l.seq # n /\ HasEntry(s, n) => EntryNow(t, n) = EntryNow(s, n)
<1> DEFINE t == Append(s, l)
           z == Len(s) + 1
<1>1. /\ Len(t) = z /\ Len(s) \in Nat /\ t \in Seq(S \cup {l})
      /\ \A i \in 1..Len(s) : t[i] = s[i]
      /\ t[z] = l
  BY AppendShape, AppendProperties, LenProperties
<1> HIDE DEF t
<1>2. ASSUME l.seq = n
      PROVE  HasEntry(t, n) /\ EntryNow(t, n) = l.state
  <2>1. z \in LinesOf(t, n) /\ \A j \in LinesOf(t, n) : j <= z
    BY <1>1, <1>2 DEF LinesOf
  <2>2. HasEntry(t, n)
    BY <2>1 DEF HasEntry
  <2>3. PICK i \in LinesOf(t, n) :
          /\ \A j \in LinesOf(t, n) : j <= i
          /\ EntryNow(t, n) = t[i].state
    BY <1>1, <2>2, EntryNowIs
  <2>4. i = z
    BY <1>1, <2>1, <2>3 DEF LinesOf
  <2> QED
    BY <1>1, <2>2, <2>3, <2>4
<1>3. ASSUME l.seq # n
      PROVE  LinesOf(t, n) = LinesOf(s, n)
  BY <1>1, <1>3 DEF LinesOf
<1>4. ASSUME l.seq # n, HasEntry(s, n)
      PROVE  EntryNow(t, n) = EntryNow(s, n)
  <2> DEFINE last == CHOOSE i \in LinesOf(s, n) : \A j \in LinesOf(s, n) : j <= i
  <2>1. \E i \in LinesOf(s, n) : \A j \in LinesOf(s, n) : j <= i
    BY <1>4, EntryNowIs
  <2>2. last \in LinesOf(s, n)
    BY <2>1
  <2>3. EntryNow(t, n) = t[last].state /\ EntryNow(s, n) = s[last].state
    BY <1>3, <1>4 DEF EntryNow
  <2> HIDE DEF last
  <2> QED
    BY <1>1, <2>2, <2>3 DEF LinesOf
<1> QED
  BY <1>2, <1>3, <1>4 DEF HasEntry, t

\* The entry of a key is the one its opening opened.
LEMMA KeyNowIs ==
  ASSUME NEW s, Sound(s), NEW k, NEW i \in Openings(s, k)
  PROVE  /\ HasEntry(s, s[i].seq)
         /\ SeqOf(s, k) = s[i].seq
         /\ KeyNow(s, k) = EntryNow(s, s[i].seq)
<1>1. \A j \in Openings(s, k) : j = i
  BY DEF Openings, Sound, OpensOnce
<1>2. SeqOf(s, k) = s[i].seq
  BY <1>1 DEF SeqOf
<1> QED
  BY <1>2 DEF KeyNow, HasEntry, LinesOf, Openings

LEMMA LaterKey ==
  ASSUME NEW S, NEW s \in Seq(S), NEW l, Sound(s), Sound(Append(s, l)), NEW k
  PROVE  LET t == Append(s, l) IN
         /\ IsOpening(l) /\ l.key = k =>
              KeyNow(s, k) = "none" /\ KeyNow(t, k) = "intended"
         /\ ~(IsOpening(l) /\ l.key = k) /\ Openings(s, k) = {} =>
              KeyNow(t, k) = KeyNow(s, k)
         /\ \A i \in Openings(s, k) :
              /\ l.seq = s[i].seq =>
                   KeyNow(s, k) = EntryNow(s, l.seq) /\ KeyNow(t, k) = l.state
              /\ l.seq # s[i].seq => KeyNow(t, k) = KeyNow(s, k)
<1> DEFINE t == Append(s, l)
           z == Len(s) + 1
<1>1. /\ Len(t) = z /\ Len(s) \in Nat
      /\ \A i \in 1..Len(s) : t[i] = s[i]
      /\ t[z] = l /\ Sound(t)
  BY AppendShape, AppendProperties, LenProperties
<1>2. \A n : /\ l.seq = n => EntryNow(t, n) = l.state
             /\ l.seq # n /\ HasEntry(s, n) => EntryNow(t, n) = EntryNow(s, n)
  BY LaterEntry
<1> HIDE DEF t
<1>3. ASSUME IsOpening(l), l.key = k
      PROVE  KeyNow(s, k) = "none" /\ KeyNow(t, k) = "intended"
  <2>1. z \in Openings(t, k)
    BY <1>1, <1>3 DEF Openings
  <2>2. Openings(s, k) = {}
    BY <1>1, <1>3 DEF Openings, Sound, OpensOnce
  <2>3. KeyNow(t, k) = EntryNow(t, l.seq)
    BY <1>1, <2>1, KeyNowIs
  <2> QED
    BY <1>2, <1>3, <2>2, <2>3 DEF KeyNow, IsOpening
<1>4. ASSUME ~(IsOpening(l) /\ l.key = k), Openings(s, k) = {}
      PROVE  KeyNow(t, k) = KeyNow(s, k)
  <2>1. Openings(t, k) = {}
    BY <1>1, <1>4 DEF Openings
  <2> QED
    BY <1>4, <2>1 DEF KeyNow
<1>5. ASSUME NEW i \in Openings(s, k)
      PROVE  /\ l.seq = s[i].seq =>
                  KeyNow(s, k) = EntryNow(s, l.seq) /\ KeyNow(t, k) = l.state
             /\ l.seq # s[i].seq => KeyNow(t, k) = KeyNow(s, k)
  <2>1. i \in Openings(t, k) /\ t[i] = s[i]
    BY <1>1 DEF Openings
  <2>2. /\ HasEntry(s, s[i].seq)
        /\ KeyNow(s, k) = EntryNow(s, s[i].seq)
        /\ KeyNow(t, k) = EntryNow(t, s[i].seq)
    BY <1>1, <2>1, KeyNowIs
  <2> QED
    BY <1>2, <2>2
<1> QED
  BY <1>3, <1>4, <1>5 DEF t

\* Garbage says nothing about any write.
LEMMA GarbageKeepsKey ==
  ASSUME NEW s \in Seq(LogLines), Sound(s), NEW k
  PROVE  KeyNow(Append(s, Garbage), k) = KeyNow(s, k)
<1>1. Sound(Append(s, Garbage))
  BY GarbageKeepsSound
<1>2. ~IsOpening(Garbage) /\ Garbage.seq = 0
  BY DEF IsOpening, Garbage
<1>3. ASSUME NEW i \in Openings(s, k)
      PROVE  s[i].seq # 0
  <2>1. s[i] \in LogLines /\ IsOpening(s[i])
    BY DEF Openings
  <2> QED
    BY <1>2, <2>1 DEF LogLines, Line
<1> QED
  BY <1>1, <1>2, <1>3, LaterKey

LEMMA ParsedSays ==
  ASSUME NEW s \in Seq(LogLines), Sound(s)
  PROVE  /\ \A n : n # 0 => /\ HasEntry(Parsed(s), n) = HasEntry(s, n)
                            /\ HasEntry(s, n) => EntryNow(Parsed(s), n) = EntryNow(s, n)
         /\ \A k : Openings(Parsed(s), k) = Openings(s, k)
         /\ \A k : KeyNow(Parsed(s), k) = KeyNow(s, k)
<1> DEFINE r == Parsed(s)
<1>1. /\ r \in Seq(LogLines) /\ Len(r) \in Nat /\ Len(s) \in Nat
      /\ Begins(r, s) /\ Sound(r)
      /\ r = s \/ (s[Len(s)] = Garbage /\ Len(r) = Len(s) - 1)
  BY ParsedBegins, BeginningIsSound, LenProperties
<1> HIDE DEF r
<1>2. /\ \A i \in 1..Len(r) : i \in 1..Len(s) /\ r[i] = s[i]
      /\ \A i \in 1..Len(s) : i \in 1..Len(r) \/ s[i] = Garbage
  BY <1>1 DEF Begins
<1>3. Garbage.seq = 0 /\ ~IsOpening(Garbage)
  BY DEF Garbage, IsOpening
<1>4. \A n : n # 0 => LinesOf(r, n) = LinesOf(s, n)
  BY <1>2, <1>3 DEF LinesOf
<1>5. ASSUME NEW n, n # 0, HasEntry(s, n)
      PROVE  EntryNow(r, n) = EntryNow(s, n)
  <2> DEFINE last == CHOOSE i \in LinesOf(r, n) : \A j \in LinesOf(r, n) : j <= i
  <2>1. \E i \in LinesOf(r, n) : \A j \in LinesOf(r, n) : j <= i
    BY <1>1, <1>4, <1>5, EntryNowIs
  <2>2. last \in LinesOf(r, n)
    BY <2>1
  <2>4. LinesOf(r, n) = LinesOf(s, n)
    BY <1>4, <1>5
  <2>3. EntryNow(r, n) = r[last].state /\ EntryNow(s, n) = s[last].state
    BY <2>4 DEF EntryNow
  <2> HIDE DEF last
  <2> QED
    BY <1>2, <2>2, <2>3 DEF LinesOf
<1>6. \A k : Openings(r, k) = Openings(s, k)
  BY <1>2, <1>3 DEF Openings
<1>7. ASSUME NEW k
      PROVE  KeyNow(r, k) = KeyNow(s, k)
  <2>1. CASE Openings(s, k) = {}
    BY <1>6, <2>1 DEF KeyNow
  <2>2. CASE Openings(s, k) # {}
    <3>1. PICK i : i \in Openings(r, k) /\ i \in Openings(s, k)
      BY <1>6, <2>2
    <3>2. /\ HasEntry(s, s[i].seq) /\ KeyNow(s, k) = EntryNow(s, s[i].seq)
          /\ KeyNow(r, k) = EntryNow(r, r[i].seq)
      BY <1>1, <3>1, KeyNowIs
    <3>3. r[i] = s[i] /\ s[i].seq # 0
      <4>1. s[i] \in LogLines /\ IsOpening(s[i]) /\ r[i] = s[i]
        BY <1>2, <3>1 DEF Openings
      <4> QED
        BY <1>3, <4>1 DEF LogLines, Line
    <3> QED
      BY <1>5, <3>2, <3>3
  <2> QED
    BY <2>1, <2>2
<1> QED
  BY <1>4, <1>5, <1>6, <1>7 DEF HasEntry, r

LEMMA OpeningsDiffer ==
  ASSUME NEW S, NEW s \in Seq(S), Replayable(s),
         NEW i \in 1..Len(s), NEW j \in 1..Len(s),
         IsOpening(s[i]), IsOpening(s[j]), s[i].seq = s[j].seq
  PROVE  i = j
<1>1. Len(s) \in Nat
  BY LenProperties
<1>2. ASSUME NEW a \in 1..Len(s), NEW b \in 1..Len(s), a < b,
             IsOpening(s[b]), s[a].seq = s[b].seq
      PROVE  FALSE
  <2>1. a \in Earlier(s, b)
    BY <1>1, <1>2 DEF Earlier
  <2>2. Earlier(s, b) = {}
    BY <1>2 DEF Replayable, Legal
  <2> QED
    BY <2>1, <2>2
<1>3. i < j \/ j < i \/ i = j
  BY <1>1
<1> QED
  BY <1>2, <1>3

\* What fits opens an entry or moves the one it names.
LEMMA FitsMoves ==
  ASSUME NEW S, NEW s \in Seq(S), NEW l \in S, Replayable(Append(s, l))
  PROVE  /\ l \in Line
         /\ IsOpening(l) => ~HasEntry(s, l.seq)
         /\ ~IsOpening(l) => /\ HasEntry(s, l.seq)
                             /\ EntryNow(s, l.seq) \in EntryState
                             /\ l.state \in EntryTransitions[EntryNow(s, l.seq)]
<1> DEFINE t == Append(s, l)
           z == Len(s) + 1
<1>1. /\ Len(t) = z /\ Len(s) \in Nat /\ t \in Seq(S)
      /\ \A i \in 1..Len(s) : t[i] = s[i]
      /\ t[z] = l /\ Replayable(t)
  BY AppendShape, AppendProperties, LenProperties
<1>2. Replayable(s)
  BY AppendBegins, BeginningReplays
<1> HIDE DEF t
<1>3. Legal(t, z)
  BY <1>1 DEF Replayable
<1>4. Earlier(t, z) = LinesOf(s, l.seq)
  BY <1>1 DEF Earlier, LinesOf
<1>5. ASSUME ~IsOpening(l)
      PROVE  /\ HasEntry(s, l.seq)
             /\ EntryNow(s, l.seq) \in EntryState
             /\ l.state \in EntryTransitions[EntryNow(s, l.seq)]
  <2>1. PICK j \in LinesOf(s, l.seq) :
          /\ \A k \in LinesOf(s, l.seq) : k <= j
          /\ l.state \in EntryTransitions[t[j].state]
    BY <1>1, <1>3, <1>4, <1>5 DEF Legal
  <2>2. HasEntry(s, l.seq)
    BY <2>1 DEF HasEntry
  <2>3. PICK i \in LinesOf(s, l.seq) :
          /\ \A k \in LinesOf(s, l.seq) : k <= i
          /\ EntryNow(s, l.seq) = s[i].state
    BY <2>2, EntryNowIs
  <2>4. i = j /\ t[j] = s[j]
    BY <1>1, <2>1, <2>3 DEF LinesOf
  <2> QED
    BY <1>2, <2>1, <2>2, <2>3, <2>4, StateKnown
<1> QED
  BY <1>1, <1>3, <1>4, <1>5 DEF Legal, HasEntry

\* The first line of an entry opens it.
LEMMA EntryIsOpened ==
  ASSUME NEW S, NEW s \in Seq(S), Replayable(s), NEW n, HasEntry(s, n)
  PROVE  \E i \in LinesOf(s, n) : IsOpening(s[i])
<1> DEFINE b == Len(s)
           T == { b - i : i \in LinesOf(s, n) }
<1>1. b \in Nat
  BY LenProperties
<1>2. T \in SUBSET (0..b) /\ T # {}
  BY <1>1 DEF LinesOf, HasEntry
<1>3. PICK m \in T : \A k \in T : k <= m
  <2> HIDE DEF b, T
  <2> QED
    BY <1>1, <1>2, Greatest
<1>4. PICK i \in LinesOf(s, n) : m = b - i
  BY <1>3
<1>5. \A j \in LinesOf(s, n) : i <= j
  <2> SUFFICES ASSUME NEW j \in LinesOf(s, n) PROVE i <= j
    OBVIOUS
  <2>1. b - j <= b - i
    BY <1>3, <1>4
  <2> QED
    BY <1>1, <1>4, <2>1 DEF LinesOf
<1>6. i \in 1..Len(s) /\ s[i].seq = n
  BY DEF LinesOf
<1>7. Earlier(s, i) = {}
  BY <1>1, <1>5, <1>6 DEF Earlier, LinesOf
<1>8. Legal(s, i)
  BY <1>6 DEF Replayable
<1> QED
  BY <1>7, <1>8 DEF Legal

Now(k) == KeyNow(lines, k)

\* One write moves one way, or none does.
Moved(t) ==
  \/ \A k \in Keys : KeyNow(t, k) = Now(k)
  \/ \E w \in Keys :
       /\ <<Now(w), KeyNow(t, w)>> \in Book!Step
       /\ \A k \in Keys \ {w} : KeyNow(t, k) = Now(k)

LEMMA AppendMoves ==
  ASSUME LogInv, call.pc = "append"
  PROVE  Moved(Append(lines, call.line))
<1> DEFINE l == call.line
           t == Append(lines, l)
<1>1. /\ lines \in Seq(LogLines) /\ Sound(lines) /\ Sound(t)
      /\ Records \in Seq(LogLines) /\ Replayable(Records)
      /\ l \in LogLines /\ Replayable(Append(Records, l))
      /\ Begins(Records, lines) /\ Len(lines) \in Nat /\ Len(Records) \in Nat
  BY RecordsAre, FitsReplays, FitsBehindGarbage, LenProperties
     DEF LogInv, SoundInv, Fits, Records
<1>2. /\ l \in Line
      /\ IsOpening(l) => ~HasEntry(Records, l.seq)
      /\ ~IsOpening(l) => /\ HasEntry(Records, l.seq)
                          /\ EntryNow(Records, l.seq) \in EntryState
                          /\ l.state \in EntryTransitions[EntryNow(Records, l.seq)]
  BY <1>1, FitsMoves
<1>3. l.seq # 0
  BY <1>2 DEF Line
<1>4. /\ HasEntry(Records, l.seq) = HasEntry(lines, l.seq)
      /\ HasEntry(lines, l.seq) => EntryNow(Records, l.seq) = EntryNow(lines, l.seq)
      /\ \A k : Openings(Records, k) = Openings(lines, k)
  BY <1>1, <1>3, ParsedSays DEF Records
<1> HIDE DEF l, t
<1>5. \A k : /\ IsOpening(l) /\ l.key = k =>
                  Now(k) = "none" /\ KeyNow(t, k) = "intended"
             /\ ~(IsOpening(l) /\ l.key = k) /\ Openings(lines, k) = {} =>
                  KeyNow(t, k) = Now(k)
             /\ \A i \in Openings(lines, k) :
                  /\ l.seq = lines[i].seq =>
                       Now(k) = EntryNow(lines, l.seq) /\ KeyNow(t, k) = l.state
                  /\ l.seq # lines[i].seq => KeyNow(t, k) = Now(k)
  BY <1>1, LaterKey DEF Now, t
<1>6. CASE IsOpening(l)
  <2>1. ASSUME NEW k, l.key # k
        PROVE  KeyNow(t, k) = Now(k)
    <3>1. ASSUME NEW i \in Openings(lines, k)
          PROVE  l.seq # lines[i].seq
      BY <1>2, <1>4, <1>6 DEF Openings, HasEntry, LinesOf
    <3> QED
      BY <1>5, <2>1, <3>1
  <2>2. <<Now(l.key), KeyNow(t, l.key)>> \in Book!Step
    BY <1>5, <1>6 DEF Book!Step
  <2>3. CASE l.key \in Keys
    BY <2>1, <2>2, <2>3 DEF Moved, t, l
  <2>4. CASE l.key \notin Keys
    BY <2>1, <2>4 DEF Moved, t, l
  <2> QED
    BY <2>3, <2>4
<1>7. CASE ~IsOpening(l)
  <2> DEFINE Names(k) == \E i \in Openings(lines, k) : lines[i].seq = l.seq
  <2>1. \A k : ~Names(k) => KeyNow(t, k) = Now(k)
    BY <1>5, <1>7
  <2>2. \A k : Names(k) => <<Now(k), KeyNow(t, k)>> \in Book!Step
    <3> SUFFICES ASSUME NEW k, Names(k)
                 PROVE  <<Now(k), KeyNow(t, k)>> \in Book!Step
      OBVIOUS
    <3>1. Now(k) = EntryNow(Records, l.seq) /\ KeyNow(t, k) = l.state
      BY <1>2, <1>4, <1>5, <1>7
    <3>2. EntryNow(Records, l.seq) \in EntryState
          /\ l.state \in EntryTransitions[EntryNow(Records, l.seq)]
      BY <1>2, <1>7
    <3> QED
      BY <3>1, <3>2 DEF EntryTransitions, EntryState, Book!Step
  <2>3. ASSUME NEW j, NEW k, Names(j), Names(k)
        PROVE  j = k
    <3>1. PICK a \in Openings(Records, j) : lines[a].seq = l.seq
      BY <1>4, <2>3
    <3>2. PICK b \in Openings(Records, k) : lines[b].seq = l.seq
      BY <1>4, <2>3
    <3>3. /\ a \in 1..Len(Records) /\ IsOpening(Records[a]) /\ Records[a].key = j
          /\ b \in 1..Len(Records) /\ IsOpening(Records[b]) /\ Records[b].key = k
      BY <3>1, <3>2 DEF Openings
    <3>4. Records[a] = lines[a] /\ Records[b] = lines[b]
      BY <1>1, <3>3 DEF Begins
    <3>5. a = b
      BY <1>1, <3>1, <3>2, <3>3, <3>4, OpeningsDiffer
    <3> QED
      BY <3>3, <3>5
  <2> HIDE DEF Names
  <2>4. CASE \E w \in Keys : Names(w)
    BY <2>1, <2>2, <2>3, <2>4 DEF Moved, t, l
  <2>5. CASE ~\E w \in Keys : Names(w)
    BY <2>1, <2>5 DEF Moved, t, l
  <2> QED
    BY <2>4, <2>5
<1> QED
  BY <1>6, <1>7

\* What is appended, spliced or not, is a move of the book.
LEMMA LineMoves ==
  ASSUME LogInv, AppendLine
  PROVE  Moved(lines')
<1>1. lines \in Seq(LogLines) /\ Sound(lines) /\ call.pc = "append"
  BY RecordsAre DEF LogInv, SoundInv, AppendLine
<1>2. CASE lines' = lines
  BY <1>2 DEF Moved, Now
<1>3. CASE lines' = Append(lines, Garbage)
  BY <1>1, <1>3, GarbageKeepsKey DEF Moved, Now
<1>4. CASE lines' = Append(lines, call.line)
  BY <1>1, <1>4, AppendMoves
<1> QED
  BY <1>2, <1>3, <1>4 DEF AppendLine

\* A caller is told what the book says of his write, or nothing.
LEMMA AnswerTells ==
  ASSUME LogInv, Replayable(Records), NEW n, HasEntry(Records, n), Answer(n)
  PROVE  told' = told \/ \E w \in Keys : told' = [told EXCEPT ![w] = Now(w)]
<1>1. /\ lines \in Seq(LogLines) /\ Sound(lines) /\ Sound(Records)
      /\ Records \in Seq(LogLines) /\ Len(Records) \in Nat
      /\ told \in [Keys -> EntryState \cup {"none"}]
  BY RecordsAre, LenProperties DEF LogInv, SoundInv, LedgerTypeOK
<1> DEFINE w == KeyOf(Records, n)
<1>2. told' = [told EXCEPT ![w] = EntryNow(Records, n)]
  BY DEF Answer
<1>3. CASE w \notin Keys
  <2> HIDE DEF w
  <2> QED
    BY <1>1, <1>2, <1>3
<1>4. CASE w \in Keys
  <2> DEFINE IsFirst(i) == IsOpening(Records[i])
             first == CHOOSE i \in LinesOf(Records, n) : IsFirst(i)
  <2>1. \E i \in LinesOf(Records, n) : IsFirst(i)
    BY <1>1, EntryIsOpened
  <2>2. first \in LinesOf(Records, n) /\ IsFirst(first)
    <3> HIDE DEF IsFirst
    <3> QED
      BY <2>1
  <2>3. w = Records[first].key
    BY DEF KeyOf
  <2> HIDE DEF first, w
  <2>4. first \in Openings(Records, w) /\ Records[first].seq = n
    BY <2>2, <2>3 DEF Openings, LinesOf
  <2>5. KeyNow(Records, w) = EntryNow(Records, n)
    BY <1>1, <2>4, KeyNowIs
  <2>6. EntryNow(Records, n) = Now(w)
    BY <1>1, <2>5, ParsedSays DEF Now, Records
  <2> QED
    BY <1>2, <1>4, <2>6
<1> QED
  BY <1>3, <1>4

LEMMA KeyNowIsStage ==
  ASSUME NEW s \in Seq(LogLines), Sound(s), NEW k
  PROVE  KeyNow(s, k) \in Book!Stage
<1>1. CASE Openings(s, k) = {}
  BY <1>1 DEF KeyNow, Book!Stage
<1>2. CASE Openings(s, k) # {}
  <2>1. PICK i : i \in Openings(s, k)
    BY <1>2
  <2>2. HasEntry(s, s[i].seq) /\ KeyNow(s, k) = EntryNow(s, s[i].seq)
    BY <2>1, KeyNowIs
  <2>3. PICK j \in LinesOf(s, s[i].seq) : EntryNow(s, s[i].seq) = s[j].state
    BY <2>2, EntryNowIs
  <2>4. s[i] \in Line
    BY <2>1 DEF Openings, LogLines, IsOpening, Garbage
  <2>5. s[j] \in LogLines /\ s[j].seq = s[i].seq
    BY <2>3 DEF LinesOf
  <2>6. s[j] \in Line
    BY <2>4, <2>5 DEF LogLines, Garbage, Line
  <2> QED
    BY <2>2, <2>3, <2>6 DEF Line, EntryState, Book!Stage
<1> QED
  BY <1>1, <1>2

LEMMA AheadOrders ==
  /\ \A a : Book!Ahead(a, a)
  /\ \A a, b : <<a, b>> \in Book!Step => Book!Ahead(a, b) /\ b \in Book!Stage
  /\ \A a, b, c : Book!Ahead(a, b) /\ Book!Ahead(b, c) => Book!Ahead(a, c)
  BY DEF Book!Ahead, Book!Step, Book!Stage

\* What a power loss leaves, read by the writes.
LEMMA LossLeaves ==
  ASSUME LogInv, PowerLoss
  PROVE  \E n \in synced..Len(lines) :
           /\ SubSeq(lines, 1, n) \in Seq(LogLines) /\ Sound(SubSeq(lines, 1, n))
           /\ Len(SubSeq(lines, 1, n)) = n
           /\ synced' = Len(Parsed(SubSeq(lines, 1, n)))
           /\ \/ lines' = SubSeq(lines, 1, n)
              \/ lines' = Append(SubSeq(lines, 1, n), Garbage)
           /\ \A k : KeyNow(lines', k) = KeyNow(SubSeq(lines, 1, n), k)
<1>1. lines \in Seq(LogLines) /\ Len(lines) \in Nat /\ Sound(lines)
  BY RecordsAre DEF LogInv, SoundInv
<1>2. PICK n \in synced..Len(lines) :
        LET kept == SubSeq(lines, 1, n) IN
        /\ synced' = Len(Parsed(kept))
        /\ lines' = kept \/ lines' = Append(kept, Garbage)
  BY DEF PowerLoss
<1> DEFINE kept == SubSeq(lines, 1, n)
<1>3. n \in 0..Len(lines)
  BY <1>1, <1>2 DEF LogInv, LedgerTypeOK
<1>4. kept \in Seq(LogLines) /\ Len(kept) = n /\ Begins(kept, lines)
  BY <1>1, <1>3, PrefixBegins
<1>5. /\ synced' = Len(Parsed(kept))
      /\ lines' = kept \/ lines' = Append(kept, Garbage)
  BY <1>2
<1> HIDE DEF kept
<1>6. Sound(kept)
  BY <1>1, <1>4, BeginningIsSound
<1>7. \A k : KeyNow(lines', k) = KeyNow(kept, k)
  BY <1>4, <1>5, <1>6, GarbageKeepsKey
<1> QED
  BY <1>2, <1>4, <1>5, <1>6, <1>7 DEF kept

EntryOf == [k \in Keys |-> KeyNow(Records, k)]
BookStep == [Book!BookNext]_<<EntryOf, told>>

LEMMA EntryIsNow ==
  ASSUME LogInv
  PROVE  EntryOf = [k \in Keys |-> Now(k)]
<1>1. \A k : KeyNow(Records, k) = Now(k)
  BY RecordsAre, ParsedSays DEF LogInv, SoundInv, Now, Records
<1> QED
  BY <1>1 DEF EntryOf

LEMMA EntryWillBe ==
  ASSUME LogInv'
  PROVE  EntryOf' = [k \in Keys |-> KeyNow(lines', k)]
<1>1. lines' \in Seq(LogLines) /\ Sound(lines')
  BY DEF LogInv, LedgerTypeOK, LogLines, SoundInv
<1>2. \A k : KeyNow(Records', k) = KeyNow(lines', k)
  BY <1>1, ParsedSays DEF Records
<1> QED
  BY <1>2 DEF EntryOf

LEMMA TellsKeepBook ==
  ASSUME LogInv, EntryOf' = EntryOf,
         told' = told \/ \E w \in Keys : told' = [told EXCEPT ![w] = Now(w)]
  PROVE  BookStep
<1>1. CASE told' = told
  BY <1>1 DEF BookStep
<1>2. CASE told' # told
  <2>1. PICK w \in Keys : told' = [told EXCEPT ![w] = Now(w)]
    BY <1>2
  <2>2. EntryOf[w] = Now(w)
    BY EntryIsNow
  <2>3. Book!Tell(w)
    BY <2>1, <2>2 DEF Book!Tell, EntryOf
  <2> QED
    BY <2>1, <2>3 DEF BookStep, Book!BookNext
<1> QED
  BY <1>1, <1>2

LEMMA MovesKeepBook ==
  ASSUME LogInv, LogInv', Moved(lines'), told' = told
  PROVE  BookStep
<1>1. /\ EntryOf = [k \in Keys |-> Now(k)]
      /\ EntryOf' = [k \in Keys |-> KeyNow(lines', k)]
  BY EntryIsNow, EntryWillBe
<1>2. CASE \A k \in Keys : KeyNow(lines', k) = Now(k)
  <2>1. EntryOf' = EntryOf
    BY <1>1, <1>2
  <2> QED
    BY <2>1 DEF BookStep
<1>3. CASE \E w \in Keys :
             /\ <<Now(w), KeyNow(lines', w)>> \in Book!Step
             /\ \A k \in Keys \ {w} : KeyNow(lines', k) = Now(k)
  <2>1. PICK w \in Keys :
          /\ <<Now(w), KeyNow(lines', w)>> \in Book!Step
          /\ \A k \in Keys \ {w} : KeyNow(lines', k) = Now(k)
    BY <1>3
  <2>2. EntryOf' = [EntryOf EXCEPT ![w] = KeyNow(lines', w)] /\ EntryOf[w] = Now(w)
    BY <1>1, <2>1
  <2>3. KeyNow(lines', w) \in Book!Stage
    BY <2>1, AheadOrders
  <2>4. Book!Advance(w)
    BY <2>1, <2>2, <2>3 DEF Book!Advance, EntryOf
  <2> QED
    BY <2>1, <2>4 DEF BookStep, Book!BookNext
<1> QED
  BY <1>2, <1>3 DEF Moved

LEMMA LossKeepsBook ==
  ASSUME LogInv, LogInv', CutKeepsPromise, PowerLoss
  PROVE  BookStep
<1>1. PICK n \in synced..Len(lines) :
        /\ SubSeq(lines, 1, n) \in Seq(LogLines) /\ Sound(SubSeq(lines, 1, n))
        /\ \A k : KeyNow(lines', k) = KeyNow(SubSeq(lines, 1, n), k)
  BY LossLeaves
<1>2. /\ EntryOf = [k \in Keys |-> Now(k)]
      /\ EntryOf' = [k \in Keys |-> KeyNow(lines', k)]
      /\ told' = told /\ "power" \in env
  BY EntryIsNow, EntryWillBe DEF PowerLoss, Suffers
<1>3. \A k \in Keys : /\ Book!Ahead(told[k], EntryOf'[k])
                      /\ Book!Ahead(EntryOf'[k], EntryOf[k])
                      /\ EntryOf'[k] \in Book!Stage
  BY <1>1, <1>2, KeyNowIsStage DEF CutKeepsPromise, Now
<1>4. EntryOf' \in [Keys -> Book!Stage]
  BY <1>2, <1>3
<1>5. Book!Forget
  BY <1>2, <1>3, <1>4 DEF Book!Forget, EntryOf
<1> QED
  BY <1>5 DEF BookStep, Book!BookNext

LEMMA BeginTells ==
  ASSUME LogInv, Begin
  PROVE  told' = told \/ \E w \in Keys : told' = [told EXCEPT ![w] = Now(w)]
<1>1. ASSUME NEW k \in Keys, Openings(Records, k) # {}
      PROVE  HasEntry(Records, SeqOf(Records, k))
  BY <1>1 DEF SeqOf, Openings, HasEntry, LinesOf
<1> QED
  BY <1>1, AnswerTells DEF Begin, Intend, Confirm, Compensate

LEMMA ReturnTells ==
  ASSUME LogInv, Return
  PROVE  told' = told \/ \E w \in Keys : told' = [told EXCEPT ![w] = Now(w)]
  BY AnswerTells DEF Return

LEMMA NextKeepsBook ==
  ASSUME LogInv, LogInv', CutKeepsPromise, [Next]_vars
  PROVE  BookStep
<1>1. CASE Begin \/ Return
  <2>1. EntryOf' = EntryOf
    BY <1>1 DEF Begin, Return, file, EntryOf, Records
  <2>2. told' = told \/ \E w \in Keys : told' = [told EXCEPT ![w] = Now(w)]
    BY <1>1, BeginTells, ReturnTells
  <2> QED
    BY <2>1, <2>2, TellsKeepBook
<1>2. CASE Repair
  BY <1>2, RepairLogs DEF Repair, BookStep, EntryOf
<1>3. CASE AppendLine
  BY <1>3, LineMoves, MovesKeepBook DEF AppendLine
<1>4. CASE PowerLoss
  BY <1>4, LossKeepsBook
<1>5. CASE Sync \/ Kill \/ UNCHANGED vars
  BY <1>5 DEF Sync, Kill, vars, BookStep, EntryOf, Records
<1> QED
  BY <1>1, <1>2, <1>3, <1>4, <1>5 DEF Next

------------------------------------------------------------------------------
(* What a power loss may leave keeps the promise. *)

LEMMA CutOfBeginning ==
  ASSUME NEW S, NEW s \in Seq(S), NEW t \in Seq(S), Begins(t, s), NEW n \in 0..Len(t)
  PROVE  SubSeq(t, 1, n) = SubSeq(s, 1, n)
<1>1. Len(s) \in Nat /\ Len(t) \in Nat /\ n \in 0..Len(s)
  BY LenProperties DEF Begins
<1>2. /\ SubSeq(t, 1, n) \in Seq(S) /\ Len(SubSeq(t, 1, n)) = n
      /\ SubSeq(s, 1, n) \in Seq(S) /\ Len(SubSeq(s, 1, n)) = n
  BY <1>1, PrefixShape
<1>3. \A i \in 1..n : SubSeq(t, 1, n)[i] = SubSeq(s, 1, n)[i]
  BY <1>1, PrefixShape DEF Begins
<1> QED
  BY <1>2, <1>3, SeqEqual

Cut(n, k) == KeyNow(SubSeq(lines, 1, n), k)

LEMMA ToldAtMostNow ==
  ASSUME LogInv, CutKeepsPromise, "power" \in env
  PROVE  \A k \in Keys : Book!Ahead(told[k], Now(k)) /\ Cut(Len(lines), k) = Now(k)
<1>1. lines \in Seq(LogLines) /\ Len(lines) \in Nat /\ synced \in 0..Len(lines)
  BY RecordsAre DEF LogInv, LedgerTypeOK
<1>2. SubSeq(lines, 1, Len(lines)) = lines /\ Len(lines) \in synced..Len(lines)
  BY <1>1, SubSeqFull
<1> QED
  BY <1>2 DEF CutKeepsPromise, Cut, Now

\* No call is waiting for its fsync: every cut says what the log says.
LEMMA AllCutsAgree ==
  ASSUME LogInv, CutKeepsPromise, "power" \in env, call.pc # "sync"
  PROVE  \A n \in synced..Len(lines), k \in Keys : Cut(n, k) = Now(k)
  BY DEF CutKeepsPromise, Cut, Now

LEMMA TellsKeepPromise ==
  ASSUME LogInv, CutKeepsPromise, "power" \in env, call.pc # "sync",
         UNCHANGED <<lines, synced>>,
         told' = told \/ \E w \in Keys : told' = [told EXCEPT ![w] = Now(w)]
  PROVE  CutKeepsPromise'
<1>1. told \in [Keys -> EntryState \cup {"none"}]
  BY DEF LogInv, LedgerTypeOK
<1>2. \A k \in Keys : told'[k] = told[k] \/ told'[k] = Now(k)
  BY <1>1
<1>3. \A k \in Keys : Book!Ahead(told'[k], Now(k))
  BY <1>2, ToldAtMostNow, AheadOrders
<1> QED
  BY <1>3, AllCutsAgree, AheadOrders DEF CutKeepsPromise, Cut, Now

LEMMA RepairKeepsPromise ==
  ASSUME LogInv, LogInv', CutKeepsPromise, "power" \in env, Repair
  PROVE  CutKeepsPromise'
<1>1. /\ lines \in Seq(LogLines) /\ Len(lines) \in Nat /\ Sound(lines)
      /\ lines' \in Seq(LogLines) /\ Len(lines') \in Nat /\ Sound(lines')
      /\ synced \in 0..Len(lines) /\ synced' \in 0..Len(lines')
  BY RecordsAre, LenProperties DEF LogInv, LedgerTypeOK, LogLines, SoundInv
<1>2. call.pc # "sync" /\ told' = told
  BY DEF Repair
<1>3. \A k : KeyNow(lines', k) = Now(k)
  <2>1. Records' = Records
    BY RepairLogs
  <2> QED
    BY <1>1, <2>1, ParsedSays DEF Now, Records
<1>4. Begins(lines', lines) /\ (synced' = synced \/ synced' = Len(lines'))
  <2>1. CASE repaired
    BY <1>1, <2>1 DEF Repair, file, Begins
  <2>2. CASE ~repaired
    <3> DEFINE c == Committed(lines, tail)
    <3>1. c \in 0..Len(lines)
      BY <1>1, CommittedKeepsRecords
    <3>2. /\ lines' = SubSeq(lines, 1, c)
          /\ synced' = c \/ synced' = synced
      BY <2>2 DEF Repair
    <3> HIDE DEF c
    <3> QED
      BY <1>1, <3>1, <3>2, PrefixBegins
  <2> QED
    BY <2>1, <2>2
<1>5. ASSUME NEW n \in synced'..Len(lines'), NEW k \in Keys
      PROVE  KeyNow(SubSeq(lines', 1, n), k) = Now(k)
  <2>1. CASE n = Len(lines')
    BY <1>1, <1>3, <2>1, SubSeqFull
  <2>2. CASE n # Len(lines')
    <3>1. n \in 0..Len(lines') /\ n \in synced..Len(lines)
      BY <1>1, <1>4, <2>2 DEF Begins
    <3>2. SubSeq(lines', 1, n) = SubSeq(lines, 1, n)
      BY <1>1, <1>4, <3>1, CutOfBeginning
    <3> QED
      BY <1>2, <3>1, <3>2, AllCutsAgree DEF Cut
  <2> QED
    BY <2>1, <2>2
<1> QED
  BY <1>2, <1>3, <1>5, ToldAtMostNow, AheadOrders DEF CutKeepsPromise

LEMMA AppendKeepsPromise ==
  ASSUME LogInv, CutKeepsPromise, "power" \in env, AppendLine
  PROVE  CutKeepsPromise'
<1>1. /\ lines \in Seq(LogLines) /\ Len(lines) \in Nat /\ synced \in 0..Len(lines)
      /\ call.line \in LogLines /\ Garbage \in LogLines
  BY RecordsAre DEF LogInv, LedgerTypeOK, LogLines
<1>2. call.pc # "sync" /\ told' = told /\ synced' = synced
  BY DEF AppendLine
<1>3. CASE UNCHANGED lines
  BY <1>2, <1>3, TellsKeepPromise
<1>4. CASE ~UNCHANGED lines
  <2>1. call' = [call EXCEPT !.pc = "sync"]
    BY <1>4 DEF AppendLine
  <2>2. PICK x \in LogLines : lines' = Append(lines, x)
    BY <1>1, <1>4 DEF AppendLine
  <2>3. /\ lines' \in Seq(LogLines) /\ Begins(lines, lines')
        /\ Len(lines') = Len(lines) + 1
    BY <1>1, <2>2, AppendBegins, AppendProperties
  <2>4. \A k \in Keys : Book!Ahead(Now(k), KeyNow(lines', k))
    <3>1. \A k \in Keys : \/ KeyNow(lines', k) = Now(k)
                          \/ <<Now(k), KeyNow(lines', k)>> \in Book!Step
      BY LineMoves DEF Moved
    <3> QED
      BY <3>1, AheadOrders
  <2>5. ASSUME NEW n \in synced'..Len(lines'), NEW k \in Keys
        PROVE  \/ KeyNow(SubSeq(lines', 1, n), k) = Now(k)
               \/ KeyNow(SubSeq(lines', 1, n), k) = KeyNow(lines', k)
    <3>1. CASE n = Len(lines')
      BY <2>3, <3>1, SubSeqFull
    <3>2. CASE n # Len(lines')
      <4>1. n \in 0..Len(lines) /\ n \in synced..Len(lines)
        BY <1>1, <1>2, <2>3, <3>2
      <4>2. SubSeq(lines, 1, n) = SubSeq(lines', 1, n)
        BY <1>1, <2>3, <4>1, CutOfBeginning
      <4> QED
        BY <1>2, <4>1, <4>2, AllCutsAgree DEF Cut
    <3> QED
      BY <3>1, <3>2
  <2>6. \A n \in synced'..Len(lines'), k \in Keys :
          /\ Book!Ahead(told[k], KeyNow(SubSeq(lines', 1, n), k))
          /\ Book!Ahead(KeyNow(SubSeq(lines', 1, n), k), KeyNow(lines', k))
    BY <2>4, <2>5, ToldAtMostNow, AheadOrders
  <2>7. call'.pc = "sync"
    BY <2>1 DEF LogInv, LedgerTypeOK
  <2> QED
    BY <1>2, <2>6, <2>7 DEF CutKeepsPromise
<1> QED
  BY <1>3, <1>4

LEMMA SyncKeepsPromise ==
  ASSUME LogInv, CutKeepsPromise, "power" \in env, "sync" \notin env, Sync
  PROVE  CutKeepsPromise'
<1>1. lines' = lines /\ told' = told /\ synced' = Len(lines)
  BY DEF Sync, Suffers
<1>2. \A n \in synced'..Len(lines') : n = Len(lines)
  BY <1>1, RecordsAre
<1> QED
  BY <1>1, <1>2, ToldAtMostNow, AheadOrders DEF CutKeepsPromise, Cut, Now

LEMMA LossKeepsPromise ==
  ASSUME LogInv, CutKeepsPromise, PowerLoss
  PROVE  CutKeepsPromise'
<1>1. PICK n \in synced..Len(lines) :
        /\ SubSeq(lines, 1, n) \in Seq(LogLines) /\ Sound(SubSeq(lines, 1, n))
        /\ Len(SubSeq(lines, 1, n)) = n
        /\ synced' = Len(Parsed(SubSeq(lines, 1, n)))
        /\ \/ lines' = SubSeq(lines, 1, n)
           \/ lines' = Append(SubSeq(lines, 1, n), Garbage)
        /\ \A k : KeyNow(lines', k) = KeyNow(SubSeq(lines, 1, n), k)
  BY LossLeaves
<1> DEFINE kept == SubSeq(lines, 1, n)
<1>2. /\ \A k \in Keys : Book!Ahead(told[k], KeyNow(kept, k))
      /\ told' = told
  BY DEF PowerLoss, Suffers, CutKeepsPromise
<1>3. /\ kept \in Seq(LogLines) /\ Sound(kept) /\ Len(kept) = n /\ n \in Nat
      /\ synced' = Len(Parsed(kept))
      /\ lines' = kept \/ lines' = Append(kept, Garbage)
      /\ \A k : KeyNow(lines', k) = KeyNow(kept, k)
  BY <1>1, LenProperties
<1> HIDE DEF kept
<1>4. /\ lines' \in Seq(LogLines) /\ Begins(kept, lines')
      /\ Len(lines') \in Nat /\ Len(lines') <= n + 1
      /\ lines' = kept \/ Len(lines') = n + 1
  <2>1. CASE lines' = kept
    BY <1>3, <2>1 DEF Begins
  <2>2. CASE lines' = Append(kept, Garbage)
    <3>1. Garbage \in LogLines
      BY DEF LogLines
    <3> QED
      BY <1>3, <2>2, <3>1, AppendBegins, AppendProperties
  <2> QED
    BY <1>3, <2>1, <2>2
<1>5. /\ Parsed(kept) \in Seq(LogLines) /\ Begins(Parsed(kept), kept)
      /\ Len(Parsed(kept)) \in Nat
      /\ Parsed(kept) = kept \/ Len(Parsed(kept)) = n - 1
  BY <1>3, ParsedBegins, LenProperties
<1>6. ASSUME NEW m \in synced'..Len(lines'), NEW k \in Keys
      PROVE  KeyNow(SubSeq(lines', 1, m), k) = KeyNow(kept, k)
  <2>1. CASE m = Len(lines')
    BY <1>3, <1>4, <2>1, SubSeqFull
  <2>2. CASE m = n
    <3>1. SubSeq(lines', 1, m) = SubSeq(kept, 1, m)
      BY <1>3, <1>4, <2>2, CutOfBeginning
    <3>2. SubSeq(kept, 1, m) = kept
      BY <1>3, <2>2, SubSeqFull
    <3> QED
      BY <3>1, <3>2
  <2>3. CASE m = Len(Parsed(kept))
    <3>1. m \in 0..Len(kept)
      BY <1>3, <1>5, <2>3 DEF Begins
    <3>2. SubSeq(lines', 1, m) = SubSeq(kept, 1, m)
      BY <1>3, <1>4, <3>1, CutOfBeginning
    <3>3. SubSeq(kept, 1, m) = SubSeq(Parsed(kept), 1, m)
      BY <1>3, <1>5, <2>3, CutOfBeginning
    <3>4. SubSeq(Parsed(kept), 1, m) = Parsed(kept)
      BY <1>5, <2>3, SubSeqFull
    <3> QED
      BY <1>3, <3>2, <3>3, <3>4, ParsedSays
  <2> QED
    BY <1>3, <1>4, <1>5, <2>1, <2>2, <2>3
<1> QED
  BY <1>2, <1>3, <1>6, AheadOrders DEF CutKeepsPromise

LEMMA NextKeepsPromise ==
  ASSUME LogInv, LogInv', CutKeepsPromise, PowerAlone, [Next]_vars
  PROVE  CutKeepsPromise'
<1>1. env' = env
  BY DEF Next, Begin, Repair, AppendLine, Sync, Return, Kill, PowerLoss, vars
<1>2. CASE "power" \notin env
  BY <1>1, <1>2 DEF CutKeepsPromise
<1>3. CASE "power" \in env
  <2>1. "sync" \notin env /\ "kill" \notin env
    BY <1>3 DEF PowerAlone, LogInv, LedgerTypeOK
  <2>2. CASE Begin \/ Return
    <3>1. UNCHANGED <<lines, synced>> /\ call.pc # "sync"
      BY <2>2 DEF Begin, Return, file
    <3>2. told' = told \/ \E w \in Keys : told' = [told EXCEPT ![w] = Now(w)]
      BY <2>2, BeginTells, ReturnTells
    <3> QED
      BY <1>3, <3>1, <3>2, TellsKeepPromise
  <2>3. CASE Repair
    BY <1>3, <2>3, RepairKeepsPromise
  <2>4. CASE AppendLine
    BY <1>3, <2>4, AppendKeepsPromise
  <2>5. CASE Sync
    BY <1>3, <2>1, <2>5, SyncKeepsPromise
  <2>6. CASE PowerLoss
    BY <2>6, LossKeepsPromise
  <2>7. CASE Kill
    BY <2>1, <2>7 DEF Kill, Suffers
  <2>8. CASE UNCHANGED vars
    BY <2>8 DEF vars, CutKeepsPromise
  <2> QED
    BY <2>2, <2>3, <2>4, <2>5, <2>6, <2>7, <2>8 DEF Next
<1> QED
  BY <1>2, <1>3

LEMMA InitKeepsPromise ==
  ASSUME Init
  PROVE  CutKeepsPromise
<1>1. lines \in Seq(LogLines) /\ Len(lines) = 0 /\ synced = 0
  BY EmptySeq DEF Init
<1>2. \A n \in synced..Len(lines) : SubSeq(lines, 1, n) = lines
  BY <1>1, SubSeqFull
<1>3. \A k \in Keys : told[k] = "none"
  BY DEF Init
<1> QED
  BY <1>2, <1>3, AheadOrders DEF CutKeepsPromise, Book!Ahead

(***************************************************************************)
(* KeepsBook for any keys and number of mishaps and any environments in    *)
(* which the machine does not lose power beside a failed fsync or a kill:  *)
(* the entry of a write moves one way only and never falls behind what a   *)
(* caller was told of it.                                                  *)
(***************************************************************************)
THEOREM KeepsBookHolds == PowerAlone => (Spec => KeepsBook)
<1> SUFFICES ASSUME PowerAlone PROVE Spec => KeepsBook
  OBVIOUS
<1>1. Init => Book!BookInit
  <2> SUFFICES ASSUME Init PROVE Book!BookInit
    OBVIOUS
  <2>1. \A k : KeyNow(Records, k) = "none"
    <3>1. lines = <<>> /\ Len(lines) = 0
      BY EmptySeq DEF Init
    <3> QED
      BY <3>1 DEF Records, Parsed, KeyNow, Openings
  <2> QED
    BY <2>1 DEF Init, Book!BookInit
<1>2. LogInv /\ LogInv' /\ CutKeepsPromise /\ [Next]_vars => BookStep
  BY NextKeepsBook
<1>3. LogInv /\ LogInv' /\ CutKeepsPromise /\ [Next]_vars => CutKeepsPromise'
  BY NextKeepsPromise
<1>4. Init => CutKeepsPromise
  BY InitKeepsPromise
<1> QED
  BY <1>1, <1>2, <1>3, <1>4, LogInvHolds, PTL
  DEF Spec, KeepsBook, Book!BookSpec, BookStep, EntryOf

==============================================================================
