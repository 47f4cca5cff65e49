------------------------------ MODULE QueueFacts ------------------------------
(***************************************************************************)
(* Lemmas about FIFO queues: what an append, taking the head, and the      *)
(* departure of a waiter from the middle do to the elements and to their   *)
(* indices.  The models have two kinds: the waiters of an asyncio.Lock and *)
(* the frames of a connection.                                             *)
(***************************************************************************)
EXTENDS Integers, Sequences, SequenceTheorems, TLAPS

LEMMA TailFacts ==
    ASSUME NEW S, NEW q \in Seq(S), q # <<>>
    PROVE  /\ Tail(q) \in Seq(S)
           /\ 1 \in DOMAIN q /\ Head(q) = q[1] /\ q[1] \in S
           /\ \A i \in DOMAIN Tail(q) :
                i \in Nat /\ i + 1 \in DOMAIN q /\ i + 1 # 1 /\ Tail(q)[i] = q[i + 1]
<1>1. Len(q) \in Nat /\ Len(q) > 0 /\ DOMAIN q = 1..Len(q)
  BY EmptySeq, LenProperties
<1>2. DOMAIN Tail(q) = 1..(Len(q) - 1)
  BY <1>1, HeadTailProperties, LenProperties
<1>3. QED
  BY <1>1, <1>2, HeadTailProperties, ElementOfSeq

LEMMA AppendFacts ==
    ASSUME NEW S, NEW q \in Seq(S), NEW e \in S
    PROVE  /\ Append(q, e) \in Seq(S)
           /\ DOMAIN Append(q, e) = DOMAIN q \cup {Len(q) + 1}
           /\ \A i \in DOMAIN q : Append(q, e)[i] = q[i] /\ i < Len(q) + 1
           /\ Append(q, e)[Len(q) + 1] = e
<1>1. Len(q) \in Nat /\ DOMAIN q = 1..Len(q)
  BY LenProperties
<1>2. Append(q, e) \in Seq(S) /\ Len(Append(q, e)) = Len(q) + 1
  BY AppendProperties
<1>3. DOMAIN Append(q, e) = 1..(Len(q) + 1)
  BY <1>2, LenProperties
<1>4. 1..(Len(q) + 1) = 1..Len(q) \cup {Len(q) + 1}
  BY <1>1
<1>5. QED
  BY <1>1, <1>2, <1>3, <1>4, AppendProperties

LEMMA PrefixFacts ==
    ASSUME NEW S, NEW q \in Seq(S), NEW n \in 0..Len(q)
    PROVE  /\ SubSeq(q, 1, n) \in Seq(S)
           /\ \A i \in DOMAIN SubSeq(q, 1, n) : i \in DOMAIN q /\ SubSeq(q, 1, n)[i] = q[i]
<1>1. Len(q) \in Nat /\ DOMAIN q = 1..Len(q) /\ n \in Int /\ 0 <= n /\ n <= Len(q)
  BY LenProperties
<1>2. /\ SubSeq(q, 1, n) \in Seq(S)
      /\ Len(SubSeq(q, 1, n)) = IF 1 <= n THEN n - 1 + 1 ELSE 0
      /\ \A i \in 1..(n - 1 + 1) : SubSeq(q, 1, n)[i] = q[1 + i - 1]
  BY <1>1, SubSeqProperties
<1> DEFINE p == SubSeq(q, 1, n)
<1> HIDE DEF p
<1>3. Len(p) = n
  BY <1>1, <1>2 DEF p
<1>4. DOMAIN p = 1..n
  BY <1>2, <1>3, LenProperties DEF p
<1>5. ASSUME NEW i \in 1..n PROVE i \in 1..Len(q) /\ p[i] = q[i]
  <2>1. i \in Int /\ 1 + i - 1 = i /\ i \in 1..(n - 1 + 1)
    BY <1>1
  <2>2. QED
    BY <1>1, <1>2, <2>1 DEF p
<1>6. QED
  BY <1>1, <1>2, <1>4, <1>5 DEF p

LEMMA CutFacts ==
    ASSUME NEW S, NEW q \in Seq(S), NEW i \in 1..Len(q), NEW t,
           t = SubSeq(q, 1, i - 1) \o SubSeq(q, i + 1, Len(q))
    PROVE  /\ DOMAIN t = 1..(Len(q) - 1)
           /\ \A j \in 1..(Len(q) - 1) : t[j] = IF j < i THEN q[j] ELSE q[j + 1]
<1> DEFINE a == SubSeq(q, 1, i - 1)
           b == SubSeq(q, i + 1, Len(q))
<1>1. Len(q) \in Nat /\ DOMAIN q = 1..Len(q) /\ i \in Int /\ 1 <= i /\ i <= Len(q)
  BY LenProperties
<1>2. /\ a \in Seq(S) /\ Len(a) = i - 1
      /\ \A j \in 1..(i - 1) : a[j] = q[j]
  BY <1>1, SubSeqProperties
<1>3. /\ b \in Seq(S) /\ Len(b) = Len(q) - i
      /\ \A j \in 1..(Len(q) - i) : b[j] = q[j + i]
  <2>1. /\ b \in Seq(S)
        /\ Len(b) = IF i + 1 <= Len(q) THEN Len(q) - (i + 1) + 1 ELSE 0
        /\ \A j \in 1..(Len(q) - (i + 1) + 1) : b[j] = q[(i + 1) + j - 1]
    BY <1>1, SubSeqProperties
  <2> HIDE DEF b
  <2>2. Len(b) = Len(q) - i
    <3>1. CASE i + 1 <= Len(q)
      BY <1>1, <2>1, <3>1
    <3>2. CASE i = Len(q)
      <4>1. ~(i + 1 <= Len(q))
        BY <1>1, <3>2
      <4>2. Len(b) = 0
        BY <2>1, <4>1
      <4>3. QED
        BY <1>1, <3>2, <4>2
    <3>3. QED
      <4>1. Len(q) \in Int /\ i \in Int /\ i <= Len(q)
        BY <1>1
      <4>2. i + 1 <= Len(q) \/ i = Len(q)
        BY <4>1
      <4>3. QED
        BY <3>1, <3>2, <4>2
  <2>3. ASSUME NEW j \in 1..(Len(q) - i)
        PROVE  b[j] = q[j + i]
    <3>1. j \in 1..(Len(q) - (i + 1) + 1) /\ (i + 1) + j - 1 = j + i
      BY <1>1
    <3>2. QED
      BY <2>1, <3>1
  <2>4. QED
    BY <2>1, <2>2, <2>3
<1> HIDE DEF a, b
<1>4. /\ Len(a \o b) = Len(a) + Len(b)
      /\ a \o b \in Seq(S)
      /\ \A j \in 1..(Len(a) + Len(b)) :
            (a \o b)[j] = IF j <= Len(a) THEN a[j] ELSE b[j - Len(a)]
  BY <1>2, <1>3, ConcatProperties
<1>5. t = a \o b
  BY DEF a, b
<1>6. DOMAIN t = 1..(Len(q) - 1)
  <2>1. DOMAIN t = 1..Len(t) /\ Len(t) = Len(a) + Len(b)
    BY <1>4, <1>5, LenProperties
  <2>2. Len(a) + Len(b) = Len(q) - 1
    BY <1>1, <1>2, <1>3
  <2>3. QED
    BY <2>1, <2>2
<1>7. ASSUME NEW j \in 1..(Len(q) - 1)
      PROVE  t[j] = IF j < i THEN q[j] ELSE q[j + 1]
  <2>0. j \in 1..(Len(a) + Len(b)) /\ (j <= Len(a) <=> j < i)
    BY <1>1, <1>2, <1>3
  <2>1. CASE j < i
    <3>1. j \in 1..(i - 1)
      BY <1>1, <2>1
    <3>2. QED
      BY <1>2, <1>4, <1>5, <2>0, <2>1, <3>1
  <2>2. CASE ~(j < i)
    <3>1. j - Len(a) \in 1..(Len(q) - i) /\ (j - Len(a)) + i = j + 1
      BY <1>1, <1>2, <1>3, <2>2
    <3>2. t[j] = b[j - Len(a)]
      BY <1>4, <1>5, <2>0, <2>2
    <3>3. b[j - Len(a)] = q[(j - Len(a)) + i]
      BY <1>3, <3>1
    <3>4. QED
      BY <2>2, <3>1, <3>2, <3>3
  <2>3. QED
    BY <2>1, <2>2
<1>8. QED
  BY <1>6, <1>7
=============================================================================
