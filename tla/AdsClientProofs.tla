--------------------------- MODULE AdsClientProofs ---------------------------
(***************************************************************************)
(* Theorems about AdsClient: types; that every name of a read gets its own *)
(* result; that an upload is the table of the PLC; and that data that fits *)
(* is not refused.  For any names, types with any definitions, batch size, *)
(* answers and changes of the symbol table, and any entries that cannot be *)
(* decoded; what the parser makes of the bytes of one value is its         *)
(* contract (ParserAssumption, CompleteAssumption).                        *)
(***************************************************************************)
(*     Sequences       parts of a concatenation are where the lengths of   *)
(*                     those before say (FlattenFacts, PartFacts)          *)
(*     Entries         an entry is read wherever it is (SymbolAt, TypeAt), *)
(*                     so a table is read as its entries (UploadFacts)     *)
(*     ClientInv       what has been found, answered, sent and is still to *)
(*                     be sent fits together                               *)
(*     ListInv         as much of a table is asked for as there is         *)
(*     Misfit          what a call raises for                              *)
(***************************************************************************)
EXTENDS AdsClient, SequenceTheorems, FiniteSetTheorems, WellFoundedInduction, TLAPS

(***************************************************************************)
(* What a lookup may have found of symbol n: nothing, or n with a type.    *)
(* It is what the PLC has, unless that has changed since.                  *)
(***************************************************************************)
Findings(n) == {NotFound} \cup [err : {"ok"}, sym : {n}, type : Types]

FoundInv ==
    \A n \in DOMAIN infos :
        /\ infos[n] \in Findings(n)
        /\ n \notin edited => infos[n] = Info(n)

(***************************************************************************)
(* Before a call there is nothing; a lookup has found a part of the names, *)
(* and the others are in its batch or in those to come.                    *)
(***************************************************************************)
IdleInv ==
    pc = "idle" => /\ verdict = "ok" /\ edited = {} /\ refused = {}
                   /\ rest = <<>> /\ batch = <<>> /\ readable = <<>> /\ response = <<>>
                   /\ infos = NoResults /\ output = NoResults

LookupInv ==
    pc = "lookup" =>
        /\ wanted = DOMAIN infos \cup ToSet(batch) \cup ToSet(rest)
        /\ refused = {} /\ output = NoResults /\ readable = <<>> /\ response = <<>>

(***************************************************************************)
(* While values are read the answers so far, the batch under way and the   *)
(* commands to come are the readable names, in their order.                *)
(***************************************************************************)
Good == {n \in wanted : infos[n].err = "ok"}

AlignedInv ==
    /\ Len(readable) = Len(response) + Len(batch) + Len(rest)
    /\ \A i \in DOMAIN batch : batch[i] = readable[Len(response) + i]
    /\ \A i \in DOMAIN rest : rest[i] = readable[Len(response) + Len(batch) + i]

DataOf(n, s) == \E o \in {n, NoType} : s = Bytes(o, infos[n].type)

AnswerOf(n, r) ==
    /\ r.err = IF n \in refused THEN "failed" ELSE "ok"
    /\ n \notin edited \cup refused => r.data = Memory(n)
    /\ n \notin refused => DataOf(n, r.data)

AnswersInv == \A i \in DOMAIN response : AnswerOf(readable[i], response[i])

ReadInv ==
    pc \in {"read", "parse"} =>
        /\ DOMAIN infos = wanted
        /\ ToSet(readable) = Good
        /\ DOMAIN output = wanted \ Good
        /\ \A n \in wanted \ Good : output[n] = [err |-> infos[n].err, value |-> NoType]
        /\ AlignedInv
        /\ AnswersInv
        /\ \A n \in refused : \E i \in DOMAIN response : readable[i] = n

PhaseInv ==
    /\ pc \in {"lookup", "read", "parse"} => call \in Reads
    /\ pc \in {"lookup", "read"} => batch # <<>>
    /\ batch = <<>> => rest = <<>>
    /\ pc = "parse" => batch = <<>> /\ verdict = "ok"
    /\ call \in Reads => wanted \subseteq Names
    /\ call = "single" => \E n \in Names : wanted = {n}
    /\ call = "single" /\ pc = "read" => refused = {}
    /\ pc \in {"info", "upload", "type", "command"} => call \notin Reads

ClientInv ==
    /\ TypeOK
    /\ FoundInv
    /\ IdleInv
    /\ LookupInv
    /\ ReadInv
    /\ PhaseInv
    /\ OwnResult

-----------------------------------------------------------------------------
(***************************************************************************)
(* Induction over the numbers, for a set of them.                          *)
(***************************************************************************)
LEMMA SetInduction ==
    ASSUME NEW T, 0 \in T, \A n \in Nat : n \in T => n + 1 \in T
    PROVE  Nat \subseteq T
<1> DEFINE B == {n \in Nat : n \notin T}
           R == {ss \in Nat \X Nat : ss[1] < ss[2]}
<1>1. IsWellFoundedOn(R, Nat)
  BY NatLessThanWellFounded DEF OpToRel
<1>2. SUFFICES ASSUME B # {} PROVE FALSE
  OBVIOUS
<1>3. PICK x \in B : \A y \in B : ~ (<<y, x>> \in R)
  <2>1. B \subseteq Nat
    OBVIOUS
  <2> HIDE DEF B, R
  <2>2. QED
    BY <1>1, <1>2, <2>1, WFMin
<1>4. x \in Nat /\ x # 0 /\ x - 1 \in Nat
  OBVIOUS
<1>5. x - 1 \in B
  OBVIOUS
<1>6. <<x - 1, x>> \in R
  <2>1. \A y \in Nat, z \in Nat : y < z => <<y, z>> \in R
    OBVIOUS
  <2>2. x - 1 < x
    BY <1>4
  <2> HIDE DEF R
  <2>3. QED
    BY <1>4, <2>1, <2>2
<1>7. QED
  BY <1>3, <1>5, <1>6

(***************************************************************************)
(* Before() is what its recursion says.                                    *)
(***************************************************************************)
LEMMA BeforeFacts ==
    ASSUME NEW n \in Nat, NEW lens \in [1..n -> Nat]
    PROVE  /\ Len(lens) = n
           /\ Before(lens, 1) = 0
           /\ \A i \in 1..n : Before(lens, i + 1) = Before(lens, i) + lens[i]
           /\ \A i \in 1..(n + 1) : Before(lens, i) \in Nat
<1> DEFINE Rule(g, k) == g = [j \in 1..k |-> IF j = 1 THEN 0 ELSE g[j - 1] + lens[j - 1]]
           T == {k \in Nat : k <= n => \E g : Rule(g, k + 1)}
           at == CHOOSE g : Rule(g, n + 1)
<1>1. Len(lens) = n
  <2>1. lens \in Seq(Nat)
    OBVIOUS
  <2>2. DOMAIN lens = 1..Len(lens) /\ Len(lens) \in Nat
    BY <2>1
  <2>3. QED
    BY <2>2
<1>2. 0 \in T
  <2>1. Rule([j \in 1..1 |-> 0], 0 + 1)
    OBVIOUS
  <2> HIDE DEF Rule
  <2>2. QED
    BY <2>1
<1>3. ASSUME NEW k \in Nat, k \in T PROVE k + 1 \in T
  <2>1. SUFFICES ASSUME k + 1 <= n PROVE \E g : Rule(g, k + 2)
    OBVIOUS
  <2>2. PICK g : Rule(g, k + 1)
    BY <1>3, <2>1
  <2>3. Rule([j \in 1..(k + 2) |-> IF j = k + 2 THEN g[k + 1] + lens[k + 1] ELSE g[j]], k + 2)
    BY <2>2
  <2>4. QED
    BY <2>3
<1>4. Nat \subseteq T
  <2> HIDE DEF T
  <2>1. QED
    BY <1>2, <1>3, SetInduction
<1>5. Rule(at, n + 1)
  <2>1. \E g : Rule(g, n + 1)
    BY <1>4
  <2>2. QED
    BY <2>1
<1>6. \A i : Before(lens, i) = at[i]
  BY <1>1 DEF Before
<1> HIDE DEF at
<1>7. at[1] = 0 /\ \A i \in 1..n : at[i + 1] = at[i] + lens[i]
  BY <1>5
<1> HIDE DEF Rule
<1> DEFINE U == {k \in Nat : k <= n => at[k + 1] \in Nat}
<1>8. 0 \in U
  BY <1>7
<1>9. ASSUME NEW k \in Nat, k \in U PROVE k + 1 \in U
  BY <1>7, <1>9
<1>10. Nat \subseteq U
  <2> HIDE DEF U
  <2>1. QED
    BY <1>8, <1>9, SetInduction
<1>11. \A i \in 1..(n + 1) : at[i] \in Nat
  <2>1. ASSUME NEW i \in 1..(n + 1) PROVE at[i] \in Nat
    <3>1. i - 1 \in Nat /\ i - 1 <= n /\ (i - 1) + 1 = i
      OBVIOUS
    <3>2. i - 1 \in U
      BY <1>10, <3>1
    <3>3. QED
      BY <3>1, <3>2
  <2>2. QED
    BY <2>1
<1>12. QED
  BY <1>1, <1>6, <1>7, <1>11

LEMMA JoinFacts ==
    ASSUME NEW S, NEW f \in Seq(S), NEW e \in Seq(S)
    PROVE  /\ f \o e \in Seq(S) /\ Len(f \o e) = Len(f) + Len(e)
           /\ \A y \in 1..(Len(f) + Len(e)) :
                 (f \o e)[y] = IF y <= Len(f) THEN f[y] ELSE e[y - Len(f)]
BY ConcatProperties

LEMMA InsideFacts ==
    ASSUME NEW b \in Nat, NEW l \in Nat, NEW m \in Nat, NEW k \in Nat, b + l <= m
    PROVE  /\ b + l <= m + k
           /\ \A x \in Nat : 1 <= x /\ x <= l => b + x \in 1..(m + k) /\ b + x <= m
OBVIOUS

LEMMA SubFacts ==
    ASSUME NEW S, NEW s \in Seq(S), NEW b \in Nat, NEW l \in Nat, b + l <= Len(s)
    PROVE  /\ SubSeq(s, b + 1, b + l) \in Seq(S)
           /\ Len(SubSeq(s, b + 1, b + l)) = l
           /\ \A j \in 1..l : SubSeq(s, b + 1, b + l)[j] = s[b + j]
<1> DEFINE sub == SubSeq(s, b + 1, b + l)
<1>1. Len(s) \in Nat /\ b + 1 \in 1..(Len(s) + 1) /\ b + l \in b..Len(s)
  <2>1. Len(s) \in Nat
    BY LenProperties
  <2>2. QED
    BY <2>1
<1>2. \A i \in (b + 1)..(b + l) : s[i] \in S
  <2>1. \A i \in (b + 1)..(b + l) : i \in 1..Len(s)
    BY <1>1
  <2>2. QED
    BY <2>1, ElementOfSeq
<1>3. /\ sub \in Seq(S)
      /\ Len(sub) = IF b + 1 <= b + l THEN (b + l) - (b + 1) + 1 ELSE 0
      /\ \A j \in 1..((b + l) - (b + 1) + 1) : sub[j] = s[(b + 1) + j - 1]
  <2>1. b + 1 \in Int /\ b + l \in Int
    OBVIOUS
  <2>2. QED
    BY <1>1, <1>2, <2>1, SubSeqProperties
<1> HIDE DEF sub
<1>4. Len(sub) = l
  BY <1>3
<1>5. ASSUME NEW j \in 1..l PROVE sub[j] = s[b + j]
  <2>1. j \in 1..((b + l) - (b + 1) + 1) /\ (b + 1) + j - 1 = b + j
    OBVIOUS
  <2>2. QED
    BY <1>3, <2>1
<1>6. QED
  BY <1>3, <1>4, <1>5 DEF sub

(***************************************************************************)
(* The parts of a concatenation are where the lengths of those before say. *)
(***************************************************************************)
LEMMA FlattenFacts ==
    ASSUME NEW S, NEW n \in Nat, NEW parts \in [1..n -> Seq(S)],
           NEW lens \in [1..n -> Nat], \A i \in 1..n : lens[i] = Len(parts[i])
    PROVE  /\ FlattenSeq(parts) \in Seq(S)
           /\ Len(FlattenSeq(parts)) = Before(lens, n + 1)
           /\ \A i \in 1..n : SubStream(FlattenSeq(parts), Before(lens, i), lens[i]) = parts[i]
<1> DEFINE Rule(g, k) == g = [j \in 1..k |-> IF j = 1 THEN parts[j] ELSE g[j - 1] \o parts[j]]
           T == {k \in Nat : k <= n => \E g : Rule(g, k)}
           flatten == CHOOSE g : Rule(g, n)
<1>1. /\ lens \in [1..n -> Nat]
      /\ \A i \in 1..n : lens[i] = Len(parts[i]) /\ parts[i] \in Seq(S) /\ lens[i] \in Nat
  <2>1. \A i \in 1..n : parts[i] \in Seq(S) /\ Len(parts[i]) \in Nat
    BY LenProperties
  <2>2. QED
    BY <2>1
<1>2. /\ Len(parts) = n
      /\ Before(lens, 1) = 0
      /\ \A i \in 1..n : Before(lens, i + 1) = Before(lens, i) + lens[i]
      /\ \A i \in 1..(n + 1) : Before(lens, i) \in Nat
  <2>1. parts \in Seq(Seq(S)) /\ Len(parts) = n
    <3>1. parts \in Seq(Seq(S))
      OBVIOUS
    <3>2. DOMAIN parts = 1..Len(parts) /\ Len(parts) \in Nat
      BY <3>1, LenProperties
    <3>3. QED
      BY <3>1, <3>2
  <2>2. QED
    BY <1>1, <2>1, BeforeFacts
<1>3. CASE n = 0
  <2>1. parts = <<>> /\ FlattenSeq(parts) = parts
    BY <1>2, <1>3 DEF FlattenSeq
  <2>2. <<>> \in Seq(S) /\ Len(<<>>) = 0
    BY EmptySeq
  <2>3. Before(lens, n + 1) = 0 /\ 1..n = {}
    BY <1>2, <1>3
  <2>4. QED
    BY <2>1, <2>2, <2>3
<1>4. CASE n # 0
  <2> HIDE DEF Rule
  <2>1. 0 \in T
    <3>1. Rule([j \in 1..0 |-> 0], 0)
      BY DEF Rule
    <3>2. QED
      BY <3>1
  <2>2. ASSUME NEW k \in Nat, k \in T PROVE k + 1 \in T
    <3>1. SUFFICES ASSUME k + 1 <= n PROVE \E g : Rule(g, k + 1)
      OBVIOUS
    <3>2. PICK g : Rule(g, k)
      BY <2>2, <3>1
    <3> DEFINE h == [j \in 1..(k + 1) |-> IF j = k + 1
                        THEN IF k = 0 THEN parts[1] ELSE g[k] \o parts[k + 1]
                        ELSE g[j]]
    <3>3. ASSUME NEW j \in 1..(k + 1)
          PROVE  h[j] = IF j = 1 THEN parts[j] ELSE h[j - 1] \o parts[j]
      <4>1. CASE j = k + 1 /\ k = 0
        BY <4>1
      <4>2. CASE j = k + 1 /\ k # 0
        <5>1. k \in 1..(k + 1) /\ k # k + 1 /\ j - 1 = k /\ j # 1
          BY <4>2
        <5>2. h[k] = g[k] /\ h[j] = g[k] \o parts[j]
          BY <4>2, <5>1
        <5> HIDE DEF h
        <5>3. QED
          BY <5>1, <5>2
      <4>3. CASE j # k + 1
        <5>1. j \in 1..k
          BY <4>3
        <5>2. h[j] = g[j] /\ (j # 1 => h[j - 1] = g[j - 1])
          BY <5>1
        <5>3. g[j] = IF j = 1 THEN parts[j] ELSE g[j - 1] \o parts[j]
          BY <3>2, <5>1 DEF Rule
        <5> HIDE DEF h
        <5>4. QED
          BY <5>2, <5>3
      <4>4. QED
        BY <4>1, <4>2, <4>3
    <3>4. Rule(h, k + 1)
      <4>1. DOMAIN h = 1..(k + 1) /\ h = [j \in 1..(k + 1) |-> h[j]]
        OBVIOUS
      <4> HIDE DEF h
      <4>2. QED
        BY <3>3, <4>1 DEF Rule
    <3>5. QED
      BY <3>4
  <2>3. Nat \subseteq T
    <3> HIDE DEF T
    <3>1. QED
      BY <2>1, <2>2, SetInduction
  <2>4. Rule(flatten, n)
    <3>1. \E g : Rule(g, n)
      BY <2>3
    <3>2. QED
      BY <3>1
  <2>5. FlattenSeq(parts) = flatten[n]
    BY <1>2, <1>4 DEF FlattenSeq, Rule
  <2> HIDE DEF flatten
  <2>6. /\ flatten[1] = parts[1]
        /\ \A k \in 1..n : k + 1 <= n => flatten[k + 1] = flatten[k] \o parts[k + 1]
    <3>1. ASSUME NEW j \in 1..n
          PROVE  flatten[j] = IF j = 1 THEN parts[j] ELSE flatten[j - 1] \o parts[j]
      BY <2>4 DEF Rule
    <3>2. flatten[1] = parts[1]
      BY <1>4, <3>1
    <3>3. ASSUME NEW k \in 1..n, k + 1 <= n
          PROVE  flatten[k + 1] = flatten[k] \o parts[k + 1]
      <4>1. k + 1 \in 1..n /\ k + 1 # 1 /\ (k + 1) - 1 = k
        BY <3>3
      <4>2. QED
        BY <3>1, <4>1
    <3>4. QED
      BY <3>2, <3>3
  <2> DEFINE Placed(k) ==
                /\ flatten[k] \in Seq(S)
                /\ Len(flatten[k]) = Before(lens, k + 1)
                /\ \A i \in 1..k : Before(lens, i) + lens[i] <= Len(flatten[k])
                /\ \A i \in 1..k, x \in Nat : 1 <= x /\ x <= lens[i]
                        => flatten[k][Before(lens, i) + x] = parts[i][x]
             U == {k \in Nat : k + 1 <= n => Placed(k + 1)}
  <2>7. 0 \in U
    <3>1. 1 \in 1..n /\ lens[1] \in Nat
      BY <1>1, <1>4
    <3>2. flatten[1] \in Seq(S) /\ Len(flatten[1]) = lens[1]
      BY <1>1, <2>6, <3>1
    <3>3. Before(lens, 1 + 1) = lens[1] /\ Before(lens, 1) = 0
      BY <1>2, <3>1
    <3>4. ASSUME NEW x \in Nat PROVE Before(lens, 1) + x = x
      BY <3>3
    <3>5. Before(lens, 1) + lens[1] <= Len(flatten[1])
      BY <3>1, <3>2, <3>3
    <3>6. \A i \in 1..1 : i = 1
      OBVIOUS
    <3>7. ASSUME NEW i \in 1..1, NEW x \in Nat
          PROVE  flatten[1][Before(lens, i) + x] = parts[i][x]
      BY <2>6, <3>4, <3>6
    <3>8. Len(flatten[1]) = Before(lens, 1 + 1)
      BY <3>2, <3>3
    <3>9. Placed(1)
      BY <3>2, <3>5, <3>6, <3>7, <3>8
    <3> HIDE DEF Placed
    <3>10. Placed(0 + 1)
      BY <3>9
    <3>11. QED
      BY <3>10
  <2>8. ASSUME NEW k \in Nat, k \in U PROVE k + 1 \in U
    <3> HIDE DEF Placed
    <3>1. SUFFICES ASSUME (k + 1) + 1 <= n PROVE Placed((k + 1) + 1)
      OBVIOUS
    <3> DEFINE m == k + 1
    <3>2. m \in 1..n /\ m \in Nat /\ m + 1 \in 1..n /\ m + 1 <= n /\ Placed(m)
      BY <2>8, <3>1
    <3> HIDE DEF m
    <3>p. /\ flatten[m] \in Seq(S)
          /\ Len(flatten[m]) = Before(lens, m + 1)
          /\ \A i \in 1..m : Before(lens, i) + lens[i] <= Len(flatten[m])
          /\ \A i \in 1..m, x \in Nat : 1 <= x /\ x <= lens[i]
                => flatten[m][Before(lens, i) + x] = parts[i][x]
      BY <3>2 DEF Placed
    <3>3. flatten[m + 1] = flatten[m] \o parts[m + 1] /\ parts[m + 1] \in Seq(S)
      BY <1>1, <2>6, <3>2
    <3>4. /\ flatten[m] \in Seq(S)
          /\ Len(flatten[m]) = Before(lens, m + 1)
          /\ Len(parts[m + 1]) = lens[m + 1]
          /\ Before(lens, m + 1) \in Nat /\ lens[m + 1] \in Nat
      BY <1>1, <1>2, <3>2, <3>p
    <3>5. /\ flatten[m + 1] \in Seq(S)
          /\ Len(flatten[m + 1]) = Before(lens, m + 1) + lens[m + 1]
          /\ \A y \in 1..(Before(lens, m + 1) + lens[m + 1]) :
                flatten[m + 1][y] = IF y <= Before(lens, m + 1) THEN flatten[m][y]
                                    ELSE parts[m + 1][y - Before(lens, m + 1)]
      <4> DEFINE f == flatten[m]
                 e == parts[m + 1]
      <4>1. f \in Seq(S) /\ e \in Seq(S) /\ Len(f) = Before(lens, m + 1) /\ Len(e) = lens[m + 1]
            /\ flatten[m + 1] = f \o e
        BY <3>3, <3>4
      <4> HIDE DEF f, e
      <4>0. f \in Seq(S) /\ e \in Seq(S)
        BY <4>1
      <4>2. /\ f \o e \in Seq(S) /\ Len(f \o e) = Len(f) + Len(e)
            /\ \A y \in 1..(Len(f) + Len(e)) :
                  (f \o e)[y] = IF y <= Len(f) THEN f[y] ELSE e[y - Len(f)]
        BY ONLY <4>0, JoinFacts
      <4>3. QED
        BY <4>1, <4>2 DEF f, e
    <3>6. Len(flatten[m + 1]) = Before(lens, (m + 1) + 1)
      BY <1>2, <3>2, <3>5
    <3>7. ASSUME NEW i \in 1..(m + 1)
          PROVE  /\ Before(lens, i) + lens[i] <= Len(flatten[m + 1])
                 /\ \A x \in Nat : 1 <= x /\ x <= lens[i]
                        => flatten[m + 1][Before(lens, i) + x] = parts[i][x]
      <4>1. i \in 1..n /\ Before(lens, i) \in Nat /\ lens[i] \in Nat
        <5>1. i \in 1..n /\ i \in 1..(n + 1)
          BY <3>2
        <5>2. QED
          BY <1>1, <1>2, <5>1
      <4>2. CASE i = m + 1
        <5>1. ASSUME NEW x \in Nat, 1 <= x, x <= lens[i]
              PROVE  flatten[m + 1][Before(lens, i) + x] = parts[i][x]
          <6>1. /\ Before(lens, i) + x \in 1..(Before(lens, m + 1) + lens[m + 1])
                /\ ~(Before(lens, i) + x <= Before(lens, m + 1))
                /\ (Before(lens, i) + x) - Before(lens, m + 1) = x
            BY <3>4, <4>2, <5>1
          <6>2. QED
            BY <3>5, <4>2, <6>1
        <5>2. Before(lens, i) + lens[i] <= Len(flatten[m + 1])
          BY <3>4, <3>5, <4>2
        <5>3. QED
          BY <5>1, <5>2
      <4>3. CASE i \in 1..m
        <5>1. Before(lens, i) + lens[i] <= Before(lens, m + 1)
          BY <3>p, <4>3
        <5>2. ASSUME NEW x \in Nat, 1 <= x, x <= lens[i]
              PROVE  flatten[m + 1][Before(lens, i) + x] = parts[i][x]
          <6>1. /\ Before(lens, i) + x \in 1..(Before(lens, m + 1) + lens[m + 1])
                /\ Before(lens, i) + x <= Before(lens, m + 1)
            BY <3>4, <4>1, <5>1, <5>2, InsideFacts
          <6>2. flatten[m][Before(lens, i) + x] = parts[i][x]
            BY <3>p, <4>3, <5>2
          <6>3. QED
            BY <3>5, <6>1, <6>2
        <5>3. Before(lens, i) + lens[i] <= Len(flatten[m + 1])
          BY <3>4, <3>5, <4>1, <5>1, InsideFacts
        <5>4. QED
          BY <5>2, <5>3
      <4>4. i = m + 1 \/ i \in 1..m
        BY <3>2
      <4>5. QED
        BY <4>2, <4>3, <4>4
    <3>8. Placed(m + 1)
      BY <3>5, <3>6, <3>7 DEF Placed
    <3> HIDE DEF Placed
    <3>9. QED
      BY <3>8 DEF m
  <2>9. Placed(n)
    <3>1. Nat \subseteq U
      <4> HIDE DEF U
      <4>1. QED
        BY <2>7, <2>8, SetInduction
    <3>2. n - 1 \in Nat /\ (n - 1) + 1 = n
      BY <1>4
    <3> HIDE DEF Placed
    <3>3. n - 1 \in U
      <4> HIDE DEF U
      <4>1. QED
        BY <3>1, <3>2
    <3>4. QED
      BY <3>2, <3>3
  <2> HIDE DEF U
  <2>10. ASSUME NEW i \in 1..n
         PROVE  SubStream(flatten[n], Before(lens, i), lens[i]) = parts[i]
    <3> DEFINE b == Before(lens, i)
               sub == SubSeq(flatten[n], b + 1, b + lens[i])
    <3>1. /\ b \in Nat /\ lens[i] \in Nat /\ b + lens[i] <= Len(flatten[n])
          /\ flatten[n] \in Seq(S) /\ Len(flatten[n]) \in Nat
          /\ parts[i] \in Seq(S) /\ Len(parts[i]) = lens[i]
      <4>1. flatten[n] \in Seq(S) /\ Before(lens, i) + lens[i] <= Len(flatten[n])
        BY <2>9
      <4>2. Len(flatten[n]) \in Nat
        BY <4>1, LenProperties
      <4>3. b \in Nat /\ lens[i] \in Nat /\ parts[i] \in Seq(S) /\ Len(parts[i]) = lens[i]
        BY <1>1, <1>2
      <4>4. QED
        BY <4>1, <4>2, <4>3
    <3>2. \A x \in Nat : 1 <= x /\ x <= lens[i] => flatten[n][b + x] = parts[i][x]
      BY <2>9
    <3> HIDE DEF b, Placed
    <3>3. /\ sub \in Seq(S) /\ Len(sub) = lens[i]
          /\ \A j \in 1..lens[i] : sub[j] = flatten[n][b + j]
      <4> DEFINE f == flatten[n]
                 l == lens[i]
      <4>1. f \in Seq(S) /\ b \in Nat /\ l \in Nat /\ b + l <= Len(f)
        BY <3>1
      <4> HIDE DEF f, l
      <4>2. /\ SubSeq(f, b + 1, b + l) \in Seq(S)
            /\ Len(SubSeq(f, b + 1, b + l)) = l
            /\ \A j \in 1..l : SubSeq(f, b + 1, b + l)[j] = f[b + j]
        BY ONLY <4>1, SubFacts
      <4>3. QED
        BY ONLY <4>2 DEF f, l
    <3> HIDE DEF sub
    <3>4. Len(sub) = lens[i]
      BY <3>3
    <3>5. ASSUME NEW j \in 1..lens[i] PROVE sub[j] = parts[i][j]
      <4>1. j \in Nat /\ 1 <= j /\ j <= lens[i]
        BY <3>1
      <4>2. QED
        BY <3>2, <3>3, <4>1
    <3>6. sub = parts[i]
      BY <3>1, <3>3, <3>4, <3>5, SeqEqual
    <3>7. QED
      BY <3>6 DEF SubStream, sub, b
  <2>11. QED
    BY <2>5, <2>9, <2>10
<1>5. QED
  BY <1>3, <1>4

LEMMA FlatLength ==
    ASSUME NEW n \in Nat, NEW parts, DOMAIN parts = 1..n, parts = [i \in 1..n |-> parts[i]],
           \A i \in 1..n : \E S : parts[i] \in Seq(S)
    PROVE  \E S : FlattenSeq(parts) \in Seq(S)
<1> DEFINE S == UNION {ToSet(parts[i]) : i \in 1..n}
<1>1. ASSUME NEW i \in 1..n PROVE parts[i] \in Seq(S)
  <2>1. PICK R : parts[i] \in Seq(R)
    BY <1>1
  <2>2. \A j \in DOMAIN parts[i] : parts[i][j] \in S
    BY DEF ToSet
  <2> HIDE DEF S
  <2>3. parts[i] \in [1..Len(parts[i]) -> R] /\ Len(parts[i]) \in Nat
    BY <2>1, LenProperties
  <2>4. QED
    BY <2>2, <2>3
<1> HIDE DEF S
<1>2. parts \in [1..n -> Seq(S)]
  BY <1>1
<1>3. FlattenSeq(parts) \in Seq(S)
  <2> DEFINE lens == [i \in 1..n |-> Len(parts[i])]
  <2>1. \A i \in 1..n : Len(parts[i]) \in Nat
    BY <1>1, LenProperties
  <2>2. lens \in [1..n -> Nat] /\ \A i \in 1..n : lens[i] = Len(parts[i])
    BY <2>1
  <2> HIDE DEF lens
  <2>3. QED
    BY <1>2, <2>2, FlattenFacts
<1>4. QED
  BY <1>3

(***************************************************************************)
(* The order in which a set is iterated has each element once.             *)
(***************************************************************************)
LEMMA OrderFacts ==
    ASSUME NEW S, IsFiniteSet(S), NEW q \in SetToSeqs(S)
    PROVE  q \in Seq(S) /\ IsInjective(q) /\ ToSet(q) = S
<1> DEFINE n == Cardinality(S)
<1>1. n \in Nat
  BY FS_CardinalityType
<1>2. q \in [1..n -> S] /\ \A i, j \in 1..n : i # j => q[i] # q[j]
  BY DEF SetToSeqs
<1> HIDE DEF n
<1>3. q \in Injection(1..n, S) /\ IsInjective(q)
  BY <1>2 DEF Injection, IsInjective
<1>4. IsFiniteSet(1..n) /\ Cardinality(1..n) = n
  BY <1>1, FS_Interval
<1>5. q \in Surjection(1..n, S)
  BY <1>3, <1>4, FS_Injection DEF n
<1>6. ToSet(q) = S
  BY <1>2, <1>5 DEF ToSet, Surjection
<1>7. QED
  BY <1>1, <1>2, <1>3, <1>6

(***************************************************************************)
(* What the smaller of two numbers is.                                     *)
(***************************************************************************)
LEMMA LeastFacts ==
    ASSUME NEW m \in Nat, NEW b \in Nat, b >= 1, NEW k, k = IF m < b THEN m ELSE b
    PROVE  /\ k \in Nat /\ k <= m /\ k <= b
           /\ (k = 0 => m = 0) /\ (k < m => k = b)
OBVIOUS

LEMMA SameIndex ==
    ASSUME NEW k \in Nat, NEW i \in 1..k
    PROVE  i \in 1..(k - 1 + 1) /\ 1 + i - 1 = i
<1>1. k - 1 + 1 = k
  OBVIOUS
<1>2. i \in Int
  OBVIOUS
<1>3. 1 + i - 1 = i
  BY ONLY <1>2
<1>4. QED
  BY <1>1, <1>3

LEMMA LessOrEqual ==
    ASSUME NEW k \in Nat, NEW m \in Nat, k <= m
    PROVE  k < m \/ m = k
OBVIOUS

(***************************************************************************)
(* A batch and the commands left are the commands there were, in order.    *)
(***************************************************************************)
LEMMA StartFacts ==
    ASSUME NEW S, NEW q \in Seq(S), IsInjective(q), StartBatch(q)
    PROVE  /\ batch' \in Seq(S) /\ rest' \in Seq(S)
           /\ IsInjective(batch') /\ IsInjective(rest')
           /\ Len(batch') \in Nat /\ Len(rest') \in Nat
           /\ Len(batch') <= BatchSize
           /\ Len(q) = Len(batch') + Len(rest')
           /\ \A i \in DOMAIN batch' : i \in Nat /\ i \in DOMAIN q /\ batch'[i] = q[i]
           /\ \A i \in DOMAIN rest' :
                i \in Nat /\ Len(batch') + i \in DOMAIN q /\ rest'[i] = q[Len(batch') + i]
           /\ ToSet(q) = ToSet(batch') \cup ToSet(rest')
           /\ batch' = <<>> <=> q = <<>>
           /\ batch' = <<>> => rest' = <<>>
<1> DEFINE k == IF Len(q) < BatchSize THEN Len(q) ELSE BatchSize
<1>1. /\ Len(q) \in Nat /\ DOMAIN q = 1..Len(q) /\ \A i \in 1..Len(q) : q[i] \in S
      /\ BatchSize \in Nat /\ BatchSize >= 1
  <2>1. Len(q) \in Nat /\ DOMAIN q = 1..Len(q)
    BY LenProperties
  <2>2. \A i \in 1..Len(q) : q[i] \in S
    BY ElementOfSeq
  <2>3. BatchSize \in Nat /\ BatchSize >= 1
    BY ClientAssumption DEF ClientAssumption
  <2>4. QED
    BY <2>1, <2>2, <2>3
<1>2. /\ k \in Nat /\ k <= Len(q) /\ k <= BatchSize
      /\ (k = 0 => Len(q) = 0) /\ (k < Len(q) => k = BatchSize)
  BY <1>1, LeastFacts
<1>3. batch' = SubSeq(q, 1, k) /\ rest' = SubSeq(q, BatchSize + 1, Len(q))
  BY DEF StartBatch
<1> HIDE DEF k
<1>4. /\ batch' \in Seq(S) /\ Len(batch') = k
      /\ \A i \in 1..k : batch'[i] = q[i]
  <2>1. \A i \in 1..k : q[i] \in S
    BY <1>1, <1>2
  <2>2. /\ SubSeq(q, 1, k) \in Seq(S)
        /\ Len(SubSeq(q, 1, k)) = IF 1 <= k THEN k - 1 + 1 ELSE 0
        /\ \A i \in 1..(k - 1 + 1) : SubSeq(q, 1, k)[i] = q[1 + i - 1]
    BY <1>2, <2>1, SubSeqProperties
  <2>3. Len(SubSeq(q, 1, k)) = k
    BY <1>2, <2>2
  <2>4. ASSUME NEW i \in 1..k PROVE SubSeq(q, 1, k)[i] = q[i]
    <3>1. k \in Nat
      BY <1>2
    <3>2. i \in 1..(k - 1 + 1) /\ 1 + i - 1 = i
      BY ONLY <3>1, i \in 1..k, SameIndex
    <3>3. QED
      BY <2>2, <3>2
  <2>5. QED
    BY <1>3, <2>2, <2>3, <2>4
<1>5. /\ rest' \in Seq(S) /\ Len(rest') = Len(q) - k
      /\ \A i \in 1..(Len(q) - k) : rest'[i] = q[k + i]
  <2> DEFINE r == SubSeq(q, BatchSize + 1, Len(q))
  <2>1. \A i \in (BatchSize + 1)..Len(q) : q[i] \in S
    BY <1>1
  <2>2. /\ r \in Seq(S)
        /\ Len(r) = IF BatchSize + 1 <= Len(q) THEN Len(q) - (BatchSize + 1) + 1 ELSE 0
        /\ \A i \in 1..(Len(q) - (BatchSize + 1) + 1) : r[i] = q[(BatchSize + 1) + i - 1]
    BY <1>1, <2>1, SubSeqProperties
  <2> HIDE DEF r
  <2>3. CASE k < Len(q)
    <3>1. k = BatchSize /\ Len(r) = Len(q) - k
      <4>1. BatchSize + 1 <= Len(q)
        BY <1>1, <1>2, <2>3
      <4>2. Len(r) = Len(q) - (BatchSize + 1) + 1
        BY <2>2, <4>1
      <4>3. QED
        BY <1>1, <1>2, <2>3, <4>2
    <3>2. ASSUME NEW i \in 1..(Len(q) - k) PROVE r[i] = q[k + i]
      <4>1. i \in 1..(Len(q) - (BatchSize + 1) + 1) /\ (BatchSize + 1) + i - 1 = k + i
        BY <1>1, <1>2, <3>1
      <4>2. QED
        BY <2>2, <4>1
    <3>3. QED
      BY <1>3, <2>2, <3>1, <3>2 DEF r
  <2>4. CASE Len(q) = k
    <3>1. ~(BatchSize + 1 <= Len(q))
      BY <1>1, <1>2, <2>4
    <3>2. Len(r) = Len(q) - k /\ 1..(Len(q) - k) = {}
      BY <1>1, <2>2, <2>4, <3>1
    <3>3. QED
      BY <1>3, <2>2, <3>2 DEF r
  <2>5. QED
    BY <1>1, <1>2, <2>3, <2>4, LessOrEqual
<1>6. DOMAIN batch' = 1..k /\ DOMAIN rest' = 1..(Len(q) - k)
  BY <1>4, <1>5, LenProperties
<1>7. ASSUME NEW i \in DOMAIN batch'
      PROVE  i \in Nat /\ i \in DOMAIN q /\ batch'[i] = q[i]
  BY <1>1, <1>2, <1>4, <1>6
<1>8. ASSUME NEW i \in DOMAIN rest'
      PROVE  i \in Nat /\ k + i \in DOMAIN q /\ rest'[i] = q[k + i]
  BY <1>1, <1>2, <1>5, <1>6
<1>9. IsInjective(batch')
  BY <1>7 DEF IsInjective
<1>10. IsInjective(rest')
  <2>1. \A i, j \in DOMAIN rest' : k + i = k + j => i = j
    BY <1>2, <1>8
  <2>2. QED
    BY <1>8, <2>1 DEF IsInjective
<1>11. ToSet(q) = ToSet(batch') \cup ToSet(rest')
  <2>1. ToSet(batch') \subseteq ToSet(q) /\ ToSet(rest') \subseteq ToSet(q)
    BY <1>7, <1>8 DEF ToSet
  <2>2. ASSUME NEW i \in DOMAIN q
        PROVE  q[i] \in ToSet(batch') \cup ToSet(rest')
    <3>1. CASE i <= k
      <4>1. i \in DOMAIN batch'
        BY <1>1, <1>2, <1>6, <3>1
      <4>2. QED
        BY <1>7, <4>1 DEF ToSet
    <3>2. CASE i > k
      <4>1. i - k \in DOMAIN rest' /\ k + (i - k) = i
        BY <1>1, <1>2, <1>6, <3>2
      <4>2. QED
        BY <1>8, <4>1 DEF ToSet
    <3>3. QED
      BY <1>1, <1>2, <3>1, <3>2
  <2>3. QED
    BY <2>1, <2>2 DEF ToSet
<1>12. /\ batch' = <<>> <=> q = <<>>
       /\ batch' = <<>> => rest' = <<>>
  <2>1. /\ batch' = <<>> <=> Len(batch') = 0
        /\ rest' = <<>> <=> Len(rest') = 0
        /\ q = <<>> <=> Len(q) = 0
    BY <1>4, <1>5, EmptySeq
  <2>2. batch' = <<>> <=> q = <<>>
    BY <1>1, <1>2, <1>4, <2>1
  <2>3. Len(batch') = 0 => Len(rest') = 0
    BY <1>1, <1>2, <1>4, <1>5
  <2>4. QED
    BY <2>1, <2>2, <2>3
<1>13. Len(q) = Len(batch') + Len(rest') /\ Len(rest') \in Nat
  BY <1>1, <1>2, <1>4, <1>5
<1>14. QED
  BY <1>2, <1>4, <1>5, <1>7, <1>8, <1>9, <1>10, <1>11, <1>12, <1>13
-----------------------------------------------------------------------------
(***************************************************************************)
(* An entry of the table begins with a header that tells its length, and   *)
(* is read as the symbol it describes.                                     *)
(***************************************************************************)
Tokens == [len : Nat, name : Names, type : Types] \cup {More}

SymbolsOK == symbols \in [Names -> Types \cup {NoType}]

LEMMA EntryFacts ==
    ASSUME SymbolsOK, NEW n \in Names, symbols[n] # NoType
    PROVE  /\ Entry(n) \in Seq(Tokens)
           /\ Len(Entry(n)) \in Nat /\ Len(Entry(n)) > 0
           /\ IF Clear(n)
              THEN DeserializeSymbol(Entry(n), 0) =
                    [ok |-> TRUE, pos |-> Len(Entry(n)),
                     value |-> [len |-> Len(Entry(n)), name |-> n, type |-> symbols[n]]]
              ELSE DeserializeSymbol(Entry(n), 0).ok = FALSE
           /\ Entry(n)[1] = [len |-> Len(Entry(n)), name |-> n, type |-> symbols[n]]
<1> DEFINE extra == TypeSize(symbols[n]) % 3
           body == [i \in 1..extra |-> More]
           head == [len |-> 1 + Len(body), name |-> n, type |-> symbols[n]]
           e == Entry(n)
<1>1. symbols[n] \in Types /\ TypeSize(symbols[n]) \in Nat
  BY ParserAssumption DEF ParserAssumption, SymbolsOK
<1>2. extra \in Nat
  BY <1>1
<1> HIDE DEF extra
<1>3. body \in Seq(Tokens) /\ Len(body) \in Nat
  <2>1. body \in Seq({More})
    BY <1>2
  <2>2. body \in Seq(Tokens)
    BY <1>2 DEF Tokens
  <2>3. QED
    BY <2>2, LenProperties
<1>4. e = <<head>> \o body
  <2> DEFINE blank == [len |-> 0, name |-> n, type |-> symbols[n]]
  <2>1. [blank EXCEPT !.len = 1 + Len(body)] = head
    <3> DEFINE m == 1 + Len(body)
    <3> HIDE DEF m
    <3>1. [blank EXCEPT !.len = m] = [len |-> m, name |-> n, type |-> symbols[n]]
      OBVIOUS
    <3>2. QED
      BY <3>1 DEF m
  <2>2. e = <<[blank EXCEPT !.len = 1 + Len(body)]>> \o body
    BY DEF Entry, SymbolEntry, Framed, extra
  <2> HIDE DEF blank, head, e, body
  <2>3. QED
    BY <2>1, <2>2
<1> HIDE DEF body
<1>5. head \in Tokens /\ <<head>> \in Seq(Tokens) /\ Len(<<head>>) = 1 /\ <<head>>[1] = head
  BY <1>1, <1>3 DEF Tokens
<1> HIDE DEF head, e
<1>6. e \in Seq(Tokens) /\ Len(e) = 1 + Len(body) /\ e[1] = head
  <2>1. /\ e \in Seq(Tokens) /\ Len(e) = 1 + Len(body)
        /\ \A y \in 1..(1 + Len(body)) :
              e[y] = IF y <= 1 THEN <<head>>[y] ELSE body[y - 1]
    BY <1>3, <1>4, <1>5, JoinFacts
  <2>2. 1 \in 1..(1 + Len(body)) /\ 1 <= 1
    BY <1>3
  <2>3. e[1] = <<head>>[1]
    BY <2>1, <2>2
  <2>4. QED
    BY <1>5, <2>1, <2>3
<1>7. Len(e) \in Nat /\ Len(e) > 0
  BY <1>3, <1>6
<1>8. ReadHead(e, 0) = IF Clear(n) THEN [ok |-> TRUE, value |-> head, pos |-> 1] ELSE Raised
  <2>1. ~(0 >= Len(e)) /\ 0 + 1 = 1
    BY <1>7
  <2>2. "len" \in DOMAIN head /\ <<head.name, head.type>> = <<n, symbols[n]>>
    BY DEF head
  <2>3. Clear(n) <=> <<head.name, head.type>> \notin Cryptic
    BY <2>2 DEF Clear
  <2>4. QED
    BY <1>6, <2>1, <2>2, <2>3 DEF ReadHead
<1>9. head.len = Len(e)
  BY <1>6 DEF head
<1>10. Clear(n) =>
         DeserializeSymbol(e, 0) = EntryEnd(e, [ok |-> TRUE, value |-> head, pos |-> 1], 0)
  <2> SUFFICES ASSUME Clear(n)
               PROVE  DeserializeSymbol(e, 0) =
                        EntryEnd(e, [ok |-> TRUE, value |-> head, pos |-> 1], 0)
    OBVIOUS
  <2> DEFINE r == ReadHead(e, 0)
  <2>1. DeserializeSymbol(e, 0) = IF ~r.ok THEN Raised ELSE EntryEnd(e, r, 0)
    BY DEF DeserializeSymbol
  <2>2. r.ok = TRUE
    BY <1>8
  <2> HIDE DEF r
  <2>3. DeserializeSymbol(e, 0) = EntryEnd(e, r, 0)
    BY <2>1, <2>2
  <2>4. QED
    BY <1>8, <2>3 DEF r
<1>14. ~Clear(n) => DeserializeSymbol(e, 0).ok = FALSE
  BY <1>8 DEF DeserializeSymbol, Raised
<1>11. Clear(n) => DeserializeSymbol(e, 0) = [ok |-> TRUE, value |-> head, pos |-> Len(e)]
  <2>1. 0 + 1 = 1 /\ 0 + Len(e) = Len(e) /\ ~(Len(e) > Len(e))
    BY <1>7
  <2>2. QED
    BY <1>6, <1>9, <1>10, <2>1 DEF EntryEnd, Seek
<1>12. head = [len |-> Len(e), name |-> n, type |-> symbols[n]]
  BY <1>6 DEF head
<1>13. QED
  BY <1>6, <1>7, <1>11, <1>12, <1>14 DEF e

(***************************************************************************)
(* The answer to a lookup is cut where it was put together: each name gets *)
(* what the PLC has of it, if that can be decoded, whatever the others of  *)
(* the batch are.                                                          *)
(***************************************************************************)
LEMMA LookupFacts ==
    ASSUME SymbolsOK, NEW q \in Seq(Names)
    PROVE  /\ Fits(Entries(q), Lengths(q))
           /\ \A i \in DOMAIN q :
                IF Clear(q[i])
                THEN Described(q[i], Cut(Entries(q), Lengths(q))[i]) =
                        [ok |-> TRUE, value |-> Info(q[i])]
                ELSE Described(q[i], Cut(Entries(q), Lengths(q))[i]).ok = FALSE
<1> DEFINE part(i) == IF symbols[q[i]] = NoType THEN <<>> ELSE Entry(q[i])
           parts == [i \in DOMAIN q |-> part(i)]
           n == Len(q)
<1>1. n \in Nat /\ DOMAIN q = 1..n /\ \A i \in 1..n : q[i] \in Names
  BY LenProperties, ElementOfSeq
<1>2. ASSUME NEW i \in 1..n
      PROVE  /\ parts[i] = part(i) /\ parts[i] \in Seq(Tokens)
             /\ Lengths(q)[i] = Len(parts[i])
  <2>1. q[i] \in Names /\ i \in DOMAIN q
    BY <1>1
  <2>2. CASE symbols[q[i]] = NoType
    <3>1. <<>> \in Seq(Tokens) /\ Len(<<>>) = 0
      BY EmptySeq
    <3>2. QED
      BY <2>1, <2>2, <3>1 DEF Lengths
  <2>3. CASE symbols[q[i]] # NoType
    <3>1. Entry(q[i]) \in Seq(Tokens)
      BY <2>1, <2>3, EntryFacts
    <3>2. QED
      BY <2>1, <2>3, <3>1 DEF Lengths
  <2>4. QED
    BY <2>2, <2>3
<1>3. parts \in [1..n -> Seq(Tokens)]
  BY <1>1, <1>2
<1>4. Lengths(q) = [i \in 1..n |-> Len(parts[i])] /\ DOMAIN Lengths(q) = 1..n
  BY <1>1, <1>2 DEF Lengths
<1>5. Entries(q) = FlattenSeq(parts)
  BY DEF Entries
<1> HIDE DEF parts, n
<1>6. /\ FlattenSeq(parts) \in Seq(Tokens)
      /\ Len(FlattenSeq(parts)) = Before(Lengths(q), n + 1)
      /\ \A i \in 1..n :
            SubStream(FlattenSeq(parts), Before(Lengths(q), i), Lengths(q)[i]) = parts[i]
  <2> DEFINE lens == Lengths(q)
             bytes == Tokens
  <2>1. /\ n \in Nat /\ parts \in [1..n -> Seq(bytes)]
        /\ lens \in [1..n -> Nat] /\ \A i \in 1..n : lens[i] = Len(parts[i])
    <3>1. \A i \in 1..n : Len(parts[i]) \in Nat
      BY <1>2, LenProperties
    <3>2. QED
      BY <1>1, <1>3, <1>4, <3>1
  <2> HIDE DEF lens, bytes
  <2>2. /\ FlattenSeq(parts) \in Seq(bytes)
        /\ Len(FlattenSeq(parts)) = Before(lens, n + 1)
        /\ \A i \in 1..n : SubStream(FlattenSeq(parts), Before(lens, i), lens[i]) = parts[i]
    BY ONLY <2>1, FlattenFacts
  <2>3. QED
    BY <2>2 DEF lens, bytes
<1>7. Fits(Entries(q), Lengths(q))
  <2>1. Lengths(q) \in Seq(Nat) /\ Len(Lengths(q)) = n
    <3>1. \A i \in 1..n : Len(parts[i]) \in Nat
      BY <1>2, LenProperties
    <3>2. Lengths(q) \in [1..n -> Nat]
      BY <1>4, <3>1
    <3>3. Len(Lengths(q)) = n
      BY <1>1, <3>2, BeforeFacts
    <3>4. QED
      BY <1>1, <3>2, <3>3
  <2>2. Len(FlattenSeq(parts)) \in Nat
    BY <1>6, LenProperties
  <2>3. QED
    BY <1>5, <1>6, <2>1, <2>2 DEF Fits
<1>8. ASSUME NEW i \in 1..n
      PROVE  IF Clear(q[i])
             THEN Described(q[i], Cut(Entries(q), Lengths(q))[i]) =
                    [ok |-> TRUE, value |-> Info(q[i])]
             ELSE Described(q[i], Cut(Entries(q), Lengths(q))[i]).ok = FALSE
  <2>1. Cut(Entries(q), Lengths(q))[i] = part(i)
    BY <1>2, <1>4, <1>5, <1>6 DEF Cut
  <2>2. q[i] \in Names
    BY <1>1
  <2>3. CASE symbols[q[i]] = NoType
    BY <2>1, <2>3 DEF Described, Info, Clear
  <2>6. CASE symbols[q[i]] # NoType /\ ~Clear(q[i])
    <3>1. DeserializeSymbol(Entry(q[i]), 0).ok = FALSE
      BY <2>2, <2>6, EntryFacts
    <3>2. part(i) = Entry(q[i])
      BY <2>6
    <3>3. QED
      BY <2>1, <2>6, <3>1, <3>2 DEF Described, Raised
  <2>4. CASE symbols[q[i]] # NoType /\ Clear(q[i])
    <3>1. /\ DeserializeSymbol(Entry(q[i]), 0).ok
          /\ DeserializeSymbol(Entry(q[i]), 0).value.name = q[i]
          /\ DeserializeSymbol(Entry(q[i]), 0).value.type = symbols[q[i]]
      <4>1. DeserializeSymbol(Entry(q[i]), 0) =
                [ok |-> TRUE, pos |-> Len(Entry(q[i])),
                 value |-> [len |-> Len(Entry(q[i])), name |-> q[i], type |-> symbols[q[i]]]]
        BY <2>2, <2>4, EntryFacts
      <4>2. QED
        BY <4>1
    <3>2. part(i) = Entry(q[i])
      BY <2>4
    <3>3. QED
      BY <2>1, <2>4, <3>1, <3>2 DEF Described, Info
  <2>5. QED
    BY <2>3, <2>4, <2>6
<1>9. QED
  BY <1>1, <1>7, <1>8

(***************************************************************************)
(* So is the answer to a sum read: each command gets the bytes at its      *)
(* address, or the filler if it was refused.                               *)
(***************************************************************************)
LEMMA DataFacts ==
    ASSUME SymbolsOK, NEW q \in Seq(Names), NEW F,
           \A i \in DOMAIN q : infos[q[i]] \in [err : {"ok"}, sym : {q[i]}, type : Types]
    PROVE  /\ Fits(Data(q, F), Asked(q))
           /\ Results(q, F, Data(q, F)) =
                [i \in DOMAIN q |->
                    [err |-> IF q[i] \in F THEN "failed" ELSE "ok",
                     data |-> IF q[i] \in F THEN Filler(Length(q[i])) ELSE AtAddress(q[i])]]
           /\ Results(q, F, Data(q, F)) \in Seq([err : {"ok", "failed"}, data : Seq(Byte)])
           /\ Len(Results(q, F, Data(q, F))) = Len(q)
<1> DEFINE part(i) == IF q[i] \in F THEN Filler(Length(q[i])) ELSE AtAddress(q[i])
           parts == [i \in DOMAIN q |-> part(i)]
           n == Len(q)
           result == Results(q, F, Data(q, F))
<1>1. n \in Nat /\ DOMAIN q = 1..n /\ \A i \in 1..n : q[i] \in Names
  BY LenProperties, ElementOfSeq
<1>2. ASSUME NEW i \in 1..n
      PROVE  /\ parts[i] = part(i) /\ parts[i] \in Seq(Byte)
             /\ Asked(q)[i] = Len(parts[i])
  <2>1. q[i] \in Names /\ i \in DOMAIN q
    BY <1>1
  <2>2. infos[q[i]].sym = q[i] /\ infos[q[i]].type \in Types
    BY <2>1
  <2>3. Length(q[i]) \in Nat /\ Asked(q)[i] = Length(q[i])
    BY <2>1, <2>2, ParserAssumption DEF ParserAssumption, Length, Asked
  <2>4. Filler(Length(q[i])) \in Seq(Byte) /\ Len(Filler(Length(q[i]))) = Length(q[i])
    <3>1. Filler(Length(q[i])) \in [1..Length(q[i]) -> Byte]
      BY <2>3 DEF Filler, Byte
    <3>2. QED
      BY <2>3, <3>1
  <2>5. AtAddress(q[i]) \in Seq(Byte) /\ Len(AtAddress(q[i])) = Length(q[i])
    <3>1. CASE symbols[q[i]] = infos[q[i]].type
      <4>1. AtAddress(q[i]) = Bytes(q[i], infos[q[i]].type)
        BY <2>2, <3>1 DEF AtAddress, Memory
      <4>2. AtAddress(q[i]) \in [1..Length(q[i]) -> Byte]
        BY <2>1, <2>3, <4>1 DEF Bytes, Byte, Length
      <4>3. QED
        BY <2>3, <4>2
    <3>2. CASE symbols[q[i]] # infos[q[i]].type
      BY <2>2, <2>4, <3>2 DEF AtAddress
    <3>3. QED
      BY <3>1, <3>2
  <2>6. QED
    BY <2>1, <2>3, <2>4, <2>5
<1>3. parts \in [1..n -> Seq(Byte)]
  BY <1>1, <1>2
<1>4. Asked(q) = [i \in 1..n |-> Len(parts[i])] /\ DOMAIN Asked(q) = 1..n
  BY <1>1, <1>2 DEF Asked
<1>5. Data(q, F) = FlattenSeq(parts)
  BY DEF Data
<1> HIDE DEF parts, n, result
<1>6. /\ FlattenSeq(parts) \in Seq(Byte)
      /\ Len(FlattenSeq(parts)) = Before(Asked(q), n + 1)
      /\ \A i \in 1..n :
            SubStream(FlattenSeq(parts), Before(Asked(q), i), Asked(q)[i]) = parts[i]
  <2> DEFINE lens == Asked(q)
             bytes == Byte
  <2>1. /\ n \in Nat /\ parts \in [1..n -> Seq(bytes)]
        /\ lens \in [1..n -> Nat] /\ \A i \in 1..n : lens[i] = Len(parts[i])
    <3>1. \A i \in 1..n : Len(parts[i]) \in Nat
      BY <1>2, LenProperties
    <3>2. QED
      BY <1>1, <1>3, <1>4, <3>1
  <2> HIDE DEF lens, bytes
  <2>2. /\ FlattenSeq(parts) \in Seq(bytes)
        /\ Len(FlattenSeq(parts)) = Before(lens, n + 1)
        /\ \A i \in 1..n : SubStream(FlattenSeq(parts), Before(lens, i), lens[i]) = parts[i]
    BY ONLY <2>1, FlattenFacts
  <2>3. QED
    BY <2>2 DEF lens, bytes
<1>7. Fits(Data(q, F), Asked(q))
  <2>1. Len(Asked(q)) = n
    <3>1. \A i \in 1..n : Len(parts[i]) \in Nat
      BY <1>2, LenProperties
    <3>2. Asked(q) \in [1..n -> Nat]
      BY <1>4, <3>1
    <3>3. QED
      BY <1>1, <3>2, BeforeFacts
  <2>2. Len(FlattenSeq(parts)) \in Nat
    BY <1>6, LenProperties
  <2>3. QED
    BY <1>5, <1>6, <2>1, <2>2 DEF Fits
<1>8. ASSUME NEW i \in DOMAIN q
      PROVE  result[i] = [err |-> IF q[i] \in F THEN "failed" ELSE "ok", data |-> part(i)]
  <2>1. Cut(Data(q, F), Asked(q))[i] = part(i)
    BY <1>1, <1>2, <1>4, <1>5, <1>6 DEF Cut
  <2>2. QED
    BY <2>1 DEF result, Results
<1>9. DOMAIN result = 1..n /\ result = [i \in DOMAIN q |-> result[i]]
  BY <1>1 DEF result, Results
<1>10. result \in [1..n -> [err : {"ok", "failed"}, data : Seq(Byte)]]
  <2>1. \A i \in 1..n : part(i) \in Seq(Byte)
    BY <1>2
  <2>2. ASSUME NEW i \in 1..n
        PROVE  result[i] \in [err : {"ok", "failed"}, data : Seq(Byte)]
    <3> DEFINE s == part(i)
               r == result[i]
    <3>1. s \in Seq(Byte) /\ i \in DOMAIN q
      BY <1>1, <2>1
    <3>2. r = [err |-> IF q[i] \in F THEN "failed" ELSE "ok", data |-> s]
      BY <1>8, <3>1
    <3> HIDE DEF s, r
    <3>3. r \in [err : {"ok", "failed"}, data : Seq(Byte)]
      BY <3>1, <3>2
    <3>4. QED
      BY <3>3 DEF r
  <2>3. QED
    BY <1>1, <1>9, <2>2
<1>11. /\ result \in Seq([err : {"ok", "failed"}, data : Seq(Byte)])
       /\ Len(result) = n
  <2> DEFINE R == [err : {"ok", "failed"}, data : Seq(Byte)]
  <2>1. result \in [1..n -> R]
    BY <1>10
  <2> HIDE DEF R
  <2>2. result \in Seq(R) /\ DOMAIN result = 1..n
    BY <1>1, <2>1
  <2>3. Len(result) = n
    BY <1>1, <2>2, LenProperties
  <2>4. QED
    BY <2>2, <2>3 DEF R
<1>12. result = [i \in DOMAIN q |->
                    [err |-> IF q[i] \in F THEN "failed" ELSE "ok", data |-> part(i)]]
  BY <1>8, <1>9
<1>13. QED
  BY <1>7, <1>11, <1>12 DEF result, n

-----------------------------------------------------------------------------
(***************************************************************************)
(* The tables are sequences, of whatever length: that is all that is       *)
(* needed of them here.                                                    *)
(***************************************************************************)
IsSeq(x) == \E S : x \in Seq(S)

LEMMA SeqLength ==
    ASSUME NEW x, IsSeq(x)
    PROVE  Len(x) \in Nat
BY LenProperties DEF IsSeq

LEMMA JoinIsSeq ==
    ASSUME NEW x, IsSeq(x), NEW y, IsSeq(y)
    PROVE  IsSeq(x \o y)
<1>1. PICK S : x \in Seq(S)
  BY DEF IsSeq
<1>2. PICK R : y \in Seq(R)
  BY DEF IsSeq
<1>3. x \in Seq(S \cup R) /\ y \in Seq(S \cup R)
  BY <1>1, <1>2
<1>4. x \o y \in Seq(S \cup R)
  BY <1>3, ConcatProperties
<1>5. QED
  BY <1>4 DEF IsSeq

LEMMA FlatIsSeq ==
    ASSUME NEW n \in Nat, NEW parts, DOMAIN parts = 1..n, parts = [i \in 1..n |-> parts[i]],
           \A i \in 1..n : IsSeq(parts[i])
    PROVE  IsSeq(FlattenSeq(parts))
BY FlatLength DEF IsSeq

(***************************************************************************)
(* The list of a finite set has each of its elements once.                 *)
(***************************************************************************)
LEMMA ListedFacts ==
    ASSUME NEW S, IsFiniteSet(S), NEW q, q = SetToSeq(S)
    PROVE  /\ q \in Seq(S)
           /\ \A i, j \in DOMAIN q : q[i] = q[j] => i = j
           /\ \A x \in S : \E i \in DOMAIN q : q[i] = x
<1> DEFINE n == Cardinality(S)
<1>1. n \in Nat
  BY FS_CardinalityType
<1>2. PICK f : f \in Bijection(1..n, S)
  BY FS_CardinalityType DEF ExistsBijection
<1>3. f \in [1..n -> S] /\ IsInjective(f)
  BY <1>2 DEF Bijection, Injection, IsInjective
<1>4. q \in [1..n -> S] /\ IsInjective(q)
  BY <1>3 DEF SetToSeq
<1> HIDE DEF n
<1>5. q \in Seq(S) /\ \A i, j \in DOMAIN q : q[i] = q[j] => i = j
  BY <1>1, <1>4 DEF IsInjective
<1>6. q \in Injection(1..n, S)
  BY <1>4 DEF Injection, IsInjective
<1>7. IsFiniteSet(1..n) /\ Cardinality(1..n) = n
  BY <1>1, FS_Interval
<1>8. q \in Surjection(1..n, S)
  BY <1>6, <1>7, FS_Injection DEF n
<1>9. \A x \in S : \E i \in DOMAIN q : q[i] = x
  BY <1>4, <1>8 DEF Surjection
<1>10. QED
  BY <1>5, <1>9

LEMMA SymbolTableIsSeq ==
    ASSUME SymbolsOK
    PROVE  IsSeq(SymbolTable)
<1> DEFINE S == {n \in Names : symbols[n] # NoType}
           parts == [i \in DOMAIN Known |-> Entry(Known[i])]
           n == Len(Known)
<1>1. IsFiniteSet(S)
  BY FS_Subset, ClientAssumption DEF ClientAssumption
<1>2. Known \in Seq(S)
  <2> HIDE DEF S
  <2>1. SetToSeq(S) \in Seq(S)
    BY <1>1, ListedFacts
  <2>2. QED
    BY <2>1 DEF Known, S
<1>3. n \in Nat /\ DOMAIN Known = 1..n /\ \A i \in 1..n : Known[i] \in S
  BY <1>2, LenProperties, ElementOfSeq
<1> HIDE DEF n
<1>4. ASSUME NEW i \in 1..n PROVE IsSeq(parts[i])
  <2>1. Known[i] \in Names /\ symbols[Known[i]] # NoType /\ i \in DOMAIN Known
    BY <1>3
  <2>2. Entry(Known[i]) \in Seq(Tokens)
    BY <2>1, EntryFacts
  <2>3. QED
    BY <2>1, <2>2 DEF IsSeq
<1>5. DOMAIN parts = 1..n /\ parts = [i \in 1..n |-> parts[i]]
  BY <1>3
<1> HIDE DEF parts
<1>6. IsSeq(FlattenSeq(parts))
  BY <1>3, <1>4, <1>5, FlatIsSeq
<1>7. QED
  BY <1>6 DEF SymbolTable, parts

LEMMA NoneFacts ==
    /\ DOMAIN NoResults = {}
    /\ \A S : <<>> \in Seq(S)
    /\ Len(<<>>) = 0 /\ DOMAIN <<>> = {} /\ ToSet(<<>>) = {} /\ IsInjective(<<>>)
<1>1. DOMAIN NoResults = {}
  BY DEF NoResults
<1>2. \A S : <<>> \in Seq(S)
  OBVIOUS
<1>3. Len(<<>>) = 0 /\ DOMAIN <<>> = {}
  BY EmptySeq
<1>4. QED
  BY <1>1, <1>2, <1>3 DEF ToSet, IsInjective

(***************************************************************************)
(* Of parts that are not empty, those that follow begin further on.        *)
(***************************************************************************)
LEMMA BeforeRises ==
    ASSUME NEW n \in Nat, NEW lens \in [1..n -> Nat], \A i \in 1..n : lens[i] > 0
    PROVE  \A i, k \in 1..(n + 1) : i <= k => Before(lens, i) + (k - i) <= Before(lens, k)
<1>1. /\ \A i \in 1..n : Before(lens, i + 1) = Before(lens, i) + lens[i]
      /\ \A i \in 1..(n + 1) : Before(lens, i) \in Nat
  BY BeforeFacts
<1>2. SUFFICES ASSUME NEW i \in 1..(n + 1)
               PROVE  \A k \in 1..(n + 1) : i <= k => Before(lens, i) + (k - i) <= Before(lens, k)
  OBVIOUS
<1> DEFINE T == {d \in Nat : i + d <= n + 1 => Before(lens, i) + d <= Before(lens, i + d)}
<1>3. 0 \in T
  <2>1. i + 0 = i /\ Before(lens, i) + 0 <= Before(lens, i)
    BY <1>1
  <2>2. QED
    BY <2>1
<1>4. ASSUME NEW d \in Nat, d \in T PROVE d + 1 \in T
  <2>1. SUFFICES ASSUME i + (d + 1) <= n + 1
                 PROVE  Before(lens, i) + (d + 1) <= Before(lens, i + (d + 1))
    OBVIOUS
  <2>2. i + d \in 1..n /\ i + d \in 1..(n + 1) /\ (i + d) + 1 = i + (d + 1) /\ i + d <= n + 1
    BY <2>1
  <2>3. Before(lens, i) + d <= Before(lens, i + d)
    BY <1>4, <2>2
  <2>4. Before(lens, i + (d + 1)) = Before(lens, i + d) + lens[i + d] /\ lens[i + d] > 0
        /\ lens[i + d] \in Nat
    BY <1>1, <2>2
  <2>5. Before(lens, i) \in Nat /\ Before(lens, i + d) \in Nat
    BY <1>1, <2>2
  <2> DEFINE x == Before(lens, i)
             y == Before(lens, i + d)
             z == Before(lens, i + (d + 1))
             l == lens[i + d]
  <2>7. x + d <= y /\ z = y + l /\ l > 0 /\ l \in Nat /\ x \in Nat /\ y \in Nat /\ d \in Nat
    BY <2>3, <2>4, <2>5
  <2> HIDE DEF x, y, z, l
  <2>8. x + (d + 1) <= z
    BY ONLY <2>7
  <2>6. QED
    BY <2>8 DEF x, z
<1>5. Nat \subseteq T
  <2> HIDE DEF T
  <2>1. QED
    BY <1>3, <1>4, SetInduction
<1>6. ASSUME NEW k \in 1..(n + 1), i <= k
      PROVE  Before(lens, i) + (k - i) <= Before(lens, k)
  <2>1. k - i \in Nat /\ i + (k - i) = k /\ k <= n + 1
    BY <1>6
  <2>2. k - i \in T
    BY <1>5, <2>1
  <2>3. QED
    BY <2>1, <2>2
<1>7. QED
  BY <1>6

(***************************************************************************)
(* A list of the first values, and how it is extended by the next.         *)
(***************************************************************************)
First(j, values) == [i \in 1..j |-> values[i]]

LEMMA NextFacts ==
    ASSUME NEW values, NEW j \in Nat, NEW acc, acc = First(j, values),
           NEW e, e = values[j + 1]
    PROVE  Append(acc, e) = First(j + 1, values)
<1> DEFINE S == {values[i] : i \in 1..(j + 1)}
<1>1. acc \in Seq(S) /\ e \in S /\ Len(acc) = j
  <2>1. \A i \in 1..j : values[i] \in S
    OBVIOUS
  <2>2. acc \in [1..j -> S]
    BY <2>1 DEF First
  <2>3. acc \in Seq(S) /\ DOMAIN acc = 1..j
    BY <2>2
  <2>4. DOMAIN acc = 1..Len(acc) /\ Len(acc) \in Nat
    BY <2>3, LenProperties
  <2>5. Len(acc) = j
    BY <2>3, <2>4
  <2>6. QED
    BY <2>3, <2>5
<1> HIDE DEF S
<1>2. /\ Append(acc, e) \in Seq(S) /\ Len(Append(acc, e)) = j + 1
      /\ \A i \in 1..j : Append(acc, e)[i] = acc[i]
      /\ Append(acc, e)[j + 1] = e
  BY <1>1, AppendProperties
<1> DEFINE a == Append(acc, e)
<1>3. a = [i \in 1..(j + 1) |-> a[i]]
  <2> HIDE DEF a
  <2>1. a \in Seq(S) /\ Len(a) = j + 1
    BY <1>2 DEF a
  <2>2. QED
    BY <2>1
<1>4. ASSUME NEW i \in 1..(j + 1) PROVE a[i] = values[i]
  <2>1. i \in 1..j \/ i = j + 1
    OBVIOUS
  <2>2. \A x \in 1..j : acc[x] = values[x]
    BY DEF First
  <2>3. QED
    BY <1>2, <2>1, <2>2
<1> HIDE DEF a
<1>5. QED
  BY <1>3, <1>4 DEF a, First

(***************************************************************************)
(* What is read, with the cursor behind it; or nothing is.                 *)
(***************************************************************************)
ReadAs(r, v, p) == r = [ok |-> TRUE, value |-> v, pos |-> p]

Raises(r) == r.ok = FALSE

HasEntries(kind, s, size, n, lens, values) ==
    \A i \in 1..n : Before(lens, i) < size =>
        LET r == Deserialize(kind, s, Before(lens, i))
        IN  \/ Before(lens, i + 1) <= size /\ ReadAs(r, values[i], Before(lens, i + 1))
            \/ Raises(r)

NoneRaises(kind, s, n, lens) == \A i \in 1..n : ~Raises(Deserialize(kind, s, Before(lens, i)))

(***************************************************************************)
(* An upload of entries that are read as values or raise: if it succeeds   *)
(* it has the first of them, none of which raises, and it has all of them  *)
(* if it is asked for as much and none raises.                             *)
(***************************************************************************)
LEMMA UploadFacts ==
    ASSUME NEW kind, NEW s, NEW size \in Nat, Len(s) = size,
           NEW n \in Nat, NEW lens \in [1..n -> Nat], \A i \in 1..n : lens[i] > 0,
           size <= Before(lens, n + 1), NEW values, HasEntries(kind, s, size, n, lens, values)
    PROVE  /\ Upload(kind, s, size).ok \in BOOLEAN
           /\ size = Before(lens, n + 1) /\ NoneRaises(kind, s, n, lens)
                => Upload(kind, s, size).ok
           /\ Upload(kind, s, size).ok =>
                \E j \in 0..n : /\ Before(lens, j + 1) = size
                                /\ NoneRaises(kind, s, j, lens)
                                /\ Upload(kind, s, size).value = First(j, values)
<1> DEFINE all == size = Before(lens, n + 1) /\ NoneRaises(kind, s, n, lens)
<1> DEFINE step(acc) == IF ~acc.ok \/ acc.pos >= size THEN acc
                        ELSE AppendNext(acc, Deserialize(kind, s, acc.pos))
           Rule(g, k) == g = [i \in 0..k |-> IF i = 0 THEN NoEntries(0) ELSE step(g[i - 1])]
           T == {k \in Nat : \E g : Rule(g, k)}
           read == CHOOSE g : Rule(g, size)
<1>1. /\ \A i \in 1..n : Before(lens, i + 1) = Before(lens, i) + lens[i]
      /\ \A i \in 1..(n + 1) : Before(lens, i) \in Nat
      /\ Before(lens, 1) = 0
      /\ \A i, k \in 1..(n + 1) : i <= k => Before(lens, i) + (k - i) <= Before(lens, k)
  BY BeforeFacts, BeforeRises
<1> HIDE DEF step
<1>2. 0 \in T
  <2>1. Rule([i \in 0..0 |-> NoEntries(0)], 0)
    OBVIOUS
  <2> HIDE DEF Rule
  <2>2. QED
    BY <2>1
<1>3. ASSUME NEW k \in Nat, k \in T PROVE k + 1 \in T
  <2>1. PICK g : Rule(g, k)
    BY <1>3
  <2>2. Rule([i \in 0..(k + 1) |-> IF i = k + 1 THEN step(g[k]) ELSE g[i]], k + 1)
    BY <2>1
  <2> HIDE DEF Rule
  <2>3. QED
    BY <2>2
<1>4. Nat \subseteq T
  <2> HIDE DEF T
  <2>1. QED
    BY <1>2, <1>3, SetInduction
<1>5. Rule(read, size)
  <2>1. \E g : Rule(g, size)
    BY <1>4
  <2>2. QED
    BY <2>1
<1>6. Upload(kind, s, size) = read[size]
  BY DEF Upload, step
<1> HIDE DEF read
<1>7. read[0] = NoEntries(0) /\ \A k \in Nat : k + 1 <= size => read[k + 1] = step(read[k])
  BY <1>5
<1> HIDE DEF Rule
<1> DEFINE Prefix(acc, j) == /\ acc = [ok |-> TRUE, value |-> First(j, values),
                                       pos |-> Before(lens, j + 1)]
                             /\ Before(lens, j + 1) <= size
                             /\ NoneRaises(kind, s, j, lens)
           Right(k) == \/ \E j \in 0..n : /\ Prefix(read[k], j)
                                          /\ j = k \/ Before(lens, j + 1) = size
                       \/ read[k].ok = FALSE /\ ~all
           U == {k \in Nat : k <= size => Right(k)}
<1>8. 0 \in U
  <2>1. Before(lens, 0 + 1) = 0 /\ 0 \in 0..n /\ 0 <= size
    BY <1>1
  <2>2. First(0, values) = <<>>
    BY DEF First
  <2>3. NoneRaises(kind, s, 0, lens)
    BY DEF NoneRaises
  <2>5. read[0] = [ok |-> TRUE, value |-> First(0, values), pos |-> Before(lens, 0 + 1)]
    BY <1>7, <2>1, <2>2 DEF NoEntries
  <2>6. Prefix(read[0], 0)
    BY <2>1, <2>3, <2>5
  <2> HIDE DEF Prefix
  <2>4. QED
    BY <2>1, <2>6
<1>9. ASSUME NEW k \in Nat, k + 1 <= size, Right(k) PROVE Right(k + 1)
  <2> HIDE DEF Prefix, U, all
  <2>2. Right(k) /\ read[k + 1] = step(read[k])
    BY <1>7, <1>9
  <2>3. CASE read[k].ok = FALSE /\ ~all
    <3>1. read[k + 1] = read[k]
      BY <2>2, <2>3 DEF step
    <3>2. QED
      BY <2>3, <3>1
  <2>4. ASSUME NEW j \in 0..n, Prefix(read[k], j), Before(lens, j + 1) = size
        PROVE  Right(k + 1)
    <3>1. read[k].pos >= size
      BY <2>4 DEF Prefix
    <3>2. read[k + 1] = read[k]
      BY <2>2, <3>1 DEF step
    <3>3. QED
      BY <2>4, <3>2
  <2>5. ASSUME NEW j \in 0..n, Prefix(read[k], j), Before(lens, j + 1) # size, j = k
        PROVE  Right(k + 1)
    <3>1. /\ read[k].ok = TRUE /\ read[k].pos = Before(lens, j + 1)
          /\ read[k].value = First(j, values)
          /\ Before(lens, j + 1) <= size
      BY <2>5 DEF Prefix
    <3>2. j + 1 \in 1..(n + 1) /\ n + 1 \in 1..(n + 1) /\ Before(lens, j + 1) \in Nat
      <4>1. j + 1 \in 1..(n + 1) /\ n + 1 \in 1..(n + 1)
        OBVIOUS
      <4>2. QED
        BY <1>1, <4>1
    <3>3. Before(lens, j + 1) < size /\ ~(Before(lens, j + 1) >= size)
      BY <2>5, <3>1, <3>2
    <3>4. j # n
      BY <3>3
    <3>5. j + 1 \in 1..n /\ (j + 1) + 1 \in 1..(n + 1) /\ j + 1 \in 0..n /\ j \in Nat
      BY <3>4
    <3> DEFINE r == Deserialize(kind, s, Before(lens, j + 1))
    <3>6. read[k + 1] = AppendNext(read[k], r)
      BY <2>2, <3>1, <3>3 DEF step
    <3>7. \/ /\ Before(lens, (j + 1) + 1) <= size
             /\ r = [ok |-> TRUE, value |-> values[j + 1], pos |-> Before(lens, (j + 1) + 1)]
          \/ r.ok = FALSE
      BY <3>3, <3>5 DEF ReadAs, Raises, HasEntries
    <3> HIDE DEF r
    <3>8. CASE /\ Before(lens, (j + 1) + 1) <= size
               /\ r = [ok |-> TRUE, value |-> values[j + 1], pos |-> Before(lens, (j + 1) + 1)]
      <4>1. /\ r.ok = TRUE /\ r.value = values[j + 1]
            /\ r = [ok |-> TRUE, value |-> values[j + 1], pos |-> Before(lens, (j + 1) + 1)]
        BY <3>8
      <4>2. read[k + 1] = [r EXCEPT !.value = Append(read[k].value, r.value)]
        BY <3>1, <3>6, <4>1 DEF AppendNext
      <4>3. Append(read[k].value, r.value) = First(j + 1, values)
        <5> DEFINE acc == read[k].value
                   e == r.value
        <5>1. acc = First(j, values) /\ e = values[j + 1] /\ j \in Nat
          BY <3>1, <3>5, <4>1
        <5> HIDE DEF acc, e
        <5>2. Append(acc, e) = First(j + 1, values)
          BY ONLY <5>1, NextFacts
        <5>3. QED
          BY ONLY <5>2 DEF acc, e
      <4> DEFINE w == Append(read[k].value, r.value)
                 q == Before(lens, (j + 1) + 1)
      <4>4. [r EXCEPT !.value = w] = [ok |-> TRUE, value |-> w, pos |-> q]
        <5> DEFINE x == [r EXCEPT !.value = w]
        <5>1. r = [ok |-> TRUE, value |-> values[j + 1], pos |-> q] /\ x = [r EXCEPT !.value = w]
          BY <4>1
        <5> HIDE DEF w, q, x
        <5>2. x = [ok |-> TRUE, value |-> w, pos |-> q]
          BY <5>1
        <5>3. QED
          BY <5>2 DEF x
      <4>7. NoneRaises(kind, s, j + 1, lens)
        <5>1. ASSUME NEW i \in 1..(j + 1) PROVE ~Raises(Deserialize(kind, s, Before(lens, i)))
          <6>1. i \in 1..j \/ i = j + 1
            BY <3>5
          <6>2. NoneRaises(kind, s, j, lens)
            BY <2>5 DEF Prefix
          <6>3. i = j + 1 => Deserialize(kind, s, Before(lens, i)).ok = TRUE
            BY <4>1 DEF r
          <6>4. QED
            BY <6>1, <6>2, <6>3 DEF NoneRaises, Raises
        <5>2. QED
          BY <5>1 DEF NoneRaises
      <4>5. Prefix(read[k + 1], j + 1)
        BY <3>8, <4>2, <4>3, <4>4, <4>7 DEF Prefix
      <4>6. QED
        BY <2>5, <3>5, <4>5
    <3>9. CASE r.ok = FALSE
      <4>2. read[k + 1] = Raised
        BY <3>6, <3>9 DEF AppendNext
      <4>3. ~all
        BY <3>5, <3>9 DEF r, all, NoneRaises, Raises
      <4>4. QED
        BY <4>2, <4>3 DEF Raised
    <3>10. QED
      BY <3>7, <3>8, <3>9
  <2>6. QED
    BY <2>2, <2>3, <2>4, <2>5
<1>10. Right(size)
  <2> HIDE DEF Right
  <2>0. ASSUME NEW k \in Nat, k \in U PROVE k + 1 \in U
    BY <1>9, <2>0
  <2>1. Nat \subseteq U
    <3> HIDE DEF U
    <3>1. QED
      BY <1>8, <2>0, SetInduction
  <2>2. QED
    BY <2>1
<1>11. ASSUME NEW j \in 0..n, Prefix(read[size], j), j = size \/ Before(lens, j + 1) = size
       PROVE  Before(lens, j + 1) = size
  <2>1. 1 \in 1..(n + 1) /\ j + 1 \in 1..(n + 1) /\ 1 <= j + 1
    OBVIOUS
  <2>2. Before(lens, 1) + ((j + 1) - 1) <= Before(lens, j + 1)
    BY <1>1, <2>1
  <2>3. Before(lens, j + 1) <= size /\ Before(lens, j + 1) \in Nat /\ Before(lens, 1) = 0
    BY <1>1, <1>11, <2>1
  <2>4. QED
    BY <1>11, <2>2, <2>3
<1>12. CASE read[size].ok = FALSE /\ ~all
  BY <1>6, <1>12
<1>13. CASE \E j \in 0..n : Prefix(read[size], j) /\ (j = size \/ Before(lens, j + 1) = size)
  <2>1. PICK j \in 0..n : Prefix(read[size], j) /\ (j = size \/ Before(lens, j + 1) = size)
    BY <1>13
  <2>2. Before(lens, j + 1) = size
    BY <1>11, <2>1
  <2>3. /\ read[size].ok = TRUE /\ read[size].value = First(j, values)
        /\ NoneRaises(kind, s, j, lens)
    BY <2>1
  <2>4. QED
    BY <1>6, <2>2, <2>3
<1>14. QED
  BY <1>10, <1>12, <1>13

IsList(parts, n) == parts = [i \in 1..n |-> parts[i]]

LEMMA EndFacts ==
    ASSUME NEW a \in Nat, NEW l \in Nat, NEW b \in Nat, NEW c \in Nat, NEW i \in Nat, NEW n \in Nat,
           b = a + l, b + ((n + 1) - (i + 1)) <= c, i + 1 <= n + 1
    PROVE  a + l <= c
OBVIOUS

(***************************************************************************)
(* Where the parts of a concatenation are, whatever they hold.             *)
(***************************************************************************)
HasParts(parts, n, lens) ==
    /\ n \in Nat /\ IsList(parts, n) /\ lens \in [1..n -> Nat]
    /\ \A i \in 1..n : IsSeq(parts[i]) /\ lens[i] = Len(parts[i]) /\ lens[i] > 0

IsMadeOf(flat, parts, n, lens) ==
    /\ IsSeq(flat) /\ Len(flat) = Before(lens, n + 1)
    /\ \A i \in 1..n :
         /\ Before(lens, i) \in Nat
         /\ Before(lens, i + 1) = Before(lens, i) + lens[i]
         /\ Before(lens, i) + lens[i] <= Before(lens, n + 1)
         /\ \A x \in 1..lens[i] : flat[Before(lens, i) + x] = parts[i][x]

LEMMA PartFacts ==
    ASSUME NEW parts, NEW n, NEW lens, HasParts(parts, n, lens)
    PROVE  IsMadeOf(FlattenSeq(parts), parts, n, lens)
<1> DEFINE S == UNION {ToSet(parts[i]) : i \in 1..n}
           flat == FlattenSeq(parts)
<1>0. /\ n \in Nat /\ IsList(parts, n) /\ lens \in [1..n -> Nat]
      /\ \A i \in 1..n : IsSeq(parts[i]) /\ lens[i] = Len(parts[i]) /\ lens[i] > 0
  BY DEF HasParts
<1>1. ASSUME NEW i \in 1..n PROVE parts[i] \in Seq(S)
  <2>1. PICK R : parts[i] \in Seq(R)
    BY <1>0 DEF IsSeq
  <2>2. \A j \in DOMAIN parts[i] : parts[i][j] \in S
    BY <1>0 DEF ToSet
  <2> HIDE DEF S
  <2>3. parts[i] \in [1..Len(parts[i]) -> R] /\ Len(parts[i]) \in Nat
    BY <2>1, LenProperties
  <2>4. QED
    BY <2>2, <2>3
<1> HIDE DEF S
<1>2. parts \in [1..n -> Seq(S)]
  BY <1>0, <1>1 DEF IsList
<1>3. /\ flat \in Seq(S) /\ Len(flat) = Before(lens, n + 1)
      /\ \A i \in 1..n : SubStream(flat, Before(lens, i), lens[i]) = parts[i]
  BY <1>0, <1>2, FlattenFacts
<1>4. /\ \A i \in 1..n : Before(lens, i + 1) = Before(lens, i) + lens[i]
      /\ \A i \in 1..(n + 1) : Before(lens, i) \in Nat
      /\ \A i, k \in 1..(n + 1) : i <= k => Before(lens, i) + (k - i) <= Before(lens, k)
  BY <1>0, BeforeFacts, BeforeRises
<1> HIDE DEF flat
<1>5. ASSUME NEW i \in 1..n
      PROVE  /\ Before(lens, i) \in Nat
             /\ Before(lens, i) + lens[i] <= Before(lens, n + 1)
             /\ \A x \in 1..lens[i] : flat[Before(lens, i) + x] = parts[i][x]
  <2>1. i \in 1..(n + 1) /\ i + 1 \in 1..(n + 1) /\ n + 1 \in 1..(n + 1) /\ i + 1 <= n + 1
    BY <1>0
  <2>2. /\ Before(lens, i) \in Nat /\ Before(lens, i + 1) \in Nat /\ Before(lens, n + 1) \in Nat
        /\ lens[i] \in Nat /\ Before(lens, i + 1) = Before(lens, i) + lens[i]
    BY <1>0, <1>4, <2>1
  <2>3. Before(lens, i + 1) + ((n + 1) - (i + 1)) <= Before(lens, n + 1)
    BY <1>4, <2>1
  <2>4. Before(lens, i) + lens[i] <= Before(lens, n + 1)
    <3>1. i \in Nat /\ n \in Nat
      BY <1>0
    <3>2. QED
      BY ONLY <2>1, <2>2, <2>3, <3>1, EndFacts
  <2>5. /\ SubSeq(flat, Before(lens, i) + 1, Before(lens, i) + lens[i]) = parts[i]
        /\ \A x \in 1..lens[i] :
              SubSeq(flat, Before(lens, i) + 1, Before(lens, i) + lens[i])[x]
                = flat[Before(lens, i) + x]
    <3>1. Before(lens, i) + lens[i] <= Len(flat)
      BY <1>3, <2>4
    <3>2. \A x \in 1..lens[i] :
              SubSeq(flat, Before(lens, i) + 1, Before(lens, i) + lens[i])[x]
                = flat[Before(lens, i) + x]
      <4>1. flat \in Seq(S) /\ Before(lens, i) \in Nat /\ lens[i] \in Nat
        BY <1>3, <2>2
      <4>2. QED
        BY ONLY <3>1, <4>1, SubFacts
    <3>3. QED
      BY <1>3, <3>2 DEF SubStream
  <2>6. QED
    BY <2>2, <2>4, <2>5
<1>6. IsSeq(flat)
  BY <1>3 DEF IsSeq
<1>7. QED
  BY <1>3, <1>4, <1>5, <1>6 DEF flat, IsMadeOf

(***************************************************************************)
(* A header that the cursor is at.                                         *)
(***************************************************************************)
LEMMA HeadFacts ==
    ASSUME NEW s, NEW p \in Nat, Len(s) \in Nat, p < Len(s), "len" \in DOMAIN s[p + 1]
    PROVE  ReadHead(s, p) = IF <<s[p + 1].name, s[p + 1].type>> \in Cryptic THEN Raised
                            ELSE [ok |-> TRUE, value |-> s[p + 1], pos |-> p + 1]
BY DEF ReadHead

(***************************************************************************)
(* A symbol is read wherever its entry is, unless the entry is cut off or  *)
(* cannot be decoded.                                                      *)
(***************************************************************************)
LEMMA SymbolAt ==
    ASSUME SymbolsOK, NEW n \in Names, symbols[n] # NoType,
           NEW s, NEW p \in Nat, Len(s) \in Nat, p < Len(s), s[p + 1] = Entry(n)[1]
    PROVE  IF p + Len(Entry(n)) <= Len(s) /\ Clear(n)
           THEN DeserializeSymbol(s, p) =
                    [ok |-> TRUE, value |-> Entry(n)[1], pos |-> p + Len(Entry(n))]
           ELSE DeserializeSymbol(s, p).ok = FALSE
<1> DEFINE head == Entry(n)[1]
           l == Len(Entry(n))
           r == ReadHead(s, p)
<1>1. /\ "len" \in DOMAIN head /\ head.len = l /\ l \in Nat
      /\ <<head.name, head.type>> = <<n, symbols[n]>>
  <2>1. head = [len |-> Len(Entry(n)), name |-> n, type |-> symbols[n]] /\ Len(Entry(n)) \in Nat
    BY EntryFacts
  <2>2. QED
    BY <2>1
<1>0. r = IF Clear(n) THEN [ok |-> TRUE, value |-> head, pos |-> p + 1] ELSE Raised
  <2>1. r = IF <<head.name, head.type>> \in Cryptic THEN Raised
            ELSE [ok |-> TRUE, value |-> head, pos |-> p + 1]
    BY <1>1, HeadFacts
  <2> HIDE DEF r, head
  <2>2. QED
    BY <1>1, <2>1 DEF Clear
<1>9. CASE ~Clear(n)
  BY <1>0, <1>9 DEF DeserializeSymbol, Raised
<1>10. SUFFICES ASSUME Clear(n)
                PROVE  IF p + l <= Len(s)
                       THEN DeserializeSymbol(s, p) = [ok |-> TRUE, value |-> head, pos |-> p + l]
                       ELSE DeserializeSymbol(s, p).ok = FALSE
  BY <1>9
<1>2. r = [ok |-> TRUE, value |-> head, pos |-> p + 1]
  BY <1>0, <1>10
<1>3. DeserializeSymbol(s, p) = IF ~r.ok THEN Raised ELSE EntryEnd(s, r, p)
  BY DEF DeserializeSymbol
<1> HIDE DEF r, head, l
<1>4. r.ok = TRUE
  BY <1>2
<1>5. DeserializeSymbol(s, p) = Seek(s, r, p + l)
  BY <1>1, <1>3, <1>4 DEF EntryEnd, head
<1>6. CASE p + l <= Len(s)
  <2> DEFINE x == [r EXCEPT !.pos = p + l]
             q == p + l
  <2>1. DeserializeSymbol(s, p) = x /\ x = [r EXCEPT !.pos = q]
    BY <1>1, <1>4, <1>5, <1>6 DEF Seek
  <2> HIDE DEF x, q
  <2>2. x = [ok |-> TRUE, value |-> head, pos |-> q]
    BY <1>2, <2>1
  <2>3. QED
    BY <1>6, <2>1, <2>2 DEF q, l, head
<1>7. CASE ~(p + l <= Len(s))
  <2>1. DeserializeSymbol(s, p) = Raised
    BY <1>1, <1>5, <1>7 DEF Seek
  <2>2. QED
    BY <1>7, <2>1 DEF Raised, l
<1>8. QED
  BY <1>6, <1>7 DEF l

(***************************************************************************)
(* The upload of the symbol table, of which s is a beginning: what it has  *)
(* are symbols of the PLC, and all of them if s is the whole table.        *)
(***************************************************************************)
LEMMA SymbolsUploaded ==
    ASSUME SymbolsOK, NEW s, NEW size \in Nat, Len(s) = size, size <= Len(SymbolTable),
           \A x \in 1..size : s[x] = SymbolTable[x],
           NEW u, u = Upload("symbols", s, size)
    PROVE  /\ size = Len(SymbolTable) /\ (\A m \in Names : Clear(m)) => u.ok
           /\ u.ok => /\ ToSet(SymbolsIn(u.value)) \subseteq ToSet(TheSymbols(Known))
                      /\ size = Len(SymbolTable) => SymbolsIn(u.value) = TheSymbols(Known)
<1> DEFINE S == {m \in Names : symbols[m] # NoType}
           parts == [i \in DOMAIN Known |-> Entry(Known[i])]
           n == Len(Known)
           lens == [i \in 1..n |-> Len(Entry(Known[i]))]
           values == [i \in 1..n |-> Entry(Known[i])[1]]
<1>1. IsFiniteSet(S)
  BY FS_Subset, ClientAssumption DEF ClientAssumption
<1>2. Known \in Seq(S)
  <2> HIDE DEF S
  <2>1. SetToSeq(S) \in Seq(S)
    BY <1>1, ListedFacts
  <2>2. QED
    BY <2>1 DEF Known, S
<1>3. n \in Nat /\ DOMAIN Known = 1..n /\ \A i \in 1..n : Known[i] \in S
  BY <1>2, LenProperties, ElementOfSeq
<1> HIDE DEF n
<1>4. ASSUME NEW i \in 1..n
      PROVE  /\ Known[i] \in Names /\ symbols[Known[i]] # NoType
             /\ parts[i] = Entry(Known[i]) /\ IsSeq(parts[i])
             /\ lens[i] = Len(parts[i]) /\ lens[i] \in Nat /\ lens[i] > 0
             /\ values[i] = parts[i][1]
             /\ values[i] = [len |-> lens[i], name |-> Known[i], type |-> symbols[Known[i]]]
  <2>1. Known[i] \in Names /\ symbols[Known[i]] # NoType /\ i \in DOMAIN Known
    BY <1>3
  <2>2. /\ parts[i] = Entry(Known[i]) /\ lens[i] = Len(Entry(Known[i]))
        /\ values[i] = Entry(Known[i])[1]
    BY <2>1
  <2>3. /\ Entry(Known[i]) \in Seq(Tokens)
        /\ Len(Entry(Known[i])) \in Nat /\ Len(Entry(Known[i])) > 0
        /\ Entry(Known[i])[1] =
              [len |-> Len(Entry(Known[i])), name |-> Known[i], type |-> symbols[Known[i]]]
    BY <2>1, EntryFacts
  <2> HIDE DEF parts, lens, values
  <2>4. IsSeq(parts[i])
    BY <2>2, <2>3 DEF IsSeq
  <2>5. QED
    BY <2>1, <2>2, <2>3, <2>4
<1>5. lens \in [1..n -> Nat]
  BY <1>4
<1>6. IsList(parts, n)
  BY <1>3 DEF IsList
<1>7. SymbolTable = FlattenSeq(parts)
  BY DEF SymbolTable
<1> HIDE DEF parts, lens, values
<1>8. /\ Len(SymbolTable) = Before(lens, n + 1)
      /\ \A i \in 1..n :
            /\ Before(lens, i) \in Nat
            /\ Before(lens, i + 1) = Before(lens, i) + lens[i]
            /\ Before(lens, i) + lens[i] <= Before(lens, n + 1)
            /\ \A x \in 1..lens[i] : SymbolTable[Before(lens, i) + x] = parts[i][x]
  <2>1. HasParts(parts, n, lens)
    BY <1>3, <1>4, <1>5, <1>6 DEF HasParts
  <2>2. QED
    BY <1>7, <2>1, PartFacts DEF IsMadeOf
<1>9. ASSUME NEW i \in 1..n, Before(lens, i) < size
      PROVE  IF Before(lens, i + 1) <= size /\ Clear(Known[i])
             THEN ReadAs(Deserialize("symbols", s, Before(lens, i)), values[i],
                         Before(lens, i + 1))
             ELSE Raises(Deserialize("symbols", s, Before(lens, i)))
  <2> DEFINE b == Before(lens, i)
  <2>1. b \in Nat /\ Before(lens, i + 1) = b + lens[i] /\ b < Len(s) /\ Len(s) \in Nat
    BY <1>8, <1>9
  <2>2. s[b + 1] = Entry(Known[i])[1]
    <3>1. 1 \in 1..lens[i] /\ b + 1 \in 1..size
      <4>1. lens[i] \in Nat /\ lens[i] > 0
        BY <1>4
      <4>2. QED
        BY <1>9, <2>1, <4>1
    <3>2. SymbolTable[b + 1] = parts[i][1]
      BY <1>8, <3>1
    <3>3. QED
      BY <1>4, <3>1, <3>2
  <2>3. Deserialize("symbols", s, b) = DeserializeSymbol(s, b)
    BY DEF Deserialize
  <2> HIDE DEF b
  <2>4. IF b + Len(Entry(Known[i])) <= Len(s) /\ Clear(Known[i])
        THEN DeserializeSymbol(s, b) =
                [ok |-> TRUE, value |-> Entry(Known[i])[1], pos |-> b + Len(Entry(Known[i]))]
        ELSE DeserializeSymbol(s, b).ok = FALSE
    <3> DEFINE m == Known[i]
    <3>1. /\ m \in Names /\ symbols[m] # NoType /\ SymbolsOK
          /\ b \in Nat /\ Len(s) \in Nat /\ b < Len(s) /\ s[b + 1] = Entry(m)[1]
      BY <1>4, <2>1, <2>2
    <3> HIDE DEF m
    <3>2. IF b + Len(Entry(m)) <= Len(s) /\ Clear(m)
          THEN DeserializeSymbol(s, b) =
                  [ok |-> TRUE, value |-> Entry(m)[1], pos |-> b + Len(Entry(m))]
          ELSE DeserializeSymbol(s, b).ok = FALSE
      BY ONLY <3>1, SymbolAt
    <3>3. QED
      BY <3>2 DEF m
  <2>5. Len(Entry(Known[i])) = lens[i] /\ Entry(Known[i])[1] = values[i]
    BY <1>4
  <2>6. QED
    BY <2>1, <2>3, <2>4, <2>5 DEF b, ReadAs, Raises
<1>13. ASSUME size = Before(lens, n + 1), \A m \in Names : Clear(m)
       PROVE  NoneRaises("symbols", s, n, lens)
  <2>1. ASSUME NEW i \in 1..n PROVE ~Raises(Deserialize("symbols", s, Before(lens, i)))
    <3>1. /\ Before(lens, i) \in Nat /\ Before(lens, i + 1) = Before(lens, i) + lens[i]
          /\ Before(lens, i) + lens[i] <= size /\ lens[i] \in Nat /\ lens[i] > 0
          /\ Known[i] \in Names
      BY <1>4, <1>8, <1>13
    <3>2. Before(lens, i) < size /\ Before(lens, i + 1) <= size
      BY <3>1
    <3>3. ReadAs(Deserialize("symbols", s, Before(lens, i)), values[i], Before(lens, i + 1))
      BY <1>9, <1>13, <3>1, <3>2
    <3>4. QED
      BY <3>3 DEF ReadAs, Raises
  <2>2. QED
    BY <2>1 DEF NoneRaises
<1>10. /\ size = Before(lens, n + 1) /\ (\A m \in Names : Clear(m)) => u.ok
       /\ u.ok => \E j \in 0..n : /\ Before(lens, j + 1) = size
                                  /\ u.value = First(j, values)
  <2>1. \A i \in 1..n : lens[i] > 0
    BY <1>4
  <2>2. size <= Before(lens, n + 1)
    BY <1>8
  <2>3. n \in Nat /\ Len(s) = size /\ size \in Nat
    BY <1>3
  <2>4. u = Upload("symbols", s, size)
    OBVIOUS
  <2> DEFINE kind == "symbols"
             up == Upload(kind, s, size)
  <2> HIDE DEF kind
  <2>5. HasEntries(kind, s, size, n, lens, values)
    BY <1>9 DEF kind, HasEntries
  <2>6. /\ size = Before(lens, n + 1) /\ NoneRaises(kind, s, n, lens) => up.ok
        /\ up.ok => \E j \in 0..n : /\ Before(lens, j + 1) = size
                                    /\ up.value = First(j, values)
    BY ONLY <1>3, <1>5, <2>1, <2>2, <2>3, <2>5, UploadFacts
  <2>7. QED
    BY <1>13, <2>4, <2>6 DEF kind
<1>11. ASSUME u.ok PROVE /\ ToSet(SymbolsIn(u.value)) \subseteq ToSet(TheSymbols(Known))
                         /\ size = Len(SymbolTable) => SymbolsIn(u.value) = TheSymbols(Known)
  <2>1. PICK j \in 0..n : Before(lens, j + 1) = size /\ u.value = First(j, values)
    BY <1>10, <1>11
  <2>2. ASSUME NEW i \in 1..j
        PROVE  /\ i \in 1..n /\ u.value[i] = values[i]
               /\ values[i].name = Known[i] /\ values[i].type = symbols[Known[i]]
    <3>1. i \in 1..n /\ u.value[i] = values[i]
      BY <1>3, <2>1 DEF First
    <3>2. values[i] = [len |-> lens[i], name |-> Known[i], type |-> symbols[Known[i]]]
      BY <1>4, <3>1
    <3>3. QED
      BY <3>1, <3>2
  <2>3. SymbolsIn(u.value) = [i \in 1..j |-> <<Known[i], symbols[Known[i]]>>]
    <3>1. DOMAIN u.value = 1..j
      BY <2>1 DEF First
    <3>2. QED
      BY <2>2, <3>1 DEF SymbolsIn
  <2>4. TheSymbols(Known) = [i \in 1..n |-> <<Known[i], symbols[Known[i]]>>]
    BY <1>3 DEF TheSymbols
  <2>5. ToSet(SymbolsIn(u.value)) \subseteq ToSet(TheSymbols(Known))
    BY <2>2, <2>3, <2>4 DEF ToSet
  <2>6. ASSUME size = Len(SymbolTable) PROVE j = n
    <3>1. Before(lens, j + 1) = Before(lens, n + 1)
      BY <1>8, <2>1, <2>6
    <3>2. CASE j # n
      <4>1. j + 1 \in 1..n
        BY <1>3, <3>2
      <4>2. /\ Before(lens, j + 1) \in Nat /\ lens[j + 1] \in Nat /\ lens[j + 1] > 0
            /\ Before(lens, j + 1) + lens[j + 1] <= Before(lens, n + 1)
        BY <1>4, <1>8, <4>1
      <4>3. Before(lens, j + 1) # Before(lens, n + 1)
        BY <3>1, <4>2
      <4>4. QED
        BY <3>1, <4>3
    <3>3. QED
      BY <3>2
  <2>7. QED
    BY <2>3, <2>4, <2>5, <2>6
<1>12. QED
  BY <1>8, <1>10, <1>11

(***************************************************************************)
(* The sub items of an entry, one behind the other.                        *)
(***************************************************************************)
HasItems(lower, p, n, lens, values) ==
    \A i \in 1..n : \/ Raises(lower[p + Before(lens, i)])
                    \/ ReadAs(lower[p + Before(lens, i)], values[i], p + Before(lens, i + 1))

SomeRaises(lower, p, n, lens) == \E i \in 1..n : Raises(lower[p + Before(lens, i)])

LEMMA SubItemsFacts ==
    ASSUME NEW lower, NEW p \in Nat, NEW n \in Nat, NEW lens \in [1..n -> Nat],
           NEW values, HasItems(lower, p, n, lens, values)
    PROVE  IF SomeRaises(lower, p, n, lens) THEN Raises(SubItems(lower, p, n))
           ELSE ReadAs(SubItems(lower, p, n), First(n, values), p + Before(lens, n + 1))
<1> DEFINE step(acc) == IF acc.ok THEN AppendNext(acc, lower[acc.pos]) ELSE Raised
           Rule(g, k) == g = [i \in 0..k |-> IF i = 0 THEN NoEntries(p) ELSE step(g[i - 1])]
           T == {k \in Nat : \E g : Rule(g, k)}
           subs == CHOOSE g : Rule(g, n)
<1>1. /\ Before(lens, 1) = 0
      /\ \A i \in 1..(n + 1) : Before(lens, i) \in Nat
  BY BeforeFacts
<1> HIDE DEF step
<1>2. 0 \in T
  <2>1. Rule([i \in 0..0 |-> NoEntries(p)], 0)
    OBVIOUS
  <2> HIDE DEF Rule
  <2>2. QED
    BY <2>1
<1>3. ASSUME NEW k \in Nat, k \in T PROVE k + 1 \in T
  <2>1. PICK g : Rule(g, k)
    BY <1>3
  <2>2. Rule([i \in 0..(k + 1) |-> IF i = k + 1 THEN step(g[k]) ELSE g[i]], k + 1)
    BY <2>1
  <2> HIDE DEF Rule
  <2>3. QED
    BY <2>2
<1>4. Nat \subseteq T
  <2> HIDE DEF T
  <2>1. QED
    BY <1>2, <1>3, SetInduction
<1>5. Rule(subs, n)
  <2>1. \E g : Rule(g, n)
    BY <1>4
  <2>2. QED
    BY <2>1
<1>6. SubItems(lower, p, n) = subs[n]
  BY DEF SubItems, step
<1> HIDE DEF subs
<1>7. subs[0] = NoEntries(p) /\ \A k \in Nat : k + 1 <= n => subs[k + 1] = step(subs[k])
  BY <1>5
<1> HIDE DEF Rule
<1> DEFINE Right(k) == IF SomeRaises(lower, p, k, lens) THEN Raises(subs[k])
                       ELSE ReadAs(subs[k], First(k, values), p + Before(lens, k + 1))
           U == {k \in Nat : k <= n => Right(k)}
<1>8. 0 \in U
  <2>1. p + Before(lens, 0 + 1) = p
    BY <1>1
  <2>2. First(0, values) = <<>>
    BY DEF First
  <2>3. ~SomeRaises(lower, p, 0, lens)
    BY DEF SomeRaises
  <2>4. ReadAs(subs[0], First(0, values), p + Before(lens, 0 + 1))
    BY <1>7, <2>1, <2>2 DEF NoEntries, ReadAs
  <2>5. QED
    BY <2>3, <2>4
<1>9. ASSUME NEW k \in Nat, k + 1 <= n, Right(k) PROVE Right(k + 1)
  <2>9. SomeRaises(lower, p, k + 1, lens) <=>
            SomeRaises(lower, p, k, lens) \/ Raises(lower[p + Before(lens, k + 1)])
    <3>1. 1..(k + 1) = 1..k \cup {k + 1}
      OBVIOUS
    <3>2. QED
      BY <3>1 DEF SomeRaises
  <2>10. CASE SomeRaises(lower, p, k, lens)
    <3>1. subs[k].ok = FALSE
      BY <1>9, <2>10 DEF Raises
    <3>2. subs[k + 1] = Raised
      BY <1>7, <1>9, <3>1 DEF step
    <3>3. QED
      BY <2>9, <2>10, <3>2 DEF Raised, Raises
  <2>11. CASE ~SomeRaises(lower, p, k, lens) /\ Raises(lower[p + Before(lens, k + 1)])
    <3>1. subs[k].ok = TRUE /\ subs[k].pos = p + Before(lens, k + 1)
      BY <1>9, <2>11 DEF ReadAs
    <3>2. subs[k + 1] = AppendNext(subs[k], lower[p + Before(lens, k + 1)])
      BY <1>7, <1>9, <3>1 DEF step
    <3>3. subs[k + 1] = Raised
      BY <2>11, <3>2 DEF AppendNext, Raises
    <3>4. QED
      BY <2>9, <2>11, <3>3 DEF Raised, Raises
  <2>12. SUFFICES ASSUME ~SomeRaises(lower, p, k, lens), ~Raises(lower[p + Before(lens, k + 1)])
                  PROVE  ReadAs(subs[k + 1], First(k + 1, values), p + Before(lens, (k + 1) + 1))
    BY <2>9, <2>10, <2>11
  <2> DEFINE r == lower[p + Before(lens, k + 1)]
             w == Append(subs[k].value, r.value)
             q == p + Before(lens, (k + 1) + 1)
             x == [r EXCEPT !.value = w]
  <2>1. /\ subs[k].ok = TRUE /\ subs[k].pos = p + Before(lens, k + 1)
        /\ subs[k].value = First(k, values)
    BY <1>9, <2>12 DEF ReadAs
  <2>2. ReadAs(r, values[k + 1], q)
    <3>1. k + 1 \in 1..n
      BY <1>9
    <3>2. QED
      BY <2>12, <3>1 DEF HasItems
  <2>3. subs[k + 1] = AppendNext(subs[k], r)
    BY <1>7, <1>9, <2>1 DEF step
  <2> HIDE DEF r, q
  <2>4. r.ok = TRUE /\ r.value = values[k + 1]
    BY <2>2 DEF ReadAs
  <2>5. subs[k + 1] = x /\ x = [r EXCEPT !.value = w]
    BY <2>1, <2>3, <2>4 DEF AppendNext
  <2>6. w = First(k + 1, values)
    BY <2>1, <2>4, NextFacts
  <2> HIDE DEF w, x
  <2>7. x = [ok |-> TRUE, value |-> w, pos |-> q]
    BY <2>2, <2>5 DEF ReadAs
  <2>8. QED
    BY <2>5, <2>6, <2>7 DEF ReadAs, q
<1>10. Right(n)
  <2> HIDE DEF Right
  <2>0. ASSUME NEW k \in Nat, k \in U PROVE k + 1 \in U
    BY <1>9, <2>0
  <2>1. Nat \subseteq U
    <3> HIDE DEF U
    <3>1. QED
      BY <1>8, <2>0, SetInduction
  <2>2. QED
    BY <2>1
<1>11. QED
  BY <1>6, <1>10

(***************************************************************************)
(* An entry that is all there, with sub items that can be read.            *)
(***************************************************************************)
IsEntry(s, p, l, h) ==
    /\ IsSeq(s) /\ p \in Nat /\ l \in Nat /\ l > 0 /\ p + l <= Len(s)
    /\ s[p + 1] = h /\ "len" \in DOMAIN h /\ h.len = l /\ h.dims \in Nat /\ 1 + h.dims <= l

CanDecode(h) == <<h.name, h.type>> \notin Cryptic

IsInfo(v, s, p, h, list) ==
    /\ v = [name |-> h.name, size |-> h.size, offs |-> h.offs, type |-> h.type,
            array |-> v.array, subs |-> list]
    /\ v.array = [i \in 1..h.dims |-> v.array[i]]
    /\ \A i \in 1..h.dims : v.array[i] = s[(p + 1) + i].elements

LEMMA EntryAt ==
    ASSUME NEW s, NEW p, NEW l, NEW h, IsEntry(s, p, l, h), CanDecode(h),
           NEW lower, NEW list, NEW end,
           ReadAs(SubItems(lower, p + 1 + h.dims, h.subs), list, end),
           NEW r, r = DeserializeEntry(s, lower, p)
    PROVE  ReadAs(r, r.value, p + l) /\ IsInfo(r.value, s, p, h, list)
<1> DEFINE head == ReadHead(s, p)
           array == Read(s, p + 1, h.dims)
           bounds == SubSeq(s, (p + 1) + 1, (p + 1) + h.dims)
           elements == [i \in 1..h.dims |-> array.value.bytes[i].elements]
           subs == SubItems(lower, array.pos, h.subs)
           info == [name |-> h.name, size |-> h.size, offs |-> h.offs, type |-> h.type,
                    array |-> elements, subs |-> subs.value]
<1>0. /\ IsSeq(s) /\ p \in Nat /\ l \in Nat /\ l > 0 /\ p + l <= Len(s)
      /\ s[p + 1] = h /\ "len" \in DOMAIN h /\ h.len = l /\ h.dims \in Nat /\ 1 + h.dims <= l
  BY DEF IsEntry
<1>1. Len(s) \in Nat /\ p < Len(s) /\ p + 1 \in Nat /\ (p + 1) + h.dims <= Len(s)
  <2>1. Len(s) \in Nat
    BY <1>0, SeqLength
  <2>2. QED
    BY <1>0, <2>1
<1>2. head = [ok |-> TRUE, value |-> h, pos |-> p + 1]
  BY <1>0, <1>1, HeadFacts DEF CanDecode
<1>3. array = [ok |-> TRUE, value |-> [bytes |-> bounds], pos |-> (p + 1) + h.dims]
  BY <1>0, <1>1 DEF Read
<1>4. \A i \in 1..h.dims : bounds[i] = s[(p + 1) + i]
  <2>1. PICK S : s \in Seq(S)
    BY <1>0 DEF IsSeq
  <2> DEFINE b == p + 1
             c == h.dims
  <2>2. b \in Nat /\ c \in Nat /\ b + c <= Len(s)
    BY <1>0, <1>1
  <2> HIDE DEF b, c
  <2>3. \A i \in 1..c : SubSeq(s, b + 1, b + c)[i] = s[b + i]
    BY ONLY <2>1, <2>2, SubFacts
  <2>4. QED
    BY <2>3 DEF b, c
<1> HIDE DEF bounds
<1>5. ReadAs(subs, list, end)
  BY <1>3
<1>6. DeserializeEntry(s, lower, p) =
        IF ~head.ok THEN Raised
        ELSE IF ~array.ok \/ ~subs.ok THEN Raised
        ELSE EntryEnd(s, [subs EXCEPT !.value = info], p)
  <2>1. head.value = h /\ head.pos = p + 1
    BY <1>2
  <2> HIDE DEF head
  <2>2. QED
    BY <2>1 DEF DeserializeEntry, head
<1>7. head.ok = TRUE /\ array.ok = TRUE /\ subs.ok = TRUE /\ subs.value = list
  BY <1>2, <1>3, <1>5 DEF ReadAs
<1>8. elements = [i \in 1..h.dims |-> elements[i]]
      /\ \A i \in 1..h.dims : elements[i] = s[(p + 1) + i].elements
  BY <1>3, <1>4
<1> HIDE DEF head, array, subs, elements
<1> DEFINE x == [subs EXCEPT !.value = info]
<1>9. r = Seek(s, x, p + l) /\ x = [subs EXCEPT !.value = info]
  BY <1>0, <1>6, <1>7 DEF EntryEnd
<1> HIDE DEF x
<1>10. info = [name |-> h.name, size |-> h.size, offs |-> h.offs, type |-> h.type,
               array |-> elements, subs |-> list]
  BY <1>7
<1> HIDE DEF info
<1>11. ReadAs(x, info, end)
  BY <1>5, <1>9 DEF ReadAs
<1>12. ReadAs(r, info, p + l)
  <2>1. x.ok = TRUE
    BY <1>11 DEF ReadAs
  <2>2. r = [x EXCEPT !.pos = p + l]
    BY <1>0, <1>1, <1>9, <2>1 DEF Seek
  <2>3. QED
    BY <1>0, <1>11, <2>2 DEF ReadAs
<1>13. r.value = info
  BY <1>12 DEF ReadAs
<1>14. info.array = elements
  BY <1>10
<1>15. QED
  <2>1. IsInfo(info, s, p, h, list)
    BY <1>8, <1>10, <1>14 DEF IsInfo
  <2>2. QED
    BY <1>12, <1>13, <2>1

(***************************************************************************)
(* It raises if its header or a sub item cannot be decoded.                *)
(***************************************************************************)
LEMMA EntryRaises ==
    ASSUME NEW s, NEW p, NEW l, NEW h, IsEntry(s, p, l, h), NEW lower,
           CanDecode(h) => Raises(SubItems(lower, p + 1 + h.dims, h.subs))
    PROVE  Raises(DeserializeEntry(s, lower, p))
<1> DEFINE head == ReadHead(s, p)
           array == Read(s, head.pos, head.value.dims)
           subs == SubItems(lower, array.pos, head.value.subs)
<1>0. /\ IsSeq(s) /\ p \in Nat /\ l \in Nat /\ l > 0 /\ p + l <= Len(s)
      /\ s[p + 1] = h /\ "len" \in DOMAIN h /\ h.len = l /\ h.dims \in Nat /\ 1 + h.dims <= l
  BY DEF IsEntry
<1>1. Len(s) \in Nat /\ p < Len(s) /\ p + 1 \in Nat /\ (p + 1) + h.dims <= Len(s)
  <2>1. Len(s) \in Nat
    BY <1>0, SeqLength
  <2>2. QED
    BY <1>0, <2>1
<1>2. head = IF CanDecode(h) THEN [ok |-> TRUE, value |-> h, pos |-> p + 1] ELSE Raised
  BY <1>0, <1>1, HeadFacts DEF CanDecode
<1>3. (~head.ok \/ ~array.ok \/ ~subs.ok) => DeserializeEntry(s, lower, p) = Raised
  BY DEF DeserializeEntry
<1> HIDE DEF head
<1>4. CASE ~CanDecode(h)
  <2>1. ~head.ok
    BY <1>2, <1>4 DEF Raised
  <2>2. QED
    BY <1>3, <2>1 DEF Raised, Raises
<1>5. CASE CanDecode(h)
  <2>1. head = [ok |-> TRUE, value |-> h, pos |-> p + 1]
    BY <1>2, <1>5
  <2>2. head.value = h /\ head.pos = p + 1
    BY <2>1
  <2>3. array.pos = p + 1 + h.dims
    BY <1>0, <1>1, <2>2 DEF Read
  <2> HIDE DEF array
  <2>4. subs.ok = FALSE
    BY <1>5, <2>2, <2>3 DEF Raises
  <2>5. QED
    BY <1>3, <2>4 DEF Raised, Raises
<1>6. QED
  BY <1>4, <1>5

(***************************************************************************)
(* Two levels are read of every entry, if there is anything at all.        *)
(***************************************************************************)
LEMMA LevelFacts ==
    ASSUME NEW s, Len(s) \in Nat, Len(s) >= 2, NEW p \in 0..Len(s)
    PROVE  \E lower, below :
              /\ DeserializeType(s, p) = DeserializeEntry(s, lower, p)
              /\ \A q \in 0..Len(s) : lower[q] = DeserializeEntry(s, below, q)
<1> DEFINE n == Len(s)
           none == [q \in 0..n |-> Raised]
           over(g) == [q \in 0..n |-> DeserializeEntry(s, g, q)]
           Rule(g, k) == g = [i \in 0..k |-> IF i = 0 THEN none ELSE over(g[i - 1])]
           T == {k \in Nat : \E g : Rule(g, k)}
           Code(g) == g = [i \in 0..n |->
                            [q \in 0..n |-> IF i = 0 THEN Raised
                                            ELSE DeserializeEntry(s, g[i - 1], q)]]
           entry == CHOOSE g : Code(g)
<1>1. 0 \in T
  <2> HIDE DEF none, over
  <2>1. Rule([i \in 0..0 |-> none], 0)
    OBVIOUS
  <2> HIDE DEF Rule
  <2>2. QED
    BY <2>1
<1>2. ASSUME NEW k \in Nat, k \in T PROVE k + 1 \in T
  <2> HIDE DEF none, over
  <2>1. PICK g : Rule(g, k)
    BY <1>2
  <2>2. Rule([i \in 0..(k + 1) |-> IF i = k + 1 THEN over(g[k]) ELSE g[i]], k + 1)
    BY <2>1
  <2> HIDE DEF Rule
  <2>3. QED
    BY <2>2
<1>3. Nat \subseteq T
  <2> HIDE DEF T
  <2>1. QED
    BY <1>1, <1>2, SetInduction
<1>4. PICK g : Rule(g, n)
  <2> HIDE DEF Rule
  <2>1. QED
    BY <1>3
<1>5. Code(g)
  <2>1. g = [i \in 0..n |-> g[i]]
    BY <1>4
  <2>2. ASSUME NEW i \in 0..n
        PROVE  g[i] = [q \in 0..n |-> IF i = 0 THEN Raised ELSE DeserializeEntry(s, g[i - 1], q)]
    <3>1. g[i] = IF i = 0 THEN none ELSE over(g[i - 1])
      BY <1>4
    <3>2. CASE i = 0
      BY <3>1, <3>2
    <3>3. CASE i # 0
      BY <3>1, <3>3
    <3>4. QED
      BY <3>2, <3>3
  <2>3. QED
    BY <2>1, <2>2
<1>6. Code(entry)
  <2> HIDE DEF Code
  <2>1. QED
    BY <1>5
<1>7. DeserializeType(s, p) = entry[n][p]
  BY DEF DeserializeType
<1> HIDE DEF entry
<1>8. ASSUME NEW i \in 1..n, NEW q \in 0..n
      PROVE  entry[i][q] = DeserializeEntry(s, entry[i - 1], q)
  <2>1. i \in 0..n /\ i # 0
    OBVIOUS
  <2>2. entry[i] = [x \in 0..n |-> IF i = 0 THEN Raised ELSE DeserializeEntry(s, entry[i - 1], x)]
    BY <1>6, <2>1
  <2>3. QED
    BY <2>1, <2>2
<1>9. n \in 1..n /\ n - 1 \in 1..n /\ p \in 0..n
  OBVIOUS
<1>10. DeserializeType(s, p) = DeserializeEntry(s, entry[n - 1], p)
  BY <1>7, <1>8, <1>9
<1>11. \A q \in 0..n : entry[n - 1][q] = DeserializeEntry(s, entry[(n - 1) - 1], q)
  BY <1>8, <1>9
<1>12. QED
  BY <1>10, <1>11

LEMMA JoinAt ==
    ASSUME NEW x, IsSeq(x), NEW y, IsSeq(y)
    PROVE  /\ IsSeq(x \o y) /\ Len(x) \in Nat /\ Len(y) \in Nat
           /\ Len(x \o y) = Len(x) + Len(y)
           /\ \A i \in 1..Len(x) : (x \o y)[i] = x[i]
           /\ \A i \in 1..Len(y) : (x \o y)[Len(x) + i] = y[i]
<1>1. Len(x) \in Nat /\ Len(y) \in Nat /\ IsSeq(x \o y)
  BY SeqLength, JoinIsSeq
<1>2. PICK R : x \in Seq(R)
  BY DEF IsSeq
<1>3. PICK Q : y \in Seq(Q)
  BY DEF IsSeq
<1> DEFINE S == R \cup Q
<1>4. x \in Seq(S) /\ y \in Seq(S)
  BY <1>2, <1>3
<1> HIDE DEF S
<1> DEFINE z == x \o y
<1>5. /\ Len(z) = Len(x) + Len(y)
      /\ \A i \in 1..(Len(x) + Len(y)) : z[i] = IF i <= Len(x) THEN x[i] ELSE y[i - Len(x)]
  BY <1>4, JoinFacts
<1> HIDE DEF z
<1>6. ASSUME NEW i \in 1..Len(x) PROVE z[i] = x[i]
  <2>1. i \in 1..(Len(x) + Len(y)) /\ i <= Len(x)
    BY <1>1
  <2>2. QED
    BY <1>5, <2>1
<1>7. ASSUME NEW i \in 1..Len(y) PROVE z[Len(x) + i] = y[i]
  <2>1. Len(x) + i \in 1..(Len(x) + Len(y)) /\ ~(Len(x) + i <= Len(x)) /\ (Len(x) + i) - Len(x) = i
    BY <1>1
  <2>2. QED
    BY <1>5, <2>1
<1>8. QED
  BY <1>1, <1>5, <1>6, <1>7 DEF z

(***************************************************************************)
(* A framed list: its header tells how long it is.                         *)
(***************************************************************************)
LEMMA FramedFacts ==
    ASSUME NEW h, NEW x, IsSeq(x), NEW token, token = [h EXCEPT !.len = 1 + Len(x)]
    PROVE  /\ IsSeq(Framed(h, x)) /\ Len(x) \in Nat /\ Len(Framed(h, x)) = 1 + Len(x)
           /\ Framed(h, x)[1] = token
           /\ \A i \in 1..Len(x) : Framed(h, x)[1 + i] = x[i]
<1>1. IsSeq(<<token>>) /\ Len(<<token>>) = 1 /\ <<token>>[1] = token
  <2>1. <<token>> \in Seq({token})
    OBVIOUS
  <2>2. QED
    BY <2>1 DEF IsSeq
<1>2. Framed(h, x) = <<token>> \o x
  BY DEF Framed
<1> DEFINE z == <<token>>
<1>0. IsSeq(z)
  BY <1>1
<1> HIDE DEF z
<1>3. /\ IsSeq(z \o x) /\ Len(x) \in Nat /\ Len(z \o x) = Len(z) + Len(x)
      /\ \A i \in 1..Len(z) : (z \o x)[i] = z[i]
      /\ \A i \in 1..Len(x) : (z \o x)[Len(z) + i] = x[i]
  BY ONLY <1>0, JoinAt, IsSeq(x)
<1>4. Framed(h, x) = z \o x /\ Len(z) = 1 /\ z[1] = token /\ 1 \in 1..1
  BY <1>1, <1>2 DEF z
<1>5. QED
  BY <1>3, <1>4

(***************************************************************************)
(* A field has no dimensions and no fields of its own.                     *)
(***************************************************************************)
LEMMA FieldFacts ==
    ASSUME NEW f
    PROVE  /\ IsSeq(FieldEntry(f)) /\ Len(FieldEntry(f)) = 2
           /\ FieldEntry(f)[1] =
                [len |-> 2, name |-> NoType, size |-> 0, offs |-> f.offs, type |-> f.type,
                 dims |-> 0, subs |-> 0]
<1> DEFINE h == TypeHead(NoType, 0, f.offs, f.type, 0, 0)
           more == <<More>>
           token == [h EXCEPT !.len = 1 + Len(more)]
           o == f.offs
           t == f.type
<1>1. IsSeq(more) /\ Len(more) = 1
  <2>1. <<More>> \in Seq({More})
    OBVIOUS
  <2>2. QED
    BY <2>1 DEF IsSeq
<1>2. FieldEntry(f) = Framed(h, more)
  BY DEF FieldEntry
<1>3. h = [len |-> 0, name |-> NoType, size |-> 0, offs |-> o, type |-> t, dims |-> 0, subs |-> 0]
  BY DEF TypeHead
<1> HIDE DEF h, more, o, t
<1>4. token = [h EXCEPT !.len = 2]
  BY <1>1
<1>0. token = [h EXCEPT !.len = 1 + Len(more)] /\ IsSeq(more)
  BY <1>1
<1> HIDE DEF token
<1>5. IsSeq(Framed(h, more)) /\ Len(Framed(h, more)) = 1 + Len(more) /\ Framed(h, more)[1] = token
  BY ONLY <1>0, FramedFacts
<1>6. token = [len |-> 2, name |-> NoType, size |-> 0, offs |-> o, type |-> t, dims |-> 0,
               subs |-> 0]
  BY <1>3, <1>4
<1>7. QED
  BY <1>1, <1>2, <1>5, <1>6 DEF o, t

(***************************************************************************)
(* A field is read wherever its entry is, if that can be decoded.          *)
(***************************************************************************)
IsField(s, p, f) ==
    IsSeq(s) /\ p \in Nat /\ p + 2 <= Len(s) /\ s[p + 1] = FieldEntry(f)[1]

LEMMA FieldAt ==
    ASSUME NEW s, NEW p, NEW f, IsField(s, p, f),
           NEW lower, NEW r, r = DeserializeEntry(s, lower, p)
    PROVE  IF <<NoType, f.type>> \in Cryptic THEN Raises(r)
           ELSE ReadAs(r, r.value, p + 2) /\ r.value.offs = f.offs /\ r.value.type = f.type
<1> DEFINE h == FieldEntry(f)[1]
<1>0. IsSeq(s) /\ p \in Nat /\ p + 2 <= Len(s) /\ s[p + 1] = h
  BY DEF IsField
<1>1. h = [len |-> 2, name |-> NoType, size |-> 0, offs |-> f.offs, type |-> f.type,
           dims |-> 0, subs |-> 0]
  BY FieldFacts
<1>2. /\ "len" \in DOMAIN h /\ h.len = 2 /\ h.dims = 0 /\ h.subs = 0 /\ h.dims \in Nat
      /\ 1 + h.dims <= 2 /\ s[p + 1] = h /\ 2 \in Nat /\ 2 > 0
      /\ h.offs = f.offs /\ h.type = f.type /\ h.name = NoType
  BY <1>0, <1>1
<1> HIDE DEF h
<1>8. IsEntry(s, p, 2, h)
  BY <1>0, <1>2 DEF IsEntry
<1>9. CanDecode(h) <=> <<NoType, f.type>> \notin Cryptic
  BY <1>2 DEF CanDecode
<1>10. CASE <<NoType, f.type>> \in Cryptic
  BY <1>8, <1>9, <1>10, EntryRaises
<1>11. SUFFICES ASSUME <<NoType, f.type>> \notin Cryptic
                PROVE  /\ ReadAs(r, r.value, p + 2)
                       /\ r.value.offs = f.offs /\ r.value.type = f.type
  BY <1>10
<1>3. \E list, end : ReadAs(SubItems(lower, p + 1 + h.dims, h.subs), list, end)
  <2> DEFINE b == p + 1 + h.dims
             none == [i \in 1..0 |-> 0]
  <2>1. b \in Nat
    BY <1>0, <1>2
  <2> HIDE DEF b
  <2>2. none \in [1..0 -> Nat] /\ HasItems(lower, b, 0, none, none)
    BY DEF HasItems
  <2> HIDE DEF none
  <2>5. ~SomeRaises(lower, b, 0, none)
    BY DEF SomeRaises
  <2>3. ReadAs(SubItems(lower, b, 0), First(0, none), b + Before(none, 0 + 1))
    BY <2>1, <2>2, <2>5, SubItemsFacts
  <2>4. QED
    BY <1>2, <2>3 DEF b
<1>4. PICK list, end : ReadAs(SubItems(lower, p + 1 + h.dims, h.subs), list, end)
  BY <1>3
<1>5. ReadAs(r, r.value, p + 2) /\ IsInfo(r.value, s, p, h, list)
  BY <1>4, <1>8, <1>9, <1>11, EntryAt
<1>6. r.value.offs = h.offs /\ r.value.type = h.type
  BY <1>5 DEF IsInfo
<1>7. QED
  BY <1>2, <1>5, <1>6

(***************************************************************************)
(* What the entry of a type is made of, and where: its header, the bounds  *)
(* of its dimensions, and its fields, each of two tokens.                  *)
(***************************************************************************)
IsTypeEntry(e, m, a, n, lens) ==
    /\ IsSeq(e) /\ a \in Nat /\ n \in Nat /\ lens \in [1..n -> Nat]
    /\ Before(lens, n + 1) \in Nat
    /\ Len(e) = 1 + (a + Before(lens, n + 1) + 2)
    /\ e[1] = [len |-> Len(e), name |-> m, size |-> Defs[m].size, offs |-> 0,
               type |-> Defs[m].base, dims |-> a, subs |-> n]
    /\ \A i \in 1..a : e[1 + i] = [elements |-> Defs[m].array[i]]
    /\ \A i \in 1..n :
         /\ Before(lens, i) \in Nat /\ Before(lens, i + 1) = Before(lens, i) + 2
         /\ Before(lens, i) + 2 <= Before(lens, n + 1)
         /\ e[1 + (a + (Before(lens, i) + 1))] = FieldEntry(Defs[m].fields[i])[1]

LEMMA TypeEntryFacts ==
    ASSUME NEW m \in DOMAIN Defs
    PROVE  \E lens : IsTypeEntry(TypeEntry(m), m, Len(Defs[m].array), Len(Defs[m].fields), lens)
<1> DEFINE d == Defs[m]
           a == Len(d.array)
           n == Len(d.fields)
           lens == [i \in 1..n |-> 2]
           array == [i \in DOMAIN d.array |-> [elements |-> d.array[i]]]
           fields == [i \in DOMAIN d.fields |-> FieldEntry(d.fields[i])]
           flat == FlattenSeq(fields)
           more == <<More, More>>
           h == TypeHead(m, d.size, 0, d.base, a, n)
           body == array \o flat \o more
           token == [h EXCEPT !.len = 1 + Len(body)]
           e == TypeEntry(m)
<1>1. /\ a \in Nat /\ DOMAIN d.array = 1..a
      /\ n \in Nat /\ DOMAIN d.fields = 1..n
  <2>1. d.array \in Seq(Nat) /\ d.fields \in Seq(ToSet(d.fields))
    BY DefsAssumption DEF DefsAssumption
  <2>2. QED
    BY <2>1, LenProperties
<1>2. lens \in [1..n -> Nat] /\ \A i \in 1..n : lens[i] = 2
  OBVIOUS
<1>3. /\ DOMAIN array = 1..a /\ array \in Seq({array[i] : i \in 1..a})
      /\ \A i \in 1..a : array[i] = [elements |-> d.array[i]]
  BY <1>1
<1>4. IsList(fields, n) /\ \A i \in 1..n : fields[i] = FieldEntry(d.fields[i])
  BY <1>1 DEF IsList
<1>5. e = Framed(h, body)
  BY DEF TypeEntry
<1>6. IsSeq(more) /\ Len(more) = 2
  <2>1. more \in Seq({More}) /\ Len(more) = 2
    OBVIOUS
  <2>2. QED
    BY <2>1 DEF IsSeq
<1> HIDE DEF d, a, n, lens, array, fields, more, h, e
<1>7. IsSeq(array) /\ Len(array) = a
  <2>1. IsSeq(array)
    BY <1>3 DEF IsSeq
  <2>2. DOMAIN array = 1..Len(array) /\ Len(array) \in Nat
    BY <1>3, LenProperties
  <2>3. QED
    BY <1>1, <1>3, <2>1, <2>2
<1>8. ASSUME NEW i \in 1..n
      PROVE  IsSeq(fields[i]) /\ lens[i] = Len(fields[i]) /\ lens[i] > 0
  <2> DEFINE f == d.fields[i]
  <2>1. lens[i] = 2 /\ fields[i] = FieldEntry(f)
    BY <1>2, <1>4
  <2> HIDE DEF f
  <2>2. IsSeq(FieldEntry(f)) /\ Len(FieldEntry(f)) = 2
    BY FieldFacts
  <2>3. QED
    BY <2>1, <2>2
<1>9. /\ IsSeq(flat) /\ Len(flat) = Before(lens, n + 1)
      /\ \A i \in 1..n :
            /\ Before(lens, i) \in Nat
            /\ Before(lens, i + 1) = Before(lens, i) + lens[i]
            /\ Before(lens, i) + lens[i] <= Before(lens, n + 1)
            /\ \A x \in 1..lens[i] : flat[Before(lens, i) + x] = fields[i][x]
  <2>1. HasParts(fields, n, lens)
    BY <1>1, <1>2, <1>4, <1>8 DEF HasParts
  <2>2. IsMadeOf(flat, fields, n, lens)
    BY <2>1, PartFacts
  <2> HIDE DEF flat
  <2>3. QED
    BY <2>2 DEF IsMadeOf
<1> HIDE DEF flat
<1> DEFINE first == array \o flat
<1>10. /\ IsSeq(first) /\ Len(flat) \in Nat /\ Len(first) = a + Len(flat)
       /\ \A i \in 1..a : first[i] = array[i]
       /\ \A i \in 1..Len(flat) : first[a + i] = flat[i]
  <2>1. IsSeq(array) /\ IsSeq(flat)
    BY <1>7, <1>9
  <2> HIDE DEF array
  <2> HIDE DEF first
  <2>2. IsSeq(array \o flat) /\ Len(flat) \in Nat
    BY ONLY <2>1, JoinAt
  <2>3. Len(array \o flat) = Len(array) + Len(flat)
    BY ONLY <2>1, JoinAt
  <2>4. \A i \in 1..Len(array) : (array \o flat)[i] = array[i]
    BY ONLY <2>1, JoinAt
  <2>5. \A i \in 1..Len(flat) : (array \o flat)[Len(array) + i] = flat[i]
    BY ONLY <2>1, JoinAt
  <2>6. QED
    BY <1>7, <2>2, <2>3, <2>4, <2>5 DEF first
<1> HIDE DEF first
<1>11. /\ body = first \o more /\ IsSeq(body) /\ Len(body) = Len(first) + 2
       /\ \A i \in 1..Len(first) : body[i] = first[i]
  <2>1. body = first \o more
    BY DEF first
  <2>2. IsSeq(first) /\ IsSeq(more)
    BY <1>6, <1>10
  <2> HIDE DEF body
  <2>3. /\ IsSeq(first \o more) /\ Len(first \o more) = Len(first) + Len(more)
        /\ \A i \in 1..Len(first) : (first \o more)[i] = first[i]
    BY ONLY <2>2, JoinAt
  <2>4. QED
    BY <1>6, <2>1, <2>3
<1> HIDE DEF body
<1>12. token = [h EXCEPT !.len = 1 + Len(body)] /\ IsSeq(body)
  BY <1>11
<1> HIDE DEF token
<1>13. /\ IsSeq(e) /\ Len(body) \in Nat /\ Len(e) = 1 + Len(body)
       /\ e[1] = token
       /\ \A i \in 1..Len(body) : e[1 + i] = body[i]
  BY <1>5, <1>12, FramedFacts
<1>14. Len(e) = 1 + (a + Before(lens, n + 1) + 2) /\ Before(lens, n + 1) \in Nat
       /\ Len(body) = a + Before(lens, n + 1) + 2
       /\ Len(first) = a + Before(lens, n + 1)
  <2> DEFINE c == Before(lens, n + 1)
  <2>1. n \in Nat /\ n + 1 \in 1..(n + 1) /\ a \in Nat
    BY <1>1
  <2>2. /\ Len(flat) = c /\ Len(flat) \in Nat /\ Len(first) = a + Len(flat)
        /\ Len(body) = Len(first) + 2 /\ Len(e) = 1 + Len(body)
    BY <1>9, <1>10, <1>11, <1>13
  <2> HIDE DEF c
  <2>3. Len(e) = 1 + (a + c + 2) /\ c \in Nat /\ Len(body) = a + c + 2 /\ Len(first) = a + c
    BY ONLY <2>1, <2>2
  <2>4. QED
    BY <2>3 DEF c
<1>15. e[1] = [len |-> Len(e), name |-> m, size |-> d.size, offs |-> 0, type |-> d.base,
               dims |-> a, subs |-> n]
  <2> DEFINE l == Len(e)
             size == d.size
             base == d.base
  <2>1. h = [len |-> 0, name |-> m, size |-> size, offs |-> 0, type |-> base, dims |-> a,
             subs |-> n]
    BY DEF h, TypeHead
  <2>2. token = [h EXCEPT !.len = l]
    BY <1>12, <1>13
  <2> HIDE DEF l, size, base
  <2>3. token = [len |-> l, name |-> m, size |-> size, offs |-> 0, type |-> base, dims |-> a,
                 subs |-> n]
    BY <2>1, <2>2
  <2>4. QED
    BY <1>13, <2>3 DEF l, size, base
<1>16. ASSUME NEW i \in 1..a PROVE e[1 + i] = [elements |-> d.array[i]]
  <2>1. i \in 1..Len(first) /\ i \in 1..Len(body)
    BY <1>1, <1>14
  <2>2. e[1 + i] = array[i]
    BY <1>10, <1>11, <1>13, <2>1
  <2>3. QED
    BY <1>3, <2>2
<1>17. ASSUME NEW i \in 1..n
       PROVE  /\ Before(lens, i) \in Nat /\ Before(lens, i + 1) = Before(lens, i) + 2
              /\ Before(lens, i) + 2 <= Before(lens, n + 1)
              /\ e[1 + (a + (Before(lens, i) + 1))] = FieldEntry(d.fields[i])[1]
  <2>1. /\ Before(lens, i) \in Nat /\ Before(lens, i + 1) = Before(lens, i) + 2
        /\ Before(lens, i) + 2 <= Before(lens, n + 1) /\ lens[i] = 2
        /\ flat[Before(lens, i) + 1] = FieldEntry(d.fields[i])[1]
    <3>1. lens[i] = 2 /\ 1 \in 1..lens[i] /\ fields[i] = FieldEntry(d.fields[i])
      BY <1>2, <1>4
    <3>2. flat[Before(lens, i) + 1] = fields[i][1]
      BY <1>9, <3>1
    <3>3. QED
      BY <1>9, <3>1, <3>2
  <2> DEFINE x == Before(lens, i) + 1
  <2>2. /\ x \in 1..Len(flat) /\ a + x \in 1..Len(first) /\ a + x \in 1..Len(body)
    <3> DEFINE c == Before(lens, n + 1)
               b == Before(lens, i)
    <3>1. /\ a \in Nat /\ b \in Nat /\ c \in Nat /\ b + 2 <= c
          /\ Len(flat) = c /\ Len(first) = a + c /\ Len(body) = a + c + 2
      BY <1>1, <1>9, <1>14, <2>1
    <3> HIDE DEF b, c
    <3>2. b + 1 \in 1..c /\ a + (b + 1) \in 1..(a + c) /\ a + (b + 1) \in 1..(a + c + 2)
      BY <3>1
    <3>3. QED
      BY <3>1, <3>2 DEF b
  <2> HIDE DEF x
  <2>3. e[1 + (a + x)] = body[a + x] /\ body[a + x] = first[a + x] /\ first[a + x] = flat[x]
    BY <1>10, <1>11, <1>13, <2>2
  <2>4. QED
    BY <2>1, <2>3 DEF x
<1>18. IsTypeEntry(e, m, a, n, lens)
  BY <1>1, <1>2, <1>13, <1>14, <1>15, <1>16, <1>17 DEF IsTypeEntry, d
<1>19. QED
  BY <1>18 DEF e, a, n, d

(***************************************************************************)
(* A type is read wherever its entry is.                                   *)
(***************************************************************************)
IsType(s, p, m) ==
    LET e == TypeEntry(m)
    IN  /\ IsSeq(s) /\ p \in Nat /\ p + Len(e) <= Len(s)
        /\ \A x \in 1..Len(e) : s[p + x] = e[x]

LEMMA TypeAt ==
    ASSUME NEW m \in DOMAIN Defs, NEW s, NEW p, IsType(s, p, m),
           NEW r, r = DeserializeType(s, p)
    PROVE  IF ClearType(m)
           THEN /\ ReadAs(r, r.value, p + Len(TypeEntry(m)))
                /\ r.value.name = m /\ Definition(r.value) = Defs[m]
           ELSE Raises(r)
<1> DEFINE e == TypeEntry(m)
           d == Defs[m]
           a == Len(d.array)
           n == Len(d.fields)
           l == Len(e)
           h == e[1]
<1>0. /\ IsSeq(s) /\ p \in Nat /\ p + Len(e) <= Len(s)
      /\ \A x \in 1..Len(e) : s[p + x] = e[x]
  BY DEF IsType
<1>1. PICK lens : IsTypeEntry(e, m, a, n, lens)
  BY TypeEntryFacts
<1> HIDE DEF e
<1>2. /\ d = [size |-> d.size, array |-> d.array, base |-> d.base, fields |-> d.fields]
      /\ d.array = [i \in 1..a |-> d.array[i]] /\ d.fields = [i \in 1..n |-> d.fields[i]]
      /\ \A i \in 1..n : d.fields[i] = [offs |-> d.fields[i].offs, type |-> d.fields[i].type]
  <2>1. /\ d = [size |-> d.size, array |-> d.array, base |-> d.base, fields |-> d.fields]
        /\ d.array \in Seq(Nat) /\ d.fields \in Seq(ToSet(d.fields))
        /\ \A f \in ToSet(d.fields) : f = [offs |-> f.offs, type |-> f.type]
    BY DefsAssumption DEF DefsAssumption
  <2>2. /\ DOMAIN d.array = 1..a /\ a \in Nat /\ DOMAIN d.fields = 1..n /\ n \in Nat
        /\ \A i \in 1..n : d.fields[i] \in ToSet(d.fields)
    BY <2>1, LenProperties, ElementOfSeq
  <2> HIDE DEF d, a, n
  <2>3. d.array = [i \in 1..a |-> d.array[i]] /\ d.fields = [i \in 1..n |-> d.fields[i]]
    BY <2>1, <2>2
  <2>4. QED
    BY <2>1, <2>2, <2>3
<1> HIDE DEF a, n
<1>3. /\ a \in Nat /\ n \in Nat /\ lens \in [1..n -> Nat] /\ Before(lens, n + 1) \in Nat
      /\ l = 1 + (a + Before(lens, n + 1) + 2)
      /\ h = [len |-> l, name |-> m, size |-> d.size, offs |-> 0, type |-> d.base,
              dims |-> a, subs |-> n]
      /\ \A i \in 1..a : e[1 + i] = [elements |-> d.array[i]]
      /\ \A i \in 1..n :
            /\ Before(lens, i) \in Nat /\ Before(lens, i + 1) = Before(lens, i) + 2
            /\ Before(lens, i) + 2 <= Before(lens, n + 1)
            /\ e[1 + (a + (Before(lens, i) + 1))] = FieldEntry(d.fields[i])[1]
  BY <1>1 DEF IsTypeEntry
<1> HIDE DEF d, l, h
<1>4. /\ "len" \in DOMAIN h /\ h.len = l /\ h.dims = a /\ h.subs = n /\ h.name = m
      /\ h.size = d.size /\ h.type = d.base
  BY <1>3
<1>5. /\ l \in Nat /\ l >= 3 /\ 1 + a <= l /\ Len(s) \in Nat /\ p + l <= Len(s)
  <2>1. Len(s) \in Nat /\ p + l <= Len(s)
    BY <1>0, SeqLength DEF l
  <2> DEFINE c == Before(lens, n + 1)
  <2>2. a \in Nat /\ c \in Nat /\ l = 1 + (a + c + 2)
    BY <1>3
  <2> HIDE DEF c
  <2>3. QED
    BY <2>1, <2>2
<1>6. s[p + 1] = h
  <2>1. 1 \in 1..l
    BY <1>5
  <2>2. QED
    BY <1>0, <2>1 DEF l, h
<1>7. IsEntry(s, p, l, h)
  <2>1. l > 0 /\ a \in Nat
    BY <1>3, <1>5
  <2>2. QED
    BY <1>0, <1>4, <1>5, <1>6, <2>1 DEF IsEntry
<1>8. PICK lower, below :
        /\ r = DeserializeEntry(s, lower, p)
        /\ \A q \in 0..Len(s) : lower[q] = DeserializeEntry(s, below, q)
  <2>1. Len(s) >= 2 /\ p \in 0..Len(s) /\ Len(s) \in Nat
    BY <1>0, <1>5
  <2>2. \E lower, below :
          /\ DeserializeType(s, p) = DeserializeEntry(s, lower, p)
          /\ \A q \in 0..Len(s) : lower[q] = DeserializeEntry(s, below, q)
    BY ONLY <2>1, LevelFacts
  <2>3. QED
    BY <2>2
<1> DEFINE b == p + 1 + a
           values == [i \in 1..n |-> lower[b + Before(lens, i)].value]
<1>9. ASSUME NEW i \in 1..n
      PROVE  IF <<NoType, d.fields[i].type>> \in Cryptic
             THEN Raises(lower[b + Before(lens, i)])
             ELSE /\ ReadAs(lower[b + Before(lens, i)], values[i], b + Before(lens, i + 1))
                  /\ values[i].offs = d.fields[i].offs /\ values[i].type = d.fields[i].type
  <2> DEFINE q == b + Before(lens, i)
             f == d.fields[i]
             c == Before(lens, i)
             z == lower[q]
  <2>1. /\ c \in Nat /\ Before(lens, i + 1) = c + 2 /\ c + 2 <= Before(lens, n + 1)
        /\ e[1 + (a + (c + 1))] = FieldEntry(f)[1]
    BY <1>3
  <2>2. /\ q \in Nat /\ q + 2 <= Len(s) /\ q \in 0..Len(s)
        /\ 1 + (a + (c + 1)) \in 1..l /\ q + 1 = p + (1 + (a + (c + 1)))
        /\ q + 2 = b + Before(lens, i + 1)
    <3> DEFINE t == Before(lens, n + 1)
    <3>1. /\ a \in Nat /\ t \in Nat /\ l = 1 + (a + t + 2) /\ p + l <= Len(s)
          /\ Len(s) \in Nat /\ c + 2 <= t /\ c \in Nat
      BY <1>3, <1>5, <2>1
    <3>0. p \in Nat
      BY <1>0
    <3> HIDE DEF t, c
    <3>2. /\ p + 1 + a + c \in Nat /\ (p + 1 + a + c) + 2 <= Len(s)
          /\ 1 + (a + (c + 1)) \in 1..l /\ (p + 1 + a + c) + 1 = p + (1 + (a + (c + 1)))
          /\ (p + 1 + a + c) + 2 = (p + 1 + a) + (c + 2)
          /\ p + 1 + a + c \in 0..Len(s)
      BY <3>0, <3>1
    <3>3. QED
      BY <2>1, <3>2 DEF c
  <2>3. s[q + 1] = e[1 + (a + (c + 1))]
    BY <1>0, <2>2 DEF l
  <2>4. z = DeserializeEntry(s, below, q)
    BY <1>8, <2>2
  <2>5. values[i] = z.value
    OBVIOUS
  <2> HIDE DEF q, f, z, values
  <2>6. IsField(s, q, f)
    BY <1>0, <2>1, <2>2, <2>3 DEF IsField
  <2>7. IF <<NoType, f.type>> \in Cryptic THEN Raises(z)
        ELSE ReadAs(z, z.value, q + 2) /\ z.value.offs = f.offs /\ z.value.type = f.type
    BY <2>4, <2>6, FieldAt
  <2>8. QED
    BY <2>2, <2>5, <2>7 DEF z, q, f
<1> HIDE DEF values
<1>20. IF SomeRaises(lower, b, n, lens) THEN Raises(SubItems(lower, b, n))
       ELSE ReadAs(SubItems(lower, b, n), First(n, values), b + Before(lens, n + 1))
  <2>1. HasItems(lower, b, n, lens, values)
    BY <1>9 DEF HasItems
  <2>2. b \in Nat
    BY <1>0, <1>3
  <2> HIDE DEF b
  <2>3. QED
    BY <1>3, <2>1, <2>2, SubItemsFacts
<1>21. ClearType(m) <=> CanDecode(h) /\ ~SomeRaises(lower, b, n, lens)
  <2>1. CanDecode(h) <=> <<m, d.base>> \notin Cryptic
    BY <1>4 DEF CanDecode
  <2>2. ASSUME NEW i \in 1..n
        PROVE  Raises(lower[b + Before(lens, i)]) <=> <<NoType, d.fields[i].type>> \in Cryptic
    <3> DEFINE x == lower[b + Before(lens, i)]
               q == b + Before(lens, i + 1)
               v == values[i]
    <3>1. IF <<NoType, d.fields[i].type>> \in Cryptic THEN Raises(x) ELSE ReadAs(x, v, q)
      BY <1>9
    <3> HIDE DEF x, q, v
    <3>2. ReadAs(x, v, q) => x.ok = TRUE
      BY DEF ReadAs
    <3>3. QED
      BY <3>1, <3>2 DEF x, Raises
  <2>3. DOMAIN d.fields = 1..n
    BY <1>2
  <2>4. ClearType(m) <=> /\ <<m, d.base>> \notin Cryptic
                         /\ \A i \in DOMAIN d.fields : <<NoType, d.fields[i].type>> \notin Cryptic
    BY DEF ClearType, d
  <2> HIDE DEF b
  <2>5. QED
    BY <2>1, <2>2, <2>3, <2>4 DEF SomeRaises
<1>22. CASE ~ClearType(m)
  <2>1. CanDecode(h) => Raises(SubItems(lower, p + 1 + h.dims, h.subs))
    BY <1>4, <1>20, <1>21, <1>22
  <2>2. Raises(DeserializeEntry(s, lower, p))
    BY <1>7, <2>1, EntryRaises
  <2>3. QED
    BY <1>8, <1>22, <2>2
<1>23. SUFFICES ASSUME ClearType(m)
                PROVE  /\ ReadAs(r, r.value, p + l)
                       /\ r.value.name = m /\ Definition(r.value) = d
  BY <1>22 DEF l, d, e
<1>10. \A i \in 1..n : values[i].offs = d.fields[i].offs /\ values[i].type = d.fields[i].type
  <2>1. ~SomeRaises(lower, b, n, lens)
    BY <1>21, <1>23
  <2> HIDE DEF b
  <2>2. QED
    BY <1>9, <2>1 DEF SomeRaises
<1>11. ReadAs(SubItems(lower, b, n), First(n, values), b + Before(lens, n + 1))
  BY <1>20, <1>21, <1>23
<1>12. ReadAs(r, r.value, p + l) /\ IsInfo(r.value, s, p, h, First(n, values))
  <2>1. ReadAs(SubItems(lower, p + 1 + h.dims, h.subs), First(n, values),
               b + Before(lens, n + 1))
    BY <1>4, <1>11
  <2>2. QED
    BY <1>7, <1>8, <1>21, <1>23, <2>1, EntryAt
<1> DEFINE v == r.value
<1>13. IsInfo(v, s, p, h, First(n, values))
  BY <1>12
<1> HIDE DEF v, b
<1>14. /\ v.name = m /\ v.size = d.size /\ v.type = d.base /\ v.subs = First(n, values)
       /\ v.array = [i \in 1..a |-> v.array[i]]
       /\ \A i \in 1..a : v.array[i] = s[(p + 1) + i].elements
  BY <1>4, <1>13 DEF IsInfo
<1>15. v.array = d.array
  <2>1. ASSUME NEW i \in 1..a PROVE v.array[i] = d.array[i]
    <3>1. 1 + i \in 1..l /\ (p + 1) + i = p + (1 + i)
      BY <1>0, <1>3, <1>5
    <3>2. s[(p + 1) + i] = e[1 + i]
      BY <1>0, <3>1 DEF l
    <3>3. e[1 + i] = [elements |-> d.array[i]]
      BY <1>3
    <3>4. s[(p + 1) + i].elements = d.array[i]
      BY <3>2, <3>3
    <3>5. QED
      BY <1>14, <3>4
  <2>2. QED
    BY <1>2, <1>14, <2>1
<1> DEFINE fields == [i \in DOMAIN v.subs |-> [offs |-> v.subs[i].offs, type |-> v.subs[i].type]]
<1>16. fields = d.fields
  <2>1. DOMAIN v.subs = 1..n /\ \A i \in 1..n : v.subs[i] = values[i]
    BY <1>14 DEF First
  <2>2. ASSUME NEW i \in 1..n
        PROVE  [offs |-> v.subs[i].offs, type |-> v.subs[i].type] = d.fields[i]
    BY <1>2, <1>10, <2>1
  <2>3. fields = [i \in 1..n |-> d.fields[i]]
    BY <2>1, <2>2
  <2>4. QED
    BY <1>2, <2>3
<1>17. Definition(v) = [size |-> v.size, array |-> v.array, base |-> v.type, fields |-> fields]
  BY DEF Definition
<1> HIDE DEF fields
<1>18. Definition(v) = d
  BY <1>2, <1>14, <1>15, <1>16, <1>17
<1>19. QED
  BY <1>12, <1>14, <1>18 DEF v, d, l, e

(***************************************************************************)
(* The upload of the types has every type, with its fields, and the parser *)
(* then has the definitions of the PLC; unless one cannot be decoded.      *)
(***************************************************************************)
LEMMA TypesUploaded ==
    ASSUME NEW u, u = Upload("types", TypeTable, Len(TypeTable))
    PROVE  /\ Len(TypeTable) \in Nat
           /\ (\A m \in DOMAIN Defs : ClearType(m)) => u.ok
           /\ u.ok => /\ TypesIn(u.value) = TheTypes(TypeNames)
                      /\ UpdateDatatypes(NoResults, u.value) = Defs
<1> DEFINE parts == [i \in DOMAIN TypeNames |-> TypeEntry(TypeNames[i])]
           n == Len(TypeNames)
           lens == [i \in 1..n |-> Len(TypeEntry(TypeNames[i]))]
           s == TypeTable
           values == [i \in 1..n |-> DeserializeType(s, Before(lens, i)).value]
<1>1. /\ TypeNames \in Seq(DOMAIN Defs)
      /\ \A i, j \in DOMAIN TypeNames : TypeNames[i] = TypeNames[j] => i = j
      /\ \A m \in DOMAIN Defs : \E i \in DOMAIN TypeNames : TypeNames[i] = m
  <2>1. IsFiniteSet(DOMAIN Defs) /\ TypeNames = SetToSeq(DOMAIN Defs)
    BY DefsAssumption DEF DefsAssumption, TypeNames
  <2>2. QED
    BY ONLY <2>1, ListedFacts
<1>2. n \in Nat /\ DOMAIN TypeNames = 1..n /\ \A i \in 1..n : TypeNames[i] \in DOMAIN Defs
  BY <1>1, LenProperties, ElementOfSeq
<1> HIDE DEF n
<1>3. ASSUME NEW i \in 1..n
      PROVE  /\ parts[i] = TypeEntry(TypeNames[i]) /\ IsSeq(parts[i])
             /\ lens[i] = Len(parts[i]) /\ lens[i] \in Nat /\ lens[i] > 0
  <2> DEFINE e == TypeEntry(TypeNames[i])
  <2>1. parts[i] = e /\ lens[i] = Len(e) /\ TypeNames[i] \in DOMAIN Defs
    BY <1>2
  <2>2. IsSeq(e) /\ Len(e) \in Nat /\ Len(e) > 0
    <3> DEFINE a == Len(Defs[TypeNames[i]].array)
               k == Len(Defs[TypeNames[i]].fields)
    <3>1. PICK l : IsTypeEntry(e, TypeNames[i], a, k, l)
      BY <2>1, TypeEntryFacts
    <3> HIDE DEF e, a, k
    <3>2. IsSeq(e) /\ a \in Nat /\ Before(l, k + 1) \in Nat /\ Len(e) = 1 + (a + Before(l, k + 1) + 2)
      BY <3>1 DEF IsTypeEntry
    <3> DEFINE c == Before(l, k + 1)
    <3>3. a \in Nat /\ c \in Nat /\ Len(e) = 1 + (a + c + 2)
      BY <3>2
    <3> HIDE DEF c
    <3>4. QED
      BY <3>2, <3>3
  <2> HIDE DEF parts, lens, e
  <2>3. QED
    BY <2>1, <2>2 DEF e
<1>4. lens \in [1..n -> Nat]
  BY <1>3
<1>5. IsList(parts, n)
  BY <1>2 DEF IsList
<1>6. s = FlattenSeq(parts)
  BY DEF TypeTable
<1> HIDE DEF parts, lens
<1>7. IsMadeOf(s, parts, n, lens)
  <2>1. HasParts(parts, n, lens)
    BY <1>2, <1>3, <1>4, <1>5 DEF HasParts
  <2> HIDE DEF s
  <2>2. QED
    BY <1>6, <2>1, PartFacts
<1>8. u = Upload("types", s, Len(s))
  OBVIOUS
<1> HIDE DEF s
<1>9. /\ IsSeq(s) /\ Len(s) \in Nat /\ Len(s) = Before(lens, n + 1)
      /\ \A i \in 1..n :
           /\ Before(lens, i) \in Nat
           /\ Before(lens, i + 1) = Before(lens, i) + lens[i]
           /\ Before(lens, i) + lens[i] <= Before(lens, n + 1)
           /\ \A x \in 1..lens[i] : s[Before(lens, i) + x] = parts[i][x]
  BY <1>7, SeqLength DEF IsMadeOf
<1>10. ASSUME NEW i \in 1..n
       PROVE  IF ClearType(TypeNames[i])
              THEN /\ ReadAs(DeserializeType(s, Before(lens, i)), values[i], Before(lens, i + 1))
                   /\ values[i].name = TypeNames[i] /\ Definition(values[i]) = Defs[TypeNames[i]]
              ELSE Raises(DeserializeType(s, Before(lens, i)))
  <2> DEFINE b == Before(lens, i)
             e == TypeEntry(TypeNames[i])
             r == DeserializeType(s, b)
  <2>1. b \in Nat /\ e = parts[i] /\ lens[i] = Len(e) /\ b + Len(e) <= Len(s)
        /\ Before(lens, i + 1) = b + Len(e) /\ TypeNames[i] \in DOMAIN Defs /\ IsSeq(s)
    BY <1>2, <1>3, <1>9
  <2>2. IsType(s, b, TypeNames[i])
    BY <1>9, <2>1 DEF IsType
  <2>3. values[i] = r.value
    OBVIOUS
  <2> HIDE DEF values, b, r
  <2>4. IF ClearType(TypeNames[i])
        THEN /\ ReadAs(r, r.value, b + Len(e))
             /\ r.value.name = TypeNames[i] /\ Definition(r.value) = Defs[TypeNames[i]]
        ELSE Raises(r)
    BY <2>1, <2>2, TypeAt DEF r, e
  <2>5. QED
    BY <2>1, <2>3, <2>4 DEF r, b
<1> HIDE DEF values
<1>16. ASSUME NEW j \in 0..n
       PROVE  NoneRaises("types", s, j, lens) <=> \A i \in 1..j : ClearType(TypeNames[i])
  <2>1. ASSUME NEW i \in 1..j
        PROVE  Raises(Deserialize("types", s, Before(lens, i))) <=> ~ClearType(TypeNames[i])
    <3>1. Deserialize("types", s, Before(lens, i)) = DeserializeType(s, Before(lens, i))
      BY DEF Deserialize
    <3>2. i \in 1..n
      BY <1>2
    <3>3. IF ClearType(TypeNames[i])
          THEN DeserializeType(s, Before(lens, i)).ok = TRUE
          ELSE Raises(DeserializeType(s, Before(lens, i)))
      BY <1>10, <3>2 DEF ReadAs
    <3>4. QED
      BY <3>1, <3>3 DEF Raises
  <2>2. QED
    BY <2>1 DEF NoneRaises
<1>11. /\ (\A m \in DOMAIN Defs : ClearType(m)) => u.ok
       /\ u.ok => u.value = First(n, values) /\ \A i \in 1..n : ClearType(TypeNames[i])
  <2> DEFINE kind == "types"
             up == Upload(kind, s, Len(s))
  <2> HIDE DEF kind
  <2>1. HasEntries(kind, s, Len(s), n, lens, values)
    <3>1. ASSUME NEW i \in 1..n
          PROVE  /\ Before(lens, i + 1) <= Len(s)
                 /\ \/ Raises(Deserialize(kind, s, Before(lens, i)))
                    \/ ReadAs(Deserialize(kind, s, Before(lens, i)), values[i], Before(lens, i + 1))
      <4>1. Deserialize(kind, s, Before(lens, i)) = DeserializeType(s, Before(lens, i))
        BY DEF Deserialize, kind
      <4>2. Before(lens, i + 1) <= Len(s)
        BY <1>9
      <4>3. QED
        BY <1>10, <4>1, <4>2
    <3>2. QED
      BY <3>1 DEF HasEntries
  <2>2. /\ n \in Nat /\ Len(s) \in Nat /\ Len(s) <= Before(lens, n + 1)
        /\ lens \in [1..n -> Nat] /\ \A i \in 1..n : lens[i] > 0
    BY <1>2, <1>3, <1>4, <1>9
  <2>3. /\ Len(s) = Before(lens, n + 1) /\ NoneRaises(kind, s, n, lens) => up.ok
        /\ up.ok => \E j \in 0..n : /\ Before(lens, j + 1) = Len(s)
                                    /\ NoneRaises(kind, s, j, lens)
                                    /\ up.value = First(j, values)
    BY <2>1, <2>2, UploadFacts
  <2>7. (\A m \in DOMAIN Defs : ClearType(m)) => u.ok
    <3>1. n \in 0..n
      BY <1>2
    <3>2. (\A m \in DOMAIN Defs : ClearType(m)) => NoneRaises(kind, s, n, lens)
      BY <1>2, <1>16, <3>1 DEF kind
    <3>3. QED
      BY <1>8, <1>9, <2>3, <3>2 DEF kind
  <2>8. SUFFICES ASSUME u.ok
                 PROVE  u.value = First(n, values) /\ \A i \in 1..n : ClearType(TypeNames[i])
    BY <2>7
  <2>4. PICK j \in 0..n : /\ Before(lens, j + 1) = Len(s) /\ u.value = First(j, values)
                          /\ NoneRaises("types", s, j, lens)
    BY <1>8, <2>3, <2>8 DEF kind
  <2>5. CASE j # n
    <3>1. j + 1 \in 1..n
      BY <1>2, <2>5
    <3>2. /\ Before(lens, j + 1) \in Nat /\ lens[j + 1] \in Nat /\ lens[j + 1] > 0
          /\ Before(lens, j + 1) + lens[j + 1] <= Before(lens, n + 1)
      BY <1>3, <1>9, <3>1
    <3>3. Before(lens, j + 1) # Before(lens, n + 1)
      BY <3>2
    <3>4. QED
      BY <1>9, <2>4, <3>3
  <2>6. QED
    BY <1>16, <2>4, <2>5
<1>17. SUFFICES ASSUME u.ok
                PROVE  /\ TypesIn(u.value) = TheTypes(TypeNames)
                       /\ UpdateDatatypes(NoResults, u.value) = Defs
  BY <1>9, <1>11 DEF s
<1>12. /\ DOMAIN u.value = 1..n
       /\ \A i \in 1..n : /\ u.value[i].name = TypeNames[i]
                           /\ Definition(u.value[i]) = Defs[TypeNames[i]]
  <2>1. DOMAIN u.value = 1..n /\ \A i \in 1..n : u.value[i] = values[i]
    BY <1>11, <1>17 DEF First
  <2>2. QED
    BY <1>10, <1>11, <1>17, <2>1
<1>13. TypesIn(u.value) = TheTypes(TypeNames)
  BY <1>2, <1>12 DEF TypesIn, TheTypes
<1>14. UpdateDatatypes(NoResults, u.value) = Defs
  <2> DEFINE new(m) == {i \in DOMAIN u.value : u.value[i].name = m}
             last(m) == CHOOSE i \in new(m) : \A j \in new(m) : j <= i
             defined(m) == IF new(m) = {} THEN NoResults[m] ELSE Definition(u.value[last(m)])
             all == DOMAIN NoResults \cup {u.value[i].name : i \in DOMAIN u.value}
  <2>1. UpdateDatatypes(NoResults, u.value) = [m \in all |-> defined(m)]
    BY DEF UpdateDatatypes
  <2>2. all = DOMAIN Defs
    <3>1. \A m \in all : m \in DOMAIN Defs
      BY <1>2, <1>12, NoneFacts
    <3>2. \A m \in DOMAIN Defs : m \in all
      BY <1>1, <1>2, <1>12
    <3> HIDE DEF all
    <3>3. QED
      BY <3>1, <3>2
  <2>3. ASSUME NEW m \in DOMAIN Defs PROVE defined(m) = Defs[m]
    <3>1. PICK i \in 1..n : TypeNames[i] = m
      BY <1>1, <1>2
    <3>2. new(m) = {i}
      <4>1. \A j \in 1..n : u.value[j].name = m => j = i
        BY <1>1, <1>2, <1>12, <3>1
      <4>2. u.value[i].name = m /\ DOMAIN u.value = 1..n
        BY <1>12, <3>1
      <4>3. QED
        BY <3>1, <4>1, <4>2
    <3>3. \A j \in {i} : j <= i
      OBVIOUS
    <3>4. last(m) = i
      <4> HIDE DEF new
      <4>1. QED
        BY <3>2, <3>3
    <3> HIDE DEF last, new
    <3>5. defined(m) = Definition(u.value[i])
      BY <3>2, <3>4
    <3>6. QED
      BY <1>12, <3>1, <3>5
  <2> HIDE DEF all, defined
  <2>4. [m \in all |-> defined(m)] = [m \in DOMAIN Defs |-> Defs[m]]
    BY <2>2, <2>3
  <2>5. Defs = [m \in DOMAIN Defs |-> Defs[m]]
    BY DefsAssumption DEF DefsAssumption
  <2>6. QED
    BY <2>1, <2>4, <2>5
<1>15. QED
  BY <1>13, <1>14

-----------------------------------------------------------------------------
(***************************************************************************)
(* What a call knows apart from its lists.                                 *)
(***************************************************************************)
ContextOK ==
    /\ SymbolsOK
    /\ defs \in {NoResults, Defs}
    /\ call \in Calls
    /\ strict \in BOOLEAN
    /\ wanted \subseteq Names \cup DOMAIN Defs
    /\ tableSize \in Nat
    /\ refused \subseteq wanted
    /\ verdict \in Verdicts
    /\ edited \subseteq Names
    /\ call \in Reads => wanted \subseteq Names
    /\ call = "single" => \E n \in Names : wanted = {n}

LEMMA InContext ==
    ASSUME ClientInv
    PROVE  ContextOK
BY DEF ClientInv, TypeOK, PhaseInv, ContextOK, SymbolsOK

LEMMA ContextKept ==
    ASSUME ContextOK, UNCHANGED <<symbols, defs, call, strict, wanted, edited>>,
           tableSize' \in Nat, refused' \subseteq wanted, verdict' \in Verdicts
    PROVE  ContextOK'
BY DEF ContextOK, SymbolsOK

(***************************************************************************)
(* A call may end whenever its result is right.                            *)
(***************************************************************************)
LEMMA EndKeeps ==
    ASSUME ContextOK', OwnResult',
           NEW where \in {"returned", "raised"}, NEW out, NEW list,
           End(where, out, list),
           DOMAIN out \subseteq wanted', list # <<>> => where = "returned",
           cause' \in Causes, where = "raised" <=> cause' # "none"
    PROVE  ClientInv'
<1>1. /\ pc' = where /\ pc' \in {"returned", "raised"}
      /\ infos' = NoResults /\ batch' = <<>> /\ rest' = <<>> /\ readable' = <<>>
      /\ response' = <<>> /\ listing' = list /\ DOMAIN output' \subseteq wanted'
  BY DEF End
<1>2. TypeOK'
  <2>1. /\ DOMAIN infos' \subseteq wanted'
        /\ \A q \in {rest', batch', readable'} : q \in Seq(wanted') /\ IsInjective(q)
        /\ Len(batch') <= BatchSize
        /\ Len(response') <= Len(readable')
    <3>1. 0 <= BatchSize /\ 0 <= 0
      BY ClientAssumption DEF ClientAssumption
    <3>2. QED
      BY <1>1, <3>1, NoneFacts
  <2>2. response' \in Seq([err : {"ok", "failed"}, data : Seq(Byte)])
    BY <1>1, NoneFacts
  <2>3. pc' \in PCs /\ (listing' # <<>> => pc' = "returned") /\ (pc' = "raised" <=> cause' # "none")
    BY <1>1 DEF PCs
  <2>4. QED
    BY <1>1, <2>1, <2>2, <2>3 DEF TypeOK, ContextOK, SymbolsOK
<1>3. FoundInv'
  BY <1>1, NoneFacts DEF FoundInv
<1>4. IdleInv' /\ LookupInv' /\ ReadInv'
  BY <1>1 DEF IdleInv, LookupInv, ReadInv
<1>5. PhaseInv'
  BY <1>1 DEF PhaseInv, ContextOK
<1>6. QED
  BY <1>2, <1>3, <1>4, <1>5 DEF ClientInv

LEMMA RaiseKeeps ==
    ASSUME ContextOK', NEW why \in Causes, why # "none", Raise(why)
    PROVE  ClientInv'
<1>1. End("raised", NoResults, <<>>) /\ cause' = why
  BY DEF Raise
<1>2. OwnResult'
  BY <1>1 DEF OwnResult, End
<1>3. QED
  BY <1>1, <1>2, EndKeeps, NoneFacts

(***************************************************************************)
(* A call that is no read may return a table or nothing.                   *)
(***************************************************************************)
LEMMA ListKeeps ==
    ASSUME ContextOK', cause = "none", verdict' = "ok", call' \notin Reads,
           NEW list, ReturnList(list)
    PROVE  ClientInv'
<1>1. End("returned", NoResults, list) /\ cause' = "none"
  BY DEF ReturnList
<1>2. OwnResult'
  BY DEF OwnResult
<1>3. QED
  BY <1>1, <1>2, EndKeeps, NoneFacts DEF Causes

(***************************************************************************)
(* A read may return the result that each name should have.                *)
(***************************************************************************)
LEMMA ReturnKeeps ==
    ASSUME ContextOK', cause = "none", verdict' = "ok",
           NEW out, Return(out), DOMAIN out = wanted',
           \A n \in wanted' \ edited' : out[n] = Expected(n)'
    PROVE  ClientInv'
<1>1. End("returned", out, <<>>) /\ cause' = "none" /\ output' = out
  BY DEF Return, End
<1>2. OwnResult'
  BY <1>1 DEF OwnResult
<1>3. QED
  BY <1>1, <1>2, EndKeeps DEF Causes

(***************************************************************************)
(* A finding is that there is no such symbol, or its type.                 *)
(***************************************************************************)
LEMMA InfoFacts ==
    ASSUME SymbolsOK, NEW n \in Names
    PROVE  /\ Info(n) \in Findings(n)
           /\ Info(n).err = "ok" <=> symbols[n] # NoType
           /\ symbols[n] = NoType => Info(n).err = "notfound"
           /\ symbols[n] # NoType => Info(n).sym = n /\ Info(n).type = symbols[n]
BY DEF SymbolsOK, Info, Findings, NotFound

LEMMA FindingFacts ==
    ASSUME NEW n, NEW f \in Findings(n), f.err = "ok"
    PROVE  f \in [err : {"ok"}, sym : {n}, type : Types] /\ f.sym = n /\ f.type \in Types
BY DEF Findings, NotFound

(***************************************************************************)
(* A lookup that is done raises, returns the errors, or starts a read.     *)
(***************************************************************************)
LEMMA LookedUpKeeps ==
    ASSUME ContextOK', call' \in Reads, refused' = {}, verdict' = "ok",
           cause = "none", listing = <<>>,
           NEW N, N = wanted', NEW found, DOMAIN found = N,
           \A n \in N : /\ found[n] \in Findings(n)
                        /\ n \notin edited' => found[n] = Info(n)',
           NEW raises, LookedUp(N, found, raises)
    PROVE  ClientInv'
<1> DEFINE good == {n \in N : found[n].err = "ok"}
           errors == [n \in N \ good |-> [err |-> found[n].err, value |-> NoType]]
<1>1. N \subseteq Names /\ good \subseteq N /\ SymbolsOK' /\ edited' \subseteq Names
  BY DEF ContextOK
<1>2. \/ raises /\ good # N /\ Raise("reported")
      \/ good = {} /\ Return(errors)
      \/ /\ good # {} /\ pc' = "read" /\ infos' = found /\ output' = errors /\ response' = <<>>
         /\ UNCHANGED <<listing, cause>>
         /\ \E q \in SetToSeqs(good) : readable' = q /\ StartBatch(q)
  BY DEF LookedUp
<1>e. DOMAIN errors = N \ good
      /\ \A n \in N \ good : errors[n] = [err |-> found[n].err, value |-> NoType]
  OBVIOUS
<1>3. CASE raises /\ good # N /\ Raise("reported")
  BY <1>3, RaiseKeeps DEF Causes
<1>4. CASE good = {} /\ Return(errors)
  <2>1. ASSUME NEW n \in N \ edited' PROVE errors[n] = Expected(n)'
    <3>1. found[n] = Info(n)' /\ found[n].err # "ok" /\ n \in Names
      BY <1>1, <1>4
    <3>2. symbols'[n] = NoType /\ found[n].err = "notfound"
      BY <3>1 DEF Info, NotFound
    <3>3. QED
      BY <1>4, <1>e, <3>2 DEF Expected
  <2>2. DOMAIN errors = wanted'
    BY <1>4, <1>e
  <2> HIDE DEF good, errors
  <2>3. QED
    BY <1>4, <2>1, <2>2, ReturnKeeps
<1>5. CASE /\ good # {} /\ pc' = "read" /\ infos' = found /\ output' = errors /\ response' = <<>>
           /\ UNCHANGED <<listing, cause>>
           /\ \E q \in SetToSeqs(good) : readable' = q /\ StartBatch(q)
  <2>1. PICK q \in SetToSeqs(good) : readable' = q /\ StartBatch(q)
    BY <1>5
  <2>2. IsFiniteSet(good)
    <3>1. good \in SUBSET Names
      BY <1>1
    <3> HIDE DEF good
    <3>2. QED
      BY <3>1, FS_Subset, ClientAssumption DEF ClientAssumption
  <2>g. Good' = good
    BY <1>5 DEF Good
  <2> HIDE DEF good, errors
  <2>3. q \in Seq(good) /\ IsInjective(q) /\ ToSet(q) = good
    BY <2>2, OrderFacts
  <2>4. q \in Seq(N) /\ q # <<>>
    <3>1. q \in Seq(N)
      BY <1>1, <2>3
    <3>2. QED
      BY <1>5, <2>3, <3>1, NoneFacts
  <2>5. /\ batch' \in Seq(N) /\ rest' \in Seq(N)
        /\ IsInjective(batch') /\ IsInjective(rest')
        /\ Len(batch') \in Nat /\ Len(rest') \in Nat
        /\ Len(batch') <= BatchSize
        /\ Len(q) = Len(batch') + Len(rest')
        /\ \A i \in DOMAIN batch' : i \in Nat /\ i \in DOMAIN q /\ batch'[i] = q[i]
        /\ \A i \in DOMAIN rest' :
              i \in Nat /\ Len(batch') + i \in DOMAIN q /\ rest'[i] = q[Len(batch') + i]
        /\ batch' = <<>> <=> q = <<>>
        /\ batch' = <<>> => rest' = <<>>
    BY <2>1, <2>3, <2>4, StartFacts
  <2>6. TypeOK'
    <3>1. Len(response') <= Len(readable')
      BY <1>5, <2>1, <2>5, NoneFacts
    <3>2. response' \in Seq([err : {"ok", "failed"}, data : Seq(Byte)])
      BY <1>5, NoneFacts
    <3>3. \A p \in {rest', batch', readable'} : p \in Seq(wanted') /\ IsInjective(p)
      BY <2>1, <2>3, <2>4, <2>5
    <3>4. DOMAIN infos' \subseteq wanted' /\ DOMAIN output' \subseteq wanted'
      BY <1>5, <1>e
    <3>5. /\ pc' \in PCs /\ (listing' # <<>> => pc' = "returned")
          /\ cause' \in Causes /\ (pc' = "raised" <=> cause' # "none")
      BY <1>5 DEF PCs, Causes
    <3>6. QED
      BY <2>5, <3>1, <3>2, <3>3, <3>4, <3>5 DEF TypeOK, ContextOK, SymbolsOK
  <2>7. FoundInv'
    BY <1>5 DEF FoundInv
  <2>8. ReadInv'
    <3>1. AlignedInv'
      <4>1. Len(response') = 0 /\ readable' = q
        BY <1>5, <2>1, NoneFacts
      <4>2. Len(readable') = Len(response') + Len(batch') + Len(rest')
        BY <2>5, <4>1
      <4>3. ASSUME NEW i \in DOMAIN batch' PROVE batch'[i] = readable'[Len(response') + i]
        <5>1. Len(response') + i = i
          BY <2>5, <4>1
        <5>2. QED
          BY <2>5, <4>1, <5>1
      <4>4. ASSUME NEW i \in DOMAIN rest'
            PROVE  rest'[i] = readable'[Len(response') + Len(batch') + i]
        <5>1. Len(response') + Len(batch') + i = Len(batch') + i
          BY <2>5, <4>1
        <5>2. QED
          BY <2>5, <4>1, <5>1
      <4>5. QED
        BY <4>2, <4>3, <4>4 DEF AlignedInv
    <3>2. DOMAIN response' = {}
      BY <1>5, NoneFacts
    <3>3. ToSet(readable') = Good' /\ DOMAIN infos' = wanted'
      BY <1>5, <2>1, <2>3, <2>g
    <3>4. DOMAIN output' = wanted' \ Good'
          /\ \A n \in wanted' \ Good' : output'[n] = [err |-> infos'[n].err, value |-> NoType]
      BY <1>5, <1>e, <2>g
    <3>5. AnswersInv'
      BY <3>2 DEF AnswersInv
    <3>6. \A n \in refused' : \E i \in DOMAIN response' : readable'[i] = n
      OBVIOUS
    <3>7. QED
      BY <3>1, <3>3, <3>4, <3>5, <3>6 DEF ReadInv
  <2>9. IdleInv' /\ LookupInv' /\ OwnResult'
    BY <1>5 DEF IdleInv, LookupInv, OwnResult
  <2>10. PhaseInv'
    BY <1>5, <2>4, <2>5 DEF PhaseInv, ContextOK
  <2>11. QED
    BY <2>6, <2>7, <2>8, <2>9, <2>10 DEF ClientInv
<1>6. QED
  BY <1>2, <1>3, <1>4, <1>5

-----------------------------------------------------------------------------
(***************************************************************************)
(* One lemma for each action: a read begins.                               *)
(***************************************************************************)
LEMMA BeginKeeps ==
    ASSUME ClientInv, NEW N \in SUBSET Names, NEW kind \in Reads,
           kind = "single" => \E n \in Names : N = {n},
           NEW raises \in BOOLEAN, Begin(N, kind, raises)
    PROVE  ClientInv'
<1>1. /\ pc = "idle" /\ call' = kind /\ strict' = raises /\ wanted' = N
      /\ symbols' = symbols /\ defs' = defs /\ tableSize' = tableSize
      /\ refused' = {} /\ verdict' = "ok" /\ edited' = {}
      /\ readable = <<>> /\ response = <<>> /\ output = NoResults /\ listing = <<>>
      /\ cause = "none"
  BY DEF Begin, ClientInv, IdleInv, TypeOK, PCs
<1>2. ContextOK'
  <2>1. ContextOK
    BY InContext
  <2>2. call' \in Calls /\ call' \in Reads
    BY <1>1 DEF Calls
  <2>3. QED
    BY <1>1, <2>1, <2>2 DEF ContextOK, SymbolsOK, Verdicts
<1>3. SymbolsOK
  BY InContext DEF ContextOK
<1>4. PICK C \in SUBSET N :
        \/ C = N /\ LookedUp(N, [n \in C |-> Info(n)], raises)
        \/ /\ C # N
           /\ \E q \in SetToSeqs(N \ C) : StartBatch(q)
           /\ infos' = [n \in C |-> Info(n)]
           /\ pc' = "lookup"
           /\ UNCHANGED <<readable, response, output, listing, cause>>
  BY DEF Begin
<1>5. ASSUME NEW n \in C
      PROVE  /\ [m \in C |-> Info(m)][n] \in Findings(n)
             /\ [m \in C |-> Info(m)][n] = Info(n)'
  <2>1. n \in Names /\ Info(n)' = Info(n)
    BY <1>1 DEF Info
  <2>2. QED
    BY <1>3, <2>1, InfoFacts
<1>6. CASE C = N /\ LookedUp(N, [n \in C |-> Info(n)], raises)
  <2> DEFINE found == [n \in C |-> Info(n)]
  <2>1. DOMAIN found = N /\ LookedUp(N, found, raises)
    BY <1>6
  <2>2. \A n \in N : found[n] \in Findings(n) /\ found[n] = Info(n)'
    BY <1>5, <1>6
  <2> HIDE DEF found
  <2>3. QED
    BY <1>1, <1>2, <2>1, <2>2, LookedUpKeeps
<1>7. CASE /\ C # N
           /\ \E q \in SetToSeqs(N \ C) : StartBatch(q)
           /\ infos' = [n \in C |-> Info(n)]
           /\ pc' = "lookup"
           /\ UNCHANGED <<readable, response, output, listing, cause>>
  <2>1. PICK q \in SetToSeqs(N \ C) : StartBatch(q)
    BY <1>7
  <2>2. IsFiniteSet(N \ C)
    <3>1. N \ C \in SUBSET Names
      OBVIOUS
    <3>2. QED
      BY <3>1, FS_Subset, ClientAssumption DEF ClientAssumption
  <2>3. q \in Seq(N \ C) /\ IsInjective(q) /\ ToSet(q) = N \ C
    BY <2>2, OrderFacts
  <2>4. q \in Seq(N) /\ q # <<>>
    <3>1. q \in Seq(N)
      BY <2>3
    <3>2. QED
      BY <1>7, <2>3, <3>1, NoneFacts
  <2>5. /\ batch' \in Seq(N) /\ rest' \in Seq(N)
        /\ IsInjective(batch') /\ IsInjective(rest')
        /\ Len(batch') <= BatchSize
        /\ ToSet(q) = ToSet(batch') \cup ToSet(rest')
        /\ batch' = <<>> <=> q = <<>>
        /\ batch' = <<>> => rest' = <<>>
    BY <2>1, <2>3, <2>4, StartFacts
  <2>6. DOMAIN infos' = C /\ infos' = [n \in C |-> Info(n)]
    BY <1>7
  <2>7. /\ readable' = <<>> /\ response' = <<>> /\ output' = NoResults /\ listing' = <<>>
        /\ cause' = "none" /\ pc' = "lookup" /\ batch' # <<>>
    BY <1>1, <1>7, <2>4, <2>5
  <2>8. TypeOK'
    <3>1. Len(response') <= Len(readable')
          /\ response' \in Seq([err : {"ok", "failed"}, data : Seq(Byte)])
      BY <2>7, NoneFacts
    <3>2. \A p \in {rest', batch', readable'} : p \in Seq(wanted') /\ IsInjective(p)
      BY <1>1, <2>5, <2>7, NoneFacts
    <3>3. DOMAIN infos' \subseteq wanted' /\ DOMAIN output' \subseteq wanted'
      BY <1>1, <2>6, <2>7, NoneFacts
    <3>4. /\ pc' \in PCs /\ (listing' # <<>> => pc' = "returned")
          /\ cause' \in Causes /\ (pc' = "raised" <=> cause' # "none")
      BY <2>7 DEF PCs, Causes
    <3>5. QED
      BY <1>2, <2>5, <3>1, <3>2, <3>3, <3>4 DEF TypeOK, ContextOK, SymbolsOK
  <2>9. FoundInv'
    BY <1>5, <2>6 DEF FoundInv
  <2>10. LookupInv'
    BY <1>1, <2>3, <2>5, <2>6, <2>7 DEF LookupInv
  <2>11. IdleInv' /\ ReadInv' /\ OwnResult'
    BY <2>7 DEF IdleInv, ReadInv, OwnResult
  <2>12. PhaseInv'
    BY <1>1, <2>5, <2>7 DEF PhaseInv
  <2>13. QED
    BY <2>8, <2>9, <2>10, <2>11, <2>12 DEF ClientInv
<1>8. QED
  BY <1>4, <1>6, <1>7

(***************************************************************************)
(* A lookup is answered: what it has found of the batch is what the PLC    *)
(* has.                                                                    *)
(***************************************************************************)
LEMMA LookupAnsweredKeeps ==
    ASSUME ClientInv, NEW v \in Verdicts, LookupAnswered(v)
    PROVE  ClientInv'
<1> DEFINE streams == Cut(Entries(batch), Lengths(batch))
           entries == [i \in DOMAIN batch |-> Described(batch[i], streams[i])]
           at(n) == CHOOSE i \in DOMAIN batch : batch[i] = n
           found == [n \in DOMAIN infos \cup ToSet(batch) |->
                        IF n \in DOMAIN infos THEN infos[n]
                        ELSE entries[CHOOSE i \in DOMAIN batch : batch[i] = n].value]
<1>1. /\ pc = "lookup" /\ verdict' = v
      /\ UNCHANGED <<symbols, defs, call, strict, wanted, tableSize, refused, edited>>
  BY DEF LookupAnswered
<1>2. \/ Refused(v) /\ Raise("reported")
      \/ /\ ~Refused(v)
         /\ \/ ~Fits(Entries(batch), Lengths(batch))
            \/ \E i \in DOMAIN batch : ~entries[i].ok
         /\ Raise("data")
      \/ /\ ~Refused(v) /\ rest = <<>> /\ LookedUp(wanted, found, strict)
         /\ \A i \in DOMAIN batch : entries[i].ok
      \/ /\ ~Refused(v) /\ rest # <<>> /\ StartBatch(rest)
         /\ infos' = found
         /\ UNCHANGED <<pc, readable, response, output, listing, cause>>
         /\ \A i \in DOMAIN batch : entries[i].ok
  BY DEF LookupAnswered
<1>3. /\ wanted = DOMAIN infos \cup ToSet(batch) \cup ToSet(rest)
      /\ refused = {} /\ output = NoResults /\ readable = <<>> /\ response = <<>>
      /\ call \in Reads /\ wanted \subseteq Names /\ listing = <<>> /\ cause = "none"
      /\ batch \in Seq(wanted) /\ rest \in Seq(wanted)
      /\ IsInjective(batch) /\ IsInjective(rest)
  BY <1>1 DEF ClientInv, LookupInv, PhaseInv, TypeOK
<1>4. ContextOK'
  <2>1. ContextOK
    BY InContext
  <2>2. tableSize' \in Nat /\ refused' \subseteq wanted /\ verdict' \in Verdicts
    BY <1>1, <2>1 DEF ContextOK
  <2>3. QED
    BY <1>1, <2>1, <2>2, ContextKept
<1>s. SymbolsOK
  BY InContext DEF ContextOK
<1>5. batch \in Seq(Names) /\ DOMAIN batch = 1..Len(batch)
  BY <1>3, LenProperties
<1>6. \A i \in DOMAIN batch :
        IF Clear(batch[i]) THEN entries[i] = [ok |-> TRUE, value |-> Info(batch[i])]
        ELSE entries[i].ok = FALSE
  BY <1>s, <1>5, LookupFacts
<1> HIDE DEF streams, entries
<1>7. ASSUME \A i \in DOMAIN batch : entries[i].ok, NEW n \in ToSet(batch)
      PROVE  entries[at(n)].value = Info(n)
  <2>1. \E i \in DOMAIN batch : batch[i] = n
    BY DEF ToSet
  <2>2. at(n) \in DOMAIN batch /\ batch[at(n)] = n
    BY <2>1
  <2> HIDE DEF at
  <2>3. entries[at(n)] = [ok |-> TRUE, value |-> Info(batch[at(n)])]
    BY <1>6, <1>7, <2>2
  <2>4. entries[at(n)].value = Info(batch[at(n)])
    BY <2>3
  <2>5. QED
    BY <2>2, <2>4
<1>9. /\ DOMAIN found = DOMAIN infos \cup ToSet(batch)
      /\ \A n \in DOMAIN found :
            found[n] = IF n \in DOMAIN infos THEN infos[n] ELSE entries[at(n)].value
  OBVIOUS
<1> HIDE DEF found, at
<1>10. ASSUME \A i \in DOMAIN batch : entries[i].ok, NEW n \in DOMAIN found
       PROVE  found[n] \in Findings(n) /\ (n \notin edited' => found[n] = Info(n)')
  <2>1. Info(n)' = Info(n)
    BY <1>1 DEF Info
  <2>2. CASE n \in DOMAIN infos
    BY <1>1, <1>9, <2>1, <2>2 DEF ClientInv, FoundInv
  <2>3. CASE n \notin DOMAIN infos
    <3>1. n \in ToSet(batch) /\ n \in Names
      BY <1>3, <1>9, <2>3
    <3>2. found[n] = Info(n)
      BY <1>7, <1>9, <1>10, <2>3, <3>1
    <3>3. QED
      BY <1>s, <2>1, <3>1, <3>2, InfoFacts
  <2>4. QED
    BY <2>2, <2>3
<1>11. CASE Refused(v) /\ Raise("reported")
  BY <1>4, <1>11, RaiseKeeps DEF Causes
<1>d. CASE Raise("data")
  BY <1>4, <1>d, RaiseKeeps DEF Causes
<1>12. CASE /\ ~Refused(v) /\ rest = <<>> /\ LookedUp(wanted, found, strict)
            /\ \A i \in DOMAIN batch : entries[i].ok
  <2>1. verdict' = "ok"
    BY <1>1, <1>12 DEF Refused, Verdicts
  <2>2. DOMAIN found = wanted
    BY <1>3, <1>9, <1>12, NoneFacts
  <2>3. QED
    BY <1>1, <1>3, <1>4, <1>10, <1>12, <2>1, <2>2, LookedUpKeeps
<1>13. CASE /\ ~Refused(v) /\ rest # <<>> /\ StartBatch(rest)
            /\ infos' = found
            /\ UNCHANGED <<pc, readable, response, output, listing, cause>>
            /\ \A i \in DOMAIN batch : entries[i].ok
  <2>1. /\ batch' \in Seq(wanted) /\ rest' \in Seq(wanted)
        /\ IsInjective(batch') /\ IsInjective(rest')
        /\ Len(batch') <= BatchSize
        /\ ToSet(rest) = ToSet(batch') \cup ToSet(rest')
        /\ batch' = <<>> <=> rest = <<>>
        /\ batch' = <<>> => rest' = <<>>
    BY <1>3, <1>13, StartFacts
  <2>2. /\ readable' = <<>> /\ response' = <<>> /\ output' = NoResults /\ listing' = <<>>
        /\ cause' = "none" /\ pc' = "lookup" /\ batch' # <<>> /\ infos' = found
        /\ wanted' = wanted /\ call' \in Reads /\ refused' = {}
    BY <1>1, <1>3, <1>13, <2>1
  <2>3. wanted' = DOMAIN infos' \cup ToSet(batch') \cup ToSet(rest')
    BY <1>3, <1>9, <2>1, <2>2
  <2>4. TypeOK'
    <3>1. Len(response') <= Len(readable')
          /\ response' \in Seq([err : {"ok", "failed"}, data : Seq(Byte)])
      BY <2>2, NoneFacts
    <3>2. \A p \in {rest', batch', readable'} : p \in Seq(wanted') /\ IsInjective(p)
      BY <2>1, <2>2, NoneFacts
    <3>3. DOMAIN infos' \subseteq wanted' /\ DOMAIN output' \subseteq wanted'
      BY <2>2, <2>3, NoneFacts
    <3>4. /\ pc' \in PCs /\ (listing' # <<>> => pc' = "returned")
          /\ cause' \in Causes /\ (pc' = "raised" <=> cause' # "none")
      BY <2>2 DEF PCs, Causes
    <3>5. QED
      BY <1>4, <2>1, <3>1, <3>2, <3>3, <3>4 DEF TypeOK, ContextOK, SymbolsOK
  <2>5. FoundInv'
    BY <1>10, <1>13, <2>2 DEF FoundInv
  <2>6. LookupInv' /\ IdleInv' /\ ReadInv' /\ OwnResult'
    BY <2>2, <2>3 DEF LookupInv, IdleInv, ReadInv, OwnResult
  <2>7. PhaseInv'
    BY <1>4, <2>1, <2>2 DEF PhaseInv, ContextOK
  <2>8. QED
    BY <2>4, <2>5, <2>6, <2>7 DEF ClientInv
<1>14. QED
  BY <1>2, <1>d, <1>11, <1>12, <1>13

(***************************************************************************)
(* What was found of a readable name, and what is read for it.             *)
(***************************************************************************)
LEMMA ReadableFacts ==
    ASSUME ClientInv, pc \in {"read", "parse"}
    PROVE  /\ wanted \subseteq Names /\ DOMAIN infos = wanted /\ ToSet(readable) = Good
           /\ readable \in Seq(wanted) /\ IsInjective(readable)
           /\ Len(readable) \in Nat /\ DOMAIN readable = 1..Len(readable)
           /\ Len(response) \in Nat /\ DOMAIN response = 1..Len(response)
           /\ Len(batch) \in Nat /\ DOMAIN batch = 1..Len(batch)
           /\ Len(rest) \in Nat /\ DOMAIN rest = 1..Len(rest)
           /\ \A n \in Good :
                /\ infos[n] \in [err : {"ok"}, sym : {n}, type : Types]
                /\ n \notin edited => /\ symbols[n] # NoType /\ infos[n].type = symbols[n]
                                      /\ AtAddress(n) = Memory(n)
<1>1. /\ wanted \subseteq Names /\ DOMAIN infos = wanted /\ ToSet(readable) = Good
      /\ readable \in Seq(wanted) /\ IsInjective(readable)
      /\ response \in Seq([err : {"ok", "failed"}, data : Seq(Byte)])
      /\ batch \in Seq(wanted) /\ rest \in Seq(wanted) /\ SymbolsOK
  BY DEF ClientInv, ReadInv, PhaseInv, TypeOK, SymbolsOK
<1>2. ASSUME NEW n \in Good
      PROVE  /\ infos[n] \in [err : {"ok"}, sym : {n}, type : Types]
             /\ n \notin edited => /\ symbols[n] # NoType /\ infos[n].type = symbols[n]
                                   /\ AtAddress(n) = Memory(n)
  <2>1. n \in Names /\ n \in DOMAIN infos /\ infos[n].err = "ok"
    BY <1>1 DEF Good
  <2>2. infos[n] \in Findings(n) /\ (n \notin edited => infos[n] = Info(n))
    BY <2>1 DEF ClientInv, FoundInv
  <2>3. infos[n] \in [err : {"ok"}, sym : {n}, type : Types]
    BY <2>1, <2>2, FindingFacts
  <2>4. ASSUME n \notin edited
        PROVE  symbols[n] # NoType /\ infos[n].sym = n /\ infos[n].type = symbols[n]
    <3>1. infos[n] = Info(n) /\ Info(n).err = "ok"
      BY <2>1, <2>2, <2>4
    <3>2. QED
      BY <1>1, <2>1, <3>1, InfoFacts
  <2>5. n \notin edited => AtAddress(n) = Memory(n)
    BY <2>4 DEF AtAddress
  <2>6. QED
    BY <2>3, <2>4, <2>5
<1>3. QED
  BY <1>1, <1>2, LenProperties

(***************************************************************************)
(* At the address of a symbol are its bytes, or others in their place.     *)
(***************************************************************************)
LEMMA AddressFacts ==
    ASSUME NEW n, infos[n].sym = n
    PROVE  DataOf(n, AtAddress(n))
<1>1. CASE symbols[n] = infos[n].type
  BY <1>1 DEF DataOf, AtAddress, Memory
<1>2. CASE symbols[n] # infos[n].type
  <2>1. AtAddress(n) = Bytes(NoType, infos[n].type)
    BY <1>2 DEF AtAddress, Filler, Length, Bytes
  <2>2. QED
    BY <2>1 DEF DataOf
<1>3. QED
  BY <1>1, <1>2

(***************************************************************************)
(* The answer to a batch is appended: the results stay those of the names  *)
(* at their places.                                                        *)
(***************************************************************************)
LEMMA BatchAnsweredKeeps ==
    ASSUME ClientInv, NEW v \in Verdicts, BatchAnswered(v)
    PROVE  ClientInv'
<1>1. /\ pc = "read" /\ call = "bulk" /\ verdict' = v /\ cause = "none" /\ listing = <<>>
      /\ UNCHANGED <<symbols, defs, call, strict, wanted, tableSize, edited>>
  BY DEF BatchAnswered, ClientInv, TypeOK
<1>2. /\ wanted \subseteq Names /\ DOMAIN infos = wanted /\ ToSet(readable) = Good
      /\ readable \in Seq(wanted) /\ IsInjective(readable)
      /\ Len(readable) \in Nat /\ DOMAIN readable = 1..Len(readable)
      /\ Len(response) \in Nat /\ DOMAIN response = 1..Len(response)
      /\ Len(batch) \in Nat /\ DOMAIN batch = 1..Len(batch)
      /\ Len(rest) \in Nat /\ DOMAIN rest = 1..Len(rest)
      /\ \A n \in Good :
           /\ infos[n] \in [err : {"ok"}, sym : {n}, type : Types]
           /\ n \notin edited => AtAddress(n) = Memory(n)
  BY <1>1, ReadableFacts
<1>3. /\ batch \in Seq(wanted) /\ batch \in Seq(Names) /\ rest \in Seq(wanted)
      /\ IsInjective(rest) /\ SymbolsOK /\ refused \subseteq wanted
      /\ response \in Seq([err : {"ok", "failed"}, data : Seq(Byte)])
  BY <1>2 DEF ClientInv, TypeOK, SymbolsOK
<1>4. /\ Len(readable) = Len(response) + Len(batch) + Len(rest)
      /\ \A i \in DOMAIN batch : batch[i] = readable[Len(response) + i]
      /\ \A i \in DOMAIN rest : rest[i] = readable[Len(response) + Len(batch) + i]
      /\ \A i \in DOMAIN response : AnswerOf(readable[i], response[i])
      /\ \A n \in refused : \E i \in DOMAIN response : readable[i] = n
      /\ DOMAIN output = wanted \ Good
      /\ \A n \in wanted \ Good : output[n] = [err |-> infos[n].err, value |-> NoType]
  BY <1>1 DEF ClientInv, ReadInv, AlignedInv, AnswersInv
<1>5. ASSUME refused' \subseteq wanted PROVE ContextOK'
  <2>1. ContextOK
    BY InContext
  <2>2. tableSize' \in Nat /\ verdict' \in Verdicts
    BY <1>1, <2>1 DEF ContextOK
  <2>3. QED
    BY <1>1, <1>5, <2>1, <2>2, ContextKept
<1>6. CASE Refused(v) /\ Raise("reported") /\ UNCHANGED refused
  BY <1>3, <1>5, <1>6, RaiseKeeps DEF Causes
<1>7. ASSUME ~Refused(v), NEW F \in SUBSET ToSet(batch), refused' = refused \cup F,
             IF ~Fits(Data(batch, F), Asked(batch))
             THEN Raise("data")
             ELSE /\ response' = response \o Results(batch, F, Data(batch, F))
                  /\ StartBatch(rest)
                  /\ pc' = IF rest = <<>> THEN "parse" ELSE "read"
                  /\ UNCHANGED <<infos, readable, output, listing, cause>>
      PROVE  ClientInv'
  <2> DEFINE L == Len(response)
             B == Len(batch)
             results == Results(batch, F, Data(batch, F))
             R == [err : {"ok", "failed"}, data : Seq(Byte)]
  <2>1. ASSUME NEW i \in DOMAIN batch
        PROVE  /\ L + i \in DOMAIN readable /\ batch[i] = readable[L + i]
               /\ batch[i] \in Good
    <3>1. L + i \in DOMAIN readable
      BY <1>2, <1>4
    <3>2. batch[i] = readable[L + i]
      BY <1>4
    <3>3. QED
      BY <1>2, <3>1, <3>2 DEF ToSet
  <2>2. \A i \in DOMAIN batch : infos[batch[i]] \in [err : {"ok"}, sym : {batch[i]}, type : Types]
    BY <1>2, <2>1
  <2>3. /\ Fits(Data(batch, F), Asked(batch))
        /\ results =
             [i \in DOMAIN batch |->
                [err |-> IF batch[i] \in F THEN "failed" ELSE "ok",
                 data |-> IF batch[i] \in F THEN Filler(Length(batch[i])) ELSE AtAddress(batch[i])]]
        /\ results \in Seq(R) /\ Len(results) = B
    BY <1>3, <2>2, DataFacts
  <2>4. /\ response' = response \o results
        /\ StartBatch(rest)
        /\ pc' = IF rest = <<>> THEN "parse" ELSE "read"
        /\ UNCHANGED <<infos, readable, output, listing, cause>>
    BY <1>7, <2>3
  <2>5. ASSUME NEW i \in DOMAIN batch
        PROVE  /\ results[i].err = IF batch[i] \in F THEN "failed" ELSE "ok"
               /\ batch[i] \notin F => results[i].data = AtAddress(batch[i])
    <3> DEFINE e == IF batch[i] \in F THEN "failed" ELSE "ok"
               d == IF batch[i] \in F THEN Filler(Length(batch[i])) ELSE AtAddress(batch[i])
               r == results[i]
    <3>1. r = [err |-> e, data |-> d]
      BY <2>3
    <3>2. batch[i] \notin F => d = AtAddress(batch[i])
      OBVIOUS
    <3> HIDE DEF r, d
    <3>3. r.err = e /\ r.data = d
      BY <3>1
    <3>4. QED
      BY <3>2, <3>3 DEF r
  <2>k. results \in Seq(R) /\ Len(results) = B /\ response \in Seq(R)
    BY <1>3, <2>3
  <2> HIDE DEF results, R
  <2>6. /\ response' \in Seq(R) /\ Len(response') = L + B
        /\ \A y \in 1..(L + B) : response'[y] = IF y <= L THEN response[y] ELSE results[y - L]
    <3>1. /\ response \o results \in Seq(R) /\ Len(response \o results) = Len(response) + Len(results)
          /\ \A y \in 1..(Len(response) + Len(results)) :
                (response \o results)[y] =
                    IF y <= Len(response) THEN response[y] ELSE results[y - Len(response)]
      BY ONLY <2>k, JoinFacts
    <3>2. QED
      BY <2>k, <2>4, <3>1
  <2>7. /\ batch' \in Seq(wanted) /\ rest' \in Seq(wanted)
        /\ IsInjective(batch') /\ IsInjective(rest')
        /\ Len(batch') \in Nat /\ Len(rest') \in Nat
        /\ Len(batch') <= BatchSize
        /\ Len(rest) = Len(batch') + Len(rest')
        /\ \A i \in DOMAIN batch' : i \in Nat /\ i \in DOMAIN rest /\ batch'[i] = rest[i]
        /\ \A i \in DOMAIN rest' :
              i \in Nat /\ Len(batch') + i \in DOMAIN rest /\ rest'[i] = rest[Len(batch') + i]
        /\ batch' = <<>> <=> rest = <<>>
        /\ batch' = <<>> => rest' = <<>>
    BY <1>3, <2>4, StartFacts
  <2>8. DOMAIN response' = 1..(L + B) /\ DOMAIN response' \subseteq DOMAIN readable
    <3>1. DOMAIN response' = 1..(L + B)
      BY <2>6, LenProperties
    <3>2. QED
      BY <1>2, <1>4, <3>1
  <2>9. ASSUME NEW n \in F
        PROVE  /\ n \in wanted
               /\ \E i \in DOMAIN batch : n = readable[L + i] /\ L + i \in DOMAIN readable
                                          /\ L + i \in DOMAIN response'
    <3>1. PICK i \in DOMAIN batch : batch[i] = n
      BY DEF ToSet
    <3>2. L + i \in DOMAIN response'
      BY <1>2, <2>8
    <3>3. n \in wanted
      BY <2>1, <3>1 DEF Good
    <3>4. QED
      BY <2>1, <3>1, <3>2, <3>3
  <2>10. /\ refused' \subseteq wanted /\ verdict' = "ok" /\ pc' \in {"read", "parse"}
         /\ (pc' = "parse" <=> rest = <<>>)
         /\ listing' = <<>> /\ cause' = "none" /\ infos' = infos /\ readable' = readable
         /\ output' = output /\ wanted' = wanted /\ call' = "bulk"
    BY <1>1, <1>3, <1>7, <2>4, <2>9 DEF Refused, Verdicts
  <2>11. ContextOK'
    BY <1>5, <2>10
  <2>12. TypeOK'
    <3>1. Len(response') <= Len(readable')
      BY <1>2, <1>4, <2>6, <2>10
    <3>2. response' \in Seq([err : {"ok", "failed"}, data : Seq(Byte)])
      BY <2>6 DEF R
    <3>3. \A p \in {rest', batch', readable'} : p \in Seq(wanted') /\ IsInjective(p)
      BY <1>2, <2>7, <2>10
    <3>4. DOMAIN infos' \subseteq wanted' /\ DOMAIN output' \subseteq wanted'
      BY <1>2, <1>4, <2>10
    <3>5. /\ pc' \in PCs /\ (listing' # <<>> => pc' = "returned")
          /\ cause' \in Causes /\ (pc' = "raised" <=> cause' # "none")
      BY <2>10 DEF PCs, Causes
    <3>6. QED
      BY <2>7, <2>11, <3>1, <3>2, <3>3, <3>4, <3>5 DEF TypeOK, ContextOK, SymbolsOK
  <2>13. FoundInv'
    <3>1. ASSUME NEW n \in DOMAIN infos
          PROVE  infos[n] \in Findings(n) /\ (n \notin edited => infos[n] = Info(n)')
      <4>1. Info(n)' = Info(n)
        BY <1>1 DEF Info
      <4>2. QED
        BY <4>1 DEF ClientInv, FoundInv
    <3>2. QED
      BY <1>1, <2>10, <3>1 DEF FoundInv
  <2>14. AlignedInv'
    <3>1. Len(readable') = Len(response') + Len(batch') + Len(rest')
      BY <1>2, <1>4, <2>6, <2>7, <2>10
    <3>2. ASSUME NEW i \in DOMAIN batch' PROVE batch'[i] = readable'[Len(response') + i]
      <4>1. L + B + i = Len(response') + i
        BY <1>2, <2>6, <2>7
      <4>2. batch'[i] = readable[L + B + i]
        BY <1>4, <2>7
      <4>3. QED
        BY <2>10, <4>1, <4>2
    <3>3. ASSUME NEW i \in DOMAIN rest'
          PROVE  rest'[i] = readable'[Len(response') + Len(batch') + i]
      <4>1. L + B + (Len(batch') + i) = Len(response') + Len(batch') + i
        BY <1>2, <2>6, <2>7
      <4>2. rest'[i] = readable[L + B + (Len(batch') + i)]
        BY <1>4, <2>7
      <4>3. QED
        BY <2>10, <4>1, <4>2
    <3>4. QED
      BY <3>1, <3>2, <3>3 DEF AlignedInv
  <2>15. ASSUME NEW i \in DOMAIN response'
         PROVE  /\ (response'[i]).err = IF readable[i] \in refused' THEN "failed" ELSE "ok"
                /\ readable[i] \notin edited \cup refused'
                        => (response'[i]).data = Memory(readable[i])
                /\ readable[i] \notin refused' => DataOf(readable[i], (response'[i]).data)
    <3> DEFINE n == readable[i]
    <3>1. i \in 1..(L + B) /\ i \in DOMAIN readable
      BY <2>8
    <3>3. CASE i <= L
      <4>1. response'[i] = response[i] /\ i \in DOMAIN response
        BY <1>2, <2>6, <3>1, <3>3
      <4>2. AnswerOf(readable[i], response[i])
        BY <1>4, <4>1
      <4>3. n \notin F
        <5>1. SUFFICES ASSUME n \in F PROVE FALSE
          OBVIOUS
        <5>2. PICK j \in DOMAIN batch : n = readable[L + j] /\ L + j \in DOMAIN readable
          BY <2>9, <5>1
        <5>3. L + j = i
          BY <1>2, <3>1, <5>2 DEF IsInjective
        <5>4. QED
          BY <1>2, <3>3, <5>3
      <4>4. n \in refused' <=> n \in refused
        BY <1>7, <4>3
      <4>5. QED
        BY <4>1, <4>2, <4>4 DEF AnswerOf
    <3>4. CASE i > L
      <4> DEFINE j == i - L
      <4>1. j \in DOMAIN batch /\ L + j = i /\ response'[i] = results[j]
        BY <1>2, <2>6, <3>1, <3>4
      <4> HIDE DEF j
      <4>2. batch[j] = n /\ n \in Good
        BY <2>1, <4>1
      <4>3. n \notin refused
        <5>1. SUFFICES ASSUME n \in refused PROVE FALSE
          OBVIOUS
        <5>2. PICK k \in DOMAIN response : readable[k] = n
          BY <1>4, <5>1
        <5>3. k \in DOMAIN readable /\ k <= L
          BY <1>2, <1>4
        <5>4. k = i
          BY <1>2, <3>1, <5>2, <5>3 DEF IsInjective
        <5>5. QED
          BY <1>2, <3>1, <3>4, <5>3, <5>4
      <4>4. n \in refused' <=> n \in F
        BY <1>7, <4>3
      <4>5. results[j].err = (IF n \in F THEN "failed" ELSE "ok")
            /\ (n \notin F => results[j].data = AtAddress(n))
        BY <2>5, <4>1, <4>2
      <4>6. n \notin edited => AtAddress(n) = Memory(n)
        BY <1>2, <4>2
      <4>a. DataOf(n, AtAddress(n))
        <5>1. infos[n].sym = n
          BY <1>2, <4>2
        <5> HIDE DEF n
        <5>2. QED
          BY <5>1, AddressFacts
      <4> HIDE DEF n
      <4>7. (response'[i]).err = IF n \in refused' THEN "failed" ELSE "ok"
        BY <4>1, <4>4, <4>5
      <4>8. n \notin edited \cup refused' => (response'[i]).data = Memory(n)
        BY <4>1, <4>4, <4>5, <4>6
      <4>9. n \notin refused' => DataOf(n, (response'[i]).data)
        BY <4>1, <4>4, <4>5, <4>a
      <4>10. QED
        BY <4>7, <4>8, <4>9 DEF n
    <3>5. QED
      BY <1>2, <3>1, <3>3, <3>4
  <2>16. ASSUME NEW n \in refused' PROVE \E i \in DOMAIN response' : readable'[i] = n
    <3>1. CASE n \in refused
      <4>1. PICK i \in DOMAIN response : readable[i] = n
        BY <1>4, <3>1
      <4>2. i \in DOMAIN response'
        BY <1>2, <2>8
      <4>3. QED
        BY <2>10, <4>1, <4>2
    <3>2. CASE n \in F
      BY <2>9, <2>10, <3>2
    <3>3. QED
      BY <1>7, <3>1, <3>2
  <2>17. ReadInv'
    <3>1. Good' = Good
      BY <2>10 DEF Good
    <3>2. ASSUME NEW n, NEW s PROVE DataOf(n, s)' <=> DataOf(n, s)
      BY <2>10 DEF DataOf, Bytes
    <3>3. AnswersInv'
      BY <1>1, <2>10, <2>15, <3>2 DEF AnswersInv, AnswerOf, Memory
    <3>4. QED
      BY <1>2, <1>4, <2>10, <2>14, <2>16, <3>1, <3>3 DEF ReadInv
  <2>18. IdleInv' /\ LookupInv' /\ OwnResult'
    BY <2>10 DEF IdleInv, LookupInv, OwnResult
  <2>19. PhaseInv'
    BY <1>2, <2>7, <2>10 DEF PhaseInv, Reads
  <2>20. QED
    BY <2>12, <2>13, <2>17, <2>18, <2>19 DEF ClientInv
<1>8. QED
  BY <1>6, <1>7 DEF BatchAnswered

(***************************************************************************)
(* What is parsed from the bytes of a symbol is what its type means.       *)
(***************************************************************************)
LEMMA ParsedFacts ==
    ASSUME ClientInv, pc \in {"read", "parse"}, NEW n \in Good, n \notin edited,
           ParsedValue(n, Memory(n)).ok
    PROVE  /\ symbols[n] # NoType
           /\ ParsedValue(n, Memory(n)).value = LayoutOf(symbols[n], Memory(n))
<1> DEFINE t == symbols[n]
           r == ParseType(defs, t, Bytes(n, t))
<1>1. n \in Names /\ t # NoType /\ infos[n].type = t
  BY ReadableFacts DEF Good
<1>2. t \in Types /\ defs \in {NoResults, Defs}
  BY <1>1 DEF ClientInv, TypeOK
<1>3. ParsedValue(n, Memory(n)) = r
  BY <1>1 DEF ParsedValue, Memory
<1> HIDE DEF t
<1>4. r.ok => r.value = LayoutOf(t, Bytes(n, t))
  BY <1>1, <1>2, ParserAssumption DEF ParserAssumption
<1>5. QED
  BY <1>1, <1>3, <1>4 DEF t, Memory

(***************************************************************************)
(* The results of a bulk read are parsed: each name finds its own answer.  *)
(***************************************************************************)
LEMMA ParseReturnsKeeps ==
    ASSUME ClientInv, ParseReturns
    PROVE  ClientInv'
<1> DEFINE values == [i \in DOMAIN readable |-> ParsedValue(readable[i], response[i].data)]
           OK(i) == response[i].err = "ok"
           at(n) == CHOOSE j \in DOMAIN readable : readable[j] = n
           Value(n) == [err |-> response[at(n)].err,
                        value |-> IF OK(at(n)) THEN values[at(n)].value ELSE NoType]
           out == [n \in wanted |-> IF n \in DOMAIN output THEN output[n] ELSE Value(n)]
<1>1. /\ pc = "parse" /\ cause = "none" /\ verdict = "ok" /\ batch = <<>> /\ rest = <<>>
      /\ UNCHANGED <<symbols, defs, call, strict, wanted, tableSize, refused, verdict, edited>>
  BY DEF ParseReturns, ClientInv, TypeOK, PhaseInv
<1>2. \/ Raise("data")
      \/ (\A i \in DOMAIN readable : OK(i) => values[i].ok) /\ Return(out)
  BY DEF ParseReturns
<1>3. ContextOK'
  <2>1. ContextOK
    BY InContext
  <2>2. QED
    BY <1>1, <2>1, ContextKept DEF ContextOK
<1>4. CASE Raise("data")
  BY <1>3, <1>4, RaiseKeeps DEF Causes
<1>5. CASE (\A i \in DOMAIN readable : OK(i) => values[i].ok) /\ Return(out)
  <2>1. /\ wanted \subseteq Names /\ DOMAIN infos = wanted /\ ToSet(readable) = Good
        /\ Len(readable) \in Nat /\ DOMAIN readable = 1..Len(readable)
        /\ Len(response) \in Nat /\ DOMAIN response = 1..Len(response)
        /\ DOMAIN output = wanted \ Good
        /\ \A n \in wanted \ Good : output[n] = [err |-> infos[n].err, value |-> NoType]
        /\ SymbolsOK
    BY <1>1, ReadableFacts DEF ClientInv, ReadInv, TypeOK, SymbolsOK
  <2>2. DOMAIN response = DOMAIN readable
    <3>1. Len(readable) = Len(response) + 0 + 0
      BY <1>1, NoneFacts DEF ClientInv, ReadInv, AlignedInv
    <3>2. QED
      BY <2>1, <3>1
  <2>3. ASSUME NEW n \in wanted \ edited PROVE out[n] = Expected(n)
    <3>1. CASE n \notin Good
      <4>1. out[n] = [err |-> infos[n].err, value |-> NoType]
        BY <2>1, <3>1
      <4>2. infos[n] = Info(n) /\ infos[n].err # "ok" /\ n \in Names
        BY <2>1, <3>1 DEF ClientInv, FoundInv, Good
      <4>3. symbols[n] = NoType /\ infos[n].err = "notfound"
        BY <2>1, <4>2, InfoFacts
      <4>4. QED
        BY <4>1, <4>3 DEF Expected
    <3>2. CASE n \in Good
      <4>1. out[n] = Value(n)
        BY <2>1, <3>2
      <4>2. at(n) \in DOMAIN readable /\ readable[at(n)] = n
        <5>1. \E j \in DOMAIN readable : readable[j] = n
          BY <2>1, <3>2 DEF ToSet
        <5>2. QED
          BY <5>1
      <4> DEFINE i == at(n)
      <4>3. values[i] = ParsedValue(n, response[i].data)
        BY <4>2
      <4>4. OK(i) => values[i].ok
        BY <1>5, <4>2
      <4>5. out[n] = [err |-> response[i].err,
                      value |-> IF OK(i) THEN values[i].value ELSE NoType]
        BY <4>1
      <4> HIDE DEF i, values, out
      <4>6. /\ response[i].err = IF n \in refused THEN "failed" ELSE "ok"
            /\ n \notin refused => response[i].data = Memory(n)
        BY <1>1, <2>2, <4>2 DEF ClientInv, ReadInv, AnswersInv, AnswerOf, i
      <4>7. symbols[n] # NoType
        BY <1>1, <3>2, ReadableFacts
      <4>8. CASE n \in refused
        <5>1. out[n] = [err |-> "failed", value |-> NoType]
          BY <4>5, <4>6, <4>8
        <5>2. QED
          BY <4>7, <4>8, <5>1 DEF Expected
      <4>9. CASE n \notin refused
        <5>1. OK(i) /\ values[i] = ParsedValue(n, Memory(n)) /\ values[i].ok
          BY <4>3, <4>4, <4>6, <4>9
        <5>2. values[i].value = LayoutOf(symbols[n], Memory(n))
          BY <1>1, <3>2, <5>1, ParsedFacts
        <5>3. out[n] = [err |-> "ok", value |-> LayoutOf(symbols[n], Memory(n))]
          BY <4>5, <5>1, <5>2
        <5>4. QED
          BY <4>7, <4>9, <5>3 DEF Expected
      <4>10. QED
        BY <4>8, <4>9
    <3>3. QED
      BY <3>1, <3>2
  <2>4. DOMAIN out = wanted /\ wanted' = wanted /\ edited' = edited /\ verdict' = "ok"
    BY <1>1
  <2>5. ASSUME NEW n PROVE Expected(n)' = Expected(n)
    BY <1>1 DEF Expected, Memory
  <2> HIDE DEF out
  <2>6. QED
    BY <1>1, <1>3, <1>5, <2>3, <2>4, <2>5, ReturnKeeps
<1>6. QED
  BY <1>2, <1>4, <1>5

(***************************************************************************)
(* A single value is answered.                                             *)
(***************************************************************************)
LEMMA ValueAnsweredKeeps ==
    ASSUME ClientInv, NEW v \in Verdicts, ValueAnswered(v)
    PROVE  ClientInv'
<1> DEFINE n == batch[1]
           r == ParsedValue(n, AtAddress(n))
           out == [m \in {n} |-> [err |-> "ok", value |-> r.value]]
<1>1. /\ pc = "read" /\ call = "single" /\ verdict' = v /\ cause = "none" /\ refused = {}
      /\ UNCHANGED <<symbols, defs, call, strict, wanted, tableSize, refused, edited>>
  BY DEF ValueAnswered, ClientInv, TypeOK, PhaseInv
<1>2. \/ Refused(v) /\ Raise("reported")
      \/ ~r.ok /\ Raise("data")
      \/ ~Refused(v) /\ r.ok /\ Return(out)
  BY DEF ValueAnswered
<1>3. ContextOK'
  <2>1. ContextOK
    BY InContext
  <2>2. tableSize' \in Nat /\ refused' \subseteq wanted /\ verdict' \in Verdicts
    BY <1>1, <2>1 DEF ContextOK
  <2>3. QED
    BY <1>1, <2>1, <2>2, ContextKept
<1>4. n \in Good /\ wanted = {n}
  <2>1. batch # <<>> /\ batch \in Seq(wanted) /\ \E m \in Names : wanted = {m}
    BY <1>1 DEF ClientInv, PhaseInv, TypeOK
  <2>2. Len(batch) \in Nat /\ Len(batch) # 0 /\ DOMAIN batch = 1..Len(batch)
    BY <2>1, EmptySeq, LenProperties
  <2>3. 1 \in DOMAIN batch
    BY <2>2
  <2>4. n \in wanted
    BY <2>1, <2>3
  <2>5. n = readable[Len(response) + 1] /\ ToSet(readable) = Good
        /\ Len(readable) = Len(response) + Len(batch) + Len(rest)
    BY <1>1, <2>3 DEF ClientInv, ReadInv, AlignedInv
  <2>6. Len(response) \in Nat /\ Len(rest) \in Nat /\ DOMAIN readable = 1..Len(readable)
        /\ Len(readable) \in Nat
    BY <1>1, ReadableFacts
  <2>7. Len(response) + 1 \in DOMAIN readable
    BY <2>2, <2>5, <2>6
  <2>8. QED
    BY <2>1, <2>4, <2>5, <2>7 DEF ToSet
<1> HIDE DEF n
<1>5. CASE Refused(v) /\ Raise("reported")
  BY <1>3, <1>5, RaiseKeeps DEF Causes
<1>6. CASE ~r.ok /\ Raise("data")
  BY <1>3, <1>6, RaiseKeeps DEF Causes
<1>7. CASE ~Refused(v) /\ r.ok /\ Return(out)
  <2>1. ASSUME n \notin edited PROVE out[n] = Expected(n)
    <3>1. AtAddress(n) = Memory(n)
      BY <1>1, <1>4, <2>1, ReadableFacts
    <3>2. symbols[n] # NoType /\ r.value = LayoutOf(symbols[n], Memory(n))
      BY <1>1, <1>4, <1>7, <2>1, <3>1, ParsedFacts
    <3> HIDE DEF r
    <3>3. out[n] = [err |-> "ok", value |-> LayoutOf(symbols[n], Memory(n))]
      BY <3>2
    <3>4. QED
      BY <1>1, <3>2, <3>3 DEF Expected
  <2>2. DOMAIN out = wanted' /\ edited' = edited /\ verdict' = "ok"
    BY <1>1, <1>4, <1>7 DEF Refused, Verdicts
  <2>3. ASSUME NEW m PROVE Expected(m)' = Expected(m)
    BY <1>1 DEF Expected, Memory
  <2> HIDE DEF out, r
  <2>4. \A m \in wanted' \ edited' : out[m] = Expected(m)'
    BY <1>1, <1>4, <2>1, <2>3
  <2>5. QED
    BY <1>1, <1>3, <1>7, <2>2, <2>4, ReturnKeeps
<1>8. QED
  BY <1>2, <1>5, <1>6, <1>7

(***************************************************************************)
(* The requests of the other calls.                                        *)
(***************************************************************************)
LEMMA AskKeeps ==
    ASSUME ClientInv, NEW kind \in Calls, kind \notin Reads,
           NEW where \in {"info", "type", "command"},
           NEW N \in SUBSET (Names \cup DOMAIN Defs), Ask(kind, where, N)
    PROVE  ClientInv'
<1>1. /\ pc = "idle" /\ call' = kind /\ pc' = where /\ wanted' = N
      /\ UNCHANGED <<symbols, defs, readVars, output, tableSize, listing, verdict, edited, cause>>
      /\ edited = {} /\ refused = {}
      /\ rest = <<>> /\ batch = <<>> /\ readable = <<>> /\ response = <<>>
      /\ infos = NoResults /\ output = NoResults /\ listing = <<>> /\ cause = "none"
  BY DEF Ask, ClientInv, IdleInv, TypeOK
<1>2. /\ rest' = <<>> /\ batch' = <<>> /\ readable' = <<>> /\ response' = <<>>
      /\ infos' = NoResults /\ output' = NoResults /\ listing' = <<>> /\ cause' = "none"
      /\ refused' = {} /\ strict' = strict
  BY <1>1 DEF readVars
<1>3. TypeOK'
  <2>1. /\ \A q \in {rest', batch', readable'} : q \in Seq(wanted') /\ IsInjective(q)
        /\ DOMAIN infos' \subseteq wanted' /\ DOMAIN output' \subseteq wanted'
        /\ response' \in Seq([err : {"ok", "failed"}, data : Seq(Byte)])
        /\ Len(batch') <= BatchSize /\ Len(response') <= Len(readable')
    <3>1. 0 <= BatchSize /\ 0 <= 0
      BY ClientAssumption DEF ClientAssumption
    <3>2. QED
      BY <1>2, <3>1, NoneFacts
  <2>2. pc' \in PCs /\ (pc' = "raised" <=> cause' # "none")
    BY <1>1, <1>2 DEF PCs
  <2>3. QED
    BY <1>1, <1>2, <2>1, <2>2 DEF TypeOK, ClientInv
<1>4. FoundInv'
  BY <1>2, NoneFacts DEF FoundInv
<1>5. IdleInv' /\ LookupInv' /\ ReadInv' /\ OwnResult'
  BY <1>1 DEF IdleInv, LookupInv, ReadInv, OwnResult
<1>6. PhaseInv'
  BY <1>1, <1>2 DEF PhaseInv, Reads
<1>7. QED
  BY <1>3, <1>4, <1>5, <1>6 DEF ClientInv

LEMMA InfoAnsweredKeeps ==
    ASSUME ClientInv, NEW v \in Verdicts, InfoAnswered(v)
    PROVE  ClientInv'
<1>1. /\ pc = "info" /\ verdict' = v /\ cause = "none" /\ call \notin Reads /\ listing = <<>>
      /\ UNCHANGED <<symbols, defs, call, strict, wanted, refused, edited>>
  BY DEF InfoAnswered, ClientInv, TypeOK, PhaseInv
<1>2. \/ Raise("reported") /\ UNCHANGED tableSize
      \/ /\ tableSize' = Len(Table) /\ pc' = "upload"
         /\ UNCHANGED <<infos, rest, batch, readable, response, output, listing, cause>>
  BY DEF InfoAnswered
<1>3. ContextOK
  BY InContext
<1>4. tableSize' \in Nat
  <2>1. Len(SymbolTable) \in Nat /\ Len(TypeTable) \in Nat
    BY <1>3, SymbolTableIsSeq, TypesUploaded, SeqLength DEF ContextOK
  <2>2. QED
    BY <1>2, <1>3, <2>1 DEF Table, ContextOK
<1>5. ContextOK'
  BY <1>1, <1>3, <1>4, ContextKept DEF ContextOK
<1>6. CASE Raise("reported") /\ UNCHANGED tableSize
  BY <1>5, <1>6, RaiseKeeps DEF Causes
<1>7. CASE /\ tableSize' = Len(Table) /\ pc' = "upload"
           /\ UNCHANGED <<infos, rest, batch, readable, response, output, listing, cause>>
  <2>1. TypeOK'
    <3>1. pc' \in PCs /\ (pc' = "raised" <=> cause' # "none") /\ listing' = <<>>
      BY <1>1, <1>7 DEF PCs
    <3>2. QED
      BY <1>1, <1>4, <1>7, <3>1 DEF TypeOK, ClientInv
  <2>2. FoundInv'
    <3>1. \A n : Info(n)' = Info(n)
      BY <1>1 DEF Info
    <3>2. QED
      BY <1>1, <1>7, <3>1 DEF FoundInv, ClientInv
  <2>3. IdleInv' /\ LookupInv' /\ ReadInv' /\ OwnResult'
    BY <1>7 DEF IdleInv, LookupInv, ReadInv, OwnResult
  <2>4. PhaseInv'
    BY <1>1, <1>7 DEF PhaseInv, ClientInv
  <2>5. QED
    BY <2>1, <2>2, <2>3, <2>4 DEF ClientInv
<1>8. QED
  BY <1>2, <1>6, <1>7

LEMMA UploadAnsweredKeeps ==
    ASSUME ClientInv, NEW v \in Verdicts, UploadAnswered(v)
    PROVE  ClientInv'
<1> DEFINE r == Upload(call, Sent, tableSize)
<1>1. /\ pc = "upload" /\ verdict' = v /\ cause = "none" /\ call \notin Reads
      /\ UNCHANGED <<symbols, defs, call, strict, wanted, tableSize, refused, edited>>
  BY DEF UploadAnswered, ClientInv, TypeOK, PhaseInv
<1>2. \/ Raise("reported") \/ Raise("data")
      \/ ~Refused(v) /\ ReturnList(r.value)
  BY DEF UploadAnswered
<1> HIDE DEF r
<1>3. ContextOK'
  <2>1. ContextOK
    BY InContext
  <2>2. QED
    BY <1>1, <2>1, ContextKept DEF ContextOK
<1>4. Raise("reported") \/ Raise("data") => ClientInv'
  BY <1>3, RaiseKeeps DEF Causes
<1>5. ~Refused(v) /\ ReturnList(r.value) => ClientInv'
  <2>1. ~Refused(v) => verdict' = "ok"
    BY <1>1 DEF Refused, Verdicts
  <2>2. QED
    BY <1>1, <1>3, <2>1, ListKeeps
<1>6. QED
  BY <1>2, <1>4, <1>5

LEMMA TypeAnsweredKeeps ==
    ASSUME ClientInv, NEW v \in Verdicts, TypeAnswered(v)
    PROVE  ClientInv'
<1>1. /\ pc = "type" /\ verdict' = v /\ cause = "none" /\ call \notin Reads
      /\ UNCHANGED <<symbols, defs, call, strict, wanted, tableSize, refused, edited>>
  BY DEF TypeAnswered, ClientInv, TypeOK, PhaseInv
<1>2. \/ Raise("reported") \/ Raise("data")
      \/ ~Refused(v) /\ \E list : ReturnList(list)
  BY DEF TypeAnswered
<1>3. ContextOK'
  <2>1. ContextOK
    BY InContext
  <2>2. QED
    BY <1>1, <2>1, ContextKept DEF ContextOK
<1>4. Raise("reported") \/ Raise("data") => ClientInv'
  BY <1>3, RaiseKeeps DEF Causes
<1>5. ASSUME ~Refused(v), NEW list, ReturnList(list) PROVE ClientInv'
  <2>1. verdict' = "ok"
    BY <1>1, <1>5 DEF Refused, Verdicts
  <2>2. QED
    BY <1>1, <1>3, <1>5, <2>1, ListKeeps
<1>6. QED
  BY <1>2, <1>4, <1>5

LEMMA CommandAnsweredKeeps ==
    ASSUME ClientInv, NEW v \in Verdicts, CommandAnswered(v)
    PROVE  ClientInv'
<1>1. /\ pc = "command" /\ verdict' = v /\ cause = "none" /\ call \notin Reads
      /\ UNCHANGED <<symbols, defs, call, strict, wanted, tableSize, refused, edited>>
  BY DEF CommandAnswered, ClientInv, TypeOK, PhaseInv
<1>2. \/ Raise("reported")
      \/ ~Refused(v) /\ Return(NoResults)
  BY DEF CommandAnswered
<1>3. ContextOK'
  <2>1. ContextOK
    BY InContext
  <2>2. QED
    BY <1>1, <2>1, ContextKept DEF ContextOK
<1>4. Raise("reported") => ClientInv'
  BY <1>3, RaiseKeeps DEF Causes
<1>5. ~Refused(v) /\ Return(NoResults) => ClientInv'
  <2>1. ~Refused(v) => verdict' = "ok"
    BY <1>1 DEF Refused, Verdicts
  <2>2. Return(NoResults) => ReturnList(<<>>)
    BY DEF Return, ReturnList
  <2>3. QED
    BY <1>1, <1>3, <2>1, <2>2, ListKeeps
<1>6. QED
  BY <1>2, <1>4, <1>5

LEMMA RequestFailsKeeps ==
    ASSUME ClientInv, RequestFails
    PROVE  ClientInv'
<1>1. Raise("request")
      /\ UNCHANGED <<symbols, defs, call, strict, wanted, tableSize, refused, verdict, edited>>
  BY DEF RequestFails
<1>2. ContextOK'
  <2>1. ContextOK
    BY InContext
  <2>2. QED
    BY <1>1, <2>1, ContextKept DEF ContextOK
<1>3. QED
  BY <1>1, <1>2, RaiseKeeps DEF Causes

(***************************************************************************)
(* Steps of others: the types are uploaded, the symbol table changes.      *)
(***************************************************************************)
LEMMA DatatypesUploadedKeeps ==
    ASSUME ClientInv, DatatypesUploaded
    PROVE  ClientInv'
<1>1. /\ defs' = Defs
      /\ UNCHANGED <<symbols, pc, call, wanted, readVars, output, tableSize, listing, verdict,
                     edited, cause>>
      /\ UNCHANGED <<strict, infos, rest, batch, readable, response, refused>>
  BY TypesUploaded DEF DatatypesUploaded, UploadedTypes, readVars
<1>2. \A n : Info(n)' = Info(n) /\ Memory(n)' = Memory(n) /\ Expected(n)' = Expected(n)
  BY <1>1 DEF Info, Memory, Expected
<1>3. TypeOK'
  BY <1>1 DEF ClientInv, TypeOK
<1>4. FoundInv' /\ IdleInv' /\ LookupInv' /\ PhaseInv'
  BY <1>1, <1>2 DEF ClientInv, FoundInv, IdleInv, LookupInv, PhaseInv
<1>5. ReadInv'
  <2>1. Good' = Good /\ (AlignedInv' <=> AlignedInv)
    BY <1>1 DEF Good, AlignedInv
  <2>a. ASSUME NEW n, NEW s PROVE DataOf(n, s)' <=> DataOf(n, s)
    BY <1>1 DEF DataOf, Bytes
  <2>2. AnswersInv' <=> AnswersInv
    BY <1>1, <1>2, <2>a DEF AnswersInv, AnswerOf, Memory
  <2>3. QED
    BY <1>1, <2>1, <2>2 DEF ClientInv, ReadInv
<1>6. OwnResult'
  BY <1>1, <1>2 DEF ClientInv, OwnResult
<1>7. QED
  BY <1>3, <1>4, <1>5, <1>6 DEF ClientInv

LEMMA SymbolChangesKeeps ==
    ASSUME ClientInv, NEW n \in Names, NEW t \in NewTypes, SymbolChanges(n, t)
    PROVE  ClientInv'
<1>1. /\ pc \in {"lookup", "read", "upload"} /\ edited = {}
      /\ symbols' = [symbols EXCEPT ![n] = t]
      /\ edited' = IF pc = "upload" \/ n \in DOMAIN infos THEN {n} ELSE {}
      /\ UNCHANGED <<defs, pc, call, wanted, output, tableSize, listing, verdict, cause>>
      /\ UNCHANGED <<strict, infos, rest, batch, readable, response, refused>>
  BY DEF SymbolChanges, readVars
<1>2. symbols \in [Names -> Types \cup {NoType}] /\ t \in Types \cup {NoType}
  BY ClientAssumption DEF ClientAssumption, ClientInv, TypeOK
<1>3. symbols' \in [Names -> Types \cup {NoType}] /\ edited' \subseteq Names
  BY <1>1, <1>2
<1>4. ASSUME NEW m \in DOMAIN infos, m \notin edited'
      PROVE  symbols'[m] = symbols[m] /\ Info(m)' = Info(m) /\ Memory(m)' = Memory(m)
  <2>1. m # n
    BY <1>1, <1>4
  <2>2. symbols'[m] = symbols[m]
    BY <1>1, <1>2, <2>1
  <2>3. QED
    BY <2>2 DEF Info, Memory
<1>5. TypeOK'
  BY <1>1, <1>3 DEF ClientInv, TypeOK
<1>6. FoundInv'
  BY <1>1, <1>4 DEF ClientInv, FoundInv
<1>7. IdleInv' /\ LookupInv' /\ PhaseInv' /\ OwnResult'
  BY <1>1 DEF ClientInv, IdleInv, LookupInv, PhaseInv, OwnResult
<1>8. ReadInv'
  <2>1. Good' = Good /\ (AlignedInv' <=> AlignedInv)
    BY <1>1 DEF Good, AlignedInv
  <2>2. ASSUME pc = "read", NEW i \in DOMAIN response
        PROVE  AnswerOf(readable[i], response[i]) =>
                 /\ response[i].err = IF readable[i] \in refused THEN "failed" ELSE "ok"
                 /\ readable[i] \notin edited' \cup refused
                        => response[i].data = Bytes(readable[i], symbols'[readable[i]])
                 /\ readable[i] \notin refused => DataOf(readable[i], response[i].data)
    <3>1. Len(response) <= Len(readable) /\ DOMAIN infos = wanted
      BY <2>2 DEF ClientInv, TypeOK, ReadInv
    <3>2. readable[i] \in DOMAIN infos
      BY <2>2, <3>1, ReadableFacts
    <3>3. readable[i] \notin edited' => Memory(readable[i]) = Bytes(readable[i], symbols'[readable[i]])
      BY <1>4, <3>2 DEF Memory
    <3>4. QED
      BY <1>1, <3>3 DEF AnswerOf
  <2>a. ASSUME NEW m, NEW s PROVE DataOf(m, s)' <=> DataOf(m, s)
    BY <1>1 DEF DataOf, Bytes
  <2>3. pc = "read" /\ AnswersInv => AnswersInv'
    BY <1>1, <2>2, <2>a DEF AnswersInv, AnswerOf, Memory
  <2>4. QED
    BY <1>1, <2>1, <2>3 DEF ClientInv, ReadInv
<1>9. QED
  BY <1>5, <1>6, <1>7, <1>8 DEF ClientInv

LEMMA ResultTakenKeeps ==
    ASSUME ClientInv, ResultTaken
    PROVE  ClientInv'
<1>1. /\ pc' = "idle" /\ output' = NoResults /\ listing' = <<>> /\ infos' = NoResults
      /\ batch' = <<>> /\ rest' = <<>> /\ readable' = <<>> /\ response' = <<>>
      /\ call' = "none" /\ strict' = FALSE /\ wanted' = {} /\ tableSize' = 0
      /\ refused' = {} /\ verdict' = "ok" /\ edited' = {} /\ cause' = "none"
      /\ UNCHANGED <<symbols, defs>>
  BY DEF ResultTaken, End
<1>2. TypeOK'
  <2>1. 0 <= BatchSize /\ 0 <= 0
    BY ClientAssumption DEF ClientAssumption
  <2>2. QED
    BY <1>1, <2>1, NoneFacts DEF ClientInv, TypeOK, PCs, Calls, Verdicts, Causes
<1>3. FoundInv' /\ IdleInv' /\ LookupInv' /\ ReadInv' /\ PhaseInv' /\ OwnResult'
  BY <1>1, NoneFacts DEF FoundInv, IdleInv, LookupInv, ReadInv, PhaseInv, OwnResult, Reads
<1>4. QED
  BY <1>2, <1>3 DEF ClientInv

LEMMA StutterKeeps ==
    ASSUME ClientInv, UNCHANGED vars
    PROVE  ClientInv'
<1>1. UNCHANGED <<symbols, defs, pc, call, wanted, output, tableSize, listing, verdict, edited,
                  cause>>
      /\ UNCHANGED <<strict, infos, rest, batch, readable, response, refused>>
  BY DEF vars, readVars
<1>2. \A n : Info(n)' = Info(n) /\ Memory(n)' = Memory(n) /\ Expected(n)' = Expected(n)
  BY <1>1 DEF Info, Memory, Expected
<1>3. TypeOK'
  BY <1>1 DEF ClientInv, TypeOK
<1>4. FoundInv' /\ IdleInv' /\ LookupInv' /\ PhaseInv'
  BY <1>1, <1>2 DEF ClientInv, FoundInv, IdleInv, LookupInv, PhaseInv
<1>5. ReadInv'
  <2>1. Good' = Good /\ (AlignedInv' <=> AlignedInv)
    BY <1>1 DEF Good, AlignedInv
  <2>a. ASSUME NEW n, NEW s PROVE DataOf(n, s)' <=> DataOf(n, s)
    BY <1>1 DEF DataOf, Bytes
  <2>2. AnswersInv' <=> AnswersInv
    BY <1>1, <1>2, <2>a DEF AnswersInv, AnswerOf, Memory
  <2>3. QED
    BY <1>1, <2>1, <2>2 DEF ClientInv, ReadInv
<1>6. OwnResult'
  BY <1>1, <1>2 DEF ClientInv, OwnResult
<1>7. QED
  BY <1>3, <1>4, <1>5, <1>6 DEF ClientInv

-----------------------------------------------------------------------------
LEMMA ClientInit == Init => ClientInv
<1> SUFFICES ASSUME Init PROVE ClientInv
  OBVIOUS
<1>1. TypeOK
  <2>1. 0 <= BatchSize /\ 0 <= 0
    BY ClientAssumption DEF ClientAssumption
  <2>2. symbols \in [Names -> Types \cup {NoType}]
    BY ClientAssumption DEF Init, ClientAssumption
  <2>3. QED
    BY <2>1, <2>2, NoneFacts DEF Init, TypeOK, PCs, Calls, Verdicts, Causes
<1>2. FoundInv /\ IdleInv /\ LookupInv /\ ReadInv /\ PhaseInv /\ OwnResult
  BY NoneFacts DEF Init, FoundInv, IdleInv, LookupInv, ReadInv, PhaseInv, OwnResult, Reads
<1>3. QED
  BY <1>1, <1>2 DEF ClientInv

LEMMA ClientStep ==
    ASSUME ClientInv, [Next]_vars
    PROVE  ClientInv'
<1>1. ASSUME NEW n \in Names, ReadSymbolByName(n) PROVE ClientInv'
  <2>1. Begin({n}, "single", TRUE) /\ {n} \in SUBSET Names /\ "single" \in Reads /\ TRUE \in BOOLEAN
    BY <1>1 DEF ReadSymbolByName, Reads
  <2>2. QED
    BY <2>1, BeginKeeps
<1>2. ASSUME NEW N \in SUBSET Names, NEW e \in BOOLEAN, ReadSymbolsByNames(N, e) PROVE ClientInv'
  <2>1. Begin(N, "bulk", e) /\ "bulk" \in Reads
    BY <1>2 DEF ReadSymbolsByNames, Reads
  <2>2. QED
    BY <2>1, BeginKeeps
<1>3. ASSUME NEW kind \in Uploads, StartUpload(kind) PROVE ClientInv'
  <2>1. /\ Ask(kind, "info", {}) /\ kind \in Calls /\ kind \notin Reads
        /\ {} \in SUBSET (Names \cup DOMAIN Defs)
    BY <1>3 DEF StartUpload, Calls, Uploads, Reads
  <2>2. QED
    BY <2>1, AskKeeps
<1>4. ASSUME NEW m \in DOMAIN Defs, ReadDatatypeByName(m) PROVE ClientInv'
  <2>1. /\ Ask("type", "type", {m}) /\ "type" \in Calls /\ "type" \notin Reads
        /\ {m} \in SUBSET (Names \cup DOMAIN Defs)
    BY <1>4 DEF ReadDatatypeByName, Calls, Reads
  <2>2. QED
    BY <2>1, AskKeeps
<1>5. ASSUME ReadState \/ EnableRoute PROVE ClientInv'
  <2>1. /\ Ask("state", "command", {}) \/ Ask("route", "command", {})
        /\ "state" \in Calls /\ "state" \notin Reads /\ "route" \in Calls /\ "route" \notin Reads
        /\ {} \in SUBSET (Names \cup DOMAIN Defs)
    BY <1>5 DEF ReadState, EnableRoute, Calls, Reads
  <2>2. QED
    BY <2>1, AskKeeps
<1>6. ASSUME NEW v \in Verdicts, Answered(v) PROVE ClientInv'
  BY <1>6, LookupAnsweredKeeps, BatchAnsweredKeeps, ValueAnsweredKeeps, InfoAnsweredKeeps,
     UploadAnsweredKeeps, TypeAnsweredKeeps, CommandAnsweredKeeps DEF Answered
<1>7. ASSUME NEW n \in Names, NEW t \in NewTypes, SymbolChanges(n, t) PROVE ClientInv'
  BY <1>7, SymbolChangesKeeps
<1>8. QED
  BY <1>1, <1>2, <1>3, <1>4, <1>5, <1>6, <1>7, ParseReturnsKeeps, RequestFailsKeeps,
     ResultTakenKeeps, DatatypesUploadedKeeps, StutterKeeps DEF Next

(***************************************************************************)
(* The invariant that the others need: what has been found, answered,   *)
(* sent and is still to be sent always fits together.                      *)
(***************************************************************************)
THEOREM ClientInvariant == Spec => []ClientInv
<1>1. ClientInv /\ [Next]_vars => ClientInv'
  BY ClientStep
<1>2. QED
  BY <1>1, ClientInit, PTL DEF Spec

(***************************************************************************)
(* Lists of commands have each name once and no batch is too long; a call  *)
(* has a list only when it returns, and a cause exactly when it raises.    *)
(***************************************************************************)
THEOREM TypeCorrect == Spec => []TypeOK
<1>1. ClientInv => TypeOK
  BY DEF ClientInv
<1>2. QED
  BY <1>1, ClientInvariant, PTL

(***************************************************************************)
(* However many names a read has and however they are cut into batches,    *)
(* whichever of them are unknown, refused or changed meanwhile, each name  *)
(* that has not changed gets its own error or its own value.               *)
(***************************************************************************)
THEOREM OwnResultAlways == Spec => []OwnResult
<1>1. ClientInv => OwnResult
  BY DEF ClientInv
<1>2. QED
  BY <1>1, ClientInvariant, PTL

-----------------------------------------------------------------------------
(***************************************************************************)
(* The uploads: as much is asked for as the table has, unless it changes.  *)
(***************************************************************************)
UploadInv ==
    /\ pc \in {"info", "upload"} => call \in Uploads
    /\ pc = "upload" /\ (call = "types" \/ edited = {}) => tableSize = Len(Table)
    /\ pc = "type" => call = "type" /\ \E m \in DOMAIN Defs : wanted = {m}
    /\ pc = "command" => call \in {"state", "route"}

ListInv == UploadInv /\ UploadFaithful

(***************************************************************************)
(* What an upload has is in the table, and it is the table when as much    *)
(* was asked for; it then succeeds, if the entries can be decoded.         *)
(***************************************************************************)
AllClear == IF call = "symbols" THEN \A n \in Names : Clear(n)
            ELSE \A m \in DOMAIN Defs : ClearType(m)

LEMMA UploadRight ==
    ASSUME SymbolsOK, call \in Uploads, tableSize \in Nat,
           NEW r, r = Upload(call, Sent, tableSize)
    PROVE  /\ tableSize = Len(Table) /\ AllClear => r.ok
           /\ r.ok /\ call = "types" /\ tableSize = Len(Table)
                => TypesIn(r.value) = TheTypes(TypeNames)
           /\ r.ok /\ call = "symbols" =>
                /\ ToSet(SymbolsIn(r.value)) \subseteq ToSet(TheSymbols(Known))
                /\ tableSize = Len(Table) => SymbolsIn(r.value) = TheSymbols(Known)
<1>1. CASE call = "types"
  <2>1. Table = TypeTable /\ Len(TypeTable) \in Nat
    BY <1>1, TypesUploaded DEF Table
  <2>2. tableSize = Len(Table) => Sent = TypeTable
    BY <2>1 DEF Sent
  <2>3. tableSize = Len(Table) => r = Upload("types", TypeTable, Len(TypeTable))
    BY <1>1, <2>1, <2>2
  <2>4. ASSUME tableSize = Len(Table)
        PROVE  (AllClear => r.ok) /\ (r.ok => TypesIn(r.value) = TheTypes(TypeNames))
    BY <1>1, <2>3, <2>4, TypesUploaded DEF AllClear
  <2> HIDE DEF AllClear
  <2>5. QED
    BY <1>1, <2>4
<1>2. CASE call = "symbols"
  <2> DEFINE s == Sent
             l == Len(SymbolTable)
  <2>1. Table = SymbolTable /\ l \in Nat /\ IsSeq(SymbolTable)
    BY <1>2, SymbolTableIsSeq, SeqLength DEF Table
  <2>2. r = Upload("symbols", s, tableSize)
    BY <1>2
  <2>3. s = IF l <= tableSize THEN SymbolTable ELSE SubSeq(SymbolTable, 1, tableSize)
    BY <2>1 DEF Sent
  <2> HIDE DEF s, l, AllClear
  <2>4. CASE Len(s) # tableSize
    <3>1. r.ok = FALSE
      BY <2>2, <2>4 DEF Upload, Raised
    <3>2. tableSize # l
      BY <2>1, <2>3, <2>4 DEF l
    <3>3. QED
      BY <1>2, <2>1, <3>1, <3>2 DEF l
  <2>5. CASE Len(s) = tableSize
    <3>1. tableSize <= l /\ \A x \in 1..tableSize : s[x] = SymbolTable[x]
      <4>1. CASE l <= tableSize
        BY <2>1, <2>3, <2>5, <4>1 DEF l
      <4>2. CASE ~(l <= tableSize)
        <5>1. PICK S : SymbolTable \in Seq(S)
          BY <2>1 DEF IsSeq
        <5>2. 0 \in Nat /\ 0 + tableSize <= Len(SymbolTable) /\ 0 + 1 = 1
              /\ 0 + tableSize = tableSize
          BY <2>1, <4>2 DEF l
        <5>3. \A x \in 1..tableSize :
                SubSeq(SymbolTable, 0 + 1, 0 + tableSize)[x] = SymbolTable[0 + x]
          BY <5>1, <5>2, SubFacts
        <5>4. QED
          BY <2>1, <2>3, <4>2, <5>2, <5>3
      <4>3. QED
        BY <4>1, <4>2
    <3>2. /\ tableSize = l /\ AllClear => r.ok
          /\ r.ok => /\ ToSet(SymbolsIn(r.value)) \subseteq ToSet(TheSymbols(Known))
                     /\ tableSize = l => SymbolsIn(r.value) = TheSymbols(Known)
      BY <1>2, <2>2, <2>5, <3>1, SymbolsUploaded DEF l, AllClear
    <3>3. QED
      BY <1>2, <2>1, <3>2 DEF l
  <2>6. QED
    BY <2>4, <2>5
<1>3. QED
  BY <1>1, <1>2 DEF Uploads

(***************************************************************************)
(* A type that is asked for by its name is read with all of its fields, if *)
(* its entry can be decoded.                                               *)
(***************************************************************************)
LEMMA TypeRight ==
    ASSUME NEW m \in DOMAIN Defs, NEW r, r = DeserializeType(TypeEntry(m), 0)
    PROVE  IF ClearType(m) THEN r.ok /\ TypesIn(<<r.value>>) = TheTypes(<<m>>)
           ELSE r.ok = FALSE
<1> DEFINE e == TypeEntry(m)
           a == Len(Defs[m].array)
           k == Len(Defs[m].fields)
<1>1. PICK l : IsTypeEntry(e, m, a, k, l)
  BY TypeEntryFacts
<1>2. IsSeq(e) /\ Len(e) \in Nat
  BY <1>1, SeqLength DEF IsTypeEntry
<1>3. IsType(e, 0, m)
  BY <1>2 DEF IsType
<1> HIDE DEF e
<1>c. CASE ~ClearType(m)
  BY <1>3, <1>c, TypeAt DEF e, Raises
<1> SUFFICES ASSUME ClearType(m) PROVE r.ok = TRUE /\ TypesIn(<<r.value>>) = TheTypes(<<m>>)
  BY <1>c
<1>4. ReadAs(r, r.value, 0 + Len(e)) /\ r.value.name = m /\ Definition(r.value) = Defs[m]
  BY <1>3, TypeAt DEF e
<1>5. r.ok = TRUE
  <2> DEFINE p == 0 + Len(e)
             v == r.value
  <2>1. r = [ok |-> TRUE, value |-> v, pos |-> p]
    BY <1>4 DEF ReadAs
  <2> HIDE DEF p, v
  <2>2. QED
    BY <2>1
<1>6. TypesIn(<<r.value>>) = TheTypes(<<m>>)
  <2> DEFINE v == r.value
  <2>1. v.name = m /\ Definition(v) = Defs[m]
    BY <1>4
  <2> HIDE DEF v
  <2>2. TypesIn(<<v>>) = [i \in 1..1 |-> <<v.name, Definition(v)>>]
    BY DEF TypesIn
  <2>3. TheTypes(<<m>>) = [i \in 1..1 |-> <<m, Defs[m]>>]
    BY DEF TheTypes
  <2>4. QED
    BY <2>1, <2>2, <2>3 DEF v
<1>7. QED
  BY <1>5, <1>6

-----------------------------------------------------------------------------
(***************************************************************************)
(* A call that is a read, or has no result, has no table either.           *)
(***************************************************************************)
LEMMA NoTable ==
    ASSUME ClientInv',
           call' \in Reads \/ pc' \notin {"info", "upload", "type", "command", "returned"}
    PROVE  ListInv'
BY DEF ClientInv, PhaseInv, ListInv, UploadInv, UploadFaithful, Reads

LEMMA RaiseHasNoTable ==
    ASSUME ClientInv', NEW why, Raise(why)
    PROVE  ListInv'
<1>1. pc' = "raised"
  BY DEF Raise, End
<1>2. QED
  BY <1>1, NoTable

LEMMA AskHasNoTable ==
    ASSUME ClientInv', NEW kind, NEW where, NEW N, Ask(kind, where, N),
           \/ where = "info" /\ kind \in Uploads
           \/ where = "type" /\ kind = "type" /\ \E m \in DOMAIN Defs : N = {m}
           \/ where = "command" /\ kind \in {"state", "route"}
    PROVE  ListInv'
<1>1. pc' = where /\ call' = kind /\ wanted' = N
  BY DEF Ask
<1>2. UploadInv'
  BY <1>1 DEF UploadInv
<1>3. UploadFaithful'
  BY <1>1 DEF UploadFaithful
<1>4. QED
  BY <1>2, <1>3 DEF ListInv

LEMMA InfoAnsweredHasTable ==
    ASSUME ClientInv', ListInv, NEW v, InfoAnswered(v)
    PROVE  ListInv'
<1>1. pc = "info" /\ call \in Uploads /\ symbols' = symbols /\ call' = call
  BY DEF InfoAnswered, ListInv, UploadInv
<1>2. Raise("reported") \/ (tableSize' = Len(Table) /\ pc' = "upload")
  BY DEF InfoAnswered
<1>3. Table' = Table
  BY <1>1 DEF Table, SymbolTable, Known, Entry
<1>4. ASSUME tableSize' = Len(Table), pc' = "upload" PROVE ListInv'
  BY <1>1, <1>3, <1>4 DEF ListInv, UploadInv, UploadFaithful
<1>5. QED
  BY <1>2, <1>4, RaiseHasNoTable

LEMMA UploadAnsweredIsFaithful ==
    ASSUME ClientInv, ClientInv', ListInv, NEW v, UploadAnswered(v)
    PROVE  ListInv'
<1> DEFINE r == Upload(call, Sent, tableSize)
<1>1. /\ pc = "upload" /\ call \in Uploads /\ call' = call /\ symbols' = symbols
      /\ edited' = edited /\ tableSize \in Nat /\ SymbolsOK
      /\ (call = "types" \/ edited = {} => tableSize = Len(Table))
  BY DEF UploadAnswered, ListInv, UploadInv, ClientInv, TypeOK, SymbolsOK
<1>2. Raise("reported") \/ Raise("data") \/ (r.ok /\ ReturnList(r.value))
  BY DEF UploadAnswered
<1>3. /\ r.ok /\ call = "types" /\ tableSize = Len(Table)
           => TypesIn(r.value) = TheTypes(TypeNames)
      /\ r.ok /\ call = "symbols" =>
           /\ ToSet(SymbolsIn(r.value)) \subseteq ToSet(TheSymbols(Known))
           /\ tableSize = Len(Table) => SymbolsIn(r.value) = TheSymbols(Known)
  BY <1>1, UploadRight
<1>4. TheSymbols(Known)' = TheSymbols(Known)
  BY <1>1 DEF TheSymbols, Known
<1> HIDE DEF r
<1>5. ASSUME r.ok, ReturnList(r.value) PROVE ListInv'
  <2>1. pc' = "returned" /\ listing' = r.value
    BY <1>5 DEF ReturnList, End
  <2>2. UploadInv'
    BY <2>1 DEF UploadInv
  <2>3. call = "types" => TypesIn(listing') = TheTypes(TypeNames)
    BY <1>1, <1>3, <1>5, <2>1
  <2>4. call = "symbols" =>
            IF edited # {} THEN ToSet(SymbolsIn(listing')) \subseteq ToSet(TheSymbols(Known))
            ELSE SymbolsIn(listing') = TheSymbols(Known)
    BY <1>1, <1>3, <1>5, <2>1
  <2>5. call \in {"types", "symbols"} /\ call # "type"
    BY <1>1 DEF Uploads
  <2>6. UploadFaithful'
    BY <1>1, <1>4, <2>3, <2>4, <2>5 DEF UploadFaithful
  <2>7. QED
    BY <2>2, <2>6 DEF ListInv
<1>6. QED
  BY <1>2, <1>5, RaiseHasNoTable

LEMMA TypeAnsweredIsFaithful ==
    ASSUME ClientInv', ListInv, NEW v, TypeAnswered(v)
    PROVE  ListInv'
<1>1. /\ pc = "type" /\ call = "type" /\ call' = call /\ wanted' = wanted
      /\ \E m \in DOMAIN Defs : wanted = {m}
  BY DEF TypeAnswered, ListInv, UploadInv
<1>2. PICK m \in wanted :
        LET r == DeserializeType(TypeEntry(m), 0)
        IN  IF Refused(v) THEN Raise("reported")
            ELSE IF ~r.ok THEN Raise("data")
            ELSE ReturnList(<<r.value>>)
  BY DEF TypeAnswered
<1> DEFINE r == DeserializeType(TypeEntry(m), 0)
<1>3. Raise("reported") \/ Raise("data") \/ (r.ok /\ ReturnList(<<r.value>>))
  BY <1>2
<1>4. r.ok => TypesIn(<<r.value>>) = TheTypes(<<m>>)
  <2>1. m \in DOMAIN Defs
    BY <1>1
  <2>2. IF ClearType(m) THEN r.ok /\ TypesIn(<<r.value>>) = TheTypes(<<m>>)
        ELSE r.ok = FALSE
    BY <2>1, TypeRight
  <2> HIDE DEF r
  <2>3. QED
    BY <2>2
<1> HIDE DEF r
<1>5. ASSUME r.ok, ReturnList(<<r.value>>) PROVE ListInv'
  <2>1. pc' = "returned" /\ listing' = <<r.value>>
    BY <1>5 DEF ReturnList, End
  <2>2. TypesIn(listing') = TheTypes(<<m>>) /\ m \in wanted'
    BY <1>1, <1>4, <1>5, <2>1
  <2>3. UploadFaithful'
    BY <1>1, <2>2 DEF UploadFaithful
  <2>4. UploadInv'
    BY <2>1 DEF UploadInv
  <2>5. QED
    BY <2>3, <2>4 DEF ListInv
<1>6. QED
  BY <1>3, <1>5, RaiseHasNoTable

LEMMA CommandAnsweredHasNoTable ==
    ASSUME ClientInv', ListInv, NEW v, CommandAnswered(v)
    PROVE  ListInv'
<1>1. pc = "command" /\ call \in {"state", "route"} /\ call' = call
  BY DEF CommandAnswered, ListInv, UploadInv
<1>2. pc' \in {"returned", "raised"}
  BY DEF CommandAnswered, Raise, Return, End
<1>3. QED
  BY <1>1, <1>2 DEF ListInv, UploadInv, UploadFaithful

LEMMA SymbolChangesInTable ==
    ASSUME ClientInv, ClientInv', ListInv, NEW n, NEW t, SymbolChanges(n, t)
    PROVE  ListInv'
<1>1. /\ pc \in {"lookup", "read", "upload"} /\ call # "types"
      /\ pc' = pc /\ call' = call
      /\ edited' = IF pc = "upload" \/ n \in DOMAIN infos THEN {n} ELSE {}
  BY DEF SymbolChanges
<1>2. CASE pc = "upload"
  BY <1>1, <1>2 DEF ListInv, UploadInv, UploadFaithful
<1>3. CASE pc # "upload"
  <2>1. call' \in Reads
    BY <1>1, <1>3 DEF ClientInv, PhaseInv
  <2>2. QED
    BY <2>1, NoTable
<1>4. QED
  BY <1>2, <1>3

LEMMA TableStays ==
    ASSUME ListInv, UNCHANGED <<symbols, pc, call, wanted, tableSize, listing, edited>>
    PROVE  ListInv'
<1>1. Table' = Table /\ TheSymbols(Known)' = TheSymbols(Known)
  BY DEF Table, SymbolTable, Known, Entry, TheSymbols
<1>2. UploadInv'
  BY <1>1 DEF ListInv, UploadInv
<1>3. UploadFaithful'
  BY <1>1 DEF ListInv, UploadFaithful
<1>4. QED
  BY <1>2, <1>3 DEF ListInv

LEMMA ListStep ==
    ASSUME ClientInv, ClientInv', ListInv, [Next]_vars
    PROVE  ListInv'
<1>1. ASSUME NEW n, ReadSymbolByName(n) PROVE ListInv'
  <2>1. call' \in Reads
    BY <1>1 DEF ReadSymbolByName, Begin, Reads
  <2>2. QED
    BY <2>1, NoTable
<1>2. ASSUME NEW N, NEW e, ReadSymbolsByNames(N, e) PROVE ListInv'
  <2>1. call' \in Reads
    BY <1>2 DEF ReadSymbolsByNames, Begin, Reads
  <2>2. QED
    BY <2>1, NoTable
<1>3. ASSUME NEW kind \in Uploads, StartUpload(kind) PROVE ListInv'
  BY <1>3, AskHasNoTable DEF StartUpload
<1>4. ASSUME NEW m \in DOMAIN Defs, ReadDatatypeByName(m) PROVE ListInv'
  <2>1. \E k \in DOMAIN Defs : {m} = {k}
    OBVIOUS
  <2>2. QED
    BY <1>4, <2>1, AskHasNoTable DEF ReadDatatypeByName
<1>5. ASSUME ReadState \/ EnableRoute PROVE ListInv'
  BY <1>5, AskHasNoTable DEF ReadState, EnableRoute
<1>6. ASSUME NEW v, LookupAnswered(v) \/ BatchAnswered(v) \/ ValueAnswered(v) PROVE ListInv'
  <2>1. call' = call /\ pc \in {"lookup", "read"}
    BY <1>6 DEF LookupAnswered, BatchAnswered, ValueAnswered
  <2>2. call' \in Reads
    BY <2>1 DEF ClientInv, PhaseInv
  <2>3. QED
    BY <2>2, NoTable
<1>7. ASSUME NEW v, Answered(v) PROVE ListInv'
  BY <1>6, <1>7, InfoAnsweredHasTable, UploadAnsweredIsFaithful, TypeAnsweredIsFaithful,
     CommandAnsweredHasNoTable DEF Answered
<1>8. ASSUME ParseReturns PROVE ListInv'
  <2>1. call' = call /\ pc = "parse"
    BY <1>8 DEF ParseReturns
  <2>2. call' \in Reads
    BY <2>1 DEF ClientInv, PhaseInv
  <2>3. QED
    BY <2>2, NoTable
<1>9. ASSUME RequestFails PROVE ListInv'
  BY <1>9, RaiseHasNoTable DEF RequestFails
<1>10. ASSUME ResultTaken PROVE ListInv'
  <2>1. pc' = "idle"
    BY <1>10 DEF ResultTaken, End
  <2>2. QED
    BY <2>1, NoTable
<1>11. ASSUME DatatypesUploaded \/ UNCHANGED vars PROVE ListInv'
  BY <1>11, TableStays DEF DatatypesUploaded, vars
<1>12. ASSUME NEW n \in Names, NEW t \in NewTypes, SymbolChanges(n, t) PROVE ListInv'
  BY <1>12, SymbolChangesInTable
<1>13. QED
  BY <1>1, <1>2, <1>3, <1>4, <1>5, <1>7, <1>8, <1>9, <1>10, <1>11, <1>12 DEF Next

THEOREM ListInvariant == Spec => []ListInv
<1>1. Init => ListInv
  BY DEF Init, ListInv, UploadInv, UploadFaithful
<1>2. ClientInv /\ ClientInv' /\ ListInv /\ [Next]_vars => ListInv'
  BY ListStep
<1>3. QED
  BY <1>1, <1>2, ClientInvariant, PTL DEF Spec

(***************************************************************************)
(* An upload that returns has the PLC's table, entry by entry, whatever    *)
(* the sizes of its entries, the dimensions and the fields of its types    *)
(* are; of a table that changes meanwhile it has nothing else.             *)
(***************************************************************************)
THEOREM UploadFaithfulAlways == Spec => []UploadFaithful
<1>1. ListInv => UploadFaithful
  BY DEF ListInv
<1>2. QED
  BY <1>1, ListInvariant, PTL

-----------------------------------------------------------------------------
(***************************************************************************)
(* Why a call raises for the data it got.                                  *)
(***************************************************************************)
Misfit == cause' = "data" /\ cause # "data"

LEMMA RaiseForData ==
    ASSUME NEW why, Raise(why), why # "data"
    PROVE  ~Misfit
BY DEF Raise, Misfit

LEMMA LookedUpFits ==
    ASSUME NEW N, NEW found, NEW raises, LookedUp(N, found, raises)
    PROVE  ~Misfit
BY DEF LookedUp, Raise, Return, Misfit

LEMMA BeginFits ==
    ASSUME NEW N, NEW kind, NEW raises, Begin(N, kind, raises)
    PROVE  ~Misfit
<1>1. PICK C \in SUBSET N :
        LookedUp(N, [n \in C |-> Info(n)], raises) \/ cause' = cause
  BY DEF Begin
<1>2. QED
  BY <1>1, LookedUpFits DEF Misfit

LEMMA LookupFits ==
    ASSUME ClientInv, NEW v, LookupAnswered(v), Misfit
    PROVE  CrypticAsked
<1> DEFINE streams == Cut(Entries(batch), Lengths(batch))
           entries == [i \in DOMAIN batch |-> Described(batch[i], streams[i])]
<1>1. pc = "lookup" /\ batch \in Seq(Names) /\ SymbolsOK
  <2>1. pc = "lookup" /\ wanted \subseteq Names /\ batch \in Seq(wanted)
    BY DEF LookupAnswered, ClientInv, PhaseInv, TypeOK
  <2>2. QED
    BY <2>1 DEF ClientInv, TypeOK, SymbolsOK
<1>2. \/ Raise("reported")
      \/ /\ \/ ~Fits(Entries(batch), Lengths(batch))
            \/ \E i \in DOMAIN batch : ~entries[i].ok
         /\ Raise("data")
      \/ \E found : LookedUp(wanted, found, strict)
      \/ cause' = cause
  BY DEF LookupAnswered
<1>3. /\ Fits(Entries(batch), Lengths(batch))
      /\ \A i \in DOMAIN batch :
            Clear(batch[i]) => entries[i] = [ok |-> TRUE, value |-> Info(batch[i])]
  BY <1>1, LookupFacts
<1> HIDE DEF streams, entries
<1>4. ASSUME NEW i \in DOMAIN batch, Clear(batch[i]) PROVE entries[i].ok
  <2> DEFINE value == Info(batch[i])
             entry == entries[i]
  <2>1. entry = [ok |-> TRUE, value |-> value]
    BY <1>3, <1>4
  <2> HIDE DEF value, entry
  <2>2. entry.ok = TRUE
    BY <2>1
  <2>3. QED
    BY <2>2 DEF entry
<1>5. \E i \in DOMAIN batch : ~entries[i].ok
  BY <1>2, <1>3, RaiseForData, LookedUpFits DEF Misfit
<1>6. \E n \in ToSet(batch) : ~Clear(n)
  BY <1>4, <1>5 DEF ToSet
<1>7. QED
  BY <1>1, <1>6 DEF CrypticAsked

LEMMA BatchFits ==
    ASSUME ClientInv, NEW v, BatchAnswered(v)
    PROVE  ~Misfit
<1>1. /\ pc = "read" /\ SymbolsOK /\ batch \in Seq(wanted) /\ wanted \subseteq Names
      /\ \A i \in DOMAIN batch : batch[i] = readable[Len(response) + i]
      /\ Len(readable) = Len(response) + Len(batch) + Len(rest)
  BY DEF BatchAnswered, ClientInv, TypeOK, PhaseInv, ReadInv, AlignedInv, SymbolsOK
<1>2. /\ ToSet(readable) = Good
      /\ Len(readable) \in Nat /\ DOMAIN readable = 1..Len(readable)
      /\ Len(response) \in Nat /\ Len(rest) \in Nat
      /\ Len(batch) \in Nat /\ DOMAIN batch = 1..Len(batch)
      /\ \A n \in Good : infos[n] \in [err : {"ok"}, sym : {n}, type : Types]
  BY <1>1, ReadableFacts
<1>3. ASSUME NEW i \in DOMAIN batch
      PROVE  infos[batch[i]] \in [err : {"ok"}, sym : {batch[i]}, type : Types]
  <2>1. Len(response) + i \in DOMAIN readable
    BY <1>1, <1>2
  <2>2. batch[i] \in Good
    BY <1>1, <1>2, <2>1 DEF ToSet
  <2>3. QED
    BY <1>2, <2>2
<1>4. batch \in Seq(Names)
  BY <1>1
<1>5. \A F : Fits(Data(batch, F), Asked(batch))
  BY <1>1, <1>3, <1>4, DataFacts
<1>6. Raise("reported") \/ cause' = cause
  BY <1>5 DEF BatchAnswered
<1>7. QED
  BY <1>6, RaiseForData DEF Misfit

(***************************************************************************)
(* What is at the address of a symbol is refused only when the types there *)
(* are do not say how to read it.                                          *)
(***************************************************************************)
LEMMA ParsedFits ==
    ASSUME ClientInv, pc \in {"read", "parse"}, NEW n \in Good, n \notin refused,
           NEW s, DataOf(n, s), n \notin edited => s = Memory(n), ~ParsedValue(n, s).ok
    PROVE  UnreadableAsked
<1> DEFINE t == infos[n].type
           O == {n} \cup (IF n \in edited THEN {NoType} ELSE {})
<1>1. /\ n \in Names /\ t \in Types /\ ToSet(readable) = Good
      /\ n \notin edited => t = symbols[n]
  BY ReadableFacts DEF Good
<1>2. PICK o \in O : s = Bytes(o, t)
  <2>1. CASE n \in edited
    BY <2>1 DEF DataOf
  <2>2. CASE n \notin edited
    BY <1>1, <2>2 DEF Memory
  <2>3. QED
    BY <2>1, <2>2
<1>3. o \in Names \cup {NoType} /\ defs \in {NoResults, Defs}
  BY <1>1 DEF ClientInv, TypeOK
<1> HIDE DEF t
<1>4. ~ParseType(defs, t, Bytes(o, t)).ok
  BY <1>2 DEF ParsedValue, t
<1>5. ~Readable(defs, t, Bytes(o, t))
  BY <1>1, <1>3, <1>4, CompleteAssumption DEF CompleteAssumption
<1>6. QED
  BY <1>1, <1>2, <1>5 DEF UnreadableAsked, t

LEMMA ParseFits ==
    ASSUME ClientInv, ParseReturns, Misfit
    PROVE  UnreadableAsked
<1> DEFINE values == [i \in DOMAIN readable |-> ParsedValue(readable[i], response[i].data)]
<1>1. pc = "parse" /\ batch = <<>> /\ rest = <<>>
  BY DEF ParseReturns, ClientInv, PhaseInv
<1>2. \E i \in DOMAIN readable : response[i].err = "ok" /\ ~values[i].ok
  BY DEF ParseReturns, Return, Misfit
<1>3. PICK i \in DOMAIN readable :
        response[i].err = "ok" /\ ~ParsedValue(readable[i], response[i].data).ok
  BY <1>2
<1>4. /\ ToSet(readable) = Good
      /\ Len(readable) \in Nat /\ DOMAIN readable = 1..Len(readable)
      /\ Len(response) \in Nat /\ DOMAIN response = 1..Len(response)
  BY <1>1, ReadableFacts
<1>5. i \in DOMAIN response
  <2>1. Len(readable) = Len(response) + 0 + 0
    BY <1>1, NoneFacts DEF ClientInv, ReadInv, AlignedInv
  <2>2. QED
    BY <1>4, <2>1
<1>6. readable[i] \in Good
  BY <1>4 DEF ToSet
<1>7. AnswerOf(readable[i], response[i])
  BY <1>1, <1>5 DEF ClientInv, ReadInv, AnswersInv
<1>8. /\ readable[i] \notin refused /\ DataOf(readable[i], response[i].data)
      /\ readable[i] \notin edited => response[i].data = Memory(readable[i])
  BY <1>3, <1>7 DEF AnswerOf
<1>9. QED
  BY <1>1, <1>3, <1>6, <1>8, ParsedFits

LEMMA ValueFits ==
    ASSUME ClientInv, NEW v, ValueAnswered(v), Misfit
    PROVE  UnreadableAsked
<1> DEFINE n == batch[1]
<1>1. pc = "read" /\ call = "single" /\ refused = {}
  BY DEF ValueAnswered, ClientInv, PhaseInv
<1>2. Raise("reported") \/ ~ParsedValue(n, AtAddress(n)).ok \/ cause' = cause
  BY DEF ValueAnswered, Return
<1>3. ~ParsedValue(n, AtAddress(n)).ok
  BY <1>2, RaiseForData DEF Misfit
<1>4. n \in Good
  <2>1. batch # <<>> /\ batch \in Seq(wanted)
    BY <1>1 DEF ClientInv, PhaseInv, TypeOK
  <2>2. Len(batch) \in Nat /\ Len(batch) # 0 /\ DOMAIN batch = 1..Len(batch)
    BY <2>1, EmptySeq, LenProperties
  <2>3. 1 \in DOMAIN batch
    BY <2>2
  <2>4. n = readable[Len(response) + 1] /\ ToSet(readable) = Good
        /\ Len(readable) = Len(response) + Len(batch) + Len(rest)
    BY <1>1, <2>3 DEF ClientInv, ReadInv, AlignedInv
  <2>5. Len(response) \in Nat /\ Len(rest) \in Nat /\ DOMAIN readable = 1..Len(readable)
        /\ Len(readable) \in Nat
    BY <1>1, ReadableFacts
  <2>6. Len(response) + 1 \in DOMAIN readable
    BY <2>2, <2>4, <2>5
  <2>7. QED
    BY <2>4, <2>6 DEF ToSet
<1> HIDE DEF n
<1>5. infos[n].sym = n /\ (n \notin edited => AtAddress(n) = Memory(n))
  BY <1>1, <1>4, ReadableFacts
<1>6. DataOf(n, AtAddress(n))
  BY <1>5, AddressFacts
<1>7. QED
  BY <1>1, <1>3, <1>4, <1>5, <1>6, ParsedFits

LEMMA UploadFits ==
    ASSUME ClientInv, ListInv, NEW v, UploadAnswered(v), Misfit
    PROVE  CrypticAsked \/ (pc = "upload" /\ edited # {})
<1> DEFINE r == Upload(call, Sent, tableSize)
<1>1. /\ pc = "upload" /\ call \in Uploads /\ tableSize \in Nat /\ SymbolsOK
      /\ (edited = {} => tableSize = Len(Table))
  BY DEF UploadAnswered, ListInv, UploadInv, ClientInv, TypeOK, SymbolsOK
<1>2. Raise("reported") \/ ~r.ok \/ cause' = cause
  BY DEF UploadAnswered, ReturnList
<1>3. ~r.ok
  BY <1>2, RaiseForData DEF Misfit
<1>4. tableSize = Len(Table) /\ AllClear => r.ok
  BY <1>1, UploadRight
<1>5. edited # {} \/ ~AllClear
  BY <1>1, <1>3, <1>4
<1>6. ~AllClear => CrypticAsked
  BY <1>1 DEF AllClear, CrypticAsked, Uploads
<1>7. QED
  BY <1>1, <1>5, <1>6

LEMMA TypeFits ==
    ASSUME ListInv, NEW v, TypeAnswered(v), Misfit
    PROVE  CrypticAsked
<1>1. pc = "type" /\ \E m \in DOMAIN Defs : wanted = {m}
  BY DEF TypeAnswered, ListInv, UploadInv
<1>2. PICK m \in DOMAIN Defs :
        /\ wanted = {m}
        /\ LET r == DeserializeType(TypeEntry(m), 0)
           IN  IF Refused(v) THEN Raise("reported")
               ELSE IF ~r.ok THEN Raise("data")
               ELSE ReturnList(<<r.value>>)
  BY <1>1 DEF TypeAnswered
<1>3. ClearType(m) => DeserializeType(TypeEntry(m), 0).ok
  BY TypeRight
<1>4. Raise("reported") \/ ~DeserializeType(TypeEntry(m), 0).ok \/ cause' = cause
  BY <1>2 DEF ReturnList
<1>5. ~ClearType(m)
  BY <1>3, <1>4, RaiseForData DEF Misfit
<1>6. QED
  BY <1>1, <1>2, <1>5 DEF CrypticAsked

LEMMA FitsStep ==
    ASSUME ClientInv, ListInv, Next, Misfit
    PROVE  CrypticAsked \/ UnreadableAsked \/ (pc = "upload" /\ edited # {})
<1>1. ~(\E n : ReadSymbolByName(n)) /\ ~(\E N, e : ReadSymbolsByNames(N, e))
  BY BeginFits DEF ReadSymbolByName, ReadSymbolsByNames
<1>2. /\ ~(\E kind : StartUpload(kind)) /\ ~(\E m : ReadDatatypeByName(m))
      /\ ~ReadState /\ ~EnableRoute
  BY DEF StartUpload, ReadDatatypeByName, ReadState, EnableRoute, Ask, Misfit
<1>3. ~(\E v : InfoAnswered(v)) /\ ~(\E v : CommandAnswered(v)) /\ ~RequestFails
  BY DEF InfoAnswered, CommandAnswered, RequestFails, Raise, Return, Misfit
<1>4. ~ResultTaken /\ ~DatatypesUploaded /\ ~(\E n, t : SymbolChanges(n, t))
  BY DEF ResultTaken, DatatypesUploaded, SymbolChanges, Misfit
<1>5. \/ ParseReturns
      \/ \E v : LookupAnswered(v)
      \/ \E v : ValueAnswered(v)
      \/ \E v : UploadAnswered(v)
      \/ \E v : TypeAnswered(v)
  BY <1>1, <1>2, <1>3, <1>4, BatchFits DEF Next, Answered
<1>6. QED
  BY <1>5, LookupFits, ParseFits, ValueFits, UploadFits, TypeFits

(***************************************************************************)
(* What the PLC sends is refused only for an entry that cannot be decoded, *)
(* a symbol table that changes during its upload, or a value that the      *)
(* types there are do not say how to read from the bytes of its symbol (or *)
(* from anything, when that has changed): every sub stream fits its        *)
(* stream and an entry is read to its end, however commands are cut into   *)
(* batches and whatever the other names of the call are.                   *)
(***************************************************************************)
THEOREM DataFitsAlways == Spec => DataFits
<1>1. ASSUME ClientInv, ListInv, [Next]_vars
      PROVE  [cause' = "data" /\ cause # "data" =>
                CrypticAsked \/ UnreadableAsked \/ (pc = "upload" /\ edited # {})]_vars
  BY <1>1, FitsStep DEF Misfit
<1>2. QED
  BY <1>1, ClientInvariant, ListInvariant, PTL DEF Spec, DataFits
=============================================================================
