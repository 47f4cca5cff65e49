------------------------- MODULE AdsSymbolCacheProofs -------------------------
(***************************************************************************)
(* Proofs about AdsSymbolCache: types, and that a watched entry of the     *)
(* cache is never older than the version the monitor was told, for any     *)
(* number of readers, names and changes and any size of a batch.           *)
(***************************************************************************)
EXTENDS AdsSymbolCache, QueueFacts

Tasks == Readers \cup {Monitor}
Request == [from : Tasks, names : SUBSET Names]
Answer == [to : Tasks, names : SUBSET Names, v : Versions]

(***************************************************************************)
(* What is on its way belongs to a task of the set W that awaits it, and   *)
(* each of them has one request or one answer on its way, never both.      *)
(***************************************************************************)
Flight(tp, ib, W) ==
    /\ \A i \in DOMAIN tp : tp[i].from \in W
    /\ \A i \in DOMAIN ib : ib[i].to \in W
    /\ \A i, j \in DOMAIN tp : tp[i].from = tp[j].from => i = j
    /\ \A i, j \in DOMAIN ib : ib[i].to = ib[j].to => i = j
    /\ \A i \in DOMAIN tp, j \in DOMAIN ib : tp[i].from # ib[j].to

Awaiting ==
    {r \in Readers : reader[r] = "waiting"} \cup {x \in {Monitor} : monitor = "request"}

FlightInv == Flight(toPlc, inbox, Awaiting)

(***************************************************************************)
(* Answers are read in the order in which the PLC gave them: versions only *)
(* rise along the way from the monitor to the PLC.                         *)
(***************************************************************************)
Ordered(ib, low, high) ==
    /\ low <= high
    /\ \A i \in DOMAIN ib : low <= ib[i].v /\ ib[i].v <= high
    /\ \A i, j \in DOMAIN ib : i <= j => ib[i].v <= ib[j].v

OrderedInv == Ordered(inbox, seen, version)

(***************************************************************************)
(* A watched read is in its first batch, and there is something to watch   *)
(* only while the monitor knows the version it was told last.              *)
(***************************************************************************)
WatchInv ==
    /\ \A r \in Readers : reader[r] = "idle" => rest[r] = {} /\ read[r] = NothingRead
    /\ \A r \in watching : read[r] = NothingRead
    /\ watched # {} \/ watching # {} => known # None
    /\ known # None => known = Reported(seen)

LEMMA Types ==
    TypeOK => /\ toPlc \in Seq(Request) /\ inbox \in Seq(Answer)
              /\ toPlc \in Seq([from : Readers \cup {Monitor}, names : SUBSET Names])
BY DEF TypeOK, Request, Answer, Tasks

LEMMA RemoveFacts ==
    ASSUME NEW S, NEW q \in Seq(S), NEW i \in DOMAIN q
    PROVE  /\ RemoveAt(q, i) \in Seq(S)
           /\ DOMAIN RemoveAt(q, i) = 1..(Len(q) - 1)
           /\ \A j \in DOMAIN RemoveAt(q, i) :
                RemoveAt(q, i)[j] = IF j < i THEN q[j] ELSE q[j + 1]
<1>1. i \in 1..Len(q)
  BY LenProperties
<1>2. RemoveAt(q, i) = SubSeq(q, 1, i - 1) \o SubSeq(q, i + 1, Len(q))
  BY DEF RemoveAt
<1>3. RemoveAt(q, i) \in Seq(S)
  <2>1. SubSeq(q, 1, i - 1) \in Seq(S) /\ SubSeq(q, i + 1, Len(q)) \in Seq(S)
    BY <1>1, LenProperties, SubSeqProperties
  <2>2. QED
    BY <1>2, <2>1, ConcatProperties
<1>4. /\ DOMAIN RemoveAt(q, i) = 1..(Len(q) - 1)
      /\ \A j \in 1..(Len(q) - 1) :
            RemoveAt(q, i)[j] = IF j < i THEN q[j] ELSE q[j + 1]
  BY <1>1, <1>2, CutFacts, Zenon
<1>5. QED
  BY <1>3, <1>4

-----------------------------------------------------------------------------
(***************************************************************************)
(* What sending, answering, reading and withdrawing do to the messages on  *)
(* their way.                                                              *)
(***************************************************************************)
LEMMA FlightSend ==
    ASSUME NEW tp \in Seq(Request), NEW ib \in Seq(Answer), NEW W, Flight(tp, ib, W),
           NEW m \in Request, m.from \notin W
    PROVE  /\ Append(tp, m) \in Seq(Request)
           /\ Flight(Append(tp, m), ib, W \cup {m.from})
BY AppendFacts DEF Flight

LEMMA FlightAnswer ==
    ASSUME NEW tp \in Seq(Request), NEW ib \in Seq(Answer), NEW W, Flight(tp, ib, W),
           tp # <<>>, NEW a \in Answer, a.to = Head(tp).from
    PROVE  /\ Tail(tp) \in Seq(Request) /\ Append(ib, a) \in Seq(Answer)
           /\ Flight(Tail(tp), Append(ib, a), W)
<1>1. /\ Append(ib, a) \in Seq(Answer)
      /\ DOMAIN Append(ib, a) = DOMAIN ib \cup {Len(ib) + 1}
      /\ \A i \in DOMAIN ib : Append(ib, a)[i] = ib[i] /\ i < Len(ib) + 1
      /\ Append(ib, a)[Len(ib) + 1] = a
  BY AppendFacts
<1>2. /\ Tail(tp) \in Seq(Request)
      /\ 1 \in DOMAIN tp /\ Head(tp) = tp[1]
      /\ \A i \in DOMAIN Tail(tp) :
           i \in Nat /\ i + 1 \in DOMAIN tp /\ i + 1 # 1 /\ Tail(tp)[i] = tp[i + 1]
  BY TailFacts
<1>3. QED
  BY <1>1, <1>2 DEF Flight

LEMMA FlightRead ==
    ASSUME NEW tp \in Seq(Request), NEW ib \in Seq(Answer), NEW W, Flight(tp, ib, W),
           ib # <<>>
    PROVE  /\ Tail(ib) \in Seq(Answer) /\ Head(ib) \in Answer /\ Head(ib).to \in W
           /\ Flight(tp, Tail(ib), W \ {Head(ib).to})
<1>1. /\ Tail(ib) \in Seq(Answer)
      /\ 1 \in DOMAIN ib /\ Head(ib) = ib[1] /\ ib[1] \in Answer
      /\ \A i \in DOMAIN Tail(ib) :
           i \in Nat /\ i + 1 \in DOMAIN ib /\ i + 1 # 1 /\ Tail(ib)[i] = ib[i + 1]
  BY TailFacts
<1>2. QED
  BY <1>1 DEF Flight

LEMMA FlightWithdraw ==
    ASSUME TypeOK, FlightInv, NEW x, Withdraw(x)
    PROVE  /\ toPlc' \in Seq(Request) /\ inbox' \in Seq(Answer)
           /\ Flight(toPlc', inbox', Awaiting \ {x})
<1>0. toPlc \in Seq(Request) /\ inbox \in Seq(Answer)
  BY Types
<1>1. CASE \E i \in DOMAIN toPlc :
            toPlc[i].from = x /\ toPlc' = RemoveAt(toPlc, i) /\ inbox' = inbox
  <2>1. PICK i \in DOMAIN toPlc :
            toPlc[i].from = x /\ toPlc' = RemoveAt(toPlc, i) /\ inbox' = inbox
    BY <1>1
  <2>2. i \in 1..Len(toPlc) /\ Len(toPlc) \in Nat /\ DOMAIN toPlc = 1..Len(toPlc)
    BY <1>0, LenProperties
  <2>3. /\ toPlc' \in Seq(Request)
        /\ DOMAIN toPlc' = 1..(Len(toPlc) - 1)
        /\ \A j \in DOMAIN toPlc' : toPlc'[j] = IF j < i THEN toPlc[j] ELSE toPlc[j + 1]
    BY <1>0, <2>1, RemoveFacts
  <2>4. ASSUME NEW j \in DOMAIN toPlc'
        PROVE  \E k \in DOMAIN toPlc :
                 k # i /\ toPlc'[j] = toPlc[k] /\ k = IF j < i THEN j ELSE j + 1
    BY <2>2, <2>3
  <2>5. ASSUME NEW j \in DOMAIN toPlc', NEW k \in DOMAIN toPlc',
               toPlc'[j].from = toPlc'[k].from
        PROVE  j = k
    <3>1. j \in Int /\ k \in Int
      BY <2>2, <2>3
    <3>2. (IF j < i THEN j ELSE j + 1) = (IF k < i THEN k ELSE k + 1)
      BY <2>4, <2>5 DEF FlightInv, Flight
    <3>3. QED
      BY <2>2, <3>1, <3>2
  <2>6. QED
    BY <1>0, <2>1, <2>3, <2>4, <2>5 DEF FlightInv, Flight
<1>2. CASE \E i \in DOMAIN inbox :
            inbox[i].to = x /\ inbox' = RemoveAt(inbox, i) /\ toPlc' = toPlc
  <2>1. PICK i \in DOMAIN inbox :
            inbox[i].to = x /\ inbox' = RemoveAt(inbox, i) /\ toPlc' = toPlc
    BY <1>2
  <2>2. i \in 1..Len(inbox) /\ Len(inbox) \in Nat /\ DOMAIN inbox = 1..Len(inbox)
    BY <1>0, LenProperties
  <2>3. /\ inbox' \in Seq(Answer)
        /\ DOMAIN inbox' = 1..(Len(inbox) - 1)
        /\ \A j \in DOMAIN inbox' : inbox'[j] = IF j < i THEN inbox[j] ELSE inbox[j + 1]
    BY <1>0, <2>1, RemoveFacts
  <2>4. ASSUME NEW j \in DOMAIN inbox'
        PROVE  \E k \in DOMAIN inbox :
                 k # i /\ inbox'[j] = inbox[k] /\ k = IF j < i THEN j ELSE j + 1
    BY <2>2, <2>3
  <2>5. ASSUME NEW j \in DOMAIN inbox', NEW k \in DOMAIN inbox',
               inbox'[j].to = inbox'[k].to
        PROVE  j = k
    <3>1. j \in Int /\ k \in Int
      BY <2>2, <2>3
    <3>2. (IF j < i THEN j ELSE j + 1) = (IF k < i THEN k ELSE k + 1)
      BY <2>4, <2>5 DEF FlightInv, Flight
    <3>3. QED
      BY <2>2, <3>1, <3>2
  <2>6. QED
    BY <1>0, <2>1, <2>3, <2>4, <2>5 DEF FlightInv, Flight
<1>3. CASE /\ \A i \in DOMAIN toPlc : toPlc[i].from # x
           /\ \A i \in DOMAIN inbox : inbox[i].to # x
           /\ toPlc' = toPlc /\ inbox' = inbox
  BY <1>0, <1>3 DEF FlightInv, Flight
<1>4. QED
  BY <1>1, <1>2, <1>3 DEF Withdraw

LEMMA OrderedWithdraw ==
    ASSUME TypeOK, OrderedInv, NEW x, Withdraw(x)
    PROVE  Ordered(inbox', seen, version)
<1>0. inbox \in Seq(Answer)
  BY Types
<1>1. CASE inbox' = inbox
  BY <1>1 DEF OrderedInv
<1>2. CASE \E i \in DOMAIN inbox : inbox' = RemoveAt(inbox, i)
  <2>1. PICK i \in DOMAIN inbox : inbox' = RemoveAt(inbox, i)
    BY <1>2
  <2>2. i \in 1..Len(inbox) /\ Len(inbox) \in Nat /\ DOMAIN inbox = 1..Len(inbox)
    BY <1>0, LenProperties
  <2>3. /\ DOMAIN inbox' = 1..(Len(inbox) - 1)
        /\ \A j \in DOMAIN inbox' : inbox'[j] = IF j < i THEN inbox[j] ELSE inbox[j + 1]
    BY <1>0, <2>1, RemoveFacts
  <2>4. ASSUME NEW j \in DOMAIN inbox'
        PROVE  \E k \in DOMAIN inbox :
                 inbox'[j] = inbox[k] /\ k = IF j < i THEN j ELSE j + 1
    BY <2>2, <2>3
  <2>5. ASSUME NEW j \in DOMAIN inbox', NEW k \in DOMAIN inbox', j <= k
        PROVE  inbox'[j].v <= inbox'[k].v
    <3>1. j \in Int /\ k \in Int
      BY <2>2, <2>3
    <3>2. (IF j < i THEN j ELSE j + 1) <= (IF k < i THEN k ELSE k + 1)
      BY <2>2, <2>5, <3>1
    <3>3. QED
      BY <2>4, <3>2 DEF OrderedInv, Ordered
  <2>6. QED
    BY <2>4, <2>5 DEF OrderedInv, Ordered
<1>3. QED
  BY <1>1, <1>2 DEF Withdraw

LEMMA OrderedRead ==
    ASSUME NEW ib \in Seq(Answer), NEW low \in Versions, NEW high \in Versions,
           Ordered(ib, low, high), ib # <<>>
    PROVE  /\ low <= Head(ib).v /\ Head(ib).v \in Versions
           /\ Ordered(Tail(ib), low, high)
           /\ Ordered(Tail(ib), Head(ib).v, high)
<1>1. /\ Tail(ib) \in Seq(Answer)
      /\ 1 \in DOMAIN ib /\ Head(ib) = ib[1] /\ ib[1] \in Answer
      /\ \A i \in DOMAIN Tail(ib) :
           i \in Nat /\ i + 1 \in DOMAIN ib /\ i + 1 # 1 /\ Tail(ib)[i] = ib[i + 1]
  BY TailFacts
<1>2. low <= Head(ib).v /\ Head(ib).v \in Versions /\ Head(ib).v <= high
  BY <1>1 DEF Ordered, Answer
<1>3. ASSUME NEW i \in DOMAIN Tail(ib), NEW j \in DOMAIN Tail(ib), i <= j
      PROVE  Tail(ib)[i].v <= Tail(ib)[j].v
  <2>1. i + 1 <= j + 1
    BY <1>1, <1>3
  <2>2. QED
    BY <1>1, <2>1 DEF Ordered
<1>4. ASSUME NEW i \in DOMAIN Tail(ib)
      PROVE  /\ low <= Tail(ib)[i].v /\ Tail(ib)[i].v <= high
             /\ Head(ib).v <= Tail(ib)[i].v
  <2>1. 1 <= i + 1
    BY <1>1
  <2>2. QED
    BY <1>1, <2>1 DEF Ordered
<1>5. QED
  BY <1>2, <1>3, <1>4 DEF Ordered

LEMMA OrderedAnswer ==
    ASSUME NEW ib \in Seq(Answer), NEW low \in Versions, NEW high \in Versions,
           Ordered(ib, low, high), NEW a \in Answer, a.v = high
    PROVE  Ordered(Append(ib, a), low, high)
<1>1. /\ DOMAIN Append(ib, a) = DOMAIN ib \cup {Len(ib) + 1}
      /\ \A i \in DOMAIN ib : Append(ib, a)[i] = ib[i] /\ i < Len(ib) + 1
      /\ Append(ib, a)[Len(ib) + 1] = a
  BY AppendFacts
<1>2. low \in Int /\ high \in Int /\ Len(ib) \in Nat /\ DOMAIN ib = 1..Len(ib)
  BY LenProperties, CacheAssumption DEF Versions
<1>3. ASSUME NEW i \in DOMAIN Append(ib, a), NEW j \in DOMAIN Append(ib, a), i <= j
      PROVE  Append(ib, a)[i].v <= Append(ib, a)[j].v
  <2>1. CASE j \in DOMAIN ib
    <3>1. i \in DOMAIN ib
      BY <1>1, <1>2, <1>3, <2>1
    <3>2. QED
      BY <1>1, <1>3, <2>1, <3>1 DEF Ordered
  <2>2. CASE j = Len(ib) + 1
    BY <1>1, <1>2, <2>2 DEF Ordered
  <2>3. QED
    BY <1>1, <2>1, <2>2
<1>4. QED
  BY <1>1, <1>2, <1>3 DEF Ordered
-----------------------------------------------------------------------------
(***************************************************************************)
(* Types, and that each task awaits what is on its way.                    *)
(***************************************************************************)
LEMMA ReaderAwaits ==
    ASSUME TypeOK, NEW r \in Readers, NEW s \in {"idle", "waiting", "thread"},
           reader' = [reader EXCEPT ![r] = s], monitor' = monitor
    PROVE  Awaiting' = IF s = "waiting" THEN Awaiting \cup {r} ELSE Awaiting \ {r}
BY CacheAssumption DEF TypeOK, Awaiting

LEMMA MonitorAwaits ==
    ASSUME TypeOK, reader' = reader
    PROVE  Awaiting' = IF monitor' = "request" THEN Awaiting \cup {Monitor}
                                               ELSE Awaiting \ {Monitor}
BY CacheAssumption DEF TypeOK, Awaiting

LEMMA BatchIsSent ==
    ASSUME TypeOK, NEW r \in Readers, NEW N \in SUBSET Names, SendBatch(r, N)
    PROVE  /\ \E m \in Request : m.from = r /\ toPlc' = Append(toPlc, m)
           /\ rest' \in [Readers -> SUBSET Names]
<1>1. PICK B \in SUBSET N : Send(r, B) /\ rest' = [rest EXCEPT ![r] = N \ B]
  BY DEF SendBatch
<1> DEFINE m == [from |-> r, names |-> B]
<1>2. m \in Request /\ m.from = r /\ toPlc' = Append(toPlc, m)
  BY <1>1 DEF Send, Request, Tasks
<1> HIDE DEF m
<1>3. rest' \in [Readers -> SUBSET Names]
  BY <1>1 DEF TypeOK
<1>4. QED
  BY <1>2, <1>3

LEMMA EntriesStored ==
    ASSUME TypeOK, NEW r \in Readers, NEW infos \in [Names -> Versions \cup {None}],
           AddToCache(r, infos)
    PROVE  /\ cache' \in [Names -> Versions \cup {None}]
           /\ watched' \subseteq Names
           /\ reader' = [reader EXCEPT ![r] = "idle"]
           /\ reader' \in [Readers -> {"idle", "waiting", "thread"}]
           /\ rest' \in [Readers -> SUBSET Names]
           /\ read' \in [Readers -> [Names -> Versions \cup {None}]]
           /\ watching' \subseteq Readers
BY DEF TypeOK, AddToCache, ReadEnds, NothingRead

LEMMA LookupTypes ==
    ASSUME TypeOK, FlightInv, NEW r \in Readers, NEW N \in SUBSET Names, Lookup(r, N)
    PROVE  TypeOK' /\ FlightInv'
<1>0. toPlc \in Seq(Request) /\ inbox \in Seq(Answer)
  BY Types
<1>1. PICK E \in SUBSET {n \in N : cache[n] # None} :
        LET missing == E \cup {n \in N : cache[n] = None}
        IN  /\ cache' = [n \in Names |-> IF n \in E THEN None ELSE cache[n]]
            /\ IF missing = {}
               THEN UNCHANGED <<readVars, toPlc>>
               ELSE /\ SendBatch(r, missing)
                    /\ reader' = [reader EXCEPT ![r] = "waiting"]
                    /\ watching' = IF known # None THEN watching \cup {r} ELSE watching
                    /\ UNCHANGED read
  BY DEF Lookup
<1>2. reader[r] = "idle" /\ UNCHANGED <<monitorVars, inbox, version, seen, watched>>
  BY DEF Lookup
<1> DEFINE missing == E \cup {n \in N : cache[n] = None}
<1>3. missing \in SUBSET Names
  OBVIOUS
<1>4. cache' \in [Names -> Versions \cup {None}]
  BY <1>1 DEF TypeOK
<1>5. CASE missing = {}
  BY <1>1, <1>2, <1>4, <1>5 DEF TypeOK, FlightInv, Flight, Awaiting, readVars, monitorVars
<1>6. CASE missing # {}
  <2>1. /\ SendBatch(r, missing)
        /\ reader' = [reader EXCEPT ![r] = "waiting"]
        /\ watching' \subseteq Readers
        /\ read' = read
    BY <1>1, <1>6 DEF TypeOK
  <2>2. PICK m \in Request : m.from = r /\ toPlc' = Append(toPlc, m)
    BY <1>3, <2>1, BatchIsSent
  <2>3. rest' \in [Readers -> SUBSET Names]
    BY <1>3, <2>1, BatchIsSent
  <2>4. r \notin Awaiting
    BY <1>2, CacheAssumption DEF Awaiting
  <2>5. toPlc' \in Seq(Request) /\ Flight(toPlc', inbox, Awaiting \cup {r})
    BY <1>0, <2>2, <2>4, FlightSend DEF FlightInv
  <2>6. Awaiting' = Awaiting \cup {r}
    BY <1>2, <2>1, ReaderAwaits DEF monitorVars
  <2>7. FlightInv'
    BY <1>2, <2>5, <2>6 DEF FlightInv
  <2>8. TypeOK'
    BY <1>2, <1>4, <2>1, <2>3, <2>5 DEF TypeOK, Request, Tasks, monitorVars
  <2>9. QED
    BY <2>7, <2>8
<1>7. QED
  BY <1>5, <1>6

LEMMA AnswerReadTypes ==
    ASSUME TypeOK, FlightInv, NEW r \in Readers, AnswerRead(r)
    PROVE  TypeOK' /\ FlightInv'
<1>0. toPlc \in Seq(Request) /\ inbox \in Seq(Answer)
  BY Types
<1>1. /\ inbox # <<>> /\ Head(inbox).to = r /\ inbox' = Tail(inbox)
      /\ UNCHANGED <<monitorVars, version, seen>>
  BY DEF AnswerRead
<1> DEFINE infos == [n \in Names |-> IF n \in Head(inbox).names THEN Head(inbox).v ELSE read[r][n]]
<1>2. /\ inbox' \in Seq(Answer) /\ Head(inbox) \in Answer /\ r \in Awaiting
      /\ Flight(toPlc, inbox', Awaiting \ {r})
  BY <1>0, <1>1, FlightRead DEF FlightInv
<1>3. infos \in [Names -> Versions \cup {None}]
  BY <1>2 DEF TypeOK, Answer
<1>4. \/ /\ reader' = [reader EXCEPT ![r] = "thread"]
         /\ read' = [read EXCEPT ![r] = infos]
         /\ watching' = watching \ {r}
         /\ UNCHANGED <<cache, watched, rest, toPlc>>
      \/ /\ SendBatch(r, rest[r])
         /\ read' = [read EXCEPT ![r] = infos]
         /\ watching' = watching \ {r}
         /\ UNCHANGED <<cache, watched, reader>>
      \/ /\ AddToCache(r, infos)
         /\ UNCHANGED toPlc
  BY DEF AnswerRead
<1> HIDE DEF infos
<1>5. CASE /\ reader' = [reader EXCEPT ![r] = "thread"]
           /\ read' = [read EXCEPT ![r] = infos]
           /\ watching' = watching \ {r}
           /\ UNCHANGED <<cache, watched, rest, toPlc>>
  <2>1. Awaiting' = Awaiting \ {r}
    BY <1>1, <1>5, ReaderAwaits DEF monitorVars
  <2>2. FlightInv'
    BY <1>2, <1>5, <2>1 DEF FlightInv
  <2>3. TypeOK'
    BY <1>1, <1>2, <1>3, <1>5 DEF TypeOK, Answer, Tasks, monitorVars
  <2>4. QED
    BY <2>2, <2>3
<1>6. CASE /\ SendBatch(r, rest[r])
           /\ read' = [read EXCEPT ![r] = infos]
           /\ watching' = watching \ {r}
           /\ UNCHANGED <<cache, watched, reader>>
  <2>1. rest[r] \in SUBSET Names
    BY DEF TypeOK
  <2>2. PICK m \in Request : m.from = r /\ toPlc' = Append(toPlc, m)
    BY <1>6, <2>1, BatchIsSent
  <2>3. rest' \in [Readers -> SUBSET Names]
    BY <1>6, <2>1, BatchIsSent
  <2>4. /\ toPlc' \in Seq(Request)
        /\ Flight(toPlc', inbox', (Awaiting \ {r}) \cup {r})
    BY <1>0, <1>2, <2>2, FlightSend
  <2>5. Awaiting' = Awaiting /\ (Awaiting \ {r}) \cup {r} = Awaiting
    BY <1>1, <1>2, <1>6 DEF Awaiting, monitorVars
  <2>6. FlightInv'
    BY <2>4, <2>5 DEF FlightInv
  <2>7. TypeOK'
    BY <1>1, <1>2, <1>3, <1>6, <2>3, <2>4 DEF TypeOK, Request, Answer, Tasks, monitorVars
  <2>8. QED
    BY <2>6, <2>7
<1>7. CASE AddToCache(r, infos) /\ UNCHANGED toPlc
  <2>1. /\ cache' \in [Names -> Versions \cup {None}]
        /\ watched' \subseteq Names
        /\ reader' = [reader EXCEPT ![r] = "idle"]
        /\ reader' \in [Readers -> {"idle", "waiting", "thread"}]
        /\ rest' \in [Readers -> SUBSET Names]
        /\ read' \in [Readers -> [Names -> Versions \cup {None}]]
        /\ watching' \subseteq Readers
    BY <1>3, <1>7, EntriesStored
  <2>2. Awaiting' = Awaiting \ {r}
    BY <1>1, <2>1, ReaderAwaits DEF monitorVars
  <2>3. FlightInv'
    BY <1>2, <1>7, <2>2 DEF FlightInv
  <2>4. TypeOK'
    BY <1>1, <1>2, <1>7, <2>1 DEF TypeOK, Answer, Tasks, monitorVars
  <2>5. QED
    BY <2>3, <2>4
<1>8. QED
  BY <1>4, <1>5, <1>6, <1>7

LEMMA ThreadReturnsTypes ==
    ASSUME TypeOK, FlightInv, NEW r \in Readers, ThreadReturns(r)
    PROVE  TypeOK' /\ FlightInv'
<1>0. toPlc \in Seq(Request) /\ inbox \in Seq(Answer)
  BY Types
<1>1. reader[r] = "thread" /\ UNCHANGED <<monitorVars, inbox, version, seen>>
  BY DEF ThreadReturns
<1>2. r \notin Awaiting
  BY <1>1, CacheAssumption DEF Awaiting
<1>3. CASE /\ SendBatch(r, rest[r])
           /\ reader' = [reader EXCEPT ![r] = "waiting"]
           /\ UNCHANGED <<cache, watched, read, watching>>
  <2>1. rest[r] \in SUBSET Names
    BY DEF TypeOK
  <2>2. PICK m \in Request : m.from = r /\ toPlc' = Append(toPlc, m)
    BY <1>3, <2>1, BatchIsSent
  <2>3. rest' \in [Readers -> SUBSET Names]
    BY <1>3, <2>1, BatchIsSent
  <2>4. toPlc' \in Seq(Request) /\ Flight(toPlc', inbox, Awaiting \cup {r})
    BY <1>0, <1>2, <2>2, FlightSend DEF FlightInv
  <2>5. Awaiting' = Awaiting \cup {r}
    BY <1>1, <1>3, ReaderAwaits DEF monitorVars
  <2>6. FlightInv'
    BY <1>1, <2>4, <2>5 DEF FlightInv
  <2>7. TypeOK'
    BY <1>1, <1>3, <2>3, <2>4 DEF TypeOK, Request, Tasks, monitorVars
  <2>8. QED
    BY <2>6, <2>7
<1>4. CASE AddToCache(r, read[r]) /\ UNCHANGED toPlc
  <2>0. read[r] \in [Names -> Versions \cup {None}]
    BY DEF TypeOK
  <2>1. /\ cache' \in [Names -> Versions \cup {None}]
        /\ watched' \subseteq Names
        /\ reader' = [reader EXCEPT ![r] = "idle"]
        /\ reader' \in [Readers -> {"idle", "waiting", "thread"}]
        /\ rest' \in [Readers -> SUBSET Names]
        /\ read' \in [Readers -> [Names -> Versions \cup {None}]]
        /\ watching' \subseteq Readers
    BY <1>4, <2>0, EntriesStored
  <2>2. Awaiting' = Awaiting
    <3>1. Awaiting' = Awaiting \ {r}
      BY <1>1, <2>1, ReaderAwaits DEF monitorVars
    <3>2. QED
      BY <1>2, <3>1
  <2>3. FlightInv'
    BY <1>1, <1>4, <2>2 DEF FlightInv
  <2>4. TypeOK'
    BY <1>1, <1>4, <2>1 DEF TypeOK, monitorVars
  <2>5. QED
    BY <2>3, <2>4
<1>5. QED
  BY <1>3, <1>4 DEF ThreadReturns

LEMMA ReadFailsTypes ==
    ASSUME TypeOK, FlightInv, NEW r \in Readers, ReadFails(r)
    PROVE  TypeOK' /\ FlightInv'
<1>1. /\ Withdraw(r) /\ ReadEnds(r)
      /\ UNCHANGED <<cache, monitorVars, version, seen, watched>>
  BY DEF ReadFails
<1>2. /\ toPlc' \in Seq(Request) /\ inbox' \in Seq(Answer)
      /\ Flight(toPlc', inbox', Awaiting \ {r})
  BY <1>1, FlightWithdraw
<1>3. Awaiting' = Awaiting \ {r}
  BY <1>1, ReaderAwaits DEF ReadEnds, monitorVars
<1>4. FlightInv'
  BY <1>2, <1>3 DEF FlightInv
<1>5. TypeOK'
  BY <1>1, <1>2 DEF TypeOK, ReadEnds, NothingRead, Request, Answer, Tasks, monitorVars
<1>6. QED
  BY <1>4, <1>5
LEMMA ReaderTypes ==
    ASSUME TypeOK, FlightInv, NEW r \in Readers, ReaderNext(r)
    PROVE  TypeOK' /\ FlightInv'
<1>1. CASE ReadSymbolInfoByName(r)
  <2>1. PICK n \in Names : Lookup(r, {n})
    BY <1>1 DEF ReadSymbolInfoByName
  <2>2. {n} \in SUBSET Names
    OBVIOUS
  <2>3. QED
    BY <2>1, <2>2, LookupTypes
<1>2. CASE ReadSymbolInfosByNames(r)
  BY <1>2, LookupTypes DEF ReadSymbolInfosByNames
<1>3. QED
  BY <1>1, <1>2, AnswerReadTypes, ThreadReturnsTypes, ReadFailsTypes DEF ReaderNext

LEMMA PollTypes ==
    ASSUME TypeOK, FlightInv, monitor # "request", task, Poll, reader' = reader,
           UNCHANGED <<cache, reader, rest, read, task, stopping, inbox, version, seen>>,
           known' \in {None, known}, watched' \in SUBSET Names, watching' \in SUBSET Readers
    PROVE  TypeOK' /\ FlightInv'
<1>0. toPlc \in Seq(Request) /\ inbox \in Seq(Answer)
  BY Types
<1> DEFINE m == [from |-> Monitor, names |-> {}]
<1>1. m \in Request /\ m.from = Monitor /\ toPlc' = Append(toPlc, m)
  BY DEF Poll, Send, Request, Tasks
<1> HIDE DEF m
<1>2. Monitor \notin Awaiting
  BY CacheAssumption DEF Awaiting
<1>3. toPlc' \in Seq(Request) /\ Flight(toPlc', inbox, Awaiting \cup {Monitor})
  BY <1>0, <1>1, <1>2, FlightSend DEF FlightInv
<1>4. Awaiting' = Awaiting \cup {Monitor}
  BY MonitorAwaits DEF Poll
<1>5. FlightInv'
  BY <1>3, <1>4 DEF FlightInv
<1>6. TypeOK'
  BY <1>3 DEF TypeOK, Poll, Request, Tasks
<1>7. QED
  BY <1>5, <1>6

(***************************************************************************)
(* The monitor moves and its poll, if any, is withdrawn.                   *)
(***************************************************************************)
LEMMA WithdrawTypes ==
    ASSUME TypeOK, FlightInv, Withdraw(Monitor), monitor' \in {"none", "sleep", "lastsleep"},
           UNCHANGED <<cache, readVars, task, known, version, seen, watched>>,
           stopping' \in BOOLEAN, task
    PROVE  TypeOK' /\ FlightInv'
<1>1. /\ toPlc' \in Seq(Request) /\ inbox' \in Seq(Answer)
      /\ Flight(toPlc', inbox', Awaiting \ {Monitor})
  BY FlightWithdraw
<1>2. Awaiting' = Awaiting \ {Monitor}
  BY MonitorAwaits DEF readVars
<1>3. FlightInv'
  BY <1>1, <1>2 DEF FlightInv
<1>4. TypeOK'
  BY <1>1 DEF TypeOK, Request, Answer, Tasks, readVars
<1>5. QED
  BY <1>3, <1>4

(***************************************************************************)
(* The monitor moves, no message does: it neither was nor is in a poll.    *)
(***************************************************************************)
LEMMA IdleMonitorTypes ==
    ASSUME TypeOK, FlightInv, monitor # "request",
           monitor' \in {"none", "start", "sleep", "lastsleep"}, monitor' # "none" => task',
           UNCHANGED <<cache, readVars, known, toPlc, inbox, version, seen, watched>>,
           task' \in BOOLEAN, stopping' \in BOOLEAN
    PROVE  TypeOK' /\ FlightInv'
<1>1. Awaiting' = Awaiting
  BY DEF Awaiting, readVars
<1>2. QED
  BY <1>1 DEF TypeOK, FlightInv, readVars

LEMMA VersionTypes ==
    ASSUME TypeOK, NEW v \in Versions, VersionRead(v)
    PROVE  /\ known' \in 0..(VersionMod - 1)
           /\ cache' \in [Names -> Versions \cup {None}]
           /\ watched' \in SUBSET Names
<1>1. Reported(v) \in 0..(VersionMod - 1)
  BY CacheAssumption DEF Reported, Versions
<1>2. QED
  BY <1>1 DEF VersionRead, TypeOK, NothingRead

LEMMA VersionAnsweredTypes ==
    ASSUME TypeOK, FlightInv, VersionAnswered
    PROVE  TypeOK' /\ FlightInv'
<1>0. toPlc \in Seq(Request) /\ inbox \in Seq(Answer)
  BY Types
<1>1. /\ inbox # <<>> /\ Head(inbox).to = Monitor /\ inbox' = Tail(inbox)
      /\ VersionRead(Head(inbox).v) /\ seen' = Head(inbox).v /\ monitor' = "sleep"
      /\ UNCHANGED <<readVars, task, stopping, toPlc, version>>
  BY DEF VersionAnswered
<1>2. /\ inbox' \in Seq(Answer) /\ Head(inbox).v \in Versions /\ Monitor \in Awaiting
      /\ Flight(toPlc, inbox', Awaiting \ {Monitor})
  BY <1>0, <1>1, FlightRead DEF FlightInv, Answer
<1>3. task
  BY <1>2, CacheAssumption DEF Awaiting, TypeOK
<1>4. Awaiting' = Awaiting \ {Monitor}
  BY <1>1, MonitorAwaits DEF readVars
<1>5. FlightInv'
  BY <1>1, <1>2, <1>4 DEF FlightInv
<1>6. /\ known' \in 0..(VersionMod - 1)
      /\ cache' \in [Names -> Versions \cup {None}]
      /\ watched' \in SUBSET Names
  BY <1>1, <1>2, VersionTypes
<1>7. TypeOK'
  BY <1>1, <1>2, <1>3, <1>6 DEF TypeOK, Answer, Tasks, readVars
<1>8. QED
  BY <1>5, <1>7

LEMMA PlcAnswersTypes ==
    ASSUME TypeOK, FlightInv, NEW x \in Tasks, PlcAnswers(x)
    PROVE  TypeOK' /\ FlightInv'
<1>0. toPlc \in Seq(Request) /\ inbox \in Seq(Answer)
  BY Types
<1> DEFINE a == [to |-> x, names |-> Head(toPlc).names, v |-> version]
<1>1. /\ toPlc # <<>> /\ Head(toPlc).from = x /\ toPlc' = Tail(toPlc)
      /\ inbox' = Append(inbox, a)
      /\ UNCHANGED <<cache, readVars, monitorVars, version, seen, watched>>
  BY DEF PlcAnswers
<1>2. Head(toPlc) \in Request
  BY <1>0, <1>1, TailFacts
<1>3. a \in Answer /\ a.to = Head(toPlc).from
  BY <1>1, <1>2 DEF Answer, Request, TypeOK
<1> HIDE DEF a
<1>4. /\ toPlc' \in Seq(Request) /\ inbox' \in Seq(Answer)
      /\ Flight(toPlc', inbox', Awaiting)
  BY <1>0, <1>1, <1>3, FlightAnswer DEF FlightInv
<1>5. FlightInv'
  BY <1>1, <1>4 DEF FlightInv, Awaiting, readVars, monitorVars
<1>6. TypeOK'
  BY <1>1, <1>4 DEF TypeOK, Request, Answer, Tasks, readVars, monitorVars
<1>7. QED
  BY <1>5, <1>6

LEMMA TypesStep ==
    ASSUME TypeOK, FlightInv, [Next]_vars
    PROVE  TypeOK' /\ FlightInv'
<1>1. CASE \E r \in Readers : ReaderNext(r)
  BY <1>1, ReaderTypes
<1>2. CASE StartCacheMonitor
  <2>1. monitor = "none"
    BY <1>2 DEF StartCacheMonitor, TypeOK
  <2>2. QED
    BY <1>2, <2>1, IdleMonitorTypes DEF StartCacheMonitor, TypeOK
<1>3. CASE StopCacheMonitor
  BY <1>3, WithdrawTypes DEF StopCacheMonitor, Cancelled
<1>4. CASE StopReturns
  BY <1>4, IdleMonitorTypes DEF StopReturns
<1>5. CASE MonitorStarts
  BY <1>5, PollTypes DEF MonitorStarts, TypeOK
<1>6. CASE MonitorWakes
  BY <1>6, PollTypes DEF MonitorWakes, TypeOK, readVars
<1>7. CASE VersionAnswered
  BY <1>7, VersionAnsweredTypes
<1>8. CASE PollFails
  <2>1. task /\ stopping \in BOOLEAN
    BY <1>8 DEF PollFails, TypeOK
  <2>2. QED
    BY <1>8, <2>1, WithdrawTypes DEF PollFails
<1>9. CASE LastSleepEnds
  BY <1>9, IdleMonitorTypes DEF LastSleepEnds, TypeOK
<1>10. CASE \E x \in Tasks : PlcAnswers(x)
  BY <1>10, PlcAnswersTypes
<1>11. CASE PlcChanges
  <2>1. version' \in Versions
    BY <1>11, CacheAssumption DEF PlcChanges, TypeOK, Versions
  <2>2. QED
    BY <1>11, <2>1
    DEF PlcChanges, TypeOK, FlightInv, Flight, Awaiting, readVars, monitorVars
<1>12. CASE UNCHANGED vars
  BY <1>12 DEF vars, readVars, monitorVars, TypeOK, FlightInv, Flight, Awaiting
<1>13. QED
  BY <1>1, <1>2, <1>3, <1>4, <1>5, <1>6, <1>7, <1>8, <1>9, <1>10, <1>11, <1>12
  DEF Next, MonitorNext, Tasks
(***************************************************************************)
(* The types of every state; the task is known as long as it has not       *)
(* ended, and each task awaits what is on its way.                         *)
(***************************************************************************)
THEOREM TypeCorrect == Spec => []TypeOK
<1>1. Init => TypeOK /\ FlightInv
  <2>1. ASSUME Init PROVE TypeOK
    <3>1. 0 \in Versions
      BY CacheAssumption DEF Versions
    <3>2. <<>> \in Seq(Request) /\ <<>> \in Seq(Answer)
      BY EmptySeq
    <3>3. NothingRead \in [Names -> Versions \cup {None}]
      BY DEF NothingRead
    <3>4. QED
      BY <2>1, <3>1, <3>2, <3>3 DEF Init, TypeOK, Request, Answer, Tasks
  <2>2. ASSUME Init PROVE FlightInv
    BY <2>2 DEF Init, FlightInv, Flight
  <2>3. QED
    BY <2>1, <2>2
<1>2. (TypeOK /\ FlightInv) /\ [Next]_vars => (TypeOK /\ FlightInv)'
  BY TypesStep
<1>3. QED
  BY <1>1, <1>2, PTL DEF Spec

-----------------------------------------------------------------------------
(***************************************************************************)
(* Versions rise along the way of the answers.                             *)
(***************************************************************************)
LEMMA OrderedStep ==
    ASSUME TypeOK, OrderedInv, [Next]_vars
    PROVE  OrderedInv'
<1>0. inbox \in Seq(Answer) /\ seen \in Versions /\ version \in Versions
  BY Types DEF TypeOK
<1>1. CASE UNCHANGED <<inbox, seen, version>>
  BY <1>1 DEF OrderedInv
<1>2. CASE \E x \in Tasks : Withdraw(x) /\ UNCHANGED <<seen, version>>
  BY <1>2, OrderedWithdraw DEF OrderedInv
<1>3. CASE /\ inbox # <<>> /\ inbox' = Tail(inbox)
           /\ seen' \in {seen, Head(inbox).v} /\ version' = version
  BY <1>0, <1>3, OrderedRead DEF OrderedInv
<1>4. CASE \E x \in Tasks : PlcAnswers(x)
  <2>1. PICK x \in Tasks : PlcAnswers(x)
    BY <1>4
  <2>2. Head(toPlc) \in Request
    BY <2>1, Types, TailFacts DEF PlcAnswers
  <2>3. PICK a \in Answer : a.v = version /\ inbox' = Append(inbox, a)
    BY <1>0, <2>1, <2>2 DEF PlcAnswers, Answer, Request
  <2>4. seen' = seen /\ version' = version
    BY <2>1 DEF PlcAnswers
  <2>5. QED
    BY <1>0, <2>3, <2>4, OrderedAnswer DEF OrderedInv
<1>5. CASE PlcChanges
  <2>1. /\ inbox' = inbox /\ seen' = seen /\ version' = version + 1
    BY <1>5 DEF PlcChanges
  <2>2. \A i \in DOMAIN inbox : inbox[i].v \in Versions
    <3>1. \A i \in DOMAIN inbox : i \in 1..Len(inbox)
      BY <1>0, LenProperties
    <3>2. \A i \in DOMAIN inbox : inbox[i] \in Answer
      BY <1>0, <3>1, ElementOfSeq
    <3>3. QED
      BY <3>2 DEF Answer
  <2>3. QED
    BY <1>0, <2>1, <2>2, CacheAssumption DEF OrderedInv, Ordered, Versions
<1>6. CASE \E r \in Readers : ReaderNext(r)
  <2>1. PICK r \in Readers : ReaderNext(r)
    BY <1>6
  <2>2. CASE AnswerRead(r)
    BY <1>3, <2>2 DEF AnswerRead
  <2>3. CASE ReadFails(r)
    BY <1>2, <2>3 DEF ReadFails, Tasks
  <2>4. CASE ThreadReturns(r) \/ \E N \in SUBSET Names : Lookup(r, N)
    BY <1>1, <2>4 DEF ThreadReturns, Lookup
  <2>5. QED
    BY <2>1, <2>2, <2>3, <2>4
    DEF ReaderNext, ReadSymbolInfoByName, ReadSymbolInfosByNames
<1>7. CASE StopCacheMonitor \/ PollFails
  BY <1>2, <1>7 DEF StopCacheMonitor, PollFails, Tasks
<1>8. CASE VersionAnswered
  BY <1>3, <1>8 DEF VersionAnswered
<1>9. CASE \/ StartCacheMonitor \/ StopReturns \/ MonitorStarts
           \/ MonitorWakes \/ LastSleepEnds \/ UNCHANGED vars
  BY <1>1, <1>9
  DEF StartCacheMonitor, StopReturns, MonitorStarts, MonitorWakes, LastSleepEnds, vars
<1>10. QED
  BY <1>4, <1>5, <1>6, <1>7, <1>8, <1>9 DEF Next, MonitorNext, Tasks

-----------------------------------------------------------------------------
LEMMA DivMod ==
    ASSUME NEW v \in Nat, NEW M \in Nat \ {0}
    PROVE  v \div M \in Int /\ v = (M * (v \div M)) + (v % M)
OBVIOUS

(***************************************************************************)
(* A version of one byte tells apart versions less than its range apart.   *)
(***************************************************************************)
LEMMA SameReport ==
    ASSUME NEW M \in Nat \ {0}, NEW s \in Nat, NEW v \in Nat,
           s <= v, v < s + M, v % M = s % M
    PROVE  v = s
<1> DEFINE p == v \div M
           q == s \div M
<1>1. p \in Int /\ q \in Int /\ v = (M * p) + (v % M) /\ s = (M * q) + (s % M)
  BY DivMod
<1>2. v % M \in Int
  OBVIOUS
<1> HIDE DEF p, q
<1>3. v - s = M * (p - q)
  <2>1. M * p \in Int /\ M * q \in Int /\ M * (p - q) = M * p - M * q
    BY <1>1
  <2>2. QED
    BY <1>1, <1>2, <2>1
<1>4. CASE p - q >= 1
  <2>1. M * (p - q) >= M
    BY <1>1, <1>4
  <2>2. QED
    BY <1>3, <2>1
<1>5. CASE p - q <= -1
  <2>1. M * (p - q) <= 0 - M
    BY <1>1, <1>5
  <2>2. QED
    BY <1>3, <2>1
<1>6. CASE p = q
  BY <1>1, <1>3, <1>6
<1>7. QED
  BY <1>1, <1>4, <1>5, <1>6

(***************************************************************************)
(* The hypothesis on the PLC: while a monitor knows a version, the table   *)
(* changes fewer than VersionMod times between two versions it is told     *)
(* (of 256 changes a report of one byte shows none).                       *)
(***************************************************************************)
ChangesSlowly == known # None => seen' < seen + VersionMod

FreshInv == OrderedInv /\ WatchInv /\ NoStaleWatchedEntry

LEMMA LookupFresh ==
    ASSUME TypeOK, FreshInv, NEW r \in Readers, NEW N \in SUBSET Names, Lookup(r, N)
    PROVE  WatchInv' /\ NoStaleWatchedEntry'
<1>1. PICK E \in SUBSET {n \in N : cache[n] # None} :
        LET missing == E \cup {n \in N : cache[n] = None}
        IN  /\ cache' = [n \in Names |-> IF n \in E THEN None ELSE cache[n]]
            /\ IF missing = {}
               THEN UNCHANGED <<readVars, toPlc>>
               ELSE /\ SendBatch(r, missing)
                    /\ reader' = [reader EXCEPT ![r] = "waiting"]
                    /\ watching' = IF known # None THEN watching \cup {r} ELSE watching
                    /\ UNCHANGED read
  BY DEF Lookup
<1>2. reader[r] = "idle" /\ UNCHANGED <<monitorVars, seen, watched>>
  BY DEF Lookup
<1>3. NoStaleWatchedEntry'
  BY <1>1, <1>2 DEF FreshInv, NoStaleWatchedEntry, TypeOK
<1>4. WatchInv'
  <2>1. CASE UNCHANGED readVars
    BY <1>2, <2>1 DEF FreshInv, WatchInv, readVars, monitorVars
  <2>2. CASE /\ \E B \in SUBSET Names, M \in SUBSET Names : rest' = [rest EXCEPT ![r] = M \ B]
             /\ reader' = [reader EXCEPT ![r] = "waiting"]
             /\ watching' = IF known # None THEN watching \cup {r} ELSE watching
             /\ read' = read
    BY <1>2, <2>2 DEF FreshInv, WatchInv, TypeOK, monitorVars
  <2>3. QED
    BY <1>1, <2>1, <2>2 DEF SendBatch
<1>5. QED
  BY <1>3, <1>4

(***************************************************************************)
(* A reader that stores what it has read: what it watches is no older than *)
(* the version the monitor was told, the rest is not watched any more.     *)
(***************************************************************************)
LEMMA StoreFresh ==
    ASSUME TypeOK, FreshInv, NEW r \in Readers, NEW infos \in [Names -> Versions \cup {None}],
           r \in watching => \A n \in Names : infos[n] # None => infos[n] >= seen,
           AddToCache(r, infos), UNCHANGED <<known, seen>>
    PROVE  WatchInv' /\ NoStaleWatchedEntry'
<1>1. /\ reader' = [reader EXCEPT ![r] = "idle"]
      /\ rest' = [rest EXCEPT ![r] = {}]
      /\ read' = [read EXCEPT ![r] = NothingRead]
      /\ watching' = watching \ {r}
  BY DEF AddToCache, ReadEnds
<1> DEFINE N == {n \in Names : infos[n] # None}
<1>2. /\ cache' = [n \in Names |-> IF n \in N THEN infos[n] ELSE cache[n]]
      /\ watched' = IF r \in watching THEN watched \cup N ELSE watched \ N
  BY DEF AddToCache
<1>3. WatchInv'
  BY <1>1, <1>2 DEF FreshInv, WatchInv, TypeOK
<1>4. NoStaleWatchedEntry'
  <2> SUFFICES ASSUME NEW n \in watched', cache'[n] # None
               PROVE  cache'[n] >= seen
    BY DEF NoStaleWatchedEntry
  <2>1. n \in Names
    BY <1>2 DEF TypeOK
  <2>2. CASE n \in N
    BY <1>2, <2>1, <2>2
  <2>3. CASE n \notin N
    BY <1>2, <2>1, <2>3 DEF FreshInv, NoStaleWatchedEntry
  <2>4. QED
    BY <2>2, <2>3
<1>5. QED
  BY <1>3, <1>4

LEMMA AnswerReadFresh ==
    ASSUME TypeOK, FreshInv, NEW r \in Readers, AnswerRead(r)
    PROVE  WatchInv' /\ NoStaleWatchedEntry'
<1>0. inbox \in Seq(Answer) /\ seen \in Versions /\ version \in Versions
  BY Types DEF TypeOK
<1>1. inbox # <<>> /\ UNCHANGED <<monitorVars, seen>>
  BY DEF AnswerRead
<1>2. seen <= Head(inbox).v /\ Head(inbox).v \in Versions
  BY <1>0, <1>1, OrderedRead DEF FreshInv, OrderedInv
<1> DEFINE infos == [n \in Names |-> IF n \in Head(inbox).names THEN Head(inbox).v ELSE read[r][n]]
<1>3. infos \in [Names -> Versions \cup {None}]
  BY <1>2 DEF TypeOK
<1>4. r \in watching => \A n \in Names : infos[n] # None => infos[n] >= seen
  BY <1>0, <1>2, CacheAssumption DEF FreshInv, WatchInv, NothingRead, Versions
<1>5. \/ /\ reader' = [reader EXCEPT ![r] = "thread"]
         /\ read' = [read EXCEPT ![r] = infos]
         /\ watching' = watching \ {r}
         /\ UNCHANGED <<cache, watched, rest, toPlc>>
      \/ /\ rest[r] # {}
         /\ SendBatch(r, rest[r])
         /\ read' = [read EXCEPT ![r] = infos]
         /\ watching' = watching \ {r}
         /\ UNCHANGED <<cache, watched, reader>>
      \/ AddToCache(r, infos)
  BY DEF AnswerRead
<1> HIDE DEF infos
<1>6. CASE /\ reader' = [reader EXCEPT ![r] = "thread"]
           /\ read' = [read EXCEPT ![r] = infos]
           /\ watching' = watching \ {r}
           /\ UNCHANGED <<cache, watched, rest, toPlc>>
  BY <1>1, <1>6 DEF FreshInv, WatchInv, NoStaleWatchedEntry, TypeOK, monitorVars
<1>7. CASE /\ rest[r] # {}
           /\ SendBatch(r, rest[r])
           /\ read' = [read EXCEPT ![r] = infos]
           /\ watching' = watching \ {r}
           /\ UNCHANGED <<cache, watched, reader>>
  <2>1. reader[r] # "idle"
    BY <1>7 DEF FreshInv, WatchInv
  <2>2. \A q \in Readers \ {r} : rest'[q] = rest[q] /\ read'[q] = read[q]
    BY <1>7 DEF SendBatch, TypeOK
  <2>3. QED
    BY <1>1, <1>7, <2>1, <2>2 DEF FreshInv, WatchInv, NoStaleWatchedEntry, TypeOK, monitorVars
<1>8. CASE AddToCache(r, infos)
  BY <1>1, <1>3, <1>4, <1>8, StoreFresh DEF monitorVars
<1>9. QED
  BY <1>5, <1>6, <1>7, <1>8

LEMMA ThreadReturnsFresh ==
    ASSUME TypeOK, FreshInv, NEW r \in Readers, ThreadReturns(r)
    PROVE  WatchInv' /\ NoStaleWatchedEntry'
<1>1. reader[r] = "thread" /\ UNCHANGED <<monitorVars, seen>>
  BY DEF ThreadReturns
<1>2. CASE /\ SendBatch(r, rest[r])
           /\ reader' = [reader EXCEPT ![r] = "waiting"]
           /\ UNCHANGED <<cache, watched, read, watching>>
  <2>1. \A q \in Readers \ {r} : rest'[q] = rest[q] /\ reader'[q] = reader[q]
    BY <1>2 DEF SendBatch, TypeOK
  <2>2. reader'[r] # "idle"
    BY <1>2 DEF TypeOK
  <2>3. QED
    BY <1>1, <1>2, <2>1, <2>2 DEF FreshInv, WatchInv, NoStaleWatchedEntry, monitorVars
<1>3. CASE AddToCache(r, read[r])
  <2>1. read[r] \in [Names -> Versions \cup {None}]
    BY DEF TypeOK
  <2>2. r \in watching => \A n \in Names : read[r][n] # None => read[r][n] >= seen
    BY DEF FreshInv, WatchInv, NothingRead
  <2>3. QED
    BY <1>1, <1>3, <2>1, <2>2, StoreFresh DEF monitorVars
<1>4. QED
  BY <1>2, <1>3 DEF ThreadReturns

LEMMA VersionAnsweredFresh ==
    ASSUME TypeOK, FreshInv, ChangesSlowly, VersionAnswered
    PROVE  WatchInv' /\ NoStaleWatchedEntry'
<1>0. inbox \in Seq(Answer) /\ seen \in Versions /\ version \in Versions
  BY Types DEF TypeOK
<1> DEFINE v == Head(inbox).v
<1>1. inbox # <<>> /\ VersionRead(v) /\ seen' = v /\ UNCHANGED readVars
  BY DEF VersionAnswered
<1>2. seen <= v /\ v \in Versions
  BY <1>0, <1>1, OrderedRead DEF FreshInv, OrderedInv
<1> HIDE DEF v
<1>3. known' = Reported(seen') /\ Reported(v) # None
  BY <1>1, <1>2, CacheAssumption DEF VersionRead, Reported, Versions
<1>4. WatchInv'
  BY <1>1, <1>3 DEF VersionRead, FreshInv, WatchInv, readVars
<1>5. CASE known = None
  <2>1. watched' = {}
    BY <1>1, <1>5 DEF VersionRead, FreshInv, WatchInv
  <2>2. QED
    BY <1>4, <2>1 DEF NoStaleWatchedEntry
<1>6. CASE known = Reported(v) /\ known # None
  <2>1. v % VersionMod = seen % VersionMod /\ v < seen + VersionMod
    BY <1>1, <1>6 DEF FreshInv, WatchInv, Reported, ChangesSlowly
  <2>2. v \in Nat /\ seen \in Nat /\ VersionMod \in Nat \ {0}
    BY <1>0, <1>2, CacheAssumption DEF Versions
  <2>3. v = seen
    BY <1>2, <2>1, <2>2, SameReport
  <2>4. UNCHANGED <<cache, watched>>
    BY <1>1, <1>6 DEF VersionRead
  <2>5. QED
    BY <1>1, <1>4, <2>3, <2>4 DEF FreshInv, NoStaleWatchedEntry
<1>7. CASE known \notin {None, Reported(v)}
  BY <1>1, <1>4, <1>7 DEF VersionRead, NoStaleWatchedEntry
<1>8. QED
  BY <1>5, <1>6, <1>7

LEMMA FreshStep ==
    ASSUME TypeOK, FreshInv, ChangesSlowly, [Next]_vars
    PROVE  FreshInv'
<1> USE DEF readVars, monitorVars
<1>0. OrderedInv'
  BY OrderedStep DEF FreshInv
<1>1. CASE UNCHANGED <<cache, readVars, known, seen, watched>>
  BY <1>0, <1>1 DEF FreshInv, WatchInv, NoStaleWatchedEntry
<1>2. CASE \E r \in Readers : ReaderNext(r)
  <2>1. PICK r \in Readers : ReaderNext(r)
    BY <1>2
  <2>2. CASE ReadFails(r)
    BY <1>0, <2>2 DEF ReadFails, ReadEnds, FreshInv, WatchInv, NoStaleWatchedEntry, TypeOK
  <2>3. CASE \E N \in SUBSET Names : Lookup(r, N)
    BY <1>0, <2>3, LookupFresh DEF FreshInv
  <2>4. CASE AnswerRead(r) \/ ThreadReturns(r)
    BY <1>0, <2>4, AnswerReadFresh, ThreadReturnsFresh DEF FreshInv
  <2>5. QED
    BY <2>1, <2>2, <2>3, <2>4
    DEF ReaderNext, ReadSymbolInfoByName, ReadSymbolInfosByNames
<1>3. CASE VersionAnswered
  BY <1>0, <1>3, VersionAnsweredFresh DEF FreshInv
<1>4. CASE MonitorStarts
  BY <1>0, <1>4 DEF MonitorStarts, FreshInv, WatchInv, NoStaleWatchedEntry
<1>5. CASE \/ StartCacheMonitor \/ StopCacheMonitor \/ StopReturns \/ MonitorWakes
           \/ PollFails \/ LastSleepEnds \/ PlcChanges \/ UNCHANGED vars
           \/ \E x \in Tasks : PlcAnswers(x)
  BY <1>1, <1>5
  DEF StartCacheMonitor, StopCacheMonitor, StopReturns, MonitorWakes, PollFails,
      LastSleepEnds, PlcChanges, PlcAnswers, vars
<1>6. QED
  BY <1>2, <1>3, <1>4, <1>5 DEF Next, MonitorNext, Tasks

LEMMA InitFresh == Init => FreshInv
BY CacheAssumption DEF Init, FreshInv, OrderedInv, Ordered, WatchInv, NoStaleWatchedEntry

(***************************************************************************)
(* No watched entry is older than the newest version the monitor was told  *)
(* (ads_symbol_cache.py:25), while the table changes slowly enough for a   *)
(* version of one byte.                                                    *)
(***************************************************************************)
THEOREM WatchedEntriesFresh ==
    Spec /\ [][ChangesSlowly]_vars => []NoStaleWatchedEntry
<1>1. TypeOK /\ FreshInv /\ [Next]_vars /\ [ChangesSlowly]_vars => FreshInv'
  <2>1. ASSUME TypeOK, FreshInv, UNCHANGED vars
        PROVE  FreshInv'
    BY <2>1 DEF FreshInv, OrderedInv, WatchInv, NoStaleWatchedEntry, vars, readVars, monitorVars
  <2>2. QED
    BY <2>1, FreshStep
<1>2. FreshInv => NoStaleWatchedEntry
  BY DEF FreshInv
<1>3. QED
  BY <1>1, <1>2, InitFresh, TypeCorrect, PTL DEF Spec

(***************************************************************************)
(* In particular when the table changes fewer than VersionMod times.       *)
(***************************************************************************)
THEOREM FewChangesFresh ==
    MaxChanges < VersionMod /\ Spec => []NoStaleWatchedEntry
<1>1. MaxChanges < VersionMod /\ TypeOK /\ TypeOK' => [ChangesSlowly]_vars
  BY CacheAssumption DEF TypeOK, Versions, ChangesSlowly
<1>2. MaxChanges < VersionMod => (MaxChanges < VersionMod)'
  OBVIOUS
<1>3. QED
  BY <1>1, <1>2, TypeCorrect, WatchedEntriesFresh, PTL
=============================================================================
