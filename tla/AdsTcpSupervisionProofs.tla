----------------------- MODULE AdsTcpSupervisionProofs -----------------------
(***************************************************************************)
(* Theorems about the supervision of AdsTcpTransport, for any number of    *)
(* clients that connect alone, of calls, task objects and connections:     *)
(* with disconnect() at any time, and without disconnect() during a        *)
(* reconnect.                                                              *)
(***************************************************************************)
EXTENDS AdsTcpTransportProofs, QueueFacts, FiniteSetTheorems

-----------------------------------------------------------------------------
(***************************************************************************)
(* A supervisor that runs is the one in _supervisor_task, and none runs    *)
(* while a client connects.  Of several clients that await it the first to *)
(* return resets _supervisor_task.                                         *)
(***************************************************************************)
TaskInv ==
    /\ \A s \in Sups : pc[s] # "none" => task = s
    /\ \A k \in Clients : pc[k] \in {"opening", "publish"} =>
        state # "CONNECTED" /\ \A s \in Sups : pc[s] = "none"
    /\ \A k \in Clients : pc[k] = "awaiting" =>
        awaited[k] # None /\ task \in {awaited[k], None}

(***************************************************************************)
(* The queue of the lock: who waits is in it, once, and whoever is in it   *)
(* waits.                                                                  *)
(***************************************************************************)
Waiters == {p \in Tasks : pc[p] \in {"publish", "teardown"}}
           \cup {r \in Reqs : rpc[r] = "queued"}

QueueInv ==
    /\ \A i \in DOMAIN lockq : lockq[i] \in Waiters
    /\ \A i, j \in DOMAIN lockq : lockq[i] = lockq[j] => i = j
    /\ \A x \in Waiters : \E i \in DOMAIN lockq : lockq[i] = x

(***************************************************************************)
(* Calls queue only while CONNECTED and tasks only while not, so no call   *)
(* is behind a task.                                                       *)
(***************************************************************************)
OrderInv ==
    /\ \A i, j \in DOMAIN lockq : i < j /\ lockq[i] \in Tasks => lockq[j] \in Tasks
    /\ \A i \in DOMAIN lockq : lockq[i] \in Tasks => state # "CONNECTED"

(***************************************************************************)
(* A reconnect never waits for the lock: nobody holds it or queues.  A     *)
(* disconnect() that queues has set CLOSED, so none starts behind it.      *)
(***************************************************************************)
ReopenInv ==
    /\ \A s \in Sups : pc[s] # "publish"
    /\ \A s \in Sups : pc[s] = "opening" => lockq = <<>>
    /\ \A k \in Clients : pc[k] = "teardown" => state = "CLOSED"

(***************************************************************************)
(* The stream: there while CONNECTED or while calls want the lock, and     *)
(* gone while the supervisor is between two connections.                   *)
(***************************************************************************)
Between == {"closing", "sleep", "opening"}

StreamInv ==
    /\ state = "CONNECTED" => stream # None
    /\ \A r \in Reqs : rpc[r] \in {"queued", "draining"} => stream # None
    /\ \A r \in Reqs : rpc[r] = "queued" => accepted[r] = stream
    /\ WrittenWhereAccepted
    /\ \A s \in Sups : pc[s] \in Between => state # "CONNECTED" /\ stream = None

ControlInv == TaskInv /\ QueueInv /\ OrderInv /\ ReopenInv /\ StreamInv

-----------------------------------------------------------------------------
(***************************************************************************)
(* What a step does to the queue: nobody but x leaves or joins it.         *)
(***************************************************************************)
Left(x) ==
    /\ lockq' \in Seq(Tasks \cup Reqs)
    /\ \A i \in DOMAIN lockq' : lockq'[i] # x /\ \E h \in DOMAIN lockq : lockq[h] = lockq'[i]
    /\ \A i, j \in DOMAIN lockq' : i < j =>
        \E g, h \in DOMAIN lockq : g < h /\ lockq[g] = lockq'[i] /\ lockq[h] = lockq'[j]
    /\ \A h \in DOMAIN lockq : lockq[h] # x => \E i \in DOMAIN lockq' : lockq'[i] = lockq[h]

LEMMA GrantedLeft ==
    ASSUME TypeOK, QueueInv, NEW x, Granted(x)
    PROVE  Left(x) /\ lockq[1] = x /\ 1 \in DOMAIN lockq
<1>1. /\ lockq \in Seq(Tasks \cup Reqs) /\ lockq # <<>> /\ lockq' = Tail(lockq)
      /\ Head(lockq) = x
  BY DEF Granted, TypeOK, StreamTypeOK
<1>2. /\ lockq' \in Seq(Tasks \cup Reqs)
      /\ 1 \in DOMAIN lockq /\ lockq[1] = x
      /\ DOMAIN lockq = 1..Len(lockq) /\ Len(lockq) \in Nat
      /\ DOMAIN lockq' = 1..(Len(lockq) - 1)
  BY <1>1, TailFacts, HeadTailProperties, LenProperties, EmptySeq
<1>3. \A i \in DOMAIN lockq' :
        i \in Nat /\ i + 1 \in DOMAIN lockq /\ i + 1 # 1 /\ lockq'[i] = lockq[i + 1]
  BY <1>1, TailFacts
<1>4. \A i \in DOMAIN lockq' : lockq'[i] # x /\ \E h \in DOMAIN lockq : lockq[h] = lockq'[i]
  BY <1>2, <1>3 DEF QueueInv
<1>5. ASSUME NEW i \in DOMAIN lockq', NEW j \in DOMAIN lockq', i < j
      PROVE  \E g, h \in DOMAIN lockq : g < h /\ lockq[g] = lockq'[i] /\ lockq[h] = lockq'[j]
  <2>1. i + 1 < j + 1
    BY <1>3, <1>5
  <2>2. QED
    BY <1>3, <2>1
<1>6. ASSUME NEW h \in DOMAIN lockq, lockq[h] # x
      PROVE  \E i \in DOMAIN lockq' : lockq'[i] = lockq[h]
  <2>1. h # 1
    BY <1>2, <1>6
  <2>2. h - 1 \in DOMAIN lockq' /\ (h - 1) + 1 = h
    BY <1>2, <2>1
  <2>3. QED
    BY <1>3, <2>2
<1>7. QED
  BY <1>2, <1>4, <1>5, <1>6 DEF Left

LEMMA AbsentLeft ==
    ASSUME TypeOK, NEW x, \A i \in DOMAIN lockq : lockq[i] # x, UNCHANGED lockq
    PROVE  Left(x)
<1>1. lockq' = lockq /\ lockq \in Seq(Tasks \cup Reqs)
  BY DEF TypeOK, StreamTypeOK
<1>2. QED
  BY <1>1 DEF Left

LEMMA DequeueLeft ==
    ASSUME TypeOK, QueueInv, NEW x, Dequeue(x)
    PROVE  Left(x)
<1>0. /\ lockq \in Seq(Tasks \cup Reqs) /\ lockq' \in Seq(Tasks \cup Reqs)
      /\ DOMAIN lockq = 1..Len(lockq) /\ Len(lockq) \in Nat
  BY DequeueType, LenProperties DEF TypeOK, StreamTypeOK
<1>1. CASE /\ \A i \in 1..Len(lockq) : lockq[i] # x
           /\ UNCHANGED lockq
  BY <1>0, <1>1, AbsentLeft
<1>2. ASSUME NEW n \in 1..Len(lockq), lockq[n] = x,
             lockq' = SubSeq(lockq, 1, n - 1) \o SubSeq(lockq, n + 1, Len(lockq))
      PROVE  Left(x)
  <2>1. /\ DOMAIN lockq' = 1..(Len(lockq) - 1)
        /\ \A j \in 1..(Len(lockq) - 1) :
              lockq'[j] = IF j < n THEN lockq[j] ELSE lockq[j + 1]
    BY <1>0, <1>2, CutFacts
  <2>2. \A i \in DOMAIN lockq' : i < n => i \in DOMAIN lockq /\ i # n /\ lockq'[i] = lockq[i]
    BY <1>0, <2>1
  <2>3. \A i \in DOMAIN lockq' :
            ~(i < n) => i + 1 \in DOMAIN lockq /\ i + 1 # n /\ lockq'[i] = lockq[i + 1]
    BY <1>0, <2>1
  <2>4. \A h \in DOMAIN lockq : lockq[h] = x => h = n
    BY <1>0, <1>2 DEF QueueInv
  <2>5. \A i \in DOMAIN lockq' : lockq'[i] # x /\ \E h \in DOMAIN lockq : lockq[h] = lockq'[i]
    BY <2>2, <2>3, <2>4
  <2>6. ASSUME NEW i \in DOMAIN lockq', NEW j \in DOMAIN lockq', i < j
        PROVE  \E g, h \in DOMAIN lockq : g < h /\ lockq[g] = lockq'[i] /\ lockq[h] = lockq'[j]
    <3>0. i \in Int /\ j \in Int /\ n \in Int
      BY <2>1
    <3>1. CASE j < n
      <4>1. i < n
        BY <2>6, <3>0, <3>1
      <4>2. QED
        BY <2>2, <2>6, <3>1, <4>1
    <3>2. CASE i < n /\ ~(j < n)
      <4>1. i < j + 1
        BY <2>6, <3>0
      <4>2. QED
        BY <2>2, <2>3, <3>2, <4>1
    <3>3. CASE ~(i < n) /\ ~(j < n)
      <4>1. i + 1 < j + 1
        BY <2>6, <3>0
      <4>2. QED
        BY <2>3, <3>3, <4>1
    <3>4. i < n \/ ~(j < n)
      BY <2>6, <3>0
    <3>5. QED
      BY <3>1, <3>2, <3>3, <3>4
  <2>7. ASSUME NEW h \in DOMAIN lockq, lockq[h] # x
        PROVE  \E i \in DOMAIN lockq' : lockq'[i] = lockq[h]
    <3>0. h \in Int /\ n \in Int /\ h # n
      BY <1>0, <1>2, <2>7
    <3>1. CASE h < n
      <4>1. h \in DOMAIN lockq'
        BY <1>0, <2>1, <3>1
      <4>2. QED
        BY <2>2, <3>1, <4>1
    <3>2. CASE h > n
      <4>1. h - 1 \in DOMAIN lockq' /\ ~(h - 1 < n) /\ (h - 1) + 1 = h
        BY <1>0, <2>1, <3>2
      <4>2. QED
        BY <2>3, <4>1
    <3>3. QED
      BY <3>0, <3>1, <3>2
  <2>8. QED
    BY <1>0, <2>5, <2>6, <2>7 DEF Left
<1>3. QED
  BY <1>1, <1>2 DEF Dequeue

(***************************************************************************)
(* A step of one actor, who leaves the queue or joins it, keeps it in      *)
(* order.                                                                  *)
(***************************************************************************)
OthersWait(x) == Waiters' \ {x} = Waiters \ {x}

LEMMA LeavingQueue ==
    ASSUME TypeOK, QueueInv, NEW x, Left(x), x \notin Waiters', OthersWait(x)
    PROVE  QueueInv'
<1>0. lockq \in Seq(Tasks \cup Reqs) /\ lockq' \in Seq(Tasks \cup Reqs)
  BY DEF TypeOK, StreamTypeOK, Left
<1>1. \A i \in DOMAIN lockq' : lockq'[i] \in Waiters'
  <2> SUFFICES ASSUME NEW i \in DOMAIN lockq' PROVE lockq'[i] \in Waiters'
    OBVIOUS
  <2>1. lockq'[i] # x /\ lockq'[i] \in Tasks \cup Reqs
    BY <1>0, ElementOfSeq, LenProperties DEF Left
  <2>2. PICK h \in DOMAIN lockq : lockq[h] = lockq'[i]
    BY DEF Left
  <2>3. lockq[h] \in Waiters
    BY DEF QueueInv
  <2>4. QED
    BY <2>1, <2>2, <2>3 DEF OthersWait
<1>2. ASSUME NEW i \in DOMAIN lockq', NEW j \in DOMAIN lockq', lockq'[i] = lockq'[j]
      PROVE  i = j
  <2>0. i \in Int /\ j \in Int
    BY <1>0, LenProperties
  <2>1. ~(i < j)
    <3> SUFFICES ASSUME i < j PROVE FALSE
      OBVIOUS
    <3>1. PICK g, h \in DOMAIN lockq : g < h /\ lockq[g] = lockq'[i] /\ lockq[h] = lockq'[j]
      BY DEF Left
    <3>2. g = h /\ g \in Int
      BY <1>0, <1>2, <3>1, LenProperties DEF QueueInv
    <3>3. QED
      BY <3>1, <3>2
  <2>2. ~(j < i)
    <3> SUFFICES ASSUME j < i PROVE FALSE
      OBVIOUS
    <3>1. PICK g, h \in DOMAIN lockq : g < h /\ lockq[g] = lockq'[j] /\ lockq[h] = lockq'[i]
      BY DEF Left
    <3>2. g = h /\ g \in Int
      BY <1>0, <1>2, <3>1, LenProperties DEF QueueInv
    <3>3. QED
      BY <3>1, <3>2
  <2>3. QED
    BY <2>0, <2>1, <2>2
<1>3. ASSUME NEW y \in Waiters'
      PROVE  \E i \in DOMAIN lockq' : lockq'[i] = y
  <2>1. y # x /\ y \in Waiters
    BY <1>3 DEF OthersWait
  <2>2. PICK h \in DOMAIN lockq : lockq[h] = y
    BY <2>1 DEF QueueInv
  <2>3. QED
    BY <2>1, <2>2 DEF Left
<1>4. QED
  BY <1>1, <1>2, <1>3 DEF QueueInv

LEMMA JoinFacts ==
    ASSUME TypeOK, NEW x \in Tasks \cup Reqs, Enqueue(x)
    PROVE  /\ DOMAIN lockq \subseteq Nat /\ Len(lockq) + 1 \in Nat
           /\ DOMAIN lockq' = DOMAIN lockq \cup {Len(lockq) + 1}
           /\ \A i \in DOMAIN lockq : lockq'[i] = lockq[i] /\ i < Len(lockq) + 1
           /\ lockq'[Len(lockq) + 1] = x
<1>1. lockq \in Seq(Tasks \cup Reqs)
  BY DEF TypeOK, StreamTypeOK
<1>2. QED
  BY <1>1, AppendFacts, LenProperties DEF Enqueue

LEMMA JoiningQueue ==
    ASSUME TypeOK, QueueInv, NEW x \in Tasks \cup Reqs, Enqueue(x),
           x \notin Waiters, x \in Waiters', OthersWait(x)
    PROVE  QueueInv'
<1> DEFINE n == Len(lockq) + 1
<1>0. /\ n \in Nat /\ DOMAIN lockq' = DOMAIN lockq \cup {n}
      /\ \A i \in DOMAIN lockq : lockq'[i] = lockq[i] /\ i < n /\ i \in Nat
      /\ lockq'[n] = x
  BY JoinFacts
<1>1. \A i \in DOMAIN lockq : lockq[i] # x
  BY DEF QueueInv
<1>q. \A i \in DOMAIN lockq : lockq[i] \in Waiters
  BY DEF QueueInv
<1>u. \A i, j \in DOMAIN lockq : lockq[i] = lockq[j] => i = j
  BY DEF QueueInv
<1>f. \A y \in Waiters : \E i \in DOMAIN lockq : lockq[i] = y
  BY DEF QueueInv
<1> HIDE DEF n
<1>2. \A i \in DOMAIN lockq' : lockq'[i] \in Waiters'
  <2> SUFFICES ASSUME NEW i \in DOMAIN lockq' PROVE lockq'[i] \in Waiters'
    OBVIOUS
  <2>1. CASE i \in DOMAIN lockq
    BY <1>0, <1>1, <1>q, <2>1 DEF OthersWait
  <2>2. CASE i = n
    BY <1>0, <2>2
  <2>3. QED
    BY <1>0, <2>1, <2>2
<1>3. \A i, j \in DOMAIN lockq' : lockq'[i] = lockq'[j] => i = j
  BY <1>0, <1>1, <1>u
<1>4. \A y \in Waiters' : \E i \in DOMAIN lockq' : lockq'[i] = y
  <2> SUFFICES ASSUME NEW y \in Waiters'
               PROVE  \E i \in DOMAIN lockq' : lockq'[i] = y
    OBVIOUS
  <2>1. CASE y = x
    BY <1>0, <2>1
  <2>2. CASE y # x
    <3>1. PICK i \in DOMAIN lockq : lockq[i] = y
      BY <1>f, <2>2 DEF OthersWait
    <3>2. QED
      BY <1>0, <3>1
  <2>3. QED
    BY <2>1, <2>2
<1>5. QED
  BY <1>2, <1>3, <1>4 DEF QueueInv
LEMMA LeavingOrder ==
    ASSUME OrderInv, NEW x, Left(x),
           state' = "CONNECTED" => state = "CONNECTED" \/ DOMAIN lockq' = {}
    PROVE  OrderInv'
<1>1. ASSUME NEW i \in DOMAIN lockq', NEW j \in DOMAIN lockq', i < j, lockq'[i] \in Tasks
      PROVE  lockq'[j] \in Tasks
  <2>1. PICK g, h \in DOMAIN lockq : g < h /\ lockq[g] = lockq'[i] /\ lockq[h] = lockq'[j]
    BY <1>1 DEF Left
  <2>2. QED
    BY <1>1, <2>1 DEF OrderInv
<1>2. ASSUME NEW i \in DOMAIN lockq', lockq'[i] \in Tasks
      PROVE  state' # "CONNECTED"
  <2>1. PICK h \in DOMAIN lockq : lockq[h] = lockq'[i]
    BY DEF Left
  <2>2. QED
    BY <1>2, <2>1 DEF OrderInv
<1>3. QED
  BY <1>1, <1>2 DEF OrderInv, Tasks

LEMMA JoiningOrder ==
    ASSUME TypeOK, OrderInv, NEW x \in Tasks \cup Reqs, Enqueue(x),
           \/ x \in Tasks /\ state' # "CONNECTED"
           \/ x \in Reqs /\ state = "CONNECTED" /\ UNCHANGED state
    PROVE  OrderInv'
<1> DEFINE n == Len(lockq) + 1
<1>0. /\ n \in Nat /\ DOMAIN lockq' = DOMAIN lockq \cup {n}
      /\ \A i \in DOMAIN lockq : lockq'[i] = lockq[i] /\ i < n /\ i \in Nat
      /\ lockq'[n] = x
  BY JoinFacts
<1> HIDE DEF n
<1>1. CASE x \in Tasks /\ state' # "CONNECTED"
  <2>1. \A i, j \in DOMAIN lockq' : i < j /\ lockq'[i] \in Tasks => lockq'[j] \in Tasks
    BY <1>0, <1>1 DEF OrderInv
  <2>2. QED
    BY <1>1, <2>1 DEF OrderInv, Tasks
<1>2. CASE x \in Reqs /\ state = "CONNECTED" /\ UNCHANGED state
  <2>1. \A i \in DOMAIN lockq' : lockq'[i] \notin Tasks
    BY <1>0, <1>2, TcpAssumption DEF OrderInv, Tasks
  <2>2. QED
    BY <2>1 DEF OrderInv, Tasks
<1>3. QED
  BY <1>1, <1>2

(***************************************************************************)
(* Whoever gets the lock as a task finds no call that wants it.            *)
(***************************************************************************)
NoCallWaits == \A r \in Reqs : rpc[r] \notin {"queued", "draining"}

LEMMA TaskHasLock ==
    ASSUME TypeOK, QueueInv, OrderInv, NEW p \in Tasks, LockFree \/ Granted(p)
    PROVE  NoCallWaits
<1>0. ~Locked
  BY DEF LockFree, Granted
<1>1. SUFFICES ASSUME NEW r \in Reqs, rpc[r] = "queued" PROVE FALSE
  BY <1>0 DEF NoCallWaits, Locked
<1>2. PICK i \in DOMAIN lockq : lockq[i] = r
  BY <1>1 DEF QueueInv, Waiters
<1>3. lockq # <<>> /\ lockq \in Seq(Tasks \cup Reqs)
  BY <1>2, LenProperties DEF TypeOK, StreamTypeOK
<1>4. Granted(p)
  BY <1>3 DEF LockFree
<1>5. lockq[1] = p /\ 1 \in DOMAIN lockq
  BY <1>4, GrantedLeft
<1>6. r \notin Tasks
  BY TcpAssumption DEF Tasks
<1>7. i # 1 /\ i \in 1..Len(lockq) /\ Len(lockq) \in Nat
  BY <1>2, <1>3, <1>5, <1>6, LenProperties
<1>8. 1 < i
  BY <1>7
<1>9. QED
  BY <1>2, <1>5, <1>6, <1>8 DEF OrderInv

-----------------------------------------------------------------------------
(***************************************************************************)
(* ControlInv is kept by a step of a supervisor, of a client and of a      *)
(* call: the conditions are what the steps below have in common.           *)
(***************************************************************************)
LEMMA EmptyNoWaiters ==
    ASSUME QueueInv, lockq = <<>>
    PROVE  Waiters = {}
BY DEF QueueInv

LEMMA NobodyQueues ==
    ASSUME NEW Q \in Seq(Tasks \cup Reqs), \A i \in DOMAIN Q : FALSE
    PROVE  Q = <<>>
BY TailFacts

LEMMA SupMoves ==
    ASSUME TypeOK, ControlInv, NEW s \in Sups, pc[s] # "none",
           NEW v, pc' = [pc EXCEPT ![s] = v],
           UNCHANGED <<task, awaited, rpcVars>>,
           \/ Left(s) /\ v \notin {"publish", "teardown"}
           \/ /\ Enqueue(s) /\ s \notin Waiters /\ v = "teardown"
              /\ state' # "CONNECTED",
           v = "opening" => lockq' = <<>>,
           state = "CLOSED" => state' = "CLOSED" \/ lockq = <<>>,
           state' = "CONNECTED" =>
                (state = "CONNECTED" \/ DOMAIN lockq' = {}) /\ stream' # None,
           stream' = stream \/ NoCallWaits,
           v \in Between => state' # "CONNECTED" /\ stream' = None
    PROVE  ControlInv'
<1>0. /\ pc \in [Tasks -> ClientPCs \cup SupPCs]
      /\ s \in Tasks /\ s \notin Clients /\ s \notin Reqs
      /\ pc'[s] = v
      /\ \A p \in Tasks : p # s => pc'[p] = pc[p]
      /\ \A k \in Clients : k \in Tasks /\ k # s /\ pc'[k] = pc[k]
      /\ \A t \in Sups : t \in Tasks
      /\ rpc' = rpc /\ accepted' = accepted /\ wrote' = wrote
  BY TcpAssumption DEF TypeOK, TaskTypeOK, Tasks, rpcVars
<1>1. \A t \in Sups : t # s => pc[t] = "none" /\ pc'[t] = "none"
  BY <1>0 DEF ControlInv, TaskInv
<1>2. TaskInv'
  BY <1>0, <1>1 DEF ControlInv, TaskInv
<1>3. OthersWait(s) /\ (s \in Waiters' <=> v \in {"publish", "teardown"})
  BY <1>0 DEF OthersWait, Waiters
<1>4. QueueInv'
  BY <1>0, <1>3, LeavingQueue, JoiningQueue DEF ControlInv
<1>5. OrderInv'
  BY <1>0, LeavingOrder, JoiningOrder DEF ControlInv
<1>6. ReopenInv'
  <2>1. \A k \in Clients : pc'[k] = "teardown" => state' = "CLOSED"
    <3> SUFFICES ASSUME NEW k \in Clients, pc[k] = "teardown" PROVE state' = "CLOSED"
      BY <1>0
    <3>1. state = "CLOSED" /\ k \in Waiters
      BY <1>0 DEF ControlInv, ReopenInv, Waiters
    <3>2. lockq # <<>>
      BY <3>1, EmptyNoWaiters DEF ControlInv
    <3>3. QED
      BY <3>1, <3>2
  <2>2. \A t \in Sups : pc'[t] # "publish"
    BY <1>0, <1>1
  <2>3. \A t \in Sups : pc'[t] = "opening" => lockq' = <<>>
    BY <1>0, <1>1
  <2>4. QED
    BY <2>1, <2>2, <2>3 DEF ReopenInv
<1>7. StreamInv'
  <2>1. \A r \in Reqs : rpc[r] \in {"queued", "draining"} => stream' # None
    BY DEF ControlInv, StreamInv, NoCallWaits
  <2>2. \A r \in Reqs : rpc[r] = "queued" => accepted[r] = stream'
    BY DEF ControlInv, StreamInv, NoCallWaits
  <2>3. WrittenWhereAccepted'
    BY <1>0 DEF ControlInv, StreamInv, WrittenWhereAccepted
  <2>4. \A t \in Sups : pc'[t] \in Between => state' # "CONNECTED" /\ stream' = None
    BY <1>0, <1>1 DEF Between
  <2>5. QED
    BY <1>0, <2>1, <2>2, <2>3, <2>4 DEF StreamInv
<1>8. QED
  BY <1>2, <1>4, <1>5, <1>6, <1>7 DEF ControlInv

LEMMA LeftEmpty ==
    ASSUME NEW x, Left(x), lockq = <<>>
    PROVE  lockq' = <<>>
<1>1. lockq' \in Seq(Tasks \cup Reqs) /\ \A i \in DOMAIN lockq' : FALSE
  BY DEF Left
<1>2. QED
  BY <1>1, NobodyQueues

LEMMA ClientMoves ==
    ASSUME TypeOK, ControlInv, NEW k \in Clients,
           NEW v, pc' = [pc EXCEPT ![k] = v], TaskInv',
           UNCHANGED rpcVars,
           \/ Left(k) /\ v \notin {"publish", "teardown"}
           \/ /\ Enqueue(k) /\ k \notin Waiters /\ v \in {"publish", "teardown"}
              /\ state' # "CONNECTED"
              /\ \A s \in Sups : pc[s] # "opening",
           v = "teardown" => state' = "CLOSED",
           state' \in {state, "CLOSED"} \/ \A l \in Clients : pc[l] # "teardown",
           state' = "CONNECTED" => state = "CONNECTED" /\ stream' = stream,
           stream' = stream \/ (stream' = None /\ NoCallWaits)
    PROVE  ControlInv'
<1>0. /\ pc \in [Tasks -> ClientPCs \cup SupPCs]
      /\ k \in Tasks /\ k \notin Sups /\ k \notin Reqs
      /\ pc'[k] = v
      /\ \A p \in Tasks : p # k => pc'[p] = pc[p]
      /\ \A s \in Sups : s \in Tasks /\ s # k /\ pc'[s] = pc[s]
      /\ \A l \in Clients : l # k => pc'[l] = pc[l]
      /\ rpc' = rpc /\ accepted' = accepted /\ wrote' = wrote
  BY TcpAssumption DEF TypeOK, TaskTypeOK, Tasks, rpcVars
<1>3. OthersWait(k) /\ (k \in Waiters' <=> v \in {"publish", "teardown"})
  BY <1>0 DEF OthersWait, Waiters
<1>4. QueueInv'
  BY <1>0, <1>3, LeavingQueue, JoiningQueue DEF ControlInv
<1>5. OrderInv'
  BY <1>0, LeavingOrder, JoiningOrder DEF ControlInv
<1>6. ReopenInv'
  <2>1. \A l \in Clients : pc'[l] = "teardown" => state' = "CLOSED"
    BY <1>0 DEF ControlInv, ReopenInv
  <2>2. ASSUME NEW s \in Sups, pc[s] = "opening"
        PROVE  lockq' = <<>>
    <3>1. Left(k) /\ lockq = <<>>
      BY <2>2 DEF ControlInv, ReopenInv
    <3>2. QED
      BY <3>1, LeftEmpty
  <2>3. QED
    BY <1>0, <2>1, <2>2 DEF ControlInv, ReopenInv
<1>7. StreamInv'
  <2>1. \A r \in Reqs : rpc[r] \in {"queued", "draining"} => stream' # None
    BY DEF ControlInv, StreamInv, NoCallWaits
  <2>2. \A r \in Reqs : rpc[r] = "queued" => accepted[r] = stream'
    BY DEF ControlInv, StreamInv, NoCallWaits
  <2>3. WrittenWhereAccepted'
    BY <1>0 DEF ControlInv, StreamInv, WrittenWhereAccepted
  <2>4. \A s \in Sups : pc'[s] \in Between => state' # "CONNECTED" /\ stream' = None
    BY <1>0 DEF ControlInv, StreamInv
  <2>5. state' = "CONNECTED" => stream' # None
    BY DEF ControlInv, StreamInv
  <2>6. QED
    BY <1>0, <2>1, <2>2, <2>3, <2>4, <2>5 DEF StreamInv
<1>8. QED
  BY <1>4, <1>5, <1>6, <1>7 DEF ControlInv

LEMMA CallMoves ==
    ASSUME TypeOK, ControlInv, NEW r \in Reqs,
           NEW v, rpc' = [rpc EXCEPT ![r] = v],
           UNCHANGED ctlVars,
           \/ Left(r) /\ v # "queued"
           \/ /\ Enqueue(r) /\ rpc[r] # "queued" /\ v = "queued"
              /\ state = "CONNECTED"
              /\ accepted'[r] = stream,
           v \in {"queued", "draining"} => stream # None,
           v \in {"draining", "waiting"} => wrote'[r] = accepted'[r],
           \A q \in Reqs \ {r} : accepted'[q] = accepted[q] /\ wrote'[q] = wrote[q]
    PROVE  ControlInv'
<1>0. /\ rpc'[r] = v
      /\ \A q \in Reqs : q # r => rpc'[q] = rpc[q]
      /\ r \notin Tasks
      /\ \A k \in Clients : k # r
      /\ \A s \in Sups : s # r
      /\ UNCHANGED <<state, stream, task, pc, awaited>>
  BY TcpAssumption DEF TypeOK, CallTypeOK, Tasks, ctlVars
<1>2. TaskInv'
  BY <1>0 DEF ControlInv, TaskInv
<1>3. OthersWait(r) /\ (r \in Waiters' <=> v = "queued") /\ (r \in Waiters <=> rpc[r] = "queued")
  BY <1>0 DEF OthersWait, Waiters
<1>4. QueueInv'
  BY <1>0, <1>3, LeavingQueue, JoiningQueue DEF ControlInv
<1>5. OrderInv'
  BY <1>0, LeavingOrder, JoiningOrder DEF ControlInv
<1>6. ReopenInv'
  <2>1. ASSUME NEW s \in Sups, pc[s] = "opening"
        PROVE  lockq' = <<>>
    <3>1. state # "CONNECTED" /\ lockq = <<>>
      BY <2>1 DEF ControlInv, ReopenInv, StreamInv, Between
    <3>2. Left(r)
      BY <3>1
    <3>3. QED
      BY <3>1, <3>2, LeftEmpty
  <2>2. QED
    BY <1>0, <2>1 DEF ControlInv, ReopenInv
<1>7. StreamInv'
  <2>1. \A q \in Reqs : rpc'[q] \in {"queued", "draining"} => stream # None
    BY <1>0 DEF ControlInv, StreamInv
  <2>2. \A q \in Reqs : rpc'[q] = "queued" => accepted'[q] = stream
    BY <1>0 DEF ControlInv, StreamInv
  <2>3. WrittenWhereAccepted'
    BY <1>0 DEF ControlInv, StreamInv, WrittenWhereAccepted
  <2>4. QED
    BY <1>0, <2>1, <2>2, <2>3 DEF ControlInv, StreamInv
<1>8. QED
  BY <1>2, <1>4, <1>5, <1>6, <1>7 DEF ControlInv

-----------------------------------------------------------------------------
(***************************************************************************)
(* The steps of a supervisor.                                              *)
(***************************************************************************)
LEMMA NotWaitingLeft ==
    ASSUME TypeOK, QueueInv, NEW x, x \notin Waiters, UNCHANGED lockq
    PROVE  Left(x)
BY AbsentLeft DEF QueueInv

LEMMA SupTakes ==
    ASSUME NEW s \in Sups, AfterTeardown(s) \/ TakeStream(s)
    PROVE  /\ UNCHANGED <<task, awaited>>
           /\ \E v \in {"closing", "sleep", "none", "opening"} :
                pc' = [pc EXCEPT ![s] = v] /\ (v = "opening" => state' # "CLOSED")
BY TcpAssumption DEF AfterTeardown, TakeStream

\* While a supervisor runs and no call waits, only disconnect() can queue.
LEMMA NobodyBehind ==
    ASSUME TypeOK, ControlInv, NoCallWaits, NEW s \in Sups, pc[s] # "none",
           Left(s), state # "CLOSED"
    PROVE  lockq' = <<>>
<1> USE DEF ControlInv
<1>1. SUFFICES ASSUME NEW i \in DOMAIN lockq' PROVE FALSE
  BY NobodyQueues DEF Left
<1>2. PICK h \in DOMAIN lockq : lockq[h] = lockq'[i] /\ lockq[h] # s
  BY DEF Left
<1>3. lockq[h] \in Waiters
  BY DEF QueueInv
<1>4. lockq[h] \in Tasks /\ pc[lockq[h]] \in {"publish", "teardown"}
  BY <1>3 DEF NoCallWaits, Waiters
<1>5. CASE lockq[h] \in Sups
  BY <1>2, <1>4, <1>5 DEF TaskInv
<1>6. CASE lockq[h] \in Clients
  BY <1>4, <1>6 DEF TaskInv, ReopenInv
<1>7. QED
  BY <1>4, <1>5, <1>6 DEF Tasks

LEMMA SupTeardown ==
    ASSUME TypeOK, ControlInv, NEW s \in Sups, pc[s] \in {"start", "read", "callback"},
           state # "CLOSED", state' # "CONNECTED", TeardownStream(s), UNCHANGED rpcVars
    PROVE  ControlInv'
<1>0. s \notin Waiters /\ s \in Tasks
  BY TcpAssumption DEF Waiters, Tasks
<1>1. CASE LockFree /\ TakeStream(s) /\ UNCHANGED lockq
  <2>1. PICK v \in {"closing", "sleep", "none", "opening"} : pc' = [pc EXCEPT ![s] = v]
    BY <1>1, SupTakes
  <2>2. Left(s) /\ NoCallWaits
    BY <1>0, <1>1, NotWaitingLeft, TaskHasLock DEF ControlInv
  <2>3. stream' = None /\ lockq' = <<>> /\ UNCHANGED <<task, awaited>>
    BY <1>1, SupTakes DEF TakeStream, LockFree
  <2>4. QED
    BY <2>1, <2>2, <2>3, SupMoves
<1>2. CASE /\ Enqueue(s)
           /\ pc' = [pc EXCEPT ![s] = "teardown"]
           /\ UNCHANGED <<stream, link, task, awaited>>
  BY <1>0, <1>2, SupMoves DEF Between
<1>3. QED
  BY <1>1, <1>2 DEF TeardownStream

LEMMA SupLost ==
    ASSUME TypeOK, ControlInv, NEW s \in Sups, pc[s] \in {"start", "read", "callback"},
           ConnectionLost(s)
    PROVE  ControlInv'
<1>0. s \notin Waiters
  BY TcpAssumption DEF Waiters, Tasks
<1>1. CASE state = "CLOSED"
  <2>1. /\ pc' = [pc EXCEPT ![s] = "none"]
        /\ UNCHANGED <<state, stream, task, awaited, lockq, rpcVars>>
    BY <1>1 DEF ConnectionLost
  <2>2. Left(s)
    BY <1>0, <2>1, NotWaitingLeft DEF ControlInv
  <2>3. QED
    BY <1>1, <2>1, <2>2, SupMoves DEF Between
<1>2. CASE state # "CLOSED"
  BY <1>2, SupTeardown DEF ConnectionLost
<1>3. QED
  BY <1>1, <1>2

\* The steps that move the supervisor and nothing else.
LEMMA SupWalks ==
    ASSUME TypeOK, ControlInv, NEW s \in Sups, pc[s] \notin {"none", "publish", "teardown"},
           NEW v, pc' = [pc EXCEPT ![s] = v],
           v \notin {"publish", "teardown"},
           v = "opening" => state # "CLOSED",
           v \in Between => pc[s] \in Between,
           UNCHANGED <<state, stream, task, awaited, lockq, rpcVars>>
    PROVE  ControlInv'
<1>1. Left(s)
  <2>1. s \notin Waiters
    BY TcpAssumption DEF Waiters, Tasks
  <2>2. QED
    BY <2>1, NotWaitingLeft DEF ControlInv
<1>2. v \in Between => state' # "CONNECTED" /\ stream' = None
  BY DEF ControlInv, StreamInv
<1>3. state' = "CONNECTED" => stream' # None
  BY DEF ControlInv, StreamInv
<1>4. v = "opening" => lockq' = <<>>
  <2>1. v = "opening" => NoCallWaits
    BY DEF ControlInv, StreamInv, Between, NoCallWaits
  <2>2. QED
    BY <1>1, <2>1, NobodyBehind
<1>5. QED
  BY <1>1, <1>2, <1>3, <1>4, SupMoves

LEMMA SupControl ==
    ASSUME TypeOK, ControlInv, NEW s \in Sups, SupNext(s)
    PROVE  ControlInv'
<1> USE DEF Between, ctlVars
<1>1. CASE SuperviseStarts(s)
  BY <1>1, SupLost, SupWalks DEF SuperviseStarts
<1>2. CASE SleepEnds(s)
  <2>1. pc[s] = "sleep" /\ UNCHANGED <<state, stream, task, awaited, lockq, rpcVars>>
    BY <1>2 DEF SleepEnds
  <2>2. PICK v \in {"none", "opening"} :
            pc' = [pc EXCEPT ![s] = v] /\ (v = "opening" => state # "CLOSED")
    BY <1>2 DEF SleepEnds
  <2>3. /\ pc[s] \in Between /\ pc[s] \notin {"none", "publish", "teardown"}
        /\ v \notin {"publish", "teardown"}
    BY <2>1, <2>2
  <2>4. QED
    BY <2>1, <2>2, <2>3, SupWalks, ZenonT(60)
<1>3. CASE \E m \in Reqs : ReadResponse(s, m)
  BY <1>3 DEF ReadResponse, rpcVars, ControlInv, TaskInv, QueueInv, Waiters, OrderInv,
              ReopenInv, StreamInv, WrittenWhereAccepted
<1>4. CASE ReadNotification(s)
  BY <1>4, SupWalks, ZenonT(60) DEF ReadNotification
<1>5. CASE CallbackReturns(s)
  BY <1>5, SupLost, SupWalks DEF CallbackReturns
<1>6. CASE ReadFails(s) \/ FrameRejected(s) \/ CallbackRaises(s)
  BY <1>6, SupLost DEF ReadFails, FrameRejected, CallbackRaises
<1>7. QED
  BY <1>1, <1>2, <1>3, <1>4, <1>5, <1>6 DEF SupNext

(***************************************************************************)
(* A client that waits to publish its stream is last in the queue.         *)
(***************************************************************************)
LEMMA PublishesLast ==
    ASSUME TypeOK, ConnectsAlone, ControlInv, NEW k \in Clients, pc[k] = "publish", Granted(k)
    PROVE  DOMAIN lockq' = {}
<1> USE DEF ControlInv
<1>1. Left(k) /\ lockq[1] = k /\ 1 \in DOMAIN lockq
  BY GrantedLeft
<1>2. SUFFICES ASSUME NEW i \in DOMAIN lockq' PROVE FALSE
  OBVIOUS
<1>3. PICK h \in DOMAIN lockq : lockq[h] = lockq'[i] /\ lockq[h] # k
  BY <1>1 DEF Left
<1>4. h # 1 /\ h \in 1..Len(lockq) /\ Len(lockq) \in Nat
  BY <1>1, <1>3, LenProperties DEF TypeOK, StreamTypeOK
<1>5. 1 < h
  BY <1>4
<1>6. lockq[h] \in Tasks /\ pc[lockq[h]] \in {"publish", "teardown"}
  BY <1>1, <1>5, TcpAssumption DEF OrderInv, QueueInv, Waiters, Tasks
<1>7. QED
  BY <1>3, <1>6 DEF TaskInv, ConnectsAlone, Tasks

(***************************************************************************)
(* A supervisor that reconnects finds the lock free.                       *)
(***************************************************************************)
LEMMA ReopensFree ==
    ASSUME ControlInv, NEW s \in Sups, pc[s] = "opening"
    PROVE  LockFree /\ stream = None /\ state # "CONNECTED"
BY DEF ControlInv, ReopenInv, StreamInv, Between, LockFree, Locked

LEMMA SupStream ==
    ASSUME TypeOK, ControlInv, NEW s \in Sups, StreamNext(s)
    PROVE  ControlInv'
<1>0. s \in Tasks /\ s \notin Clients /\ (s \in Waiters <=> pc[s] = "teardown")
  BY TcpAssumption DEF Waiters, Tasks, ControlInv, ReopenInv
<1>1. ASSUME NEW c \in Conns, OpenSucceeds(s, c)
      PROVE  ControlInv'
  <2>0. pc[s] = "opening" /\ UNCHANGED rpcVars
    BY <1>1 DEF OpenSucceeds
  <2>1. LockFree /\ Publish(s, c) /\ UNCHANGED lockq
    BY <1>1, <2>0, ReopensFree DEF OpenSucceeds
  <2>2. /\ stream' # None /\ state' = "CONNECTED"
        /\ UNCHANGED <<task, awaited>> /\ pc' = [pc EXCEPT ![s] = "read"]
    BY <1>0, <2>1, TcpAssumption DEF Publish
  <2>3. Left(s) /\ NoCallWaits
    BY <1>0, <2>0, <2>1, NotWaitingLeft, TaskHasLock DEF ControlInv
  <2>4. lockq = <<>> /\ DOMAIN lockq' = {}
    BY <2>1 DEF LockFree
  <2>5. pc[s] # "none" /\ UNCHANGED rpcVars
    BY <2>0
  <2>6. QED
    BY <2>2, <2>3, <2>4, <2>5, SupMoves DEF Between
<1>2. CASE PublishGranted(s)
  BY <1>2 DEF PublishGranted, ControlInv, ReopenInv
<1>3. CASE OpenFails(s)
  BY <1>3, SupWalks DEF OpenFails, Between
<1>4. CASE TeardownGranted(s)
  <2>1. /\ pc[s] = "teardown" /\ Granted(s) /\ TakeStream(s)
        /\ UNCHANGED <<state, rpcVars>>
    BY <1>4 DEF TeardownGranted
  <2>2. Left(s) /\ NoCallWaits /\ state # "CONNECTED"
    BY <1>0, <2>1, GrantedLeft, TaskHasLock DEF ControlInv, OrderInv
  <2>3. PICK v \in {"closing", "sleep", "none", "opening"} :
            pc' = [pc EXCEPT ![s] = v] /\ (v = "opening" => state' # "CLOSED")
    BY <2>1, SupTakes
  <2>4. stream' = None /\ UNCHANGED <<task, awaited>>
    BY <2>1, SupTakes DEF TakeStream
  <2>5. v = "opening" => lockq' = <<>>
    BY <2>1, <2>2, <2>3, NobodyBehind
  <2>6. QED
    BY <2>1, <2>2, <2>3, <2>4, <2>5, SupMoves
<1>5. CASE WaitClosed(s)
  <2>1. /\ pc[s] = "closing"
        /\ UNCHANGED <<state, stream, task, awaited, lockq, rpcVars>>
    BY <1>5, SupTakes DEF WaitClosed
  <2>2. PICK v \in {"closing", "sleep", "none", "opening"} :
            pc' = [pc EXCEPT ![s] = v] /\ (v = "opening" => state' # "CLOSED")
    BY <1>5, SupTakes DEF WaitClosed
  <2>3. QED
    BY <2>1, <2>2, SupWalks DEF Between
<1>6. QED
  BY <1>1, <1>2, <1>3, <1>4, <1>5 DEF StreamNext

-----------------------------------------------------------------------------
(***************************************************************************)
(* The steps of the client.                                                *)
(***************************************************************************)
NoSupRuns == \A s \in Sups : pc[s] = "none"

LEMMA ClientTask ==
    ASSUME TypeOK, TaskInv, NEW k \in Clients,
           NEW v, pc' = [pc EXCEPT ![k] = v],
           \A l \in Clients \ {k} : awaited'[l] = awaited[l],
           state' = "CONNECTED" => state = "CONNECTED",
           v \in {"opening", "publish"} => state' # "CONNECTED" /\ NoSupRuns,
           v = "awaiting" => awaited'[k] = task /\ task # None,
           task' = task \/ (task' = None /\ NoSupRuns)
    PROVE  TaskInv'
<1>1. /\ pc'[k] = v
      /\ \A s \in Sups : pc'[s] = pc[s]
      /\ \A l \in Clients \ {k} : pc'[l] = pc[l] /\ awaited'[l] = awaited[l]
  BY TcpAssumption DEF TypeOK, TaskTypeOK, Tasks
<1>2. \A s \in Sups : pc'[s] # "none" => task' = s
  BY <1>1 DEF TaskInv, NoSupRuns
<1>3. ASSUME NEW l \in Clients, pc'[l] \in {"opening", "publish"}
      PROVE  state' # "CONNECTED" /\ \A s \in Sups : pc'[s] = "none"
  BY <1>1, <1>3 DEF TaskInv, NoSupRuns
<1>4. ASSUME NEW l \in Clients, pc'[l] = "awaiting"
      PROVE  awaited'[l] # None /\ task' \in {awaited'[l], None}
  BY <1>1, <1>4 DEF TaskInv
<1>5. QED
  BY <1>2, <1>3, <1>4 DEF TaskInv

LEMMA SupervisorIdle ==
    ASSUME TypeOK, TaskInv, ~SupervisorRuns
    PROVE  NoSupRuns
BY TcpAssumption DEF TaskInv, SupervisorRuns, NoSupRuns

LEMMA ClientTakes ==
    ASSUME TypeOK, TaskInv, NEW k \in Clients, AfterTeardown(k) \/ TakeStream(k),
           state' = "CONNECTED" => state = "CONNECTED"
    PROVE  /\ TaskInv'
           /\ \E v \in {"closing", "none", "awaiting"} :
                /\ pc' = [pc EXCEPT ![k] = v]
                /\ v = "none" => NoSupRuns
<1>0. k \in Tasks /\ k \notin Sups /\ awaited \in [Clients -> Sups \cup {None}]
  BY TcpAssumption DEF Tasks, TypeOK, TaskTypeOK
<1>1. CASE AfterTeardown(k)
  <2>1. CASE SupervisorRuns
    <3>1. /\ pc' = [pc EXCEPT ![k] = "awaiting"] /\ awaited'[k] = task
          /\ \A l \in Clients \ {k} : awaited'[l] = awaited[l]
          /\ task # None /\ task' = task
      BY <1>0, <1>1, <2>1 DEF AfterTeardown, SupervisorRuns
    <3>2. QED
      BY <3>1, ClientTask
  <2>2. CASE ~SupervisorRuns
    <3>1. /\ pc' = [pc EXCEPT ![k] = "none"] /\ NoSupRuns /\ UNCHANGED awaited
          /\ task' \in {task, None}
      BY <1>0, <1>1, <2>2, SupervisorIdle DEF AfterTeardown, ForgetSupervisor
    <3>2. QED
      BY <3>1, ClientTask
  <2>3. QED
    BY <2>1, <2>2
<1>2. CASE pc' = [pc EXCEPT ![k] = "closing"] /\ UNCHANGED <<task, awaited>>
  BY <1>2, ClientTask
<1>3. QED
  BY <1>1, <1>2 DEF TakeStream

\* Nobody else is inside connect() or disconnect() when a client connects.
LEMMA OthersIdle ==
    ASSUME TypeOK, NEW k \in Clients,
           \/ ConnectsAlone /\ pc[k] \in {"opening", "publish"}
           \/ ConnectsAlone' /\ pc' = [pc EXCEPT ![k] = "opening"]
    PROVE  \A l \in Clients \ {k} : pc[l] = "none"
<1>1. CASE ConnectsAlone /\ pc[k] \in {"opening", "publish"}
  BY <1>1 DEF ConnectsAlone
<1>2. CASE ConnectsAlone' /\ pc' = [pc EXCEPT ![k] = "opening"]
  <2>1. pc'[k] = "opening" /\ \A l \in Clients \ {k} : pc'[l] = pc[l]
    BY <1>2 DEF TypeOK, TaskTypeOK, Tasks
  <2>2. QED
    BY <1>2, <2>1 DEF ConnectsAlone
<1>3. QED
  BY <1>1, <1>2

LEMMA ClientControl ==
    ASSUME TypeOK, ConnectsAlone, ConnectsAlone', ControlInv, NEW k \in Clients, ClientNext(k)
    PROVE  ControlInv'
<1> USE DEF ControlInv
<1>0. k \in Tasks /\ k \notin Sups /\ (k \in Waiters <=> pc[k] \in {"publish", "teardown"})
  BY TcpAssumption DEF Waiters, Tasks
<1>1. CASE Connect(k)
  <2>1. /\ pc[k] = "none" /\ state' = "CONNECTING" /\ pc' = [pc EXCEPT ![k] = "opening"]
        /\ UNCHANGED <<stream, task, awaited, lockq, rpcVars>> /\ NoSupRuns
    BY <1>1, SupervisorIdle DEF Connect
  <2>2. TaskInv' /\ Left(k)
    BY <1>0, <2>1, ClientTask, NotWaitingLeft
  <2>3. \A l \in Clients : pc[l] # "teardown"
    BY <2>1, OthersIdle
  <2>4. QED
    BY <2>1, <2>2, <2>3, ClientMoves
<1>2. CASE ConnectCancelled(k)
  <2>1. /\ pc[k] \in {"opening", "publish"} /\ pc' = [pc EXCEPT ![k] = "none"]
        /\ UNCHANGED <<state, stream, task, awaited, rpcVars>> /\ Dequeue(k)
    BY <1>2 DEF ConnectCancelled
  <2>2. TaskInv' /\ Left(k)
    BY <2>1, ClientTask, DequeueLeft
  <2>3. QED
    BY <2>1, <2>2, ClientMoves
<1>3. CASE Disconnect(k)
  <2>1. /\ pc[k] = "none" /\ state' = "CLOSED" /\ TeardownStream(k) /\ UNCHANGED rpcVars
    BY <1>3 DEF Disconnect
  <2>3. CASE LockFree /\ TakeStream(k) /\ UNCHANGED lockq
    <3>1. PICK v \in {"closing", "none", "awaiting"} : pc' = [pc EXCEPT ![k] = v]
      BY <2>1, <2>3, ClientTakes
    <3>2. TaskInv' /\ Left(k) /\ stream' = None /\ NoCallWaits
      BY <1>0, <2>1, <2>3, ClientTakes, NotWaitingLeft, TaskHasLock DEF TakeStream
    <3>3. QED
      BY <2>1, <3>1, <3>2, ClientMoves
  <2>4. CASE /\ ~LockFree
             /\ Enqueue(k)
             /\ pc' = [pc EXCEPT ![k] = "teardown"]
             /\ UNCHANGED <<stream, link, task, awaited>>
    <3>1. TaskInv'
      BY <2>1, <2>4, ClientTask
    <3>2. \A s \in Sups : pc[s] # "opening"
      BY <2>4, ReopensFree
    <3>3. QED
      BY <1>0, <2>1, <2>4, <3>1, <3>2, ClientMoves
  <2>5. QED
    BY <2>1, <2>3, <2>4 DEF TeardownStream
<1>4. CASE CancelSupervisor(k)
  <2>1. PICK s \in Sups : s = awaited[k] /\ s = task
    BY <1>4 DEF CancelSupervisor, TaskInv, TypeOK, TaskTypeOK
  <2>2. /\ pc[s] # "none" /\ pc' = [pc EXCEPT ![s] = "none"] /\ Dequeue(s)
        /\ UNCHANGED <<state, stream, task, awaited, rpcVars>>
    BY <1>4, <2>1 DEF CancelSupervisor
  <2>3. Left(s) /\ (state' = "CONNECTED" => stream' # None)
    BY <2>2, DequeueLeft DEF StreamInv
  <2>4. QED
    BY <2>2, <2>3, SupMoves DEF Between
<1>5. CASE DisconnectReturns(k)
  <2>1. /\ pc[k] = "awaiting" /\ pc[awaited[k]] = "none" /\ pc' = [pc EXCEPT ![k] = "none"]
        /\ UNCHANGED <<state, stream, lockq, rpcVars>>
        /\ awaited' = [awaited EXCEPT ![k] = None] /\ task' \in {task, None}
    BY <1>5 DEF DisconnectReturns, ForgetSupervisor
  <2>2. NoSupRuns
    BY <2>1, TcpAssumption DEF TaskInv, NoSupRuns
  <2>3. TaskInv' /\ Left(k)
    <3>1. \A l \in Clients \ {k} : awaited'[l] = awaited[l]
      BY <2>1 DEF TypeOK, TaskTypeOK
    <3>2. QED
      BY <1>0, <2>1, <2>2, <3>1, ClientTask, NotWaitingLeft
  <2>4. QED
    BY <2>1, <2>3, ClientMoves
<1>6. QED
  BY <1>1, <1>2, <1>3, <1>4, <1>5 DEF ClientNext

(***************************************************************************)
(* connect() publishes its stream and creates the supervisor.              *)
(***************************************************************************)
LEMMA ConnectPublishes ==
    ASSUME TypeOK, ConnectsAlone, ControlInv, NEW k \in Clients, NEW c,
           pc[k] \in {"opening", "publish"}, c # None,
           Publish(k, c), UNCHANGED rpcVars, Left(k), NoCallWaits, DOMAIN lockq' = {}
    PROVE  ControlInv'
<1> USE DEF ControlInv
<1>1. PICK t \in Sups : task' = t /\ pc' = [pc EXCEPT ![k] = "none", ![t] = "start"]
  BY TcpAssumption DEF Publish
<1>2. /\ state' = "CONNECTED" /\ stream' = c /\ UNCHANGED <<awaited, rpc, accepted, wrote>>
  BY DEF Publish, rpcVars
<1>3. \A s \in Sups : pc[s] = "none"
  BY DEF TaskInv
<1>o. \A l \in Clients \ {k} : pc[l] = "none"
  BY OthersIdle
<1>4. /\ \A l \in Clients : pc'[l] = "none"
      /\ \A s \in Sups : pc'[s] \in {"none", "start"} /\ (pc'[s] # "none" => s = t)
      /\ \A p \in Tasks : p # k /\ p # t => pc'[p] = pc[p]
      /\ pc[t] = "none" /\ pc'[t] = "start" /\ pc'[k] = "none"
      /\ k \in Tasks /\ k \notin Reqs
  BY <1>1, <1>3, <1>o, TcpAssumption DEF TypeOK, TaskTypeOK, Tasks
<1>5. TaskInv'
  BY <1>1, <1>4 DEF TaskInv
<1>6. OthersWait(k) /\ k \notin Waiters'
  BY <1>2, <1>4 DEF OthersWait, Waiters
<1>7. QueueInv' /\ OrderInv'
  BY <1>6, LeavingQueue, LeavingOrder
<1>8. ReopenInv'
  BY <1>4 DEF ReopenInv
<1>9. StreamInv'
  <2>1. \A s \in Sups : pc'[s] \notin Between
    BY <1>4 DEF Between
  <2>2. WrittenWhereAccepted'
    BY <1>2 DEF StreamInv, WrittenWhereAccepted
  <2>3. QED
    BY <1>2, <2>1, <2>2 DEF StreamInv, NoCallWaits
<1>10. QED
  BY <1>5, <1>7, <1>8, <1>9

LEMMA ClientStream ==
    ASSUME TypeOK, ConnectsAlone, HoldsConnection, ControlInv, NEW k \in Clients, StreamNext(k)
    PROVE  ControlInv'
<1> USE DEF ControlInv
<1>0. k \in Tasks /\ k \notin Sups /\ (k \in Waiters <=> pc[k] \in {"publish", "teardown"})
  BY TcpAssumption DEF Waiters, Tasks
<1>1. ASSUME NEW c \in Conns, OpenSucceeds(k, c)
      PROVE  ControlInv'
  <2>0. pc[k] = "opening" /\ UNCHANGED rpcVars /\ state # "CONNECTED" /\ NoSupRuns
    BY <1>1 DEF OpenSucceeds, TaskInv, NoSupRuns
  <2>1. CASE LockFree /\ Publish(k, c) /\ UNCHANGED lockq
    <3>1. Left(k) /\ NoCallWaits /\ DOMAIN lockq' = {}
      BY <1>0, <2>0, <2>1, NotWaitingLeft, TaskHasLock DEF LockFree
    <3>2. QED
      BY <2>0, <2>1, <3>1, ConnectPublishes, TcpAssumption
  <2>2. CASE /\ Enqueue(k)
             /\ pc' = [pc EXCEPT ![k] = "publish"]
             /\ UNCHANGED <<state, stream, task, awaited>>
    <3>1. TaskInv'
      BY <2>0, <2>2, ClientTask
    <3>2. QED
      BY <1>0, <2>0, <2>2, <3>1, ClientMoves DEF NoSupRuns
  <2>3. QED
    BY <1>1, <2>1, <2>2 DEF OpenSucceeds
<1>2. CASE PublishGranted(k)
  <2>1. /\ pc[k] = "publish" /\ Granted(k) /\ UNCHANGED rpcVars
        /\ Publish(k, conn[k]) /\ conn[k] # None
    BY <1>0, <1>2, TcpAssumption DEF PublishGranted, HoldsConnection
  <2>2. Left(k) /\ NoCallWaits /\ DOMAIN lockq' = {}
    BY <1>0, <2>1, GrantedLeft, TaskHasLock, PublishesLast
  <2>3. QED
    BY <2>1, <2>2, ConnectPublishes
<1>3. CASE OpenFails(k)
  <2>1. /\ pc[k] = "opening" /\ pc' = [pc EXCEPT ![k] = "none"] /\ state' = "DISCONNECTED"
        /\ UNCHANGED <<stream, task, awaited, lockq, rpcVars>>
    BY <1>0, <1>3 DEF OpenFails
  <2>2. TaskInv' /\ Left(k)
    BY <1>0, <2>1, ClientTask, NotWaitingLeft
  <2>3. \A l \in Clients : pc[l] # "teardown"
    BY <2>1, OthersIdle
  <2>4. QED
    BY <2>1, <2>2, <2>3, ClientMoves
<1>4. CASE TeardownGranted(k)
  <2>1. /\ pc[k] = "teardown" /\ Granted(k) /\ TakeStream(k) /\ stream' = None
        /\ UNCHANGED <<state, rpcVars>>
    BY <1>4 DEF TeardownGranted, TakeStream
  <2>2. Left(k) /\ NoCallWaits /\ state # "CONNECTED" /\ TaskInv'
    BY <1>0, <2>1, GrantedLeft, TaskHasLock, ClientTakes DEF OrderInv
  <2>3. PICK v \in {"closing", "none", "awaiting"} : pc' = [pc EXCEPT ![k] = v]
    BY <2>1, ClientTakes
  <2>4. QED
    BY <2>1, <2>2, <2>3, ClientMoves
<1>5. CASE WaitClosed(k)
  <2>1. /\ pc[k] = "closing" /\ AfterTeardown(k)
        /\ UNCHANGED <<state, stream, lockq, rpcVars>>
    BY <1>5 DEF WaitClosed
  <2>2. Left(k) /\ TaskInv'
    BY <1>0, <2>1, NotWaitingLeft, ClientTakes
  <2>3. PICK v \in {"closing", "none", "awaiting"} : pc' = [pc EXCEPT ![k] = v]
    BY <2>1, ClientTakes
  <2>4. QED
    BY <2>1, <2>2, <2>3, ClientMoves
<1>6. QED
  BY <1>1, <1>2, <1>3, <1>4, <1>5 DEF StreamNext

-----------------------------------------------------------------------------
(***************************************************************************)
(* The steps of a call and of the environment.                             *)
(***************************************************************************)
LEMMA WriteMoves ==
    ASSUME TypeOK, ControlInv, NEW r \in Reqs, WriteAndDrain(r), stream # None,
           accepted'[r] = stream, \A q \in Reqs \ {r} : accepted'[q] = accepted[q],
           Left(r), UNCHANGED ctlVars
    PROVE  ControlInv'
<1>1. PICK v \in {"waiting", "draining"} : rpc' = [rpc EXCEPT ![r] = v]
  BY DEF WriteAndDrain
<1>2. wrote'[r] = stream /\ \A q \in Reqs \ {r} : wrote'[q] = wrote[q]
  BY DEF WriteAndDrain, TypeOK, CallTypeOK
<1>3. QED
  BY <1>1, <1>2, CallMoves

LEMMA EndMoves ==
    ASSUME TypeOK, ControlInv, NEW r \in Reqs, NEW v \in Ended, Left(r),
           rpc' = [rpc EXCEPT ![r] = v], UNCHANGED <<ctlVars, accepted, wrote>>
    PROVE  ControlInv'
BY CallMoves DEF Ended

LEMMA CallControl ==
    ASSUME TypeOK, ControlInv, NEW r \in Reqs, RequestNext(r)
    PROVE  ControlInv'
<1> USE DEF ControlInv
<1>0. r \notin Tasks /\ (r \in Waiters <=> rpc[r] = "queued") /\ r \in Tasks \cup Reqs
  BY TcpAssumption DEF Waiters, Tasks
<1>1. CASE Request(r)
  <2>0. rpc[r] = "idle" /\ (UNCHANGED lockq => Left(r))
    BY <1>0, <1>1, NotWaitingLeft DEF Request
  <2>1. CASE rpc' = [rpc EXCEPT ![r] = "rejected"]
             /\ UNCHANGED <<ctlVars, lockq, accepted, wrote>>
    BY <2>0, <2>1, EndMoves DEF Ended
  <2>2. CASE /\ state = "CONNECTED"
             /\ accepted' = [accepted EXCEPT ![r] = stream]
             /\ UNCHANGED ctlVars
             /\ \/ /\ stream # None
                   /\ WriteAndDrain(r)
                   /\ UNCHANGED lockq
                \/ /\ Enqueue(r)
                   /\ rpc' = [rpc EXCEPT ![r] = "queued"]
                   /\ UNCHANGED wrote
    <3>1. accepted'[r] = stream /\ \A q \in Reqs \ {r} : accepted'[q] = accepted[q]
      BY <2>2 DEF TypeOK, CallTypeOK
    <3>2. stream # None
      BY <2>2 DEF StreamInv
    <3>3. CASE WriteAndDrain(r) /\ UNCHANGED lockq
      BY <2>0, <2>2, <3>1, <3>2, <3>3, WriteMoves
    <3>4. CASE /\ Enqueue(r)
               /\ rpc' = [rpc EXCEPT ![r] = "queued"]
               /\ UNCHANGED wrote
      BY <2>0, <2>2, <3>1, <3>2, <3>4, CallMoves
    <3>5. QED
      BY <2>2, <3>3, <3>4
  <2>3. QED
    BY <1>1, <2>1, <2>2 DEF Request
<1>2. CASE RequestGranted(r)
  <2>1. /\ rpc[r] = "queued" /\ Left(r) /\ stream # None /\ accepted[r] = stream
        /\ UNCHANGED <<ctlVars, accepted>>
    BY <1>2, GrantedLeft DEF RequestGranted, StreamInv
  <2>2. WriteAndDrain(r)
    BY <1>2, <2>1 DEF RequestGranted
  <2>3. QED
    BY <2>1, <2>2, WriteMoves
<1>3. CASE DrainReturns(r)
  <2>1. /\ rpc[r] = "draining" /\ rpc' = [rpc EXCEPT ![r] = "waiting"]
        /\ UNCHANGED <<ctlVars, lockq, accepted, wrote>>
    BY <1>3 DEF DrainReturns
  <2>2. Left(r) /\ wrote[r] = accepted[r]
    BY <1>0, <2>1, NotWaitingLeft DEF StreamInv, WrittenWhereAccepted
  <2>3. QED
    BY <2>1, <2>2, CallMoves
<1>4. CASE DrainRaises(r) \/ FutureDone(r) \/ RequestTimeout(r)
  <2>1. /\ rpc[r] # "queued" /\ UNCHANGED lockq
        /\ EndRequest(r, "error") \/ EndRequest(r, "ok")
    BY <1>4 DEF DrainRaises, FutureDone, RequestTimeout
  <2>2. Left(r)
    BY <1>0, <2>1, NotWaitingLeft
  <2>3. QED
    BY <2>1, <2>2, EndMoves DEF EndRequest, Ended
<1>5. CASE RequestCancelled(r)
  BY <1>5, DequeueLeft, EndMoves DEF RequestCancelled, EndRequest, Ended
<1>6. QED
  BY <1>1, <1>2, <1>3, <1>4, <1>5 DEF RequestNext

LEMMA ControlSame ==
    ASSUME ControlInv, UNCHANGED <<ctlVars, lockq, rpcVars>>
    PROVE  ControlInv'
BY DEF ctlVars, rpcVars, ControlInv, TaskInv, QueueInv, Waiters, OrderInv, ReopenInv,
       StreamInv, WrittenWhereAccepted

LEMMA ControlStep ==
    ASSUME TypeOK, HoldsConnection, ConnectsAlone, ControlInv, [Next /\ ConnectsAlone']_vars
    PROVE  ControlInv'
<1>1. CASE \E c \in Conns : NetNext(c)
  BY <1>1, ControlSame DEF NetNext, PlcExecutes, ConnectionDrops
<1>2. CASE UNCHANGED vars
  BY <1>2, ControlSame DEF vars
<1>3. CASE \E p \in Tasks : StreamNext(p)
  BY <1>3, SupStream, ClientStream DEF Tasks
<1>4. QED
  BY <1>1, <1>2, <1>3, SupControl, ClientControl, CallControl DEF Next

LEMMA AloneInit ==
    Init => ConnectsAlone
BY DEF Init, ConnectsAlone, Tasks

(***************************************************************************)
(* Clients that connect alone are clients: what is proved of Spec holds.   *)
(***************************************************************************)
LEMMA AloneIsSpec ==
    AloneSpec => Spec /\ []ConnectsAlone
<1>1. [Next /\ ConnectsAlone']_vars => [Next]_vars
  OBVIOUS
<1>2. ConnectsAlone /\ [Next /\ ConnectsAlone']_vars => ConnectsAlone'
  BY DEF ConnectsAlone, vars, ctlVars
<1>3. QED
  BY <1>1, <1>2, AloneInit, PTL DEF AloneSpec, Spec

(***************************************************************************)
(* One client always connects alone, so the theorems about AloneSpec hold  *)
(* of it without a condition on connect().                                 *)
(***************************************************************************)
THEOREM OneClientConnectsAlone ==
    ASSUME \A k, l \in Clients : k = l
    PROVE  Spec => AloneSpec
<1>1. ConnectsAlone'
  BY DEF ConnectsAlone
<1>2. [Next]_vars => [Next /\ ConnectsAlone']_vars
  BY <1>1
<1>3. QED
  BY <1>2, PTL DEF AloneSpec, Spec

(***************************************************************************)
(* With clients that connect alone ControlInv holds always, whenever and   *)
(* however many at a time they disconnect.                                 *)
(***************************************************************************)
THEOREM ControlInvariant == AloneSpec => []ControlInv
<1>1. Init => ControlInv
  <2> SUFFICES ASSUME Init PROVE ControlInv
    OBVIOUS
  <2>1. /\ lockq = <<>> /\ state # "CONNECTED"
        /\ \A p \in Tasks : pc[p] = "none"
        /\ \A r \in Reqs : rpc[r] = "idle"
    BY DEF Init
  <2>2. TaskInv /\ ReopenInv /\ StreamInv
    BY <2>1 DEF TaskInv, ReopenInv, StreamInv, WrittenWhereAccepted, Between, Tasks
  <2>3. QueueInv /\ OrderInv
    BY <2>1 DEF QueueInv, Waiters, OrderInv
  <2>4. QED
    BY <2>2, <2>3 DEF ControlInv
<1>2. /\ TypeOK /\ HoldsConnection /\ ConnectsAlone /\ ControlInv
      /\ [Next /\ ConnectsAlone']_vars
      => ControlInv'
  BY ControlStep
<1>3. CallInv => HoldsConnection
  BY DEF CallInv
<1>4. QED
  BY <1>1, <1>2, <1>3, AloneIsSpec, TypeCorrect, CallInvariant, PTL DEF AloneSpec

-----------------------------------------------------------------------------
LEMMA AtMostOne ==
    ASSUME NEW A, \A x, y \in A : x = y
    PROVE  Cardinality(A) <= 1
<1>1. CASE A = {}
  BY <1>1, FS_EmptySet
<1>2. CASE A # {}
  <2>1. PICK x \in A : A = {x}
    BY <1>2
  <2>2. Cardinality({x}) = 1
    BY FS_Singleton
  <2>3. QED
    BY <2>1, <2>2
<1>3. QED
  BY <1>1, <1>2

(***************************************************************************)
(* At most one task opens or reads connections, whenever the clients       *)
(* disconnect: no two reconnect attempts compete (transport.py:416-419).   *)
(***************************************************************************)
THEOREM OneConnectorAlways == AloneSpec => []OneConnector
<1>1. ConnectsAlone /\ ControlInv => OneConnector
  <2> SUFFICES ASSUME ConnectsAlone, ControlInv PROVE OneConnector
    OBVIOUS
  <2> DEFINE A == {s \in Sups : pc[s] # "none"}
                  \cup {k \in Clients : pc[k] \in {"opening", "publish"}}
  <2>1. \A x, y \in A : x = y
    BY DEF ControlInv, TaskInv, ConnectsAlone
  <2>2. Cardinality(A) <= 1
    BY <2>1, AtMostOne
  <2>3. QED
    BY <2>2 DEF OneConnector
<1>2. QED
  BY <1>1, ControlInvariant, AloneIsSpec, PTL

(***************************************************************************)
(* A call is written to the connection it was accepted for, whenever the   *)
(* clients disconnect: none is replayed (transport.py:348-349).            *)
(***************************************************************************)
THEOREM WrittenOnAccepting == AloneSpec => []WrittenWhereAccepted
<1>1. ControlInv => WrittenWhereAccepted
  BY DEF ControlInv, StreamInv
<1>2. QED
  BY <1>1, ControlInvariant, PTL

(***************************************************************************)
(* A call that queues for the lock still finds the stream it was accepted  *)
(* for, whenever the clients disconnect (transport.py:394-395).            *)
(***************************************************************************)
THEOREM QueuedCallsFindStream == AloneSpec => []QueuedFindsStream
<1>1. ControlInv => QueuedFindsStream
  BY DEF ControlInv, StreamInv, QueuedFindsStream
<1>2. QED
  BY <1>1, ControlInvariant, PTL

(***************************************************************************)
(* A reconnect finds the lock free, whenever the clients disconnect: a new *)
(* connection is never held by a supervisor that waits, and may be         *)
(* cancelled, before it has published it (transport.py:309-311).           *)
(***************************************************************************)
THEOREM ReconnectsAtOnce == AloneSpec => []ReopensAtOnce
<1>1. ControlInv => ReopensAtOnce
  BY ReopensFree DEF ReopensAtOnce
<1>2. QED
  BY <1>1, ControlInvariant, PTL

-----------------------------------------------------------------------------
(***************************************************************************)
(* Without disconnect() during a reconnect: nothing opens while the        *)
(* transport is closed, and whoever opens finds no stream and a free lock. *)
(***************************************************************************)
Disconnecting == {"teardown", "closing", "awaiting"}

ClosedInv ==
    /\ \A p \in Tasks : pc[p] # "publish"
    /\ \A p \in Tasks : pc[p] = "opening" => state # "CLOSED"
    /\ \A k \in Clients : pc[k] \in Disconnecting => state = "CLOSED"
    /\ \A k \in Clients : pc[k] \in {"opening", "closing", "awaiting"} => stream = None

\* A stream has a reader, or somebody who tears it down.
Holding == {"start", "read", "callback", "teardown"}

ReaderInv ==
    /\ stream # None =>
        \/ \E s \in Sups : pc[s] \in Holding
        \/ \E k \in Clients : pc[k] = "teardown"
    /\ state = "CONNECTED" =>
        \E s \in Sups : pc[s] = "start" \/ (pc[s] \in {"read", "callback"} /\ conn[s] = stream)
    /\ \A c \in Conns : link[c] = "up" => c = stream

\* A call that is still to be told is of the current stream.
FutureInv ==
    \A r \in Reqs : future[r] = "undone" =>
        rpc[r] \in Outstanding /\ state = "CONNECTED" /\ accepted[r] = stream

LeftInv ==
    state = "CLOSED" /\ (\A k \in Clients : pc[k] = "none") => stream = None /\ NoSupRuns

CalmInv == ClosedInv /\ ReaderInv /\ FutureInv /\ LeftInv

(***************************************************************************)
(* CalmInv is kept by a step of a supervisor and of a client: the          *)
(* conditions are what the steps below have in common.                     *)
(***************************************************************************)
FutureKept ==
    /\ UNCHANGED <<rpc, accepted>>
    /\ \A r \in Reqs : future'[r] = "undone" =>
        future[r] = "undone" /\ UNCHANGED <<state, stream>>

LinkKept == \A c \in Conns : link'[c] = "up" => c = stream'

LEMMA MovesOne ==
    ASSUME TypeOK, NEW p \in Tasks, NEW v, pc' = [pc EXCEPT ![p] = v]
    PROVE  pc'[p] = v /\ \A q \in Tasks : q # p => pc'[q] = pc[q]
BY DEF TypeOK, TaskTypeOK

LEMMA SupCalm ==
    ASSUME TypeOK, ControlInv, CalmInv, NEW s \in Sups, pc[s] # "none",
           NEW v, pc' = [pc EXCEPT ![s] = v],
           v # "publish",
           v = "opening" => state' # "CLOSED",
           state' = state \/ (state # "CLOSED" /\ state' # "CLOSED"),
           stream' \in {stream, None} \/ state # "CLOSED",
           stream' # None => v \in Holding \/ state' = "CLOSED",
           state' = "CONNECTED" => v \in {"read", "callback"} /\ conn'[s] = stream',
           LinkKept, FutureKept
    PROVE  CalmInv'
<1> USE DEF CalmInv
<1>0. /\ s \in Tasks /\ pc'[s] = v
      /\ \A p \in Tasks : p # s => pc'[p] = pc[p]
      /\ \A k \in Clients : k \in Tasks /\ k # s /\ pc'[k] = pc[k]
  BY MovesOne, TcpAssumption DEF Tasks
<1>1. \A k \in Clients : pc[k] \notin {"opening", "publish"}
  BY DEF ControlInv, TaskInv
<1>2. ~(state = "CLOSED" /\ \A k \in Clients : pc[k] = "none")
  BY DEF LeftInv, NoSupRuns
<1>3. ClosedInv'
  <2>1. \A p \in Tasks : pc'[p] # "publish"
    BY <1>0 DEF ClosedInv
  <2>2. \A p \in Tasks : pc'[p] = "opening" => state' # "CLOSED"
    BY <1>0 DEF ClosedInv
  <2>3. \A k \in Clients : pc'[k] \in Disconnecting => state' = "CLOSED"
    BY <1>0 DEF ClosedInv
  <2>4. \A k \in Clients : pc'[k] \in {"opening", "closing", "awaiting"} => stream' = None
    BY <1>0, <1>1 DEF ClosedInv, Disconnecting
  <2>5. QED
    BY <2>1, <2>2, <2>3, <2>4 DEF ClosedInv
<1>4. ReaderInv'
  <2>1. ASSUME stream' # None
        PROVE  \/ \E t \in Sups : pc'[t] \in Holding
               \/ \E k \in Clients : pc'[k] = "teardown"
    <3>1. CASE v \in Holding
      BY <1>0, <3>1
    <3>2. CASE v \notin Holding
      <4>1. state = "CLOSED" /\ stream # None
        BY <2>1, <3>2
      <4>2. PICK k \in Clients : pc[k] # "none"
        BY <1>2, <4>1
      <4>3. pc[k] = "teardown"
        BY <1>1, <4>1, <4>2 DEF ClosedInv, TypeOK, TaskTypeOK, ClientPCs
      <4>4. QED
        BY <1>0, <4>3
    <3>3. QED
      BY <3>1, <3>2
  <2>2. state' = "CONNECTED" =>
            \E t \in Sups : pc'[t] \in {"read", "callback"} /\ conn'[t] = stream'
    BY <1>0
  <2>3. QED
    BY <2>1, <2>2 DEF ReaderInv, LinkKept
<1>5. FutureInv'
  BY DEF FutureInv, FutureKept
<1>6. LeftInv'
  BY <1>0, <1>2 DEF LeftInv
<1>7. QED
  BY <1>3, <1>4, <1>5, <1>6

LEMMA ClientCalm ==
    ASSUME TypeOK, ControlInv, CalmInv, NEW k \in Clients,
           NEW v, pc' = [pc EXCEPT ![k] = v],
           v # "publish",
           v = "opening" => state' # "CLOSED",
           v \in Disconnecting => state' = "CLOSED",
           v \in {"opening", "closing", "awaiting"} => stream' = None,
           state' = "CLOSED" => state = "CLOSED" \/ \A p \in Tasks : pc[p] # "opening",
           state' \in {state, "CLOSED"} \/ \A l \in Clients \ {k} : pc[l] = "none",
           stream' # None => stream' = stream /\ (v = "teardown" \/ pc[k] # "teardown"),
           state' = "CONNECTED" =>
                state = "CONNECTED" /\ stream' = stream /\ \A s \in Sups : conn'[s] = conn[s],
           state' = "CLOSED" /\ v = "none" => stream' = None /\ NoSupRuns,
           LinkKept, FutureKept
    PROVE  CalmInv'
<1> USE DEF CalmInv
<1>0. /\ pc'[k] = v
      /\ \A p \in Tasks : p # k => pc'[p] = pc[p]
      /\ \A l \in Clients : l # k => pc'[l] = pc[l]
      /\ \A s \in Sups : s \in Tasks /\ pc'[s] = pc[s]
  BY MovesOne, TcpAssumption, ZenonT(60) DEF Tasks
<1>1. ClosedInv'
  <2>1. \A p \in Tasks : pc'[p] # "publish"
    BY <1>0 DEF ClosedInv
  <2>2. \A p \in Tasks : pc'[p] = "opening" => state' # "CLOSED"
    BY <1>0 DEF ClosedInv
  <2>3. \A l \in Clients : pc'[l] \in Disconnecting => state' = "CLOSED"
    BY <1>0 DEF ClosedInv, Disconnecting
  <2>4. \A l \in Clients : pc'[l] \in {"opening", "closing", "awaiting"} => stream' = None
    BY <1>0 DEF ClosedInv
  <2>5. QED
    BY <2>1, <2>2, <2>3, <2>4 DEF ClosedInv
<1>2. ReaderInv'
  <2>1. stream' # None => \/ \E s \in Sups : pc'[s] \in Holding
                          \/ \E l \in Clients : pc'[l] = "teardown"
    BY <1>0 DEF ReaderInv
  <2>2. state' = "CONNECTED" =>
            \E s \in Sups : \/ pc'[s] = "start"
                            \/ pc'[s] \in {"read", "callback"} /\ conn'[s] = stream'
    BY <1>0 DEF ReaderInv
  <2>3. QED
    BY <2>1, <2>2 DEF ReaderInv, LinkKept
<1>3. FutureInv'
  BY DEF FutureInv, FutureKept
<1>4. LeftInv'
  BY <1>0 DEF LeftInv, NoSupRuns
<1>5. QED
  BY <1>1, <1>2, <1>3, <1>4

(***************************************************************************)
(* cancel_pending_requests() tells every call that waits, and the stream   *)
(* that is taken is closed.                                                *)
(***************************************************************************)
LEMMA AllTold ==
    ASSUME TypeOK, RegisteredWhileOutstanding, FutureInv, CancelPendingRequests
    PROVE  \A r \in Reqs : future'[r] # "undone"
<1> SUFFICES ASSUME NEW r \in Reqs, future'[r] = "undone" PROVE FALSE
  OBVIOUS
<1>1. future[r] = "undone" /\ ~Registered(r)
  BY DEF CancelPendingRequests
<1>2. invoke[r] \in Ids /\ pending[invoke[r]] = r
  BY <1>1 DEF FutureInv, RegisteredWhileOutstanding
<1>3. QED
  BY <1>1, <1>2 DEF Registered

LEMMA TakenClosed ==
    ASSUME TypeOK, ReaderInv, NEW p \in Tasks, TakeStream(p)
    PROVE  LinkKept /\ stream' = None
<1>1. CASE stream = None
  BY <1>1 DEF TakeStream, LinkKept, ReaderInv
<1>2. CASE stream # None
  <2>1. stream' = None /\ link' = [link EXCEPT ![stream] = "closed"] /\ stream \in Conns
    BY <1>2 DEF TakeStream, TypeOK, StreamTypeOK
  <2>2. \A c \in Conns : link'[c] # "up"
    BY <2>1 DEF ReaderInv, TypeOK, NetTypeOK
  <2>3. QED
    BY <2>1, <2>2 DEF LinkKept
<1>3. QED
  BY <1>1, <1>2

-----------------------------------------------------------------------------
(***************************************************************************)
(* The steps of a supervisor.                                              *)
(***************************************************************************)
LEMMA SupAfter ==
    ASSUME NEW s \in Sups, AfterTeardown(s) \/ TakeStream(s)
    PROVE  \E v \in {"closing", "sleep", "none", "opening"} :
                pc' = [pc EXCEPT ![s] = v] /\ (v = "opening" => state' # "CLOSED")
BY TcpAssumption DEF AfterTeardown, TakeStream

LEMMA SupTeardownCalm ==
    ASSUME TypeOK, RegisteredWhileOutstanding, ControlInv, CalmInv,
           NEW s \in Sups, pc[s] \in {"start", "read", "callback"},
           state # "CLOSED", state' = "RECONNECTING", TeardownStream(s), UNCHANGED rpcVars
    PROVE  CalmInv'
<1> USE DEF Holding
<1>0. FutureKept
  BY AllTold DEF TeardownStream, CalmInv, FutureKept, rpcVars
<1>1. CASE LockFree /\ TakeStream(s) /\ UNCHANGED lockq
  <2>1. PICK v \in {"closing", "sleep", "none", "opening"} : pc' = [pc EXCEPT ![s] = v]
    BY <1>1, SupAfter
  <2>2. LinkKept /\ stream' = None
    BY <1>1, TakenClosed DEF CalmInv, Tasks
  <2>3. QED
    BY <1>0, <2>1, <2>2, SupCalm
<1>2. CASE /\ pc' = [pc EXCEPT ![s] = "teardown"]
           /\ UNCHANGED <<stream, link, task, awaited>>
  <2>1. LinkKept
    BY <1>2 DEF LinkKept, CalmInv, ReaderInv
  <2>2. QED
    BY <1>0, <1>2, <2>1, SupCalm
<1>3. QED
  BY <1>1, <1>2 DEF TeardownStream

\* The steps that change neither the state nor the stream nor a call.
LEMMA SupWalksCalm ==
    ASSUME TypeOK, ControlInv, CalmInv, NEW s \in Sups, pc[s] # "none",
           NEW v, pc' = [pc EXCEPT ![s] = v],
           v # "publish",
           v = "opening" => state # "CLOSED",
           v \in {"read", "callback"} \/ state = "CLOSED" \/ stream = None,
           v \in {"read", "callback"} \/ state # "CONNECTED",
           state = "CONNECTED" => conn'[s] = stream,
           UNCHANGED <<state, stream, rpc, accepted, future, link>>
    PROVE  CalmInv'
<1>1. LinkKept /\ FutureKept
  BY DEF LinkKept, FutureKept, CalmInv, ReaderInv
<1>2. QED
  BY <1>1, SupCalm DEF Holding

LEMMA SupLostCalm ==
    ASSUME TypeOK, RegisteredWhileOutstanding, ControlInv, CalmInv,
           NEW s \in Sups, pc[s] \in {"start", "read", "callback"}, ConnectionLost(s)
    PROVE  CalmInv'
<1>1. CASE state = "CLOSED"
  <2>1. /\ pc' = [pc EXCEPT ![s] = "none"]
        /\ UNCHANGED <<state, stream, rpc, accepted, future, link>>
    BY <1>1 DEF ConnectionLost, baseVars, rpcVars, netVars
  <2>2. QED
    BY <1>1, <2>1, SupWalksCalm
<1>2. CASE state # "CLOSED"
  BY <1>2, SupTeardownCalm DEF ConnectionLost
<1>3. QED
  BY <1>1, <1>2

\* The supervisor that runs while CONNECTED reads the current stream.
LEMMA ReadsStream ==
    ASSUME TypeOK, ControlInv, CalmInv, NEW s \in Sups, pc[s] \notin {"none", "start"},
           state = "CONNECTED"
    PROVE  pc[s] \in {"read", "callback"} /\ conn[s] = stream
BY DEF ControlInv, TaskInv, CalmInv, ReaderInv

LEMMA SupNextCalm ==
    ASSUME TypeOK, RegisteredWhileOutstanding, ControlInv, CalmInv,
           NEW s \in Sups, SupNext(s)
    PROVE  CalmInv'
<1> USE DEF baseVars, rpcVars, netVars
<1>1. CASE SuperviseStarts(s)
  <2>1. CASE ConnectionLost(s)
    BY <1>1, <2>1, SupLostCalm DEF SuperviseStarts
  <2>2. CASE /\ pc' = [pc EXCEPT ![s] = "read"]
             /\ conn' = [conn EXCEPT ![s] = stream]
             /\ UNCHANGED <<baseVars, state, stream, task, awaited, lockq, rpcVars, netVars>>
    <3>1. conn'[s] = stream /\ pc[s] = "start"
      BY <1>1, <2>2 DEF SuperviseStarts, TypeOK, StreamTypeOK, Tasks
    <3>2. QED
      BY <2>2, <3>1, SupWalksCalm
  <2>3. QED
    BY <1>1, <2>1, <2>2 DEF SuperviseStarts
<1>2. CASE SleepEnds(s)
  <2>1. PICK v \in {"none", "opening"} :
            pc' = [pc EXCEPT ![s] = v] /\ (v = "opening" => state # "CLOSED")
    BY <1>2 DEF SleepEnds
  <2>2. /\ pc[s] = "sleep" /\ stream = None /\ state # "CONNECTED"
        /\ UNCHANGED <<state, stream, rpc, accepted, future, link>>
    BY <1>2 DEF SleepEnds, ControlInv, StreamInv, Between
  <2>3. QED
    BY <2>1, <2>2, SupWalksCalm
<1>3. CASE \E m \in Reqs : ReadResponse(s, m)
  <2>1. PICK m \in Reqs : ReadResponse(s, m)
    BY <1>3
  <2>2. /\ UNCHANGED <<state, stream, pc, conn, rpc, accepted, link>>
        /\ \A r \in Reqs : future'[r] = "undone" => future[r] = "undone"
    BY <2>1 DEF ReadResponse, ctlVars, HandleResponse, TypeOK, BaseTypeOK
  <2>3. QED
    BY <2>2 DEF CalmInv, ClosedInv, ReaderInv, FutureInv, LeftInv, NoSupRuns
<1>4. CASE ReadNotification(s)
  BY <1>4, ReadsStream, SupWalksCalm DEF ReadNotification
<1>5. CASE CallbackReturns(s)
  <2>1. CASE ConnectionLost(s)
    BY <1>5, <2>1, SupLostCalm DEF CallbackReturns
  <2>2. CASE /\ pc' = [pc EXCEPT ![s] = "read"]
             /\ UNCHANGED <<baseVars, state, stream, task, conn, awaited, lockq, rpcVars, netVars>>
    BY <1>5, <2>2, ReadsStream, SupWalksCalm DEF CallbackReturns
  <2>3. QED
    BY <1>5, <2>1, <2>2 DEF CallbackReturns
<1>6. CASE ReadFails(s) \/ FrameRejected(s) \/ CallbackRaises(s)
  BY <1>6, SupLostCalm DEF ReadFails, FrameRejected, CallbackRaises
<1>7. QED
  BY <1>1, <1>2, <1>3, <1>4, <1>5, <1>6 DEF SupNext

(***************************************************************************)
(* Whoever opens finds the lock free and no stream: the new connection is  *)
(* the only one.                                                           *)
(***************************************************************************)
LEMMA OpensAlone ==
    ASSUME TypeOK, ControlInv, CalmInv, NEW p \in Tasks, pc[p] = "opening"
    PROVE  LockFree /\ stream = None /\ state \notin {"CONNECTED", "CLOSED"}
<1> USE DEF ControlInv, CalmInv
<1>1. stream = None /\ state \notin {"CONNECTED", "CLOSED"}
  BY DEF ClosedInv, StreamInv, Between, TaskInv, Tasks
<1>2. NoCallWaits
  BY <1>1 DEF StreamInv, NoCallWaits
<1>3. \A q \in Tasks : pc[q] \notin {"publish", "teardown"}
  <2> SUFFICES ASSUME NEW q \in Tasks, pc[q] = "teardown" PROVE FALSE
    BY DEF ClosedInv
  <2>1. CASE q \in Clients
    BY <1>1, <2>1 DEF ClosedInv, Disconnecting
  <2>2. CASE q \in Sups
    BY <2>2 DEF TaskInv, Tasks
  <2>3. QED
    BY <2>1, <2>2 DEF Tasks
<1>4. Waiters = {}
  BY <1>2, <1>3 DEF Waiters, NoCallWaits
<1>5. lockq = <<>>
  <2>1. lockq \in Seq(Tasks \cup Reqs)
    BY DEF TypeOK, StreamTypeOK
  <2>2. \A i \in DOMAIN lockq : FALSE
    BY <1>4 DEF QueueInv
  <2>3. QED
    BY <2>1, <2>2, TailFacts
<1>6. QED
  BY <1>1, <1>2, <1>5 DEF LockFree, Locked, NoCallWaits

LEMMA OpenedUp ==
    ASSUME TypeOK, CalmInv, stream = None, NEW c \in Conns,
           link' = [link EXCEPT ![c] = "up"], stream' = c
    PROVE  LinkKept
<1>1. \A d \in Conns : d # c => link'[d] = link[d]
  BY DEF TypeOK, NetTypeOK
<1>2. \A d \in Conns : link[d] # "up"
  BY TcpAssumption DEF CalmInv, ReaderInv
<1>3. QED
  BY <1>1, <1>2 DEF LinkKept

LEMMA SupStreamCalm ==
    ASSUME TypeOK, ControlInv, CalmInv, NEW s \in Sups, StreamNext(s)
    PROVE  CalmInv'
<1> USE DEF baseVars, rpcVars, netVars
<1>0. s \in Tasks /\ s \notin Clients
  BY TcpAssumption DEF Tasks
<1>1. ASSUME NEW c \in Conns, OpenSucceeds(s, c)
      PROVE  CalmInv'
  <2>0. /\ pc[s] = "opening" /\ LockFree /\ stream = None
        /\ state \notin {"CONNECTED", "CLOSED"}
    BY <1>0, <1>1, OpensAlone DEF OpenSucceeds
  <2>1. /\ Publish(s, c) /\ link' = [link EXCEPT ![c] = "up"]
        /\ UNCHANGED <<rpc, accepted, future>>
    BY <1>1, <2>0 DEF OpenSucceeds
  <2>2. /\ pc' = [pc EXCEPT ![s] = "read"] /\ conn'[s] = c
        /\ stream' = c /\ state' = "CONNECTED"
    BY <1>0, <2>1 DEF Publish, TypeOK, StreamTypeOK
  <2>3. LinkKept
    BY <2>0, <2>1, <2>2, OpenedUp
  <2>4. FutureKept
    BY <2>0, <2>1 DEF FutureKept, CalmInv, FutureInv
  <2>5. QED
    BY <2>0, <2>2, <2>3, <2>4, SupCalm DEF Holding
<1>2. CASE PublishGranted(s)
  BY <1>0, <1>2 DEF PublishGranted, CalmInv, ClosedInv
<1>3. CASE OpenFails(s)
  <2>1. /\ pc[s] = "opening" /\ pc' = [pc EXCEPT ![s] = "sleep"]
        /\ UNCHANGED <<state, stream, rpc, accepted, future, link>>
    BY <1>3 DEF OpenFails
  <2>2. stream = None /\ state # "CONNECTED"
    BY <1>0, <2>1, OpensAlone
  <2>3. QED
    BY <2>1, <2>2, SupWalksCalm
<1>4. CASE TeardownGranted(s)
  <2>1. /\ pc[s] = "teardown" /\ Granted(s) /\ TakeStream(s)
        /\ UNCHANGED <<state, rpc, accepted, future>>
    BY <1>4 DEF TeardownGranted
  <2>2. state # "CONNECTED"
    BY <1>0, <2>1, GrantedLeft DEF ControlInv, OrderInv
  <2>3. LinkKept /\ stream' = None
    BY <1>0, <2>1, TakenClosed DEF CalmInv
  <2>4. FutureKept
    BY <2>1, <2>2 DEF FutureKept, CalmInv, FutureInv
  <2>5. PICK v \in {"closing", "sleep", "none", "opening"} :
            pc' = [pc EXCEPT ![s] = v] /\ (v = "opening" => state' # "CLOSED")
    BY <2>1, SupAfter
  <2>6. QED
    BY <2>1, <2>2, <2>3, <2>4, <2>5, SupCalm
<1>5. CASE WaitClosed(s)
  <2>1. /\ pc[s] = "closing" /\ stream = None /\ state # "CONNECTED"
        /\ UNCHANGED <<state, stream, rpc, accepted, future, link>>
    BY <1>5 DEF WaitClosed, ControlInv, StreamInv, Between
  <2>2. PICK v \in {"closing", "sleep", "none", "opening"} :
            pc' = [pc EXCEPT ![s] = v] /\ (v = "opening" => state' # "CLOSED")
    BY <1>5, SupAfter DEF WaitClosed
  <2>3. QED
    BY <2>1, <2>2, SupWalksCalm
<1>6. QED
  BY <1>1, <1>2, <1>3, <1>4, <1>5 DEF StreamNext

-----------------------------------------------------------------------------
(***************************************************************************)
(* The steps of the client.                                                *)
(***************************************************************************)
LEMMA NoneUndone ==
    ASSUME FutureInv, state # "CONNECTED", UNCHANGED <<rpc, accepted, future>>
    PROVE  FutureKept
BY DEF FutureInv, FutureKept

LEMMA SameLinks ==
    ASSUME ReaderInv, UNCHANGED <<stream, link>>
    PROVE  LinkKept
BY DEF ReaderInv, LinkKept

LEMMA ClientNextCalm ==
    ASSUME TypeOK, ConnectsAlone, ConnectsAlone', QuietClose, RegisteredWhileOutstanding, ControlInv, CalmInv,
           NEW k \in Clients, ClientNext(k)
    PROVE  CalmInv'
<1> USE DEF baseVars, rpcVars, netVars
<1>0. k \in Tasks
  BY DEF Tasks
<1>1. CASE Connect(k)
  <2>1. /\ pc[k] = "none" /\ state' = "CONNECTING" /\ pc' = [pc EXCEPT ![k] = "opening"]
        /\ UNCHANGED <<stream, rpc, accepted, future, link>> /\ NoSupRuns
    BY <1>1, SupervisorIdle DEF Connect, ControlInv
  <2>0. \A l \in Clients : pc[l] = "none"
    BY <2>1, OthersIdle
  <2>2. stream = None /\ state # "CONNECTED"
    BY <2>0, <2>1 DEF CalmInv, ReaderInv, NoSupRuns, Holding
  <2>3. LinkKept /\ FutureKept
    BY <2>1, <2>2, NoneUndone, SameLinks DEF CalmInv
  <2>4. QED
    BY <2>0, <2>1, <2>2, <2>3, ClientCalm DEF Disconnecting
<1>2. CASE ConnectCancelled(k)
  <2>1. /\ pc[k] = "opening" /\ pc' = [pc EXCEPT ![k] = "none"]
        /\ UNCHANGED <<state, stream, rpc, accepted, future, link>>
    BY <1>0, <1>2 DEF ConnectCancelled, CalmInv, ClosedInv
  <2>2. stream = None /\ state \notin {"CONNECTED", "CLOSED"}
    BY <1>0, <2>1, OpensAlone
  <2>3. LinkKept /\ FutureKept
    BY <2>1, <2>2, NoneUndone, SameLinks DEF CalmInv
  <2>4. QED
    BY <2>1, <2>2, <2>3, ClientCalm DEF Disconnecting
<1>3. CASE Disconnect(k)
  <2>1. /\ pc[k] = "none" /\ state' = "CLOSED" /\ TeardownStream(k)
        /\ \A p \in Tasks : pc[p] # "opening"
    BY <1>3 DEF Disconnect
  <2>2. FutureKept
    BY <1>3, <2>1, AllTold DEF Disconnect, TeardownStream, FutureKept, CalmInv
  <2>3. CASE LockFree /\ TakeStream(k) /\ UNCHANGED lockq
    <3>1. PICK v \in {"closing", "none", "awaiting"} :
              pc' = [pc EXCEPT ![k] = v] /\ (v = "none" => NoSupRuns)
      BY <2>1, <2>3, ClientTakes DEF ControlInv
    <3>2. LinkKept /\ stream' = None
      BY <1>0, <2>3, TakenClosed DEF CalmInv
    <3>3. QED
      BY <2>1, <2>2, <3>1, <3>2, ClientCalm
  <2>4. CASE /\ pc' = [pc EXCEPT ![k] = "teardown"]
             /\ UNCHANGED <<stream, link, task, awaited>>
    <3>1. LinkKept
      BY <2>4, SameLinks DEF CalmInv
    <3>2. QED
      BY <2>1, <2>2, <2>4, <3>1, ClientCalm
  <2>5. QED
    BY <2>1, <2>3, <2>4 DEF TeardownStream
<1>4. CASE CancelSupervisor(k)
  <2>1. PICK s \in Sups : s = awaited[k]
    BY <1>4 DEF CancelSupervisor, ControlInv, TaskInv, TypeOK, TaskTypeOK
  <2>2. /\ pc[s] # "none" /\ pc' = [pc EXCEPT ![s] = "none"]
        /\ UNCHANGED <<state, stream, rpc, accepted, future, link>>
    BY <1>4, <2>1 DEF CancelSupervisor
  <2>3. state = "CLOSED"
    BY <1>4 DEF CancelSupervisor, CalmInv, ClosedInv, Disconnecting
  <2>4. QED
    BY <2>2, <2>3, SupWalksCalm
<1>5. CASE DisconnectReturns(k)
  <2>1. /\ pc[k] = "awaiting" /\ pc[awaited[k]] = "none" /\ pc' = [pc EXCEPT ![k] = "none"]
        /\ UNCHANGED <<state, stream, rpc, accepted, future, link>>
    BY <1>5 DEF DisconnectReturns
  <2>2. NoSupRuns /\ stream = None /\ state = "CLOSED"
    BY <2>1, TcpAssumption
    DEF ControlInv, TaskInv, NoSupRuns, CalmInv, ClosedInv, Disconnecting
  <2>3. LinkKept /\ FutureKept
    BY <2>1, <2>2, NoneUndone, SameLinks DEF CalmInv
  <2>4. QED
    BY <2>1, <2>2, <2>3, ClientCalm DEF Disconnecting
<1>6. QED
  BY <1>1, <1>2, <1>3, <1>4, <1>5 DEF ClientNext

LEMMA ConnectPublishesCalm ==
    ASSUME TypeOK, ConnectsAlone, ControlInv, CalmInv, NEW k \in Clients, NEW c \in Conns,
           pc[k] = "opening", Publish(k, c), LinkKept, FutureKept
    PROVE  CalmInv'
<1>1. PICK t \in Sups : pc' = [pc EXCEPT ![k] = "none", ![t] = "start"]
  BY TcpAssumption DEF Publish
<1>2. state' = "CONNECTED" /\ stream' = c /\ c # None
  BY TcpAssumption DEF Publish
<1>3. /\ \A l \in Clients : pc'[l] = "none"
      /\ \A s \in Sups : pc'[s] \in {"none", "start"}
      /\ pc'[t] = "start"
  <2>1. \A l \in Clients \ {k} : pc[l] = "none"
    BY OthersIdle
  <2>2. QED
    BY <1>1, <2>1, TcpAssumption DEF ControlInv, TaskInv, TypeOK, TaskTypeOK, Tasks
<1>4. ClosedInv'
  BY <1>3 DEF ClosedInv, Tasks, Disconnecting
<1>5. ReaderInv'
  BY <1>3 DEF ReaderInv, LinkKept, Holding
<1>6. FutureInv'
  BY DEF CalmInv, FutureInv, FutureKept
<1>7. LeftInv'
  BY <1>2 DEF LeftInv
<1>8. QED
  BY <1>4, <1>5, <1>6, <1>7 DEF CalmInv

LEMMA ClientStreamCalm ==
    ASSUME TypeOK, ConnectsAlone, ControlInv, CalmInv, NEW k \in Clients, StreamNext(k)
    PROVE  CalmInv'
<1> USE DEF baseVars, rpcVars, netVars
<1>0. k \in Tasks /\ k \notin Sups
  BY TcpAssumption DEF Tasks
<1>1. ASSUME NEW c \in Conns, OpenSucceeds(k, c)
      PROVE  CalmInv'
  <2>0. pc[k] = "opening" /\ LockFree /\ stream = None /\ state # "CONNECTED"
    BY <1>0, <1>1, OpensAlone DEF OpenSucceeds
  <2>1. /\ Publish(k, c) /\ link' = [link EXCEPT ![c] = "up"] /\ stream' = c
        /\ UNCHANGED <<rpc, accepted, future>>
    BY <1>1, <2>0 DEF OpenSucceeds, Publish
  <2>2. LinkKept /\ FutureKept
    BY <2>0, <2>1, OpenedUp, NoneUndone DEF CalmInv
  <2>3. QED
    BY <2>0, <2>1, <2>2, ConnectPublishesCalm
<1>2. CASE PublishGranted(k)
  BY <1>0, <1>2 DEF PublishGranted, CalmInv, ClosedInv
<1>3. CASE OpenFails(k)
  <2>1. /\ pc[k] = "opening" /\ pc' = [pc EXCEPT ![k] = "none"] /\ state' = "DISCONNECTED"
        /\ UNCHANGED <<stream, rpc, accepted, future, link>>
    BY <1>0, <1>3 DEF OpenFails
  <2>2. stream = None /\ state # "CONNECTED"
    BY <1>0, <2>1, OpensAlone
  <2>3. LinkKept /\ FutureKept
    BY <2>1, <2>2, NoneUndone, SameLinks DEF CalmInv
  <2>4. \A l \in Clients \ {k} : pc[l] = "none"
    BY <2>1, OthersIdle
  <2>5. QED
    BY <2>1, <2>2, <2>3, <2>4, ClientCalm DEF Disconnecting
<1>4. CASE TeardownGranted(k)
  <2>1. /\ pc[k] = "teardown" /\ Granted(k) /\ TakeStream(k)
        /\ UNCHANGED <<state, rpc, accepted, future>>
    BY <1>4 DEF TeardownGranted
  <2>2. state = "CLOSED"
    BY <2>1 DEF CalmInv, ClosedInv, Disconnecting
  <2>3. LinkKept /\ FutureKept /\ stream' = None
    BY <1>0, <2>1, <2>2, TakenClosed, NoneUndone DEF CalmInv
  <2>4. PICK v \in {"closing", "none", "awaiting"} :
            pc' = [pc EXCEPT ![k] = v] /\ (v = "none" => NoSupRuns)
    BY <2>1, ClientTakes DEF ControlInv
  <2>5. QED
    BY <2>1, <2>2, <2>3, <2>4, ClientCalm
<1>5. CASE WaitClosed(k)
  <2>1. /\ pc[k] = "closing" /\ AfterTeardown(k)
        /\ UNCHANGED <<state, stream, rpc, accepted, future, link>>
    BY <1>5 DEF WaitClosed
  <2>2. state = "CLOSED" /\ stream = None
    BY <2>1 DEF CalmInv, ClosedInv, Disconnecting
  <2>3. LinkKept /\ FutureKept
    BY <2>1, <2>2, NoneUndone, SameLinks DEF CalmInv
  <2>4. PICK v \in {"closing", "none", "awaiting"} :
            pc' = [pc EXCEPT ![k] = v] /\ (v = "none" => NoSupRuns)
    BY <2>1, ClientTakes DEF ControlInv
  <2>5. QED
    BY <2>1, <2>2, <2>3, <2>4, ClientCalm
<1>6. QED
  BY <1>1, <1>2, <1>3, <1>4, <1>5 DEF StreamNext

-----------------------------------------------------------------------------
(***************************************************************************)
(* The steps of a call and of the environment.                             *)
(***************************************************************************)
LEMMA SameCalm ==
    ASSUME CalmInv, UNCHANGED ctlVars, FutureInv',
           \A c \in Conns : link'[c] = "up" => link[c] = "up"
    PROVE  CalmInv'
<1>1. UNCHANGED <<state, stream, pc, conn>>
  BY DEF ctlVars
<1>2. QED
  BY <1>1 DEF CalmInv, ClosedInv, ReaderInv, LeftInv, NoSupRuns

LEMMA CallCalm ==
    ASSUME TypeOK, ControlInv, CalmInv, NEW r \in Reqs, RequestNext(r)
    PROVE  CalmInv'
<1> USE DEF baseVars, netVars
<1>0. /\ future[r] = "undone" => rpc[r] \in Outstanding
      /\ \A q \in Reqs : future[q] = "undone" =>
            rpc[q] \in Outstanding /\ state = "CONNECTED" /\ accepted[q] = stream
  BY DEF CalmInv, FutureInv
<1>e. ASSUME NEW o, EndRequest(r, o)
      PROVE  FutureInv' /\ UNCHANGED ctlVars /\ UNCHANGED link
  <2>1. /\ UNCHANGED <<ctlVars, accepted, link>>
        /\ \A q \in Reqs : q # r => rpc'[q] = rpc[q] /\ future'[q] = future[q]
        /\ future'[r] = "none"
    BY <1>e DEF EndRequest, UnsubscribeRequest, TypeOK, BaseTypeOK, CallTypeOK
  <2>2. QED
    BY <1>0, <2>1 DEF FutureInv, ctlVars
<1>k. ASSUME NEW v \in Outstanding, rpc' = [rpc EXCEPT ![r] = v],
             UNCHANGED <<ctlVars, future, accepted>>
      PROVE  FutureInv'
  <2>1. UNCHANGED <<state, stream>> /\ rpc'[r] = v /\ \A q \in Reqs : q # r => rpc'[q] = rpc[q]
    BY <1>k DEF ctlVars, TypeOK, CallTypeOK
  <2>2. QED
    BY <1>0, <1>k, <2>1 DEF FutureInv
<1>1. CASE Request(r)
  <2>0. UNCHANGED ctlVars /\ UNCHANGED link
    BY <1>1 DEF Request
  <2>1. CASE rpc' = [rpc EXCEPT ![r] = "rejected"] /\ UNCHANGED <<future, accepted>>
    <3>1. \A q \in Reqs : q # r => rpc'[q] = rpc[q]
      BY <2>1 DEF TypeOK, CallTypeOK
    <3>2. future[r] # "undone"
      BY <1>0, <1>1 DEF Request, Outstanding
    <3>3. FutureInv'
      BY <1>0, <2>0, <2>1, <3>1, <3>2 DEF FutureInv, ctlVars
    <3>4. QED
      BY <2>0, <3>3, SameCalm
  <2>2. CASE /\ state = "CONNECTED" /\ SubscribeRequest(r)
             /\ accepted' = [accepted EXCEPT ![r] = stream]
             /\ WriteAndDrain(r) \/ rpc' = [rpc EXCEPT ![r] = "queued"]
    <3>1. PICK v \in Outstanding : rpc' = [rpc EXCEPT ![r] = v]
      BY <2>2 DEF WriteAndDrain, Outstanding
    <3>2. /\ rpc'[r] \in Outstanding /\ accepted'[r] = stream
          /\ \A q \in Reqs : q # r => /\ rpc'[q] = rpc[q] /\ accepted'[q] = accepted[q]
                                      /\ future'[q] = future[q]
      BY <2>2, <3>1 DEF SubscribeRequest, TypeOK, BaseTypeOK, CallTypeOK
    <3>3. FutureInv'
      BY <1>0, <2>0, <2>2, <3>2 DEF FutureInv, ctlVars
    <3>4. QED
      BY <2>0, <3>3, SameCalm
  <2>3. QED
    BY <1>1, <2>1, <2>2 DEF Request
<1>2. CASE RequestGranted(r)
  <2>1. UNCHANGED <<ctlVars, accepted, link>> /\ stream # None
    BY <1>2 DEF RequestGranted, ControlInv, StreamInv
  <2>2. WriteAndDrain(r) /\ UNCHANGED future
    BY <1>2, <2>1 DEF RequestGranted
  <2>3. PICK v \in Outstanding : rpc' = [rpc EXCEPT ![r] = v]
    BY <2>2 DEF WriteAndDrain, Outstanding
  <2>4. QED
    BY <1>k, <2>1, <2>2, <2>3, SameCalm
<1>3. CASE DrainReturns(r)
  <2>1. /\ "waiting" \in Outstanding /\ rpc' = [rpc EXCEPT ![r] = "waiting"]
        /\ UNCHANGED <<ctlVars, future, accepted, link>>
    BY <1>3 DEF DrainReturns, Outstanding
  <2>2. QED
    BY <1>k, <2>1, SameCalm
<1>4. CASE EndRequest(r, "error") \/ EndRequest(r, "ok")
  BY <1>e, <1>4, SameCalm
<1>5. QED
  BY <1>1, <1>2, <1>3, <1>4
  DEF RequestNext, DrainRaises, FutureDone, RequestTimeout, RequestCancelled

LEMMA NetCalm ==
    ASSUME TypeOK, CalmInv, NEW c \in Conns, NetNext(c)
    PROVE  CalmInv'
<1>1. UNCHANGED <<ctlVars, rpcVars, baseVars>>
  BY DEF NetNext, PlcExecutes, ConnectionDrops
<1>2. FutureInv'
  BY <1>1 DEF CalmInv, FutureInv, ctlVars, rpcVars, baseVars
<1>3. \A d \in Conns : link'[d] = "up" => link[d] = "up"
  BY DEF NetNext, PlcExecutes, ConnectionDrops, TypeOK, NetTypeOK
<1>4. QED
  BY <1>1, <1>2, <1>3, SameCalm

LEMMA CalmStep ==
    ASSUME TypeOK, ConnectsAlone, ConnectsAlone', QuietClose, RegisteredWhileOutstanding, ControlInv, CalmInv,
           [Next]_vars
    PROVE  CalmInv'
<1>1. CASE UNCHANGED vars
  BY <1>1 DEF vars, ctlVars, baseVars, rpcVars, netVars, CalmInv, ClosedInv, ReaderInv,
              FutureInv, LeftInv, NoSupRuns
<1>2. CASE \E p \in Tasks : StreamNext(p)
  BY <1>2, SupStreamCalm, ClientStreamCalm DEF Tasks
<1>3. QED
  BY <1>1, <1>2, SupNextCalm, ClientNextCalm, CallCalm, NetCalm DEF Next

(***************************************************************************)
(* With clients that connect alone and do not disconnect during a          *)
(* reconnect CalmInv holds always.                                         *)
(***************************************************************************)
THEOREM CalmInvariant == AloneSpec => [](QuietClose => CalmInv)
<1>1. Init => CalmInv
  <2> SUFFICES ASSUME Init PROVE CalmInv
    OBVIOUS
  <2>1. /\ state = "DISCONNECTED" /\ stream = None
        /\ \A p \in Tasks : pc[p] = "none"
        /\ \A r \in Reqs : future[r] = "none"
        /\ \A c \in Conns : link[c] = "closed"
    BY DEF Init, BaseInit
  <2>2. QED
    BY <2>1 DEF CalmInv, ClosedInv, ReaderInv, FutureInv, LeftInv, Tasks, Disconnecting
<1>2. /\ TypeOK /\ RegisteredWhileOutstanding /\ ConnectsAlone /\ ControlInv
      /\ (QuietClose => CalmInv) /\ [Next /\ ConnectsAlone']_vars
      => (QuietClose => CalmInv)'
  <2>1. [Next /\ ConnectsAlone']_vars /\ ConnectsAlone => [Next]_vars /\ ConnectsAlone'
    BY DEF ConnectsAlone, vars, ctlVars
  <2>2. QED
    BY <2>1, CalmStep
<1>3. QED
  BY <1>1, <1>2, AloneIsSpec, TypeCorrect, RegistrationExact, ControlInvariant, PTL
  DEF AloneSpec

-----------------------------------------------------------------------------
(***************************************************************************)
(* At most one connection is open: the peer never sees a second one from   *)
(* the same address (transport.py:202).                                    *)
(***************************************************************************)
THEOREM OneConnectionOpen == AloneSpec => [](QuietClose => SingleConnection)
<1>1. CalmInv => SingleConnection
  <2> SUFFICES ASSUME CalmInv PROVE SingleConnection
    OBVIOUS
  <2>1. \A c, d \in {e \in Conns : link[e] = "up"} : c = d
    BY DEF CalmInv, ReaderInv
  <2>2. QED
    BY <2>1, AtMostOne DEF SingleConnection
<1>2. QED
  BY <1>1, CalmInvariant, PTL

(***************************************************************************)
(* A call that waits for its answer waits on the current stream, and a     *)
(* supervisor reads that stream or is about to (transport.py:404, 433).    *)
(***************************************************************************)
THEOREM CallsAreRead == AloneSpec => [](QuietClose => NoOrphanedRequest)
<1>1. ControlInv /\ CalmInv => NoOrphanedRequest
  BY DEF ControlInv, StreamInv, WrittenWhereAccepted, CalmInv, ReaderInv, FutureInv,
         NoOrphanedRequest
<1>2. QED
  BY <1>1, ControlInvariant, CalmInvariant, PTL

(***************************************************************************)
(* disconnect() leaves no stream, supervisor, open connection or call that *)
(* is still to be failed (transport.py:288-299).                           *)
(***************************************************************************)
THEOREM NothingLeft == AloneSpec => [](QuietClose => DisconnectLeavesNothing)
<1>1. CalmInv => DisconnectLeavesNothing
  BY TcpAssumption
  DEF CalmInv, ReaderInv, FutureInv, LeftInv, NoSupRuns, DisconnectLeavesNothing
<1>2. QED
  BY <1>1, CalmInvariant, PTL

(***************************************************************************)
(* Only connect() leaves CLOSED: no supervisor reconnects after            *)
(* disconnect() (transport.py:83-84).                                      *)
(***************************************************************************)
THEOREM ClosedUntilConnect == QuietClose /\ AloneSpec => ClosedStaysClosed
<1>1. TypeOK /\ CalmInv /\ [Next]_vars
      => [state = "CLOSED" => state' \in {"CLOSED", "CONNECTING"}]_vars
  <2> SUFFICES ASSUME TypeOK, CalmInv, Next, state = "CLOSED"
               PROVE  state' \in {"CLOSED", "CONNECTING"}
    OBVIOUS
  <2>1. \A p \in Tasks : pc[p] \notin {"opening", "publish"}
    BY DEF CalmInv, ClosedInv
  <2>2. CASE \E p \in Tasks : StreamNext(p)
    BY <2>1, <2>2
    DEF StreamNext, OpenSucceeds, PublishGranted, OpenFails, TeardownGranted, WaitClosed
  <2>3. CASE \E k \in Clients : ClientNext(k)
    BY <2>3
    DEF ClientNext, Connect, ConnectCancelled, Disconnect, CancelSupervisor, DisconnectReturns
  <2>4. CASE \E s \in Sups : SupNext(s)
    BY <2>4
    DEF SupNext, SuperviseStarts, SleepEnds, ReadResponse, ReadNotification, CallbackReturns,
        ReadFails, FrameRejected, CallbackRaises, ConnectionLost, ctlVars
  <2>5. CASE \E r \in Reqs : RequestNext(r)
    BY <2>5
    DEF RequestNext, Request, RequestGranted, DrainReturns, DrainRaises, FutureDone,
        RequestTimeout, RequestCancelled, EndRequest, ctlVars
  <2>6. CASE \E c \in Conns : NetNext(c)
    BY <2>6 DEF NetNext, PlcExecutes, ConnectionDrops, ctlVars
  <2>7. QED
    BY <2>2, <2>3, <2>4, <2>5, <2>6 DEF Next
<1>2. QuietClose => QuietClose'
  OBVIOUS
<1>3. QED
  BY <1>1, <1>2, AloneIsSpec, TypeCorrect, CalmInvariant, PTL DEF Spec, ClosedStaysClosed
=============================================================================
