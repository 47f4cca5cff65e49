------------------------ MODULE AdsTcpTransportProofs ------------------------
(***************************************************************************)
(* Theorems about AdsTcpTransport, for any number of clients, calls,       *)
(* supervisors and connections and any range of invoke ids.                *)
(***************************************************************************)
EXTENDS AdsTcpTransport, SequenceTheorems, TLAPS

-----------------------------------------------------------------------------
(***************************************************************************)
(* Every operation keeps the types: the counter wraps, the table and the   *)
(* futures are updated at calls and ids.                                   *)
(***************************************************************************)
LEMMA BaseStepType ==
    ASSUME BaseTypeOK, NEW r \in Reqs, NEW b \in BOOLEAN,
           \/ SubscribeRequest(r)
           \/ UnsubscribeRequest(r, b)
           \/ HandleResponse(r)
           \/ CancelPendingRequests
           \/ UNCHANGED baseVars
    PROVE  BaseTypeOK'
<1> USE BaseAssumption DEF BaseTypeOK, Ids, FutureStates
<1>1. CASE SubscribeRequest(r)
  BY <1>1 DEF SubscribeRequest, NextInvokeId
<1>2. CASE UnsubscribeRequest(r, b)
  BY <1>2 DEF UnsubscribeRequest
<1>3. CASE HandleResponse(r)
  BY <1>3 DEF HandleResponse
<1>4. CASE CancelPendingRequests
  BY <1>4 DEF CancelPendingRequests
<1>5. CASE UNCHANGED baseVars
  BY <1>5 DEF baseVars
<1>6. QED
  BY <1>1, <1>2, <1>3, <1>4, <1>5

-----------------------------------------------------------------------------
(***************************************************************************)
(* Type correctness.  The lemmas are about the operators the actions       *)
(* share; each is stated for the variables its operator assigns.           *)
(***************************************************************************)
LEMMA DequeueType ==
    ASSUME lockq \in Seq(Tasks \cup Reqs), NEW x, Dequeue(x)
    PROVE  lockq' \in Seq(Tasks \cup Reqs)
<1>1. CASE UNCHANGED lockq
  BY <1>1
<1>2. ASSUME NEW i \in 1..Len(lockq),
             lockq' = SubSeq(lockq, 1, i - 1) \o SubSeq(lockq, i + 1, Len(lockq))
      PROVE  lockq' \in Seq(Tasks \cup Reqs)
  <2>1. SubSeq(lockq, 1, i - 1) \in Seq(Tasks \cup Reqs)
    BY SubSeqProperties
  <2>2. SubSeq(lockq, i + 1, Len(lockq)) \in Seq(Tasks \cup Reqs)
    BY SubSeqProperties
  <2>3. QED
    BY <1>2, <2>1, <2>2, ConcatProperties
<1>3. QED
  BY <1>1, <1>2 DEF Dequeue

LEMMA LockType ==
    ASSUME lockq \in Seq(Tasks \cup Reqs), NEW x \in Tasks \cup Reqs,
           Granted(x) \/ Enqueue(x)
    PROVE  lockq' \in Seq(Tasks \cup Reqs)
BY DEF Granted, Enqueue

LEMMA MoveType ==
    ASSUME TaskTypeOK, NEW p \in Tasks, NEW v,
           p \in Clients => v \in ClientPCs,
           p \in Sups => v \in SupPCs,
           pc' = [pc EXCEPT ![p] = v],
           UNCHANGED <<task, awaited>>
    PROVE  TaskTypeOK'
BY DEF TaskTypeOK, Tasks

LEMMA AfterTeardownType ==
    ASSUME TaskTypeOK, NEW p \in Tasks, AfterTeardown(p)
    PROVE  TaskTypeOK'
<1> USE TcpAssumption DEF TaskTypeOK, Tasks, ClientPCs, SupPCs
<1>1. CASE p \in Sups
  BY <1>1 DEF AfterTeardown
<1>2. CASE p \in Clients
  BY <1>2 DEF AfterTeardown, SupervisorRuns, ForgetSupervisor
<1>3. QED
  BY <1>1, <1>2

LEMMA TeardownType ==
    ASSUME TypeOK, state' \in States, NEW p \in Tasks, TeardownStream(p)
    PROVE  /\ BaseTypeOK'
           /\ StreamTypeOK'
           /\ TaskTypeOK'
           /\ link' \in [Conns -> {"up", "down", "closed"}]
<1> USE TcpAssumption DEF TypeOK, TeardownStream
<1>1. BaseTypeOK'
  BY BaseAssumption DEF BaseTypeOK, CancelPendingRequests, Ids, FutureStates
<1>2. CASE LockFree /\ TakeStream(p) /\ UNCHANGED lockq
  <2>1. StreamTypeOK' /\ link' \in [Conns -> {"up", "down", "closed"}]
    BY <1>2 DEF StreamTypeOK, TakeStream, NetTypeOK
  <2>2. CASE AfterTeardown(p)
    BY <1>1, <2>1, <2>2, AfterTeardownType
  <2>3. CASE pc' = [pc EXCEPT ![p] = "closing"] /\ UNCHANGED <<task, awaited>>
    <3>1. TaskTypeOK'
      BY <2>3 DEF TaskTypeOK, ClientPCs, SupPCs, Tasks
    <3>2. QED
      BY <1>1, <2>1, <3>1
  <2>4. QED
    BY <1>2, <2>2, <2>3 DEF TakeStream
<1>3. CASE /\ Enqueue(p)
           /\ pc' = [pc EXCEPT ![p] = "teardown"]
           /\ UNCHANGED <<stream, link, task, awaited>>
  <2>1. StreamTypeOK'
    BY <1>3, LockType DEF StreamTypeOK
  <2>2. TaskTypeOK'
    BY <1>3 DEF TaskTypeOK, ClientPCs, SupPCs, Tasks
  <2>3. QED
    BY <1>1, <1>3, <2>1, <2>2 DEF NetTypeOK
<1>4. QED
  BY <1>2, <1>3

LEMMA ConnectionLostType ==
    ASSUME TypeOK, NEW s \in Sups, ConnectionLost(s)
    PROVE  TypeOK'
<1>1. s \in Tasks
  BY DEF Tasks
<1>2. CASE state = "CLOSED"
  <2>1. /\ pc' = [pc EXCEPT ![s] = "none"]
        /\ conn' = [conn EXCEPT ![s] = None]
        /\ UNCHANGED <<baseVars, state, stream, task, awaited, lockq, rpcVars, netVars>>
    BY <1>2 DEF ConnectionLost
  <2>2. TaskTypeOK'
    BY <1>1, <2>1, MoveType, TcpAssumption DEF TypeOK, ClientPCs, SupPCs
  <2>3. StreamTypeOK'
    BY <2>1 DEF TypeOK, StreamTypeOK
  <2>4. BaseTypeOK' /\ CallTypeOK' /\ NetTypeOK'
    BY <2>1 DEF TypeOK, BaseTypeOK, baseVars, CallTypeOK, rpcVars, NetTypeOK, netVars
  <2>5. QED
    BY <2>2, <2>3, <2>4 DEF TypeOK
<1>3. CASE state # "CLOSED"
  <2>1. state' \in States /\ TeardownStream(s)
    BY <1>3 DEF ConnectionLost, States
  <2>2. CallTypeOK' /\ UNCHANGED <<sent, inbox, executed>>
    BY <1>3 DEF ConnectionLost, TypeOK, CallTypeOK, rpcVars
  <2>3. QED
    BY <1>1, <2>1, <2>2, TeardownType DEF TypeOK, NetTypeOK
<1>4. QED
  BY <1>2, <1>3

(***************************************************************************)
(* A step that moves one task and leaves calls and network alone.          *)
(***************************************************************************)
LEMMA MoveOnlyType ==
    ASSUME TypeOK, NEW p \in Tasks, NEW v,
           p \in Clients => v \in ClientPCs,
           p \in Sups => v \in SupPCs,
           pc' = [pc EXCEPT ![p] = v],
           state' \in States,
           conn' \in [Tasks -> Conns \cup {None}],
           lockq' \in Seq(Tasks \cup Reqs),
           UNCHANGED <<baseVars, stream, task, awaited, rpcVars, netVars>>
    PROVE  TypeOK'
<1>1. TaskTypeOK'
  BY MoveType DEF TypeOK
<1>2. StreamTypeOK'
  BY DEF TypeOK, StreamTypeOK
<1>3. BaseTypeOK' /\ CallTypeOK' /\ NetTypeOK'
  BY DEF TypeOK, BaseTypeOK, baseVars, CallTypeOK, rpcVars, NetTypeOK, netVars
<1>4. QED
  BY <1>1, <1>2, <1>3 DEF TypeOK

LEMMA ClientType ==
    ASSUME TypeOK, NEW k \in Clients, ClientNext(k)
    PROVE  TypeOK'
<1> USE TcpAssumption DEF Tasks, ClientPCs, SupPCs, States
<1>0. k \in Tasks /\ k \notin Sups
  OBVIOUS
<1>1. CASE Connect(k)
  BY <1>0, <1>1, MoveOnlyType DEF Connect, TypeOK, StreamTypeOK
<1>2. CASE ConnectCancelled(k)
  BY <1>0, <1>2, MoveOnlyType, DequeueType DEF ConnectCancelled, TypeOK, StreamTypeOK
<1>3. CASE Disconnect(k)
  <2>1. state' \in States /\ TeardownStream(k) /\ UNCHANGED <<rpcVars, sent, inbox, executed>>
    BY <1>3 DEF Disconnect
  <2>2. CallTypeOK' /\ UNCHANGED <<sent, inbox, executed>>
    BY <2>1 DEF TypeOK, CallTypeOK, rpcVars
  <2>3. QED
    BY <1>0, <2>1, <2>2, TeardownType DEF TypeOK, NetTypeOK
<1>4. CASE CancelSupervisor(k)
  <2>1. awaited[k] \in Sups \cup {None}
    BY DEF TypeOK, TaskTypeOK
  <2>2. /\ pc' = [pc EXCEPT ![awaited[k]] = "none"]
        /\ conn' = [conn EXCEPT ![awaited[k]] = None]
        /\ Dequeue(awaited[k])
        /\ UNCHANGED <<baseVars, state, stream, task, awaited, rpcVars, netVars>>
    BY <1>4 DEF CancelSupervisor
  <2>3. TaskTypeOK'
    BY <2>1, <2>2 DEF TypeOK, TaskTypeOK
  <2>4. StreamTypeOK'
    BY <2>1, <2>2, DequeueType DEF TypeOK, StreamTypeOK
  <2>5. BaseTypeOK' /\ CallTypeOK' /\ NetTypeOK'
    BY <2>2 DEF TypeOK, BaseTypeOK, baseVars, CallTypeOK, rpcVars, NetTypeOK, netVars
  <2>6. QED
    BY <2>3, <2>4, <2>5 DEF TypeOK
<1>5. CASE DisconnectReturns(k)
  <2>1. TaskTypeOK'
    BY <1>0, <1>5 DEF DisconnectReturns, ForgetSupervisor, TypeOK, TaskTypeOK
  <2>2. QED
    BY <1>5, <2>1 DEF DisconnectReturns, TypeOK, StreamTypeOK, BaseTypeOK, baseVars,
                      CallTypeOK, rpcVars, NetTypeOK, netVars
<1>6. QED
  BY <1>1, <1>2, <1>3, <1>4, <1>5 DEF ClientNext

LEMMA PublishType ==
    ASSUME TypeOK, NEW p \in Tasks, NEW c \in Conns \cup {None}, Publish(p, c)
    PROVE  /\ TaskTypeOK'
           /\ state' \in States
           /\ stream' \in Conns \cup {None}
           /\ conn' \in [Tasks -> Conns \cup {None}]
<1> USE TcpAssumption DEF TypeOK, Publish, Tasks, ClientPCs, SupPCs, States
<1>1. CASE p \in Sups
  <2>1. pc' = [pc EXCEPT ![p] = "read"] /\ UNCHANGED <<task, awaited>>
    BY <1>1
  <2>2. TaskTypeOK'
    BY <1>1, <2>1, MoveType
  <2>3. QED
    BY <1>1, <2>2 DEF StreamTypeOK
<1>2. CASE p \in Clients
  <2>1. PICK s \in Sups : task' = s /\ pc' = [pc EXCEPT ![p] = "none", ![s] = "start"]
    BY <1>2
  <2>2. TaskTypeOK'
    BY <1>2, <2>1 DEF TaskTypeOK
  <2>3. QED
    BY <1>2, <2>2 DEF StreamTypeOK
<1>3. QED
  BY <1>1, <1>2

LEMMA StreamType ==
    ASSUME TypeOK, NEW p \in Tasks, StreamNext(p)
    PROVE  TypeOK'
<1>1. CASE \E c \in Conns : OpenSucceeds(p, c)
  <2>1. PICK c \in Conns : OpenSucceeds(p, c)
    BY <1>1
  <2>2. NetTypeOK' /\ BaseTypeOK' /\ CallTypeOK'
    BY <2>1 DEF OpenSucceeds, TypeOK, NetTypeOK, BaseTypeOK, baseVars, CallTypeOK, rpcVars
  <2>3. CASE Publish(p, c) /\ UNCHANGED lockq
    <3>1. StreamTypeOK' /\ TaskTypeOK'
      BY <2>3, PublishType DEF TypeOK, StreamTypeOK
    <3>2. QED
      BY <2>2, <3>1 DEF TypeOK
  <2>4. CASE /\ Enqueue(p)
             /\ pc' = [pc EXCEPT ![p] = "publish"]
             /\ conn' = [conn EXCEPT ![p] = c]
             /\ UNCHANGED <<state, stream, task, awaited>>
    <3>1. TaskTypeOK'
      BY <2>4, MoveType DEF TypeOK, ClientPCs, SupPCs
    <3>2. StreamTypeOK'
      BY <2>4, LockType DEF TypeOK, StreamTypeOK
    <3>3. QED
      BY <2>2, <3>1, <3>2 DEF TypeOK
  <2>5. QED
    BY <2>1, <2>3, <2>4 DEF OpenSucceeds
<1>2. CASE PublishGranted(p)
  <2>1. conn[p] \in Conns \cup {None}
    BY DEF TypeOK, StreamTypeOK
  <2>2. /\ Granted(p)
        /\ Publish(p, conn[p])
        /\ UNCHANGED <<baseVars, rpcVars, netVars>>
    BY <1>2 DEF PublishGranted
  <2>3. StreamTypeOK' /\ TaskTypeOK'
    BY <2>1, <2>2, PublishType, LockType DEF TypeOK, StreamTypeOK
  <2>4. BaseTypeOK' /\ CallTypeOK' /\ NetTypeOK'
    BY <2>2 DEF TypeOK, BaseTypeOK, baseVars, CallTypeOK, rpcVars, NetTypeOK, netVars
  <2>5. QED
    BY <2>3, <2>4 DEF TypeOK
<1>3. CASE OpenFails(p)
  <2>1. CASE p \in Sups
    BY <1>3, <2>1, MoveOnlyType, TcpAssumption
    DEF OpenFails, TypeOK, StreamTypeOK, ClientPCs, SupPCs
  <2>2. CASE p \notin Sups
    BY <1>3, <2>2, MoveOnlyType
    DEF OpenFails, TypeOK, StreamTypeOK, ClientPCs, States
  <2>3. QED
    BY <2>1, <2>2
<1>4. CASE TeardownGranted(p)
  <2>1. /\ Granted(p)
        /\ UNCHANGED <<baseVars, state, conn, rpcVars, sent, inbox, executed>>
        /\ TakeStream(p)
    BY <1>4 DEF TeardownGranted
  <2>2. StreamTypeOK' /\ NetTypeOK'
    BY <2>1, LockType DEF TypeOK, StreamTypeOK, NetTypeOK, TakeStream
  <2>3. BaseTypeOK' /\ CallTypeOK'
    BY <2>1 DEF TypeOK, BaseTypeOK, baseVars, CallTypeOK, rpcVars
  <2>4. CASE AfterTeardown(p)
    BY <2>2, <2>3, <2>4, AfterTeardownType DEF TypeOK
  <2>5. CASE pc' = [pc EXCEPT ![p] = "closing"] /\ UNCHANGED <<task, awaited>>
    BY <2>2, <2>3, <2>5, MoveType DEF TypeOK, ClientPCs, SupPCs
  <2>6. QED
    BY <2>1, <2>4, <2>5 DEF TakeStream
<1>5. CASE WaitClosed(p)
  <2>1. TaskTypeOK'
    BY <1>5, AfterTeardownType DEF WaitClosed, TypeOK
  <2>2. QED
    BY <1>5, <2>1 DEF WaitClosed, TypeOK, StreamTypeOK, BaseTypeOK, baseVars,
                      CallTypeOK, rpcVars, NetTypeOK, netVars
<1>6. QED
  BY <1>1, <1>2, <1>3, <1>4, <1>5 DEF StreamNext

LEMMA SupType ==
    ASSUME TypeOK, NEW s \in Sups, SupNext(s)
    PROVE  TypeOK'
<1> USE TcpAssumption
<1>0. s \in Tasks /\ s \notin Clients
  BY DEF Tasks
<1>1. CASE SuperviseStarts(s)
  <2>1. CASE ConnectionLost(s)
    BY <2>1, ConnectionLostType
  <2>2. CASE ~(state = "CLOSED" \/ stream = None \/ ReaderBusy(s, stream))
    BY <1>0, <1>1, <2>2, MoveOnlyType
    DEF SuperviseStarts, TypeOK, StreamTypeOK, SupPCs
  <2>3. QED
    BY <1>1, <2>1, <2>2 DEF SuperviseStarts
<1>2. CASE SleepEnds(s)
  BY <1>0, <1>2, MoveOnlyType DEF SleepEnds, TypeOK, StreamTypeOK, SupPCs
<1>3. CASE \E m \in Reqs : ReadResponse(s, m)
  <2>1. PICK m \in Reqs : ReadResponse(s, m)
    BY <1>3
  <2>2. BaseTypeOK'
    BY <2>1, BaseStepType DEF ReadResponse, TypeOK
  <2>3. NetTypeOK'
    BY <2>1 DEF ReadResponse, TypeOK, NetTypeOK
  <2>4. StreamTypeOK' /\ TaskTypeOK' /\ CallTypeOK'
    BY <2>1 DEF ReadResponse, TypeOK, StreamTypeOK, TaskTypeOK, ctlVars, CallTypeOK, rpcVars
  <2>5. QED
    BY <2>2, <2>3, <2>4 DEF TypeOK
<1>4. CASE ReadNotification(s)
  BY <1>0, <1>4, MoveOnlyType DEF ReadNotification, TypeOK, StreamTypeOK, SupPCs
<1>5. CASE CallbackReturns(s)
  <2>1. CASE ConnectionLost(s)
    BY <2>1, ConnectionLostType
  <2>2. CASE ~ReaderBusy(s, conn[s])
    BY <1>0, <1>5, <2>2, MoveOnlyType
    DEF CallbackReturns, TypeOK, StreamTypeOK, SupPCs
  <2>3. QED
    BY <1>5, <2>1, <2>2 DEF CallbackReturns
<1>6. CASE ReadFails(s) \/ FrameRejected(s) \/ CallbackRaises(s)
  BY <1>6, ConnectionLostType DEF ReadFails, FrameRejected, CallbackRaises
<1>7. QED
  BY <1>1, <1>2, <1>3, <1>4, <1>5, <1>6 DEF SupNext

LEMMA WriteAndDrainType ==
    ASSUME TypeOK, NEW r \in Reqs, WriteAndDrain(r), UNCHANGED <<link, inbox, executed>>,
           accepted' \in [Reqs -> Conns \cup {None}]
    PROVE  CallTypeOK' /\ NetTypeOK'
<1>1. CallTypeOK'
  BY DEF WriteAndDrain, TypeOK, StreamTypeOK, CallTypeOK, Outstanding
<1>2. NetTypeOK'
  BY DEF WriteAndDrain, TypeOK, NetTypeOK
<1>3. QED
  BY <1>1, <1>2

LEMMA RequestType ==
    ASSUME TypeOK, NEW r \in Reqs, RequestNext(r)
    PROVE  TypeOK'
<1>0. ASSUME UNCHANGED ctlVars, lockq' \in Seq(Tasks \cup Reqs)
      PROVE  StreamTypeOK' /\ TaskTypeOK'
  BY <1>0 DEF TypeOK, StreamTypeOK, TaskTypeOK, ctlVars
<1>1. ASSUME NEW o \in Ended, EndRequest(r, o)
      PROVE  BaseTypeOK' /\ CallTypeOK' /\ NetTypeOK' /\ UNCHANGED ctlVars
  <2>1. BaseTypeOK'
    BY <1>1, BaseStepType DEF EndRequest, TypeOK
  <2>2. QED
    BY <1>1, <2>1 DEF EndRequest, TypeOK, CallTypeOK, NetTypeOK, netVars
<1>2. CASE Request(r)
  <2>1. UNCHANGED ctlVars /\ lockq' \in Seq(Tasks \cup Reqs)
    BY <1>2, LockType DEF Request, TypeOK, StreamTypeOK
  <2>2. CASE /\ rpc' = [rpc EXCEPT ![r] = "rejected"]
             /\ nextId' \in {nextId, NextInvokeId(nextId)}
             /\ UNCHANGED <<pending, invoke, future, got, accepted, wrote, netVars>>
    <3>1. BaseTypeOK'
      BY <2>2, BaseAssumption DEF TypeOK, BaseTypeOK, NextInvokeId, Ids
    <3>2. CallTypeOK' /\ NetTypeOK'
      BY <2>2 DEF TypeOK, CallTypeOK, NetTypeOK, netVars, Ended
    <3>3. QED
      BY <1>0, <2>1, <3>1, <3>2 DEF TypeOK
  <2>3. CASE /\ SubscribeRequest(r)
             /\ accepted' = [accepted EXCEPT ![r] = stream]
             /\ UNCHANGED <<link, inbox, executed>>
             /\ \/ WriteAndDrain(r)
                \/ /\ rpc' = [rpc EXCEPT ![r] = "queued"]
                   /\ UNCHANGED <<wrote, sent>>
    <3>1. BaseTypeOK'
      BY <2>3, BaseStepType DEF TypeOK
    <3>2. accepted' \in [Reqs -> Conns \cup {None}]
      BY <2>3 DEF TypeOK, CallTypeOK, StreamTypeOK
    <3>3. CallTypeOK' /\ NetTypeOK'
      BY <2>3, <3>2, WriteAndDrainType DEF TypeOK, CallTypeOK, NetTypeOK, Outstanding
    <3>4. QED
      BY <1>0, <2>1, <3>1, <3>3 DEF TypeOK
  <2>4. QED
    BY <1>2, <2>2, <2>3 DEF Request, baseVars
<1>3. CASE RequestGranted(r)
  <2>1. UNCHANGED ctlVars /\ lockq' \in Seq(Tasks \cup Reqs)
    BY <1>3, LockType DEF RequestGranted, TypeOK, StreamTypeOK
  <2>2. BaseTypeOK'
    BY <1>3, BaseStepType DEF RequestGranted, TypeOK
  <2>3. CallTypeOK' /\ NetTypeOK'
    <3>1. CASE WriteAndDrain(r)
      BY <1>3, <3>1, WriteAndDrainType DEF RequestGranted, TypeOK, CallTypeOK
    <3>2. CASE rpc' = [rpc EXCEPT ![r] = "error"] /\ UNCHANGED <<wrote, sent>>
      BY <1>3, <3>2 DEF RequestGranted, TypeOK, CallTypeOK, NetTypeOK, Ended
    <3>3. QED
      BY <1>3, <3>1, <3>2 DEF RequestGranted
  <2>4. QED
    BY <1>0, <2>1, <2>2, <2>3 DEF TypeOK
<1>4. CASE DrainReturns(r)
  <2>1. CallTypeOK' /\ NetTypeOK' /\ BaseTypeOK'
    BY <1>4 DEF DrainReturns, TypeOK, CallTypeOK, NetTypeOK, netVars, BaseTypeOK,
                baseVars, Outstanding
  <2>2. QED
    BY <1>0, <1>4, <2>1 DEF DrainReturns, TypeOK, StreamTypeOK
<1>5. CASE DrainRaises(r) \/ FutureDone(r) \/ RequestTimeout(r)
  <2>1. PICK o \in Ended : EndRequest(r, o) /\ UNCHANGED lockq
    BY <1>5 DEF DrainRaises, FutureDone, RequestTimeout, Ended
  <2>2. QED
    BY <1>0, <1>1, <2>1 DEF TypeOK, StreamTypeOK
<1>6. CASE RequestCancelled(r)
  BY <1>0, <1>1, <1>6, DequeueType DEF RequestCancelled, TypeOK, StreamTypeOK, Ended
<1>7. QED
  BY <1>2, <1>3, <1>4, <1>5, <1>6 DEF RequestNext

LEMMA NetType ==
    ASSUME TypeOK, NEW c \in Conns, NetNext(c)
    PROVE  TypeOK'
<1>1. CASE \E r \in Reqs : PlcExecutes(c, r)
  BY <1>1 DEF PlcExecutes, TypeOK, NetTypeOK, BaseTypeOK, baseVars, StreamTypeOK,
              TaskTypeOK, ctlVars, CallTypeOK, rpcVars
<1>2. CASE ConnectionDrops(c)
  BY <1>2 DEF ConnectionDrops, TypeOK, NetTypeOK, BaseTypeOK, baseVars, StreamTypeOK,
              TaskTypeOK, ctlVars, CallTypeOK, rpcVars
<1>3. QED
  BY <1>1, <1>2 DEF NetNext

(***************************************************************************)
(* The variables keep their types; in particular the invoke id stays in    *)
(* the 32-bit range and the table of pending requests holds calls only.    *)
(***************************************************************************)
THEOREM TypeCorrect == Spec => []TypeOK
<1>1. Init => TypeOK
  BY BaseAssumption, TcpAssumption
  DEF Init, BaseInit, TypeOK, BaseTypeOK, Ids, FutureStates, StreamTypeOK, States,
      TaskTypeOK, Tasks, ClientPCs, SupPCs, CallTypeOK, NetTypeOK
<1>2. TypeOK /\ [Next]_vars => TypeOK'
  <2> SUFFICES ASSUME TypeOK, [Next]_vars
               PROVE  TypeOK'
    OBVIOUS
  <2>1. CASE Next
    BY <2>1, ClientType, StreamType, SupType, RequestType, NetType DEF Next
  <2>2. CASE UNCHANGED vars
    BY <2>2 DEF vars, TypeOK, BaseTypeOK, baseVars, StreamTypeOK, TaskTypeOK, ctlVars,
                CallTypeOK, rpcVars, NetTypeOK, netVars
  <2>3. QED
    BY <2>1, <2>2
<1>3. QED
  BY <1>1, <1>2, PTL DEF Spec

-----------------------------------------------------------------------------
(***************************************************************************)
(* A task that reads a connection, or waits to publish one, holds one.     *)
(***************************************************************************)
LEMMA TeardownHolds ==
    ASSUME TypeOK, HoldsConnection, NEW p \in Tasks, TeardownStream(p)
    PROVE  HoldsConnection'
<1>1. /\ conn' = [conn EXCEPT ![p] = None]
      /\ \E v \in {"teardown", "closing", "sleep", "none", "opening", "awaiting"} :
            pc' = [pc EXCEPT ![p] = v]
  BY DEF TeardownStream, TakeStream, AfterTeardown
<1>2. QED
  BY <1>1 DEF HoldsConnection, TypeOK, StreamTypeOK, TaskTypeOK

LEMMA LostHolds ==
    ASSUME TypeOK, HoldsConnection, NEW s \in Sups, ConnectionLost(s)
    PROVE  HoldsConnection'
BY TeardownHolds DEF ConnectionLost, HoldsConnection, TypeOK, StreamTypeOK, TaskTypeOK, Tasks

LEMMA ClientHolds ==
    ASSUME TypeOK, HoldsConnection, NEW k \in Clients, ClientNext(k)
    PROVE  HoldsConnection'
<1> USE DEF HoldsConnection, TypeOK, StreamTypeOK, TaskTypeOK
<1>0. k \in Tasks
  BY DEF Tasks
<1>1. CASE Disconnect(k)
  BY <1>0, <1>1, TeardownHolds DEF Disconnect
<1>2. CASE Connect(k)
  BY <1>0, <1>2 DEF Connect
<1>3. CASE ConnectCancelled(k)
  BY <1>0, <1>3 DEF ConnectCancelled
<1>4. CASE CancelSupervisor(k)
  BY <1>4 DEF CancelSupervisor
<1>5. CASE DisconnectReturns(k)
  BY <1>0, <1>5 DEF DisconnectReturns
<1>6. QED
  BY <1>1, <1>2, <1>3, <1>4, <1>5 DEF ClientNext

LEMMA PublishHolds ==
    ASSUME TypeOK, HoldsConnection, NEW p \in Tasks, NEW c \in Conns, Publish(p, c)
    PROVE  HoldsConnection'
<1> USE DEF HoldsConnection, TypeOK, StreamTypeOK, TaskTypeOK, Publish, Tasks
<1>1. CASE p \in Sups /\ pc' = [pc EXCEPT ![p] = "read"] /\ conn' = [conn EXCEPT ![p] = c]
  BY <1>1
<1>2. CASE /\ \E s \in Sups : FreeSup(s) /\ pc' = [pc EXCEPT ![p] = "none", ![s] = "start"]
           /\ conn' = [conn EXCEPT ![p] = None]
  BY <1>2
<1>3. QED
  BY <1>1, <1>2

LEMMA StreamHolds ==
    ASSUME TypeOK, HoldsConnection, NEW p \in Tasks, StreamNext(p)
    PROVE  HoldsConnection'
<1> USE DEF HoldsConnection, TypeOK, StreamTypeOK, TaskTypeOK
<1>1. CASE \E c \in Conns : OpenSucceeds(p, c)
  BY <1>1, PublishHolds DEF OpenSucceeds
<1>2. CASE PublishGranted(p)
  BY <1>2, PublishHolds DEF PublishGranted
<1>3. CASE OpenFails(p)
  BY <1>3 DEF OpenFails
<1>4. CASE TeardownGranted(p) \/ WaitClosed(p)
  <2>1. /\ conn' = conn
        /\ \E v \in {"closing", "sleep", "none", "opening", "awaiting"} :
              pc' = [pc EXCEPT ![p] = v]
    BY <1>4 DEF TeardownGranted, WaitClosed, TakeStream, AfterTeardown
  <2>2. QED
    BY <2>1
<1>5. QED
  BY <1>1, <1>2, <1>3, <1>4 DEF StreamNext

LEMMA SupHolds ==
    ASSUME TypeOK, HoldsConnection, NEW s \in Sups, SupNext(s)
    PROVE  HoldsConnection'
<1> USE DEF HoldsConnection, TypeOK, StreamTypeOK, TaskTypeOK, Tasks
<1>1. CASE ConnectionLost(s)
  BY <1>1, LostHolds
<1>2. CASE SuperviseStarts(s) /\ ~ConnectionLost(s)
  BY <1>2 DEF SuperviseStarts
<1>3. CASE SleepEnds(s)
  BY <1>3 DEF SleepEnds
<1>4. CASE \E m \in Reqs : ReadResponse(s, m)
  BY <1>4 DEF ReadResponse, ctlVars
<1>5. CASE ReadNotification(s)
  BY <1>5 DEF ReadNotification
<1>6. CASE CallbackReturns(s) /\ ~ConnectionLost(s)
  BY <1>6 DEF CallbackReturns
<1>7. QED
  BY <1>1, <1>2, <1>3, <1>4, <1>5, <1>6
  DEF SupNext, SuperviseStarts, CallbackReturns, ReadFails, FrameRejected, CallbackRaises

LEMMA RequestNetHolds ==
    ASSUME HoldsConnection,
           \/ \E r \in Reqs : RequestNext(r)
           \/ \E c \in Conns : NetNext(c)
           \/ UNCHANGED vars
    PROVE  HoldsConnection'
<1>1. pc' = pc /\ conn' = conn
  BY DEF RequestNext, Request, RequestGranted, DrainReturns, DrainRaises, FutureDone,
         RequestTimeout, RequestCancelled, EndRequest, NetNext, PlcExecutes,
         ConnectionDrops, ctlVars, vars
<1>2. QED
  BY <1>1 DEF HoldsConnection

-----------------------------------------------------------------------------
(***************************************************************************)
(* CallInv is inductive.  Connecting, reconnecting and closing concern it  *)
(* only through the futures they fail and the frames they lose: they are   *)
(* Quiet steps.                                                            *)
(***************************************************************************)
Quiet ==
    /\ UNCHANGED <<pending, invoke, got, rpc, executed>>
    /\ \A c \in Conns : sent'[c] \subseteq sent[c] /\ inbox'[c] \subseteq inbox[c]
    /\ \A r \in Reqs : future'[r] = "result" => future[r] = "result"

LEMMA QuietInv ==
    ASSUME CallInv, Quiet, HoldsConnection'
    PROVE  CallInv'
<1> USE DEF Quiet
<1>0. \A r \in Reqs : InFlight(r)' => InFlight(r)
  BY DEF InFlight
<1>1. RegisteredWhileOutstanding'
  BY DEF CallInv, RegisteredWhileOutstanding
<1>2. DistinctIds'
  BY <1>0 DEF CallInv, DistinctIds, Live
<1>3. WireInv'
  BY <1>0 DEF CallInv, WireInv
<1>4. OwnResponse' /\ AnswerInv'
  BY DEF CallInv, OwnResponse, AnswerInv
<1>5. QED
  BY <1>1, <1>2, <1>3, <1>4 DEF CallInv

LEMMA UnchangedQuiet ==
    ASSUME UNCHANGED <<baseVars, rpcVars, sent, inbox, executed>>
    PROVE  Quiet
BY DEF Quiet, baseVars, rpcVars

LEMMA TeardownQuiet ==
    ASSUME NEW p, TeardownStream(p), UNCHANGED <<rpcVars, sent, inbox, executed>>
    PROVE  Quiet
BY DEF TeardownStream, CancelPendingRequests, Quiet, rpcVars

LEMMA LostQuiet ==
    ASSUME NEW s, ConnectionLost(s)
    PROVE  Quiet
BY UnchangedQuiet, TeardownQuiet DEF ConnectionLost, netVars

LEMMA ClientQuiet ==
    ASSUME NEW k, ClientNext(k)
    PROVE  Quiet
<1>1. CASE Disconnect(k)
  BY <1>1, TeardownQuiet DEF Disconnect
<1>2. CASE Connect(k) \/ ConnectCancelled(k)
  BY <1>2, UnchangedQuiet DEF Connect, ConnectCancelled, netVars
<1>3. CASE CancelSupervisor(k) \/ DisconnectReturns(k)
  BY <1>3, UnchangedQuiet DEF CancelSupervisor, DisconnectReturns, netVars
<1>4. QED
  BY <1>1, <1>2, <1>3 DEF ClientNext

LEMMA StreamQuiet ==
    ASSUME TypeOK, NEW p, StreamNext(p)
    PROVE  Quiet
<1>1. CASE \E c \in Conns : OpenSucceeds(p, c)
  BY <1>1 DEF OpenSucceeds, Quiet, baseVars, rpcVars, TypeOK, NetTypeOK
<1>2. CASE PublishGranted(p) \/ OpenFails(p)
  BY <1>2, UnchangedQuiet DEF PublishGranted, OpenFails, netVars
<1>3. CASE TeardownGranted(p) \/ WaitClosed(p)
  BY <1>3, UnchangedQuiet DEF TeardownGranted, WaitClosed, netVars
<1>4. QED
  BY <1>1, <1>2, <1>3 DEF StreamNext

LEMMA SupQuiet ==
    ASSUME NEW s, SupNext(s), \A m \in Reqs : ~ReadResponse(s, m)
    PROVE  Quiet
<1>1. CASE SuperviseStarts(s) \/ CallbackReturns(s)
  BY <1>1, UnchangedQuiet, LostQuiet DEF SuperviseStarts, CallbackReturns, netVars
<1>2. CASE SleepEnds(s) \/ ReadNotification(s)
  BY <1>2, UnchangedQuiet DEF SleepEnds, ReadNotification, netVars
<1>3. CASE ReadFails(s) \/ FrameRejected(s) \/ CallbackRaises(s)
  BY <1>3, LostQuiet DEF ReadFails, FrameRejected, CallbackRaises
<1>4. QED
  BY <1>1, <1>2, <1>3 DEF SupNext

(***************************************************************************)
(* An answer read from the connection resolves the future of the call it   *)
(* answers and no other: the call registered under its id is in progress   *)
(* and has the id of the answer, and DistinctIds makes them the same.      *)
(***************************************************************************)
LEMMA ReadResponseInv ==
    ASSUME TypeOK, CallInv, NEW s \in Sups, NEW m \in Reqs, ReadResponse(s, m)
    PROVE  CallInv'
<1> DEFINE f == pending[invoke[m]]
<1>1. PICK c \in Conns : /\ m \in inbox[c]
                         /\ inbox' = [inbox EXCEPT ![c] = @ \ {m}]
                         /\ UNCHANGED <<sent, executed, rpc, pc, conn>>
  BY DEF CallInv, HoldsConnection, ReadResponse, Tasks, ctlVars, rpcVars
<1>2. InFlight(m) /\ invoke[m] \in Ids /\ executed[m] = 1
  BY <1>1 DEF InFlight, CallInv, WireInv
<1>3. f # None => f = m
  BY <1>2 DEF CallInv, RegisteredWhileOutstanding, DistinctIds, Live, TypeOK, BaseTypeOK
<1>4. /\ UNCHANGED <<nextId, pending, invoke>>
      /\ \/ UNCHANGED <<future, got>>
         \/ /\ future' = [future EXCEPT ![m] = "result"]
            /\ got' = [got EXCEPT ![m] = m]
  BY <1>3 DEF ReadResponse, HandleResponse
<1>5. \A r \in Reqs : InFlight(r)' => InFlight(r)
  BY <1>1 DEF InFlight, TypeOK, NetTypeOK
<1>6. RegisteredWhileOutstanding' /\ HoldsConnection' /\ DistinctIds'
  BY <1>1, <1>4, <1>5 DEF CallInv, RegisteredWhileOutstanding, HoldsConnection, DistinctIds, Live
<1>7. WireInv'
  BY <1>1, <1>4, <1>5 DEF CallInv, WireInv, TypeOK, NetTypeOK
<1>8. OwnResponse' /\ AnswerInv'
  BY <1>1, <1>2, <1>4 DEF CallInv, OwnResponse, AnswerInv, TypeOK, BaseTypeOK
<1>9. QED
  BY <1>6, <1>7, <1>8 DEF CallInv

(***************************************************************************)
(* Writing a call puts it on the wire of one connection, where it was not. *)
(***************************************************************************)
LEMMA WriteInv ==
    ASSUME TypeOK, CallInv, NEW r \in Reqs, rpc[r] \in Unsent, stream \in Conns,
           WriteAndDrain(r), UNCHANGED <<inbox, executed>>,
           invoke' \in [Reqs -> 0..MaxInvokeId], invoke'[r] \in Ids,
           \A q \in Reqs \ {r} : invoke'[q] = invoke[q]
    PROVE  /\ WireInv'
           /\ \A q \in Reqs : InFlight(q)' => InFlight(q) \/ q = r
           /\ rpc'[r] \in {"waiting", "draining"}
           /\ \A q \in Reqs \ {r} : rpc'[q] = rpc[q]
<1>1. /\ rpc'[r] \in {"waiting", "draining"}
      /\ \A q \in Reqs \ {r} : rpc'[q] = rpc[q]
  BY DEF WriteAndDrain, TypeOK, CallTypeOK
<1>2. \A c \in Conns : sent'[c] \subseteq sent[c] \cup {r}
  BY DEF WriteAndDrain, TypeOK, NetTypeOK
<1>3. \A c \in Conns : r \in sent'[c] => c = stream
  BY DEF WriteAndDrain, TypeOK, NetTypeOK, CallInv, WireInv, InFlight
<1>4. \A q \in Reqs : InFlight(q)' => InFlight(q) \/ q = r
  BY <1>2 DEF InFlight
<1>5. ~InFlight(r) /\ executed[r] = 0
  BY DEF CallInv, WireInv
<1>6. WireInv'
  <2>1. \A q \in Reqs : rpc'[q] \in Unsent => ~InFlight(q)' /\ executed'[q] = 0
    BY <1>1, <1>4 DEF CallInv, WireInv, Unsent
  <2>2. \A c \in Conns : \A q \in sent'[c] :
          invoke'[q] \in Ids /\ executed'[q] = 0 /\ \A d \in Conns : q \in sent'[d] => d = c
    <3> SUFFICES ASSUME NEW c \in Conns, NEW q \in sent'[c]
                 PROVE  /\ invoke'[q] \in Ids
                        /\ executed'[q] = 0
                        /\ \A d \in Conns : q \in sent'[d] => d = c
      OBVIOUS
    <3>1. CASE q = r
      BY <1>3, <1>5, <3>1
    <3>2. CASE q # r
      BY <1>2, <3>2 DEF CallInv, WireInv, TypeOK, NetTypeOK
    <3>3. QED
      BY <3>1, <3>2
  <2>3. \A c \in Conns : \A q \in inbox'[c] : invoke'[q] \in Ids /\ executed'[q] = 1
    <3>1. \A c \in Conns : r \notin inbox[c]
      BY <1>5 DEF InFlight
    <3>2. QED
      BY <3>1 DEF CallInv, WireInv, TypeOK, NetTypeOK
  <2>4. QED
    BY <2>1, <2>2, <2>3 DEF WireInv
<1>7. QED
  BY <1>1, <1>4, <1>6

LEMMA RequestInv ==
    ASSUME TypeOK, CallInv, NEW r \in Reqs, Request(r), HoldsConnection'
    PROVE  CallInv'
<1> USE BaseAssumption
<1>1. rpc[r] = "idle" /\ ~InFlight(r) /\ executed[r] = 0
  BY DEF Request, CallInv, WireInv, Unsent
<1>2. CASE /\ rpc' = [rpc EXCEPT ![r] = "rejected"]
           /\ UNCHANGED <<pending, invoke, future, got, sent, inbox, executed>>
  <2>1. \A q \in Reqs : InFlight(q)' <=> InFlight(q)
    BY <1>2 DEF InFlight
  <2>2. \A q \in Reqs : rpc'[q] \in Outstanding <=> rpc[q] \in Outstanding
    BY <1>1, <1>2 DEF Outstanding, TypeOK, CallTypeOK
  <2>3. RegisteredWhileOutstanding'
    BY <1>2, <2>2 DEF CallInv, RegisteredWhileOutstanding, TypeOK, BaseTypeOK
  <2>4. DistinctIds'
    BY <1>2, <2>1, <2>2 DEF CallInv, DistinctIds, Live
  <2>5. WireInv'
    BY <1>1, <1>2, <2>1 DEF CallInv, WireInv, Unsent, TypeOK, CallTypeOK
  <2>6. OwnResponse' /\ AnswerInv'
    BY <1>2 DEF CallInv, OwnResponse, AnswerInv, TypeOK, CallTypeOK
  <2>7. QED
    BY <2>3, <2>4, <2>5, <2>6 DEF CallInv
<1>3. CASE /\ IdFree(nextId)
           /\ SubscribeRequest(r)
           /\ UNCHANGED <<inbox, executed>>
           /\ \/ stream # None /\ WriteAndDrain(r)
              \/ rpc' = [rpc EXCEPT ![r] = "queued"] /\ UNCHANGED sent
  <2>1. /\ nextId \in Ids
        /\ invoke' = [invoke EXCEPT ![r] = nextId]
        /\ pending' = [pending EXCEPT ![nextId] = r]
        /\ future' = [future EXCEPT ![r] = "undone"]
        /\ got' = got
    BY <1>3 DEF SubscribeRequest, TypeOK, BaseTypeOK
  <2>2. /\ invoke' \in [Reqs -> 0..MaxInvokeId]
        /\ invoke'[r] = nextId
        /\ \A q \in Reqs \ {r} : invoke'[q] = invoke[q]
    BY <2>1 DEF TypeOK, BaseTypeOK, Ids
  <2>3. /\ WireInv'
        /\ \A q \in Reqs : InFlight(q)' => InFlight(q) \/ q = r
        /\ rpc'[r] \in Outstanding
        /\ \A q \in Reqs \ {r} : rpc'[q] = rpc[q]
    <3>1. CASE stream # None /\ WriteAndDrain(r)
      <4>1. stream \in Conns /\ rpc[r] \in Unsent
        BY <1>1, <3>1 DEF TypeOK, StreamTypeOK, Unsent
      <4>2. QED
        BY <1>3, <2>1, <2>2, <3>1, <4>1, WriteInv DEF Outstanding
    <3>2. CASE rpc' = [rpc EXCEPT ![r] = "queued"] /\ UNCHANGED sent
      <4>1. \A q \in Reqs : InFlight(q)' <=> InFlight(q)
        BY <1>3, <3>2 DEF InFlight
      <4>2. rpc'[r] = "queued" /\ \A q \in Reqs \ {r} : rpc'[q] = rpc[q]
        BY <3>2 DEF TypeOK, CallTypeOK
      <4>3. WireInv'
        BY <1>1, <1>3, <2>2, <3>2, <4>1, <4>2
        DEF CallInv, WireInv, InFlight, Unsent, TypeOK, NetTypeOK
      <4>4. QED
        BY <4>1, <4>2, <4>3 DEF Outstanding
    <3>3. QED
      BY <1>3, <3>1, <3>2
  <2>4. \A q \in Reqs \ {r} : Live(q)' => Live(q) /\ invoke'[q] # nextId
    BY <1>3, <2>2, <2>3 DEF Live, IdFree
  <2>5. RegisteredWhileOutstanding'
    <3>1. \A q \in Reqs : rpc'[q] \in Outstanding => invoke'[q] \in Ids /\ pending'[invoke'[q]] = q
      <4> SUFFICES ASSUME NEW q \in Reqs, rpc'[q] \in Outstanding
                   PROVE  invoke'[q] \in Ids /\ pending'[invoke'[q]] = q
        OBVIOUS
      <4>1. CASE q = r
        BY <2>1, <2>2, <4>1 DEF TypeOK, BaseTypeOK
      <4>2. CASE q # r
        BY <2>1, <2>2, <2>3, <2>4, <4>2
        DEF Live, CallInv, RegisteredWhileOutstanding, TypeOK, BaseTypeOK
      <4>3. QED
        BY <4>1, <4>2
    <3>2. \A i \in Ids : pending'[i] # None =>
            rpc'[pending'[i]] \in Outstanding /\ invoke'[pending'[i]] = i
      <4> SUFFICES ASSUME NEW i \in Ids, pending'[i] # None
                   PROVE  rpc'[pending'[i]] \in Outstanding /\ invoke'[pending'[i]] = i
        OBVIOUS
      <4>1. CASE i = nextId
        BY <2>1, <2>2, <2>3, <4>1 DEF TypeOK, BaseTypeOK
      <4>2. CASE i # nextId
        <5>1. pending'[i] = pending[i] /\ pending[i] \in Reqs
          BY <2>1, <4>2 DEF TypeOK, BaseTypeOK
        <5>2. rpc[pending[i]] \in Outstanding /\ invoke[pending[i]] = i
          BY <5>1 DEF CallInv, RegisteredWhileOutstanding
        <5>3. pending[i] # r
          BY <1>1, <5>2 DEF Outstanding
        <5>4. QED
          BY <2>2, <2>3, <5>1, <5>2, <5>3
      <4>3. QED
        BY <4>1, <4>2
    <3>3. QED
      BY <3>1, <3>2 DEF RegisteredWhileOutstanding
  <2>6. DistinctIds'
    BY <2>2, <2>4 DEF DistinctIds, CallInv
  <2>7. OwnResponse' /\ AnswerInv'
    BY <1>1, <1>3, <2>1, <2>3 DEF CallInv, OwnResponse, AnswerInv, Outstanding, TypeOK, BaseTypeOK
  <2>8. QED
    BY <2>3, <2>5, <2>6, <2>7 DEF CallInv
<1>4. QED
  BY <1>2, <1>3 DEF Request, baseVars, netVars

LEMMA EndRequestInv ==
    ASSUME TypeOK, CallInv, NEW r \in Reqs, NEW o \in {"ok", "error"},
           rpc[r] \in Outstanding, o = "ok" => future[r] = "result",
           UnsubscribeRequest(r, o = "ok"),
           rpc' = [rpc EXCEPT ![r] = o],
           UNCHANGED <<sent, inbox, executed>>, HoldsConnection'
    PROVE  CallInv'
<1>1. /\ rpc'[r] = o
      /\ \A q \in Reqs \ {r} : rpc'[q] = rpc[q]
  BY DEF TypeOK, CallTypeOK
<1>2. /\ pending' = [pending EXCEPT ![invoke[r]] = None]
      /\ future' = [future EXCEPT ![r] = "none"]
      /\ got'[r] \in {got[r], None}
      /\ \A q \in Reqs \ {r} : got'[q] = got[q]
      /\ invoke' = invoke
  BY DEF UnsubscribeRequest, TypeOK, BaseTypeOK
<1>3. \A q \in Reqs : InFlight(q)' <=> InFlight(q)
  BY DEF InFlight
<1>4. RegisteredWhileOutstanding'
  <2>1. \A q \in Reqs : rpc'[q] \in Outstanding => q # r /\ rpc[q] \in Outstanding
    BY <1>1 DEF Outstanding
  <2>2. \A q \in Reqs : rpc'[q] \in Outstanding => invoke[q] \in Ids /\ pending'[invoke[q]] = q
    BY <1>2, <2>1 DEF CallInv, RegisteredWhileOutstanding, TypeOK, BaseTypeOK
  <2>3. \A i \in Ids : pending'[i] # None => i # invoke[r] /\ pending'[i] = pending[i]
    BY <1>2 DEF TypeOK, BaseTypeOK
  <2>4. \A i \in Ids : pending'[i] # None => pending'[i] \in Reqs \ {r}
    BY <2>3 DEF CallInv, RegisteredWhileOutstanding, TypeOK, BaseTypeOK
  <2>5. QED
    BY <1>1, <1>2, <2>2, <2>3, <2>4 DEF CallInv, RegisteredWhileOutstanding
<1>5. DistinctIds'
  BY <1>1, <1>2, <1>3 DEF CallInv, DistinctIds, Live
<1>6. WireInv'
  BY <1>1, <1>2, <1>3 DEF CallInv, WireInv, Unsent
<1>7. OwnResponse' /\ AnswerInv'
  BY <1>1, <1>2 DEF CallInv, OwnResponse, AnswerInv, TypeOK, BaseTypeOK
<1>8. QED
  BY <1>4, <1>5, <1>6, <1>7 DEF CallInv

LEMMA RequestGrantedInv ==
    ASSUME TypeOK, CallInv, NEW r \in Reqs, RequestGranted(r), HoldsConnection'
    PROVE  CallInv'
<1>0. rpc[r] = "queued" /\ rpc[r] \in Unsent /\ rpc[r] \in Outstanding
  BY DEF RequestGranted, Unsent, Outstanding
<1>1. CASE stream # None /\ WriteAndDrain(r) /\ UNCHANGED <<baseVars, inbox, executed>>
  <2>1. stream \in Conns /\ invoke[r] \in Ids
    BY <1>0, <1>1 DEF TypeOK, StreamTypeOK, CallInv, RegisteredWhileOutstanding
  <2>2. /\ WireInv'
        /\ \A q \in Reqs : InFlight(q)' => InFlight(q) \/ q = r
        /\ rpc'[r] \in {"waiting", "draining"}
        /\ \A q \in Reqs \ {r} : rpc'[q] = rpc[q]
    BY <1>0, <1>1, <2>1, WriteInv DEF TypeOK, BaseTypeOK, baseVars
  <2>3. \A q \in Reqs : rpc'[q] \in Outstanding <=> rpc[q] \in Outstanding
    BY <1>0, <2>2 DEF Outstanding
  <2>4. RegisteredWhileOutstanding'
    BY <1>1, <2>3 DEF CallInv, RegisteredWhileOutstanding, TypeOK, BaseTypeOK, baseVars
  <2>5. DistinctIds'
    BY <1>0, <1>1, <2>2, <2>3 DEF CallInv, DistinctIds, Live, baseVars
  <2>6. OwnResponse' /\ AnswerInv'
    BY <1>1, <2>2 DEF CallInv, OwnResponse, AnswerInv, baseVars
  <2>7. QED
    BY <2>2, <2>4, <2>5, <2>6 DEF CallInv
<1>2. CASE /\ UnsubscribeRequest(r, FALSE)
           /\ rpc' = [rpc EXCEPT ![r] = "error"]
           /\ UNCHANGED <<sent, inbox, executed>>
  <2>1. UnsubscribeRequest(r, "error" = "ok")
    BY <1>2
  <2>2. QED
    BY <1>0, <1>2, <2>1, EndRequestInv
<1>3. QED
  BY <1>1, <1>2 DEF RequestGranted

LEMMA DrainReturnsInv ==
    ASSUME TypeOK, CallInv, NEW r \in Reqs, DrainReturns(r), HoldsConnection'
    PROVE  CallInv'
<1>1. /\ \A q \in Reqs : rpc'[q] \in Outstanding <=> rpc[q] \in Outstanding
      /\ \A q \in Reqs : rpc'[q] \in Unsent \cup {"ok"} => rpc'[q] = rpc[q]
  BY DEF DrainReturns, Outstanding, Unsent, TypeOK, CallTypeOK
<1>2. UNCHANGED <<nextId, pending, invoke, future, got, sent, inbox, executed>>
  BY DEF DrainReturns, baseVars, netVars
<1>3. \A q \in Reqs : InFlight(q)' <=> InFlight(q)
  BY <1>2 DEF InFlight
<1>4. RegisteredWhileOutstanding'
  BY <1>1, <1>2 DEF CallInv, RegisteredWhileOutstanding, TypeOK, BaseTypeOK
<1>5. DistinctIds' /\ WireInv' /\ OwnResponse' /\ AnswerInv'
  BY <1>1, <1>2, <1>3 DEF CallInv, DistinctIds, Live, WireInv, OwnResponse, AnswerInv
<1>6. QED
  BY <1>4, <1>5 DEF CallInv

LEMMA PlcExecutesInv ==
    ASSUME TypeOK, CallInv, NEW c \in Conns, NEW r \in Reqs, PlcExecutes(c, r), HoldsConnection'
    PROVE  CallInv'
<1>1. /\ r \in sent[c]
      /\ sent' = [sent EXCEPT ![c] = @ \ {r}]
      /\ executed' = [executed EXCEPT ![r] = @ + 1]
      /\ inbox' \in {inbox, [inbox EXCEPT ![c] = @ \cup {r}]}
      /\ UNCHANGED <<nextId, pending, invoke, future, got, rpc>>
  BY DEF PlcExecutes, baseVars, rpcVars, TypeOK, NetTypeOK
<1>2. /\ executed[r] = 0 /\ executed'[r] = 1 /\ invoke[r] \in Ids /\ InFlight(r)
      /\ \A d \in Conns : r \notin sent'[d] /\ r \notin inbox[d]
  BY <1>1 DEF CallInv, WireInv, TypeOK, NetTypeOK, InFlight
<1>3. \A q \in Reqs \ {r} : executed'[q] = executed[q]
  BY <1>1 DEF TypeOK, NetTypeOK
<1>4. \A q \in Reqs : InFlight(q)' => InFlight(q)
  BY <1>1, <1>2 DEF InFlight, TypeOK, NetTypeOK
<1>5. RegisteredWhileOutstanding' /\ DistinctIds' /\ OwnResponse'
  BY <1>1, <1>4 DEF CallInv, RegisteredWhileOutstanding, DistinctIds, Live, OwnResponse
<1>6. WireInv'
  <2>1. \A q \in Reqs : rpc'[q] \in Unsent => ~InFlight(q)' /\ executed'[q] = 0
    BY <1>1, <1>2, <1>3, <1>4 DEF CallInv, WireInv
  <2>2. \A d \in Conns : \A q \in sent'[d] :
          q # r /\ q \in sent[d] /\ \A e \in Conns : q \in sent'[e] => q \in sent[e]
    BY <1>1, <1>2 DEF TypeOK, NetTypeOK
  <2>3. \A d \in Conns : \A q \in inbox'[d] : q = r \/ q \in inbox[d]
    BY <1>1 DEF TypeOK, NetTypeOK
  <2>4. \A d \in Conns : \A q \in inbox'[d] : invoke'[q] \in Ids /\ executed'[q] = 1
    BY <1>1, <1>2, <1>3, <2>3 DEF CallInv, WireInv, TypeOK, NetTypeOK
  <2>5. QED
    BY <1>1, <1>3, <2>1, <2>2, <2>4 DEF CallInv, WireInv, TypeOK, NetTypeOK
<1>7. AnswerInv'
  BY <1>1, <1>2, <1>3 DEF CallInv, AnswerInv
<1>8. QED
  BY <1>5, <1>6, <1>7 DEF CallInv

LEMMA EndingInv ==
    ASSUME TypeOK, CallInv, NEW r \in Reqs, HoldsConnection',
           \/ DrainRaises(r)
           \/ FutureDone(r)
           \/ RequestTimeout(r)
           \/ RequestCancelled(r)
    PROVE  CallInv'
<1>1. PICK o \in {"ok", "error"} :
        /\ EndRequest(r, o)
        /\ o = "ok" => future[r] = "result"
        /\ rpc[r] \in Outstanding
  BY DEF DrainRaises, FutureDone, RequestTimeout, RequestCancelled, Outstanding
<1>2. QED
  BY <1>1, EndRequestInv DEF EndRequest, netVars

LEMMA CallInvInit == Init => CallInv
<1> SUFFICES ASSUME Init
             PROVE  CallInv
  OBVIOUS
<1> USE BaseAssumption DEF Init, BaseInit
<1>1. \A r \in Reqs : rpc[r] = "idle" /\ ~InFlight(r) /\ executed[r] = 0
  BY DEF InFlight
<1>2. HoldsConnection
  BY DEF HoldsConnection
<1>3. RegisteredWhileOutstanding
  BY <1>1 DEF RegisteredWhileOutstanding, Outstanding
<1>4. DistinctIds
  BY <1>1 DEF DistinctIds, Live, Outstanding
<1>5. WireInv
  BY <1>1 DEF WireInv
<1>6. OwnResponse /\ AnswerInv
  BY <1>1 DEF OwnResponse, AnswerInv
<1>7. QED
  BY <1>2, <1>3, <1>4, <1>5, <1>6 DEF CallInv

LEMMA CallInvStep ==
    ASSUME TypeOK, CallInv, [Next]_vars
    PROVE  CallInv'
<1>h. HoldsConnection'
  BY ClientHolds, StreamHolds, SupHolds, RequestNetHolds DEF Next, CallInv
<1>1. CASE \E k \in Clients : ClientNext(k)
  BY <1>h, <1>1, ClientQuiet, QuietInv
<1>2. CASE \E p \in Tasks : StreamNext(p)
  BY <1>h, <1>2, StreamQuiet, QuietInv
<1>3. CASE \E s \in Sups : SupNext(s)
  BY <1>h, <1>3, SupQuiet, QuietInv, ReadResponseInv
<1>4. CASE \E r \in Reqs : RequestNext(r)
  BY <1>h, <1>4, RequestInv, RequestGrantedInv, DrainReturnsInv, EndingInv DEF RequestNext
<1>5. CASE \E c \in Conns : NetNext(c)
  <2>1. PICK c \in Conns : NetNext(c)
    BY <1>5
  <2>2. CASE \E r \in Reqs : PlcExecutes(c, r)
    BY <1>h, <2>2, PlcExecutesInv
  <2>3. CASE ConnectionDrops(c)
    BY <1>h, <2>3, UnchangedQuiet, QuietInv DEF ConnectionDrops
  <2>4. QED
    BY <2>1, <2>2, <2>3 DEF NetNext
<1>6. CASE UNCHANGED vars
  BY <1>h, <1>6, UnchangedQuiet, QuietInv DEF vars, netVars
<1>7. QED
  BY <1>1, <1>2, <1>3, <1>4, <1>5, <1>6 DEF Next

THEOREM CallInvariant == Spec => []CallInv
<1>1. TypeOK /\ CallInv /\ [Next]_vars => CallInv'
  BY CallInvStep
<1>2. QED
  BY <1>1, CallInvInit, TypeCorrect, PTL DEF Spec

(***************************************************************************)
(* Whatever connections come and go, whoever cancels or times out, a call  *)
(* is only ever handed the answer to itself (_handle_response).            *)
(***************************************************************************)
THEOREM OwnResponseAlways == Spec => []OwnResponse
<1>1. CallInv => OwnResponse
  BY DEF CallInv
<1>2. QED
  BY <1>1, CallInvariant, PTL

(***************************************************************************)
(* The table of pending requests holds exactly the calls in progress, each *)
(* under its own id (subscribe_request cleans up on every way out).        *)
(***************************************************************************)
THEOREM RegistrationExact == Spec => []RegisteredWhileOutstanding
<1>1. CallInv => RegisteredWhileOutstanding
  BY DEF CallInv
<1>2. QED
  BY <1>1, CallInvariant, PTL

-----------------------------------------------------------------------------
(***************************************************************************)
(* Refinement: request() implements RemoteCall.  A step of a call maps to  *)
(* Call, Reject, Return or Fail, PlcExecutes maps to Execute -- possible   *)
(* only once, because a call on the wire has not been executed (WireInv)   *)
(* -- and every other step leaves rpc and executed alone.                  *)
(***************************************************************************)
callStatus == [r \in Reqs |-> CallStatus(rpc[r])]

LEMMA Becoming ==
    ASSUME TypeOK, NEW r \in Reqs, NEW v,
           rpc' = [rpc EXCEPT ![r] = v], executed' = executed
    PROVE  /\ callStatus[r] = CallStatus(rpc[r])
           /\ callStatus' = [callStatus EXCEPT ![r] = CallStatus(v)]
           /\ callStatus[r] = CallStatus(v) => callStatus' = callStatus
BY DEF callStatus, TypeOK, CallTypeOK

LEMMA RequestRefines ==
    ASSUME TypeOK, CallInv, NEW r \in Reqs, RequestNext(r)
    PROVE  [Remote!Next]_(Remote!vars)
<1> USE DEF Remote!Next, Remote!vars, Remote!Call, Remote!Reject, Remote!Return, Remote!Fail,
            Remote!Becomes
<1> DEFINE Step(v) == rpc' = [rpc EXCEPT ![r] = v] /\ executed' = executed
<1>1. ASSUME NEW v \in {"rejected", "queued", "waiting", "draining"}, rpc[r] = "idle", Step(v)
      PROVE  [Remote!Next]_(Remote!vars)
  <2>1. callStatus[r] = "idle" /\ callStatus' = [callStatus EXCEPT ![r] = CallStatus(v)]
    BY <1>1, Becoming DEF CallStatus, Outstanding
  <2>2. CallStatus(v) \in {"active", "rejected"}
    BY DEF CallStatus, Outstanding
  <2>3. QED
    BY <1>1, <2>1, <2>2 DEF callStatus
<1>2. ASSUME NEW v \in {"waiting", "draining"}, rpc[r] \in Outstanding, Step(v)
      PROVE  [Remote!Next]_(Remote!vars)
  <2>1. callStatus' = callStatus
    BY <1>2, Becoming DEF CallStatus, Outstanding
  <2>2. QED
    BY <1>2, <2>1 DEF callStatus
<1>3. ASSUME rpc[r] \in Outstanding, Step("error")
      PROVE  [Remote!Next]_(Remote!vars)
  <2>1. callStatus[r] = "active" /\ callStatus' = [callStatus EXCEPT ![r] = "failed"]
    BY <1>3, Becoming DEF CallStatus, Outstanding
  <2>2. QED
    BY <1>3, <2>1 DEF callStatus
<1>4. ASSUME rpc[r] \in Outstanding, future[r] = "result", Step("ok")
      PROVE  [Remote!Next]_(Remote!vars)
  <2>1. callStatus[r] = "active" /\ callStatus' = [callStatus EXCEPT ![r] = "ok"]
    BY <1>4, Becoming DEF CallStatus, Outstanding
  <2>2. executed[r] = 1
    BY <1>4 DEF CallInv, AnswerInv
  <2>3. QED
    BY <1>4, <2>1, <2>2 DEF callStatus
<1>5. CASE Request(r)
  <2>1. PICK v \in {"rejected", "queued", "waiting", "draining"} : Step(v)
    BY <1>5 DEF Request, WriteAndDrain, netVars
  <2>2. QED
    BY <1>1, <1>5, <2>1 DEF Request
<1>6. CASE RequestGranted(r)
  <2>1. rpc[r] \in Outstanding /\ \E v \in {"waiting", "draining", "error"} : Step(v)
    BY <1>6 DEF RequestGranted, WriteAndDrain, Outstanding
  <2>2. QED
    BY <1>2, <1>3, <2>1
<1>7. CASE DrainReturns(r)
  BY <1>2, <1>7 DEF DrainReturns, Outstanding, netVars
<1>8. CASE DrainRaises(r) \/ FutureDone(r) \/ RequestTimeout(r) \/ RequestCancelled(r)
  <2>1. /\ rpc[r] \in Outstanding
        /\ Step("error") \/ (Step("ok") /\ future[r] = "result")
    BY <1>8 DEF DrainRaises, FutureDone, RequestTimeout, RequestCancelled, EndRequest,
                Outstanding, netVars
  <2>2. QED
    BY <1>3, <1>4, <2>1
<1>9. QED
  BY <1>5, <1>6, <1>7, <1>8 DEF RequestNext

LEMMA ExecuteRefines ==
    ASSUME TypeOK, CallInv, NEW c \in Conns, NEW r \in Reqs, PlcExecutes(c, r)
    PROVE  Remote!Next
<1>0. executed[r] = 0 /\ InFlight(r)
  BY DEF PlcExecutes, CallInv, WireInv, InFlight
<1>1. executed' = [executed EXCEPT ![r] = 1] /\ rpc' = rpc
  BY <1>0 DEF PlcExecutes, rpcVars
<1>2. rpc[r] \in {"draining", "waiting", "error"}
  BY <1>0 DEF CallInv, WireInv, Unsent, AnswerInv, TypeOK, CallTypeOK, Outstanding, Ended
<1>3. callStatus[r] \in {"active", "failed"} /\ callStatus' = callStatus
  BY <1>1, <1>2 DEF callStatus, CallStatus, Outstanding
<1>4. Remote!Execute(r)
  BY <1>0, <1>1, <1>3 DEF Remote!Execute, callStatus
<1>5. QED
  BY <1>4 DEF Remote!Next

LEMMA QuietRefines ==
    ASSUME Quiet
    PROVE  UNCHANGED Remote!vars
BY DEF Quiet, Remote!vars

(***************************************************************************)
(* request() implements the abstract remote call: rejected without effect, *)
(* or sent at most once, and successful only after the PLC executed it;    *)
(* in particular no reconnect replays a call (transport.py:348-349).       *)
(***************************************************************************)
THEOREM ImplementsRemoteCall == Spec => RemoteSpec
<1>1. Init => Remote!Init
  BY DEF Init, Remote!Init, CallStatus, Outstanding
<1>2. TypeOK /\ CallInv /\ [Next]_vars => [Remote!Next]_(Remote!vars)
  <2> SUFFICES ASSUME TypeOK, CallInv, [Next]_vars
               PROVE  [Remote!Next]_(Remote!vars)
    OBVIOUS
  <2>1. CASE \E k \in Clients : ClientNext(k)
    BY <2>1, ClientQuiet, QuietRefines
  <2>2. CASE \E p \in Tasks : StreamNext(p)
    BY <2>2, StreamQuiet, QuietRefines
  <2>3. CASE \E s \in Sups : SupNext(s)
    <3>1. PICK s \in Sups : SupNext(s)
      BY <2>3
    <3>2. CASE \E m \in Reqs : ReadResponse(s, m)
      BY <3>2 DEF ReadResponse, rpcVars, Remote!vars
    <3>3. CASE \A m \in Reqs : ~ReadResponse(s, m)
      BY <3>1, <3>3, SupQuiet, QuietRefines
    <3>4. QED
      BY <3>2, <3>3
  <2>4. CASE \E r \in Reqs : RequestNext(r)
    BY <2>4, RequestRefines
  <2>5. CASE \E c \in Conns : NetNext(c)
    <3>1. PICK c \in Conns : NetNext(c)
      BY <2>5
    <3>2. CASE \E r \in Reqs : PlcExecutes(c, r)
      BY <3>2, ExecuteRefines
    <3>3. CASE ConnectionDrops(c)
      BY <3>3 DEF ConnectionDrops, rpcVars, Remote!vars
    <3>4. QED
      BY <3>1, <3>2, <3>3 DEF NetNext
  <2>6. CASE UNCHANGED vars
    BY <2>6 DEF vars, rpcVars, netVars, Remote!vars
  <2>7. QED
    BY <2>1, <2>2, <2>3, <2>4, <2>5, <2>6 DEF Next
<1>3. QED
  BY <1>1, <1>2, TypeCorrect, CallInvariant, PTL DEF Spec, RemoteSpec, Remote!Spec
=============================================================================
