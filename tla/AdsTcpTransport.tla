--------------------------- MODULE AdsTcpTransport ---------------------------
(***************************************************************************)
(* AdsTcpTransport of src/aioads/transport.py: one TCP connection to a PLC *)
(* shared by every request, a supervisor task that owns the read loop and  *)
(* reconnects, and the clients' connect() and disconnect().                *)
(*                                                                         *)
(* asyncio runs one task at a time and switches only where a coroutine     *)
(* really suspends, so an action is what a task does from one suspension   *)
(* to the next.  The actors are the clients (tasks inside connect() or     *)
(* disconnect()), the supervisor tasks, the calls of request(), and the    *)
(* environment: the network and the PLC.                                   *)
(*                                                                         *)
(* Time is abstracted: a sleep or a wait ends at some later step.  The     *)
(* module ReconnectBackoff has the delays.                                 *)
(***************************************************************************)
EXTENDS BaseTransport, Sequences, FiniteSets

CONSTANTS
    Clients,        \* callers of connect() and disconnect()
    Sups,           \* supervisor task objects; an ended one may be reused
    Conns,          \* TCP connections; a closed one may be reused
    QuietClose      \* TRUE: disconnect() is only called while no connection
                    \* attempt is under way (a restriction on the callers)

ASSUME TcpAssumption ==
    /\ QuietClose \in BOOLEAN
    /\ None \notin Clients \cup Sups \cup Conns
    /\ Clients \cap Sups = {}
    /\ Clients \cap Reqs = {}
    /\ Sups \cap Reqs = {}

VARIABLES
    state,      \* _state
    stream,     \* _stream: the connection requests are written to
    task,       \* _supervisor_task
    lockq,      \* the tasks queued for _stream_lock, which is FIFO
    pc,         \* where each client and supervisor is suspended
    conn,       \* the connection a client or supervisor holds a reference to
    awaited,    \* the supervisor a client awaits in cancel_task()
    rpc,        \* where each call of request() is
    accepted,   \* history: the stream when the call was registered
    wrote,      \* the connection the call was written to
    link,       \* per connection: up, down (peer lost), closed (by us)
    sent,       \* calls on the wire to the PLC, or in its receive buffer
    inbox,      \* answers on the wire to us, or in the StreamReader
    executed    \* how often the PLC has executed each call

ctlVars == <<state, stream, task, pc, conn, awaited>>
rpcVars == <<rpc, accepted, wrote>>
netVars == <<link, sent, inbox, executed>>
vars == <<baseVars, ctlVars, lockq, rpcVars, netVars>>

Tasks == Clients \cup Sups

States == {"DISCONNECTED", "CONNECTING", "CONNECTED", "RECONNECTING", "CLOSED"}

(***************************************************************************)
(* Suspension points.  "opening": open_connection() in _open(); "publish": *)
(* _open() waiting for the lock; "teardown": _teardown_stream() waiting    *)
(* for the lock; "closing": wait_closed().  A client is also "awaiting"    *)
(* its supervisor; a supervisor is also created but not yet run ("start"), *)
(* in readexactly() ("read"), in the notification callback ("callback") or *)
(* in the backoff ("sleep").  A supervisor with pc "none" is done.         *)
(***************************************************************************)
ClientPCs == {"none", "opening", "publish", "teardown", "closing", "awaiting"}
SupPCs == {"none", "start", "read", "callback", "teardown", "closing",
           "sleep", "opening", "publish"}

(***************************************************************************)
(* A call is "queued" for the lock, "draining" with the lock held,         *)
(* "waiting" for its future, and then has ended.                           *)
(***************************************************************************)
Ended == {"ok", "error", "rejected"}
Outstanding == {"queued", "draining", "waiting"}

StreamTypeOK ==
    /\ state \in States
    /\ stream \in Conns \cup {None}
    /\ lockq \in Seq(Tasks \cup Reqs)
    /\ conn \in [Tasks -> Conns \cup {None}]

TaskTypeOK ==
    /\ pc \in [Tasks -> ClientPCs \cup SupPCs]
    /\ \A k \in Clients : pc[k] \in ClientPCs
    /\ \A s \in Sups : pc[s] \in SupPCs
    /\ task \in Sups \cup {None}
    /\ awaited \in [Clients -> Sups \cup {None}]

CallTypeOK ==
    /\ rpc \in [Reqs -> {"idle"} \cup Outstanding \cup Ended]
    /\ accepted \in [Reqs -> Conns \cup {None}]
    /\ wrote \in [Reqs -> Conns \cup {None}]

NetTypeOK ==
    /\ link \in [Conns -> {"up", "down", "closed"}]
    /\ sent \in [Conns -> SUBSET Reqs]
    /\ inbox \in [Conns -> SUBSET Reqs]
    /\ executed \in [Reqs -> Nat]

TypeOK == BaseTypeOK /\ StreamTypeOK /\ TaskTypeOK /\ CallTypeOK /\ NetTypeOK

Init ==
    /\ BaseInit
    /\ state = "DISCONNECTED"
    /\ stream = None
    /\ task = None
    /\ lockq = <<>>
    /\ pc = [p \in Tasks |-> "none"]
    /\ conn = [p \in Tasks |-> None]
    /\ awaited = [k \in Clients |-> None]
    /\ rpc = [r \in Reqs |-> "idle"]
    /\ accepted = [r \in Reqs |-> None]
    /\ wrote = [r \in Reqs |-> None]
    /\ link = [c \in Conns |-> "closed"]
    /\ sent = [c \in Conns |-> {}]
    /\ inbox = [c \in Conns |-> {}]
    /\ executed = [r \in Reqs |-> 0]

-----------------------------------------------------------------------------
(***************************************************************************)
(* _stream_lock, an asyncio.Lock.  Only a call that drains keeps it across *)
(* a suspension.  acquire() suspends when the lock is held or others       *)
(* queue, and the queue is served in order.                                *)
(***************************************************************************)
Locked == \E r \in Reqs : rpc[r] = "draining"

LockFree == ~Locked /\ lockq = <<>>

Enqueue(x) == lockq' = Append(lockq, x)

Granted(x) ==
    /\ ~Locked
    /\ lockq # <<>>
    /\ Head(lockq) = x
    /\ lockq' = Tail(lockq)

(***************************************************************************)
(* A cancelled waiter leaves the queue.                                    *)
(***************************************************************************)
Dequeue(x) ==
    \/ \E i \in 1..Len(lockq) :
        /\ lockq[i] = x
        /\ lockq' = SubSeq(lockq, 1, i - 1) \o SubSeq(lockq, i + 1, Len(lockq))
    \/ /\ \A i \in 1..Len(lockq) : lockq[i] # x
       /\ UNCHANGED lockq

(***************************************************************************)
(* Whether _supervisor_task is set and not done(), and the task objects    *)
(* and connections that may stand for a new one.                           *)
(***************************************************************************)
SupervisorRuns == task # None /\ pc[task] # "none"

FreeSup(s) ==
    /\ pc[s] = "none"
    /\ \A k \in Clients : awaited[k] # s

FreeConn(c) ==
    /\ link[c] = "closed"
    /\ stream # c
    /\ \A p \in Tasks : conn[p] # c
    /\ \A r \in Reqs : rpc[r] \in Outstanding => c \notin {accepted[r], wrote[r]}

-----------------------------------------------------------------------------
(***************************************************************************)
(* _open(), shared by connect() and _supervise(): open_connection(), then, *)
(* under the lock, publish the stream, then state := CONNECTED -- whatever *)
(* the state has become meanwhile.                                         *)
(***************************************************************************)
Publish(p, c) ==
    /\ stream' = c
    /\ state' = "CONNECTED"
    /\ UNCHANGED awaited
    /\ \/ /\ p \in Sups                 \* back to the read loop, no suspension
          /\ pc' = [pc EXCEPT ![p] = "read"]
          /\ conn' = [conn EXCEPT ![p] = c]
          /\ UNCHANGED task
       \/ /\ p \in Clients              \* connect() creates the supervisor
          /\ \E s \in Sups :
                /\ FreeSup(s)
                /\ task' = s
                /\ pc' = [pc EXCEPT ![p] = "none", ![s] = "start"]
          /\ conn' = [conn EXCEPT ![p] = None]

OpenSucceeds(p, c) ==
    /\ pc[p] = "opening"
    /\ FreeConn(c)
    /\ link' = [link EXCEPT ![c] = "up"]
    /\ sent' = [sent EXCEPT ![c] = {}]
    /\ inbox' = [inbox EXCEPT ![c] = {}]
    /\ \/ /\ LockFree
          /\ Publish(p, c)
          /\ UNCHANGED lockq
       \/ /\ ~LockFree
          /\ Enqueue(p)
          /\ pc' = [pc EXCEPT ![p] = "publish"]
          /\ conn' = [conn EXCEPT ![p] = c]
          /\ UNCHANGED <<state, stream, task, awaited>>
    /\ UNCHANGED <<baseVars, rpcVars, executed>>

PublishGranted(p) ==
    /\ pc[p] = "publish"
    /\ Granted(p)
    /\ Publish(p, conn[p])
    /\ UNCHANGED <<baseVars, rpcVars, netVars>>

\* Mutant: the supervisor gives up when a reconnect fails.
OpenFails_GivesUp(p) ==
    /\ pc[p] = "opening"
    /\ pc' = [pc EXCEPT ![p] = "none"]
    /\ state' = IF p \in Sups THEN state ELSE "DISCONNECTED"
    /\ UNCHANGED <<baseVars, stream, task, conn, awaited, lockq, rpcVars, netVars>>

(***************************************************************************)
(* open_connection() raises or exceeds CONNECT_TIMEOUT: connect() falls    *)
(* back to DISCONNECTED and raises, the supervisor logs it and backs off.  *)
(***************************************************************************)
OpenFails(p) ==
    /\ pc[p] = "opening"
    /\ IF p \in Sups
       THEN /\ pc' = [pc EXCEPT ![p] = "sleep"]
            /\ UNCHANGED state
       ELSE /\ pc' = [pc EXCEPT ![p] = "none"]
            /\ state' = "DISCONNECTED"
    /\ UNCHANGED <<baseVars, stream, task, conn, awaited, lockq, rpcVars, netVars>>

-----------------------------------------------------------------------------
\* Mutant: connect() does not look for a running supervisor.
Connect_Unguarded(k) ==
    /\ pc[k] = "none"
    /\ state' = "CONNECTING"
    /\ pc' = [pc EXCEPT ![k] = "opening"]
    /\ UNCHANGED <<baseVars, stream, task, conn, awaited, lockq, rpcVars, netVars>>

(***************************************************************************)
(* connect() returns at once when a supervisor is running.                 *)
(***************************************************************************)
Connect(k) ==
    /\ pc[k] = "none"
    /\ ~SupervisorRuns
    /\ state' = "CONNECTING"
    /\ pc' = [pc EXCEPT ![k] = "opening"]
    /\ UNCHANGED <<baseVars, stream, task, conn, awaited, lockq, rpcVars, netVars>>

(***************************************************************************)
(* The caller of connect() gives up waiting (asyncio.timeout, cancel()).   *)
(* CancelledError is no Exception, so the state stays CONNECTING; a        *)
(* connection that was waiting to be published is not closed.              *)
(***************************************************************************)
ConnectCancelled(k) ==
    /\ pc[k] \in {"opening", "publish"}
    /\ pc' = [pc EXCEPT ![k] = "none"]
    /\ conn' = [conn EXCEPT ![k] = None]
    /\ Dequeue(k)
    /\ UNCHANGED <<baseVars, state, stream, task, awaited, rpcVars, netVars>>

-----------------------------------------------------------------------------
(***************************************************************************)
(* cancel_task() has found the supervisor ended and disconnect() forgets   *)
(* it, unless another client that awaits it has cancelled it: then         *)
(* CancelledError leaves cancel_task() and disconnect(), which has closed  *)
(* the transport but not reset _supervisor_task.                           *)
(***************************************************************************)
ForgetSupervisor(k, s) ==
    \/ task' = None
    \/ /\ s # None
       /\ \E l \in Clients \ {k} : awaited[l] = s
       /\ UNCHANGED task

\* Mutant: disconnect() does not wait for the supervisor.
AfterTeardown_NoAwait(p) ==
    /\ IF p \in Sups
       THEN /\ pc' = [pc EXCEPT ![p] = IF state' = "CLOSED" THEN "none" ELSE "opening"]
            /\ UNCHANGED task
       ELSE /\ pc' = [pc EXCEPT ![p] = "none"]
            /\ task' = None
    /\ UNCHANGED awaited

(***************************************************************************)
(* What follows _teardown_stream(): in disconnect(), cancel_task() awaits  *)
(* the supervisor if it runs; in _supervise(), the backoff sleep is        *)
(* skipped if the connection was stable, and reconnecting starts unless    *)
(* the transport was closed.  Read after state' is known.                  *)
(***************************************************************************)
AfterTeardown(p) ==
    \/ /\ p \in Sups
       /\ \/ pc' = [pc EXCEPT ![p] = "sleep"]
          \/ pc' = [pc EXCEPT ![p] = IF state' = "CLOSED" THEN "none" ELSE "opening"]
       /\ UNCHANGED <<task, awaited>>
    \/ /\ p \in Clients
       /\ IF ~SupervisorRuns
          THEN /\ ForgetSupervisor(p, task)
               /\ pc' = [pc EXCEPT ![p] = "none"]
               /\ UNCHANGED awaited
          ELSE /\ awaited' = [awaited EXCEPT ![p] = task]
               /\ pc' = [pc EXCEPT ![p] = "awaiting"]
               /\ UNCHANGED task

\* Mutant: the stream is dropped without closing its writer.
TakeStream_NoClose(p) ==
    /\ stream' = None
    /\ AfterTeardown(p)
    /\ UNCHANGED link

(***************************************************************************)
(* The body of _teardown_stream() under the lock, and writer.close().      *)
(***************************************************************************)
TakeStream(p) ==
    /\ stream' = None
    /\ IF stream = None
       THEN /\ AfterTeardown(p)
            /\ UNCHANGED link
       ELSE /\ link' = [link EXCEPT ![stream] = "closed"]
            /\ pc' = [pc EXCEPT ![p] = "closing"]
            /\ UNCHANGED <<task, awaited>>

(***************************************************************************)
(* _teardown_stream(): pending calls fail first, in the caller's step.     *)
(***************************************************************************)
TeardownStream(p) ==
    /\ CancelPendingRequests
    /\ conn' = [conn EXCEPT ![p] = None]
    /\ \/ /\ LockFree
          /\ TakeStream(p)
          /\ UNCHANGED lockq
       \/ /\ ~LockFree
          /\ Enqueue(p)
          /\ pc' = [pc EXCEPT ![p] = "teardown"]
          /\ UNCHANGED <<stream, link, task, awaited>>

TeardownGranted(p) ==
    /\ pc[p] = "teardown"
    /\ Granted(p)
    /\ UNCHANGED <<baseVars, state, conn, rpcVars, sent, inbox, executed>>
    /\ TakeStream(p)

WaitClosed(p) ==
    /\ pc[p] = "closing"
    /\ UNCHANGED <<baseVars, state, stream, conn, lockq, rpcVars, netVars>>
    /\ AfterTeardown(p)

Disconnect(k) ==
    /\ pc[k] = "none"
    /\ QuietClose => \A p \in Tasks : pc[p] \notin {"opening", "publish"}
    /\ state' = "CLOSED"
    /\ TeardownStream(k)
    /\ UNCHANGED <<rpcVars, sent, inbox, executed>>

(***************************************************************************)
(* cancel_task(): the supervisor has not ended within 5 seconds and is     *)
(* cancelled wherever it is suspended.  It closes nothing on its way out.  *)
(***************************************************************************)
CancelSupervisor(k) ==
    /\ pc[k] = "awaiting"
    /\ pc[awaited[k]] # "none"
    /\ pc' = [pc EXCEPT ![awaited[k]] = "none"]
    /\ conn' = [conn EXCEPT ![awaited[k]] = None]
    /\ Dequeue(awaited[k])
    /\ UNCHANGED <<baseVars, state, stream, task, awaited, rpcVars, netVars>>

DisconnectReturns(k) ==
    /\ pc[k] = "awaiting"
    /\ pc[awaited[k]] = "none"
    /\ pc' = [pc EXCEPT ![k] = "none"]
    /\ awaited' = [awaited EXCEPT ![k] = None]
    /\ ForgetSupervisor(k, awaited[k])
    /\ UNCHANGED <<baseVars, state, stream, conn, lockq, rpcVars, netVars>>

-----------------------------------------------------------------------------
\* Mutant: the state is not set to RECONNECTING before the teardown.
ConnectionLost_StateKept(s) ==
    IF state = "CLOSED"
    THEN /\ pc' = [pc EXCEPT ![s] = "none"]
         /\ conn' = [conn EXCEPT ![s] = None]
         /\ UNCHANGED <<baseVars, state, stream, task, awaited, lockq, rpcVars, netVars>>
    ELSE /\ UNCHANGED state
         /\ TeardownStream(s)
         /\ UNCHANGED <<rpcVars, sent, inbox, executed>>

(***************************************************************************)
(* _supervise() after the read loop has ended: leave if the transport was  *)
(* closed, else mark it RECONNECTING and tear the stream down.             *)
(***************************************************************************)
ConnectionLost(s) ==
    IF state = "CLOSED"
    THEN /\ pc' = [pc EXCEPT ![s] = "none"]
         /\ conn' = [conn EXCEPT ![s] = None]
         /\ UNCHANGED <<baseVars, state, stream, task, awaited, lockq, rpcVars, netVars>>
    ELSE /\ state' = "RECONNECTING"
         /\ TeardownStream(s)
         /\ UNCHANGED <<rpcVars, sent, inbox, executed>>

(***************************************************************************)
(* A StreamReader refuses a second task that waits for data.               *)
(***************************************************************************)
ReaderBusy(s, c) == \E t \in Sups \ {s} : pc[t] = "read" /\ conn[t] = c

(***************************************************************************)
(* The supervisor runs for the first time: the read loop takes the current *)
(* stream, or raises when there is none.                                   *)
(***************************************************************************)
SuperviseStarts(s) ==
    /\ pc[s] = "start"
    /\ IF state = "CLOSED" \/ stream = None \/ ReaderBusy(s, stream)
       THEN ConnectionLost(s)
       ELSE /\ pc' = [pc EXCEPT ![s] = "read"]
            /\ conn' = [conn EXCEPT ![s] = stream]
            /\ UNCHANGED <<baseVars, state, stream, task, awaited, lockq, rpcVars, netVars>>

\* Mutant: the state is not tested again after the sleep.
SleepEnds_NoTest(s) ==
    /\ pc[s] = "sleep"
    /\ pc' = [pc EXCEPT ![s] = "opening"]
    /\ UNCHANGED <<baseVars, state, stream, task, conn, awaited, lockq, rpcVars, netVars>>

(***************************************************************************)
(* The backoff sleep ends; the state is tested, then _open() is called.    *)
(***************************************************************************)
SleepEnds(s) ==
    /\ pc[s] = "sleep"
    /\ pc' = [pc EXCEPT ![s] = IF state = "CLOSED" THEN "none" ELSE "opening"]
    /\ UNCHANGED <<baseVars, state, stream, task, conn, awaited, lockq, rpcVars, netVars>>

(***************************************************************************)
(* _read_loop(): one frame with a response is read and handled.            *)
(***************************************************************************)
ReadResponse(s, m) ==
    /\ pc[s] = "read"
    /\ m \in inbox[conn[s]]
    /\ inbox' = [inbox EXCEPT ![conn[s]] = @ \ {m}]
    /\ HandleResponse(m)
    /\ UNCHANGED <<ctlVars, lockq, rpcVars, link, sent, executed>>

(***************************************************************************)
(* One frame with a notification: the callback is awaited inside the read  *)
(* loop, which then reads on.                                              *)
(***************************************************************************)
ReadNotification(s) ==
    /\ pc[s] = "read"
    /\ link[conn[s]] = "up"
    /\ pc' = [pc EXCEPT ![s] = "callback"]
    /\ UNCHANGED <<baseVars, state, stream, task, conn, awaited, lockq, rpcVars, netVars>>

CallbackReturns(s) ==
    /\ pc[s] = "callback"
    /\ IF ReaderBusy(s, conn[s])
       THEN ConnectionLost(s)
       ELSE /\ pc' = [pc EXCEPT ![s] = "read"]
            /\ UNCHANGED <<baseVars, state, stream, task, conn, awaited, lockq, rpcVars, netVars>>

\* Mutant: an exception of the callback ends the supervisor task.
CallbackRaises_EndsTask(s) ==
    /\ pc[s] = "callback"
    /\ pc' = [pc EXCEPT ![s] = "none"]
    /\ conn' = [conn EXCEPT ![s] = None]
    /\ UNCHANGED <<baseVars, state, stream, task, awaited, lockq, rpcVars, netVars>>

(***************************************************************************)
(* The read loop raises: the connection is gone, or with it still up the   *)
(* frame was malformed or the callback raised.                             *)
(***************************************************************************)
ReadFails(s)      == pc[s] = "read" /\ link[conn[s]] # "up" /\ ConnectionLost(s)
FrameRejected(s)  == pc[s] = "read" /\ link[conn[s]] = "up" /\ ConnectionLost(s)
CallbackRaises(s) == pc[s] = "callback" /\ ConnectionLost(s)

-----------------------------------------------------------------------------
(***************************************************************************)
(* Environment bound: an invoke id is not handed out again while the call  *)
(* that had it last is registered or its frames are under way.  In the     *)
(* code 2^32 - 1 other calls lie between, and a call lasts 120 seconds.    *)
(***************************************************************************)
InFlight(r) == \E c \in Conns : r \in sent[c] \cup inbox[c]

IdFree(i) ==
    \A r \in Reqs : rpc[r] \in Outstanding \/ InFlight(r) => invoke[r] # i

(***************************************************************************)
(* write() and drain() with the lock held: the frame is on the wire, or    *)
(* lost if the connection is; drain() suspends when the buffer is full or  *)
(* is about to raise.                                                      *)
(***************************************************************************)
WriteAndDrain(r) ==
    /\ wrote' = [wrote EXCEPT ![r] = stream]
    /\ \/ sent' = [sent EXCEPT ![stream] = @ \cup {r}]
       \/ /\ link[stream] # "up"
          /\ UNCHANGED sent
    /\ \E p \in {"waiting", "draining"} : rpc' = [rpc EXCEPT ![r] = p]

\* Mutant: the state is not tested, so calls queue during a reconnect.
Request_AnyState(r) ==
    /\ rpc[r] = "idle"
    /\ IdFree(nextId)
    /\ SubscribeRequest(r)
    /\ accepted' = [accepted EXCEPT ![r] = stream]
    /\ \/ /\ LockFree
          /\ stream # None
          /\ WriteAndDrain(r)
          /\ UNCHANGED lockq
       \/ /\ ~LockFree
          /\ Enqueue(r)
          /\ rpc' = [rpc EXCEPT ![r] = "queued"]
          /\ UNCHANGED <<wrote, sent>>
    /\ UNCHANGED <<ctlVars, link, inbox, executed>>

(***************************************************************************)
(* request() up to its first suspension: fail fast unless CONNECTED, take  *)
(* an id, register the future, then write or queue for the lock.  Without  *)
(* a stream it raises, and only the id is gone.                            *)
(***************************************************************************)
Request(r) ==
    /\ rpc[r] = "idle"
    /\ \/ /\ state # "CONNECTED"
          /\ rpc' = [rpc EXCEPT ![r] = "rejected"]
          /\ UNCHANGED <<baseVars, ctlVars, lockq, accepted, wrote, netVars>>
       \/ /\ state = "CONNECTED"
          /\ IdFree(nextId)
          /\ LockFree
          /\ stream = None
          /\ rpc' = [rpc EXCEPT ![r] = "rejected"]
          /\ nextId' = NextInvokeId(nextId)
          /\ UNCHANGED <<pending, invoke, future, got, ctlVars, lockq, accepted, wrote, netVars>>
       \/ /\ state = "CONNECTED"
          /\ IdFree(nextId)
          /\ SubscribeRequest(r)
          /\ accepted' = [accepted EXCEPT ![r] = stream]
          /\ \/ /\ LockFree
                /\ stream # None
                /\ WriteAndDrain(r)
                /\ UNCHANGED lockq
             \/ /\ ~LockFree
                /\ Enqueue(r)
                /\ rpc' = [rpc EXCEPT ![r] = "queued"]
                /\ UNCHANGED <<wrote, sent>>
          /\ UNCHANGED <<ctlVars, link, inbox, executed>>

\* Mutant: without a stream the call raises and stays registered.
RequestGranted_Leaks(r) ==
    /\ rpc[r] = "queued"
    /\ Granted(r)
    /\ \/ /\ stream # None
          /\ WriteAndDrain(r)
       \/ /\ stream = None
          /\ rpc' = [rpc EXCEPT ![r] = "error"]
          /\ UNCHANGED <<wrote, sent>>
    /\ UNCHANGED <<baseVars, ctlVars, accepted, link, inbox, executed>>

(***************************************************************************)
(* A queued call gets the lock: it writes to the stream it finds, also if  *)
(* its future has failed meanwhile; without a stream it raises.            *)
(***************************************************************************)
RequestGranted(r) ==
    /\ rpc[r] = "queued"
    /\ Granted(r)
    /\ \/ /\ stream # None
          /\ WriteAndDrain(r)
          /\ UNCHANGED baseVars
       \/ /\ stream = None
          /\ UnsubscribeRequest(r, FALSE)
          /\ rpc' = [rpc EXCEPT ![r] = "error"]
          /\ UNCHANGED <<wrote, sent>>
    /\ UNCHANGED <<ctlVars, accepted, link, inbox, executed>>

DrainReturns(r) ==
    /\ rpc[r] = "draining"
    /\ rpc' = [rpc EXCEPT ![r] = "waiting"]
    /\ UNCHANGED <<baseVars, ctlVars, lockq, accepted, wrote, netVars>>

(***************************************************************************)
(* The call ends: the subscription is left and the caller sees an outcome. *)
(***************************************************************************)
EndRequest(r, outcome) ==
    /\ UnsubscribeRequest(r, outcome = "ok")
    /\ rpc' = [rpc EXCEPT ![r] = outcome]
    /\ UNCHANGED <<ctlVars, accepted, wrote, netVars>>

(***************************************************************************)
(* drain() raises when the connection is gone; the lock is released.       *)
(***************************************************************************)
DrainRaises(r) ==
    /\ rpc[r] = "draining"
    /\ link[wrote[r]] # "up"
    /\ EndRequest(r, "error")
    /\ UNCHANGED lockq

\* Mutant: a call that failed is queued again.
FutureDone_Retries(r) ==
    /\ rpc[r] = "waiting"
    /\ \/ /\ future[r] = "result"
          /\ EndRequest(r, "ok")
          /\ UNCHANGED lockq
       \/ /\ future[r] = "failed"
          /\ rpc' = [rpc EXCEPT ![r] = "queued"]
          /\ future' = [future EXCEPT ![r] = "undone"]
          /\ Enqueue(r)
          /\ UNCHANGED <<nextId, pending, invoke, got, ctlVars, accepted, wrote, netVars>>

(***************************************************************************)
(* The future is done: the call returns its result or raises its failure.  *)
(***************************************************************************)
FutureDone(r) ==
    /\ rpc[r] = "waiting"
    /\ \/ future[r] = "result" /\ EndRequest(r, "ok")
       \/ future[r] = "failed" /\ EndRequest(r, "error")
    /\ UNCHANGED lockq

(***************************************************************************)
(* wait_for() gives up after REQUEST_TIMEOUT.                              *)
(***************************************************************************)
RequestTimeout(r) ==
    /\ rpc[r] = "waiting"
    /\ future[r] = "undone"
    /\ EndRequest(r, "error")
    /\ UNCHANGED lockq

\* Mutant: the acquisition of the lock is shielded from the cancellation.
RequestCancelled_Shielded(r) ==
    /\ rpc[r] \in Outstanding
    /\ EndRequest(r, "error")
    /\ UNCHANGED lockq

(***************************************************************************)
(* The calling task is cancelled at any of its suspensions.                *)
(***************************************************************************)
RequestCancelled(r) ==
    /\ rpc[r] \in Outstanding
    /\ EndRequest(r, "error")
    /\ Dequeue(r)

-----------------------------------------------------------------------------
(***************************************************************************)
(* The environment.  The PLC executes what reaches it, also after our side *)
(* has given the connection up, and answers on the connection of the call; *)
(* the network may cut a connection.                                       *)
(***************************************************************************)
PlcExecutes(c, r) ==
    /\ r \in sent[c]
    /\ sent' = [sent EXCEPT ![c] = @ \ {r}]
    /\ executed' = [executed EXCEPT ![r] = @ + 1]
    /\ inbox' = [inbox EXCEPT ![c] = IF link[c] = "up" THEN @ \cup {r} ELSE @]
    /\ UNCHANGED <<baseVars, ctlVars, lockq, rpcVars, link>>

ConnectionDrops(c) ==
    /\ link[c] = "up"
    /\ link' = [link EXCEPT ![c] = "down"]
    /\ UNCHANGED <<baseVars, ctlVars, lockq, rpcVars, sent, inbox, executed>>

-----------------------------------------------------------------------------
ClientNext(k) ==
    \/ Connect(k)
    \/ ConnectCancelled(k)
    \/ Disconnect(k)
    \/ CancelSupervisor(k)
    \/ DisconnectReturns(k)

StreamNext(p) ==
    \/ \E c \in Conns : OpenSucceeds(p, c)
    \/ PublishGranted(p)
    \/ OpenFails(p)
    \/ TeardownGranted(p)
    \/ WaitClosed(p)

SupNext(s) ==
    \/ SuperviseStarts(s)
    \/ SleepEnds(s)
    \/ \E m \in Reqs : ReadResponse(s, m)
    \/ ReadNotification(s)
    \/ CallbackReturns(s)
    \/ ReadFails(s)
    \/ FrameRejected(s)
    \/ CallbackRaises(s)

RequestNext(r) ==
    \/ Request(r)
    \/ RequestGranted(r)
    \/ DrainReturns(r)
    \/ DrainRaises(r)
    \/ FutureDone(r)
    \/ RequestTimeout(r)
    \/ RequestCancelled(r)

NetNext(c) ==
    \/ \E r \in Reqs : PlcExecutes(c, r)
    \/ ConnectionDrops(c)

Next ==
    \/ \E k \in Clients : ClientNext(k)
    \/ \E p \in Tasks : StreamNext(p)
    \/ \E s \in Sups : SupNext(s)
    \/ \E r \in Reqs : RequestNext(r)
    \/ \E c \in Conns : NetNext(c)

Spec == Init /\ [][Next]_vars

(***************************************************************************)
(* A restriction on the callers: nobody else is inside connect() or        *)
(* disconnect() while a client is inside connect().  Clients may           *)
(* disconnect at the same time.  One client alone always keeps to it.      *)
(***************************************************************************)
ConnectsAlone ==
    \A k, l \in Clients : pc[k] \in {"opening", "publish"} /\ pc[l] # "none" => k = l

AloneSpec == Init /\ [][Next /\ ConnectsAlone']_vars

-----------------------------------------------------------------------------
(***************************************************************************)
(* Fairness: the event loop runs every task that is ready; open attempts   *)
(* end within CONNECT_TIMEOUT; close and drain end because the kernel      *)
(* bounds unacknowledged writes (TCP_USER_TIMEOUT); the callback is        *)
(* assumed to end.  Nothing is assumed of the PLC, of connection attempts  *)
(* succeeding, or of REQUEST_TIMEOUT.                                      *)
(***************************************************************************)
OpenEnds(p) == OpenFails(p) \/ \E c \in Conns : OpenSucceeds(p, c)
CallbackEnds(s) == CallbackReturns(s) \/ CallbackRaises(s)
DrainEnds(r) == DrainReturns(r) \/ DrainRaises(r)

Fairness ==
    /\ \A p \in Tasks :
        /\ WF_vars(OpenEnds(p))
        /\ WF_vars(PublishGranted(p))
        /\ WF_vars(TeardownGranted(p))
        /\ WF_vars(WaitClosed(p))
    /\ \A k \in Clients :
        /\ WF_vars(CancelSupervisor(k))
        /\ WF_vars(DisconnectReturns(k))
    /\ \A s \in Sups :
        /\ WF_vars(SuperviseStarts(s))
        /\ WF_vars(SleepEnds(s))
        /\ WF_vars(ReadFails(s))
        /\ WF_vars(CallbackEnds(s))
    /\ \A r \in Reqs :
        /\ WF_vars(RequestGranted(r))
        /\ WF_vars(DrainEnds(r))
        /\ WF_vars(FutureDone(r))

FairSpec == Spec /\ Fairness

-----------------------------------------------------------------------------
(***************************************************************************)
(* A call that waits for its answer can still get it or be told: it was    *)
(* written to the current stream, and a supervisor reads that stream (or   *)
(* is about to), so either the answer is read or the loss is noticed.      *)
(* Anything else would wait out REQUEST_TIMEOUT in silence.                *)
(***************************************************************************)
NoOrphanedRequest ==
    \A r \in Reqs : rpc[r] = "waiting" /\ future[r] = "undone" =>
        /\ wrote[r] = stream
        /\ \E s \in Sups :
            \/ pc[s] = "start"
            \/ pc[s] \in {"read", "callback"} /\ conn[s] = stream

(***************************************************************************)
(* At most one connection to the PLC is open: the peer locks out a second  *)
(* connection from the same address (transport.py:202).                    *)
(***************************************************************************)
SingleConnection == Cardinality({c \in Conns : link[c] = "up"}) <= 1

(***************************************************************************)
(* At most one task runs that opens or reads connections, so no reconnect  *)
(* attempts compete (transport.py:416-419).                                *)
(***************************************************************************)
OneConnector ==
    Cardinality({s \in Sups : pc[s] # "none"}
                \cup {k \in Clients : pc[k] \in {"opening", "publish"}}) <= 1

(***************************************************************************)
(* Once disconnect() has returned nothing is left behind: no stream, no    *)
(* running supervisor, no open connection, no call still to be failed.     *)
(***************************************************************************)
DisconnectLeavesNothing ==
    state = "CLOSED" /\ (\A k \in Clients : pc[k] = "none") =>
        /\ stream = None
        /\ \A s \in Sups : pc[s] = "none"
        /\ \A c \in Conns : link[c] # "up"
        /\ \A r \in Reqs : future[r] # "undone"

(***************************************************************************)
(* After disconnect() only a new connect() leaves CLOSED: the supervisor   *)
(* must not reconnect (transport.py:83-84).                                *)
(***************************************************************************)
ClosedStaysClosed ==
    [][state = "CLOSED" => state' \in {"CLOSED", "CONNECTING"}]_vars

(***************************************************************************)
(* A call that queues for the lock still finds the stream it was accepted  *)
(* for: a teardown that queues too comes after it.  While clients connect  *)
(* alone the branch of request() for a vanished stream (transport.py:395)  *)
(* is only a safeguard.                                                    *)
(***************************************************************************)
QueuedFindsStream ==
    \A r \in Reqs : rpc[r] = "queued" => stream # None /\ stream = accepted[r]

(***************************************************************************)
(* A supervisor that reconnects finds the lock free, so it publishes the   *)
(* new connection in the step that opened it (transport.py:309-311).  If   *)
(* it waited between the two, disconnect() could cancel it there and the   *)
(* connection would be open for ever, known to nobody.                     *)
(***************************************************************************)
ReopensAtOnce == \A s \in Sups : pc[s] = "opening" => LockFree

(***************************************************************************)
(* A call is written to the connection that was current when it was        *)
(* accepted and never replayed on a later one, however long it queued      *)
(* behind a blocked drain(): the FIFO lock orders it before the teardown.  *)
(***************************************************************************)
WrittenWhereAccepted ==
    \A r \in Reqs : rpc[r] \in {"draining", "waiting"} => wrote[r] = accepted[r]

(***************************************************************************)
(* _pending_requests holds exactly the calls in progress, each under its   *)
(* own invoke id, however the others ended (subscribe_request's finally).  *)
(***************************************************************************)
RegisteredWhileOutstanding ==
    /\ \A r \in Reqs : rpc[r] \in Outstanding =>
        invoke[r] \in Ids /\ pending[invoke[r]] = r
    /\ \A i \in Ids : pending[i] # None =>
        rpc[pending[i]] \in Outstanding /\ invoke[pending[i]] = i

(***************************************************************************)
(* The inductive strengthening of OwnResponse and of the refinement of     *)
(* RemoteCall: a reader has a connection, the ids of calls in progress or  *)
(* on the wire are distinct, and where a call is on the wire tells how     *)
(* often it has been executed.                                             *)
(***************************************************************************)
HoldsConnection ==
    \A p \in Tasks : pc[p] \in {"read", "callback", "publish"} => conn[p] \in Conns

Live(r) == rpc[r] \in Outstanding \/ InFlight(r)

DistinctIds ==
    \A q, r \in Reqs : Live(q) /\ Live(r) /\ invoke[q] = invoke[r] => q = r

Unsent == {"idle", "rejected", "queued"}

WireInv ==
    /\ \A r \in Reqs : rpc[r] \in Unsent => ~InFlight(r) /\ executed[r] = 0
    /\ \A c \in Conns : \A r \in sent[c] :
        /\ invoke[r] \in Ids
        /\ executed[r] = 0
        /\ \A d \in Conns : r \in sent[d] => d = c
    /\ \A c \in Conns : \A r \in inbox[c] : invoke[r] \in Ids /\ executed[r] = 1

AnswerInv ==
    \A r \in Reqs :
        /\ executed[r] \in {0, 1}
        /\ got[r] = r => executed[r] = 1
        /\ future[r] = "result" => got[r] = r
        /\ rpc[r] = "ok" => executed[r] = 1

CallInv ==
    /\ HoldsConnection
    /\ RegisteredWhileOutstanding
    /\ DistinctIds
    /\ WireInv
    /\ OwnResponse
    /\ AnswerInv

(***************************************************************************)
(* request() implements the abstract remote call.                          *)
(***************************************************************************)
CallStatus(p) ==
    CASE p \in Outstanding -> "active"
      [] p = "error"       -> "failed"
      [] OTHER             -> p

Remote == INSTANCE RemoteCall WITH
    status <- [r \in Reqs |-> CallStatus(rpc[r])],
    executions <- executed

RemoteSpec == Remote!Spec

(***************************************************************************)
(* When the connection of a call is lost the call ends without waiting for *)
(* REQUEST_TIMEOUT, whether it was queued, draining or waiting.            *)
(***************************************************************************)
LossIsReported ==
    \A r \in Reqs :
        (/\ rpc[r] \in Outstanding
         /\ accepted[r] # None
         /\ link[accepted[r]] # "up") ~> (rpc[r] \in Ended)

(***************************************************************************)
(* disconnect() returns, whatever the supervisor is doing.                 *)
(***************************************************************************)
DisconnectCompletes ==
    \A k \in Clients :
        pc[k] \in {"teardown", "closing", "awaiting"} ~> pc[k] = "none"

(***************************************************************************)
(* While the connection is down the supervisor tries to open a new one     *)
(* again and again, until it has one or the transport is closed.           *)
(***************************************************************************)
KeepsReconnecting ==
    state = "RECONNECTING" ~>
        (state # "RECONNECTING" \/ \E s \in Sups : pc[s] = "opening")
=============================================================================
