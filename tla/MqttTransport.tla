---------------------------- MODULE MqttTransport ----------------------------
(***************************************************************************)
(* AdsAioMqttTransport and AdsGMqttTransport of src/aioads/transport.py:   *)
(* ADS frames tunnelled through an MQTT broker, shared by several clients. *)
(* A node announces itself in an info message that the broker retains; a   *)
(* request goes to a node that is known to be online.  The two classes     *)
(* differ in the order of their steps and in who handles a message: a      *)
(* reader task (aiomqtt) or a task for each message (gmqtt).               *)
(*                                                                         *)
(* An action is what a task does from one suspension to the next; an await *)
(* of aiomqtt's client is one.  The broker orders the messages of one      *)
(* topic, not those of different topics.  That the libraries connect again *)
(* by themselves is left out.                                              *)
(***************************************************************************)
EXTENDS BaseTransport, Sequences

CONSTANTS
    Clients,        \* callers of connect() and disconnect()
    Nodes,          \* the net ids of the PLCs
    Self,           \* our own net id
    Libraries,      \* the classes considered
    Careful,        \* whether callers are careful: TRUE, FALSE or both
    MaxInfos        \* bound: how often PLCs publish their info

ASSUME MqttAssumption ==
    /\ Self \notin Nodes
    /\ Libraries \subseteq {"aiomqtt", "gmqtt"}
    /\ Careful \subseteq BOOLEAN
    /\ MaxInfos \in Nat

VARIABLES
    library,    \* the class of the transport
    careful,    \* whether connect() is only called while no client is inside
                \* connect() or disconnect(), and is never cancelled
    link,       \* our connection to the broker: down, up, or lost
    listening,  \* the topics the broker has our subscription of
    found,      \* remotes_initialized
    remotes,    \* remotes: the nodes believed to be online
    reader,     \* _reader_task of aiomqtt
    pc,         \* where each client is
    rpc,        \* where each call of request() is
    retained,   \* the broker: the info it retains of each node
    published,  \* how often PLCs have published their info
    infos,      \* info messages on their way to us, in order
    sent,       \* requests on their way to a PLC
    answers,    \* answers on their way to us
    executed,   \* how often a PLC has executed each call
    ready,      \* history: a connect() has returned since the connection was
                \* opened
    heard       \* history: the calls that wait, and were accepted with all in
                \* place for their answer since the connection was opened

ctlVars == <<found, remotes, reader, pc, ready>>
netVars == <<link, listening, retained, infos, answers>>
modeVars == <<library, careful>>
vars == <<baseVars, modeVars, ctlVars, rpc, heard, netVars, published, sent, executed>>

All == Nodes \cup {Self}
Infos == {"online", "offline", "broken"}
Topics == {"info", "response"}

(***************************************************************************)
(* The reader subscribes ("start"), waits for a message ("read") or for    *)
(* the notification callback; it ends with an error, which the pending     *)
(* calls are told, or silently.                                            *)
(***************************************************************************)
ReaderRuns == {"start", "read", "callback"}
ReaderStates == ReaderRuns \cup {"none", "failed", "silent"}

(***************************************************************************)
(* In connect() a client waits for the connection ("opening"), on aiomqtt  *)
(* then for its publication ("entered") and its subscription ("announced") *)
(* to be done, and for the first info message ("discover"); in             *)
(* disconnect(), for the reader ("closing").                               *)
(***************************************************************************)
Opening == {"opening", "entered", "announced"}
Places == Opening \cup {"none", "discover", "closing"}

TypeOK ==
    /\ BaseTypeOK
    /\ library \in Libraries
    /\ careful \in Careful
    /\ link \in {"down", "up", "lost"}
    /\ listening \subseteq Topics
    /\ found \in {"pending", "done", "cancelled"}
    /\ remotes \subseteq All
    /\ reader \in ReaderStates
    /\ library = "gmqtt" => reader = "none"
    /\ pc \in [Clients -> Places]
    /\ rpc \in [Reqs -> {"idle", "rejected", "waiting", "ok", "error"}]
    /\ retained \in [All -> Infos \cup {"none"}]
    /\ published \in 0..MaxInfos
    /\ infos \in [All -> Seq(Infos)]
    /\ sent \subseteq Reqs
    /\ answers \subseteq Reqs
    /\ executed \in [Reqs -> Nat]
    /\ ready \in BOOLEAN
    /\ heard \subseteq Reqs

NoInfos == [n \in All |-> <<>>]

Init ==
    /\ BaseInit
    /\ library \in Libraries
    /\ careful \in Careful
    /\ link = "down"
    /\ listening = {}
    /\ found = "pending"
    /\ remotes = {}
    /\ reader = "none"
    /\ pc = [k \in Clients |-> "none"]
    /\ rpc = [r \in Reqs |-> "idle"]
    /\ retained \in [All -> {"none", "online"}]
    /\ retained[Self] = "none"
    /\ published = 0
    /\ infos = NoInfos
    /\ sent = {}
    /\ answers = {}
    /\ executed = [r \in Reqs |-> 0]
    /\ ready = FALSE
    /\ heard = {}

-----------------------------------------------------------------------------
(***************************************************************************)
(* connect() returns at once if the reader task is set, or the library is  *)
(* connected; whether either still works is not looked at.                 *)
(***************************************************************************)
Connected == IF library = "aiomqtt" THEN reader # "none" ELSE link = "up"

MayConnect == careful => \A k \in Clients : pc[k] = "none"

(***************************************************************************)
(* A client of aiomqtt that has been entered cannot be entered again:      *)
(* connect() then raises and changes nothing.  Two clients that open the   *)
(* connection at once are left out.                                        *)
(***************************************************************************)
Connect(k) ==
    /\ pc[k] = "none"
    /\ MayConnect
    /\ \/ /\ Connected
          /\ ready' = TRUE
          /\ UNCHANGED pc
       \/ /\ ~Connected
          /\ library = "aiomqtt" => link = "down"
          /\ \A j \in Clients : pc[j] \notin Opening
          /\ pc' = [pc EXCEPT ![k] = "opening"]
          /\ ready' = FALSE
    /\ UNCHANGED <<baseVars, modeVars, found, remotes, reader, rpc, heard, netVars,
                   published, sent, executed>>

(***************************************************************************)
(* The client of aiomqtt is entered; our info is published, to be retained *)
(* by the broker.                                                          *)
(***************************************************************************)
Entered(k) ==
    /\ library = "aiomqtt"
    /\ pc[k] = "opening"
    /\ pc' = [pc EXCEPT ![k] = "entered"]
    /\ link' = "up"
    /\ heard' = {}
    /\ UNCHANGED <<baseVars, modeVars, found, remotes, reader, ready, rpc, listening,
                   retained, infos, answers, published, sent, executed>>

Announced(k) ==
    /\ pc[k] = "entered"
    /\ link = "up"
    /\ pc' = [pc EXCEPT ![k] = "announced"]
    /\ retained' = [retained EXCEPT ![Self] = "online"]
    /\ UNCHANGED <<baseVars, modeVars, found, remotes, reader, ready, rpc, heard, link,
                   listening, infos, answers, published, sent, executed>>

(***************************************************************************)
(* The infos are subscribed, upon which the retained ones come in; aiomqtt *)
(* starts its reader.  gmqtt publishes and subscribes without waiting as   *)
(* soon as it is connected.  Both then wait for the first info, unless     *)
(* there has been one; gmqtt then subscribes the responses.  A future that *)
(* was cancelled is raised.                                                *)
(***************************************************************************)
Opened(k) ==
    /\ \/ /\ library = "aiomqtt"
          /\ pc[k] = "announced"
          /\ link = "up"
          /\ listening' = {"info"}
          /\ reader' = "start"
          /\ UNCHANGED <<link, retained, heard>>
       \/ /\ library = "gmqtt"
          /\ pc[k] = "opening"
          /\ link' = "up"
          /\ retained' = [retained EXCEPT ![Self] = "online"]
          /\ listening' = IF found = "done" THEN Topics ELSE {"info"}
          /\ heard' = {}
          /\ UNCHANGED reader
    /\ infos' = [n \in All |->
                    IF retained'[n] # "none" THEN <<retained'[n]>> ELSE <<>>]
    /\ pc' = [pc EXCEPT ![k] = IF found = "pending" THEN "discover" ELSE "none"]
    /\ ready' = (found = "done")
    /\ UNCHANGED <<baseVars, modeVars, found, remotes, rpc, answers, published, sent,
                   executed>>

(***************************************************************************)
(* An attempt fails or is cancelled, at any of its steps: a client of      *)
(* aiomqtt that has been entered stays so, and there is no reader.         *)
(***************************************************************************)
OpenFails(k) ==
    /\ pc[k] \in Opening
    /\ pc' = [pc EXCEPT ![k] = "none"]
    /\ UNCHANGED <<baseVars, modeVars, found, remotes, reader, ready, rpc, heard, netVars,
                   published, sent, executed>>

\* Mutant: the responses are not subscribed.
Discovered_Deaf(k) ==
    /\ pc[k] = "discover"
    /\ found # "pending"
    /\ pc' = [pc EXCEPT ![k] = "none"]
    /\ ready' = (ready \/ found = "done")
    /\ UNCHANGED <<baseVars, modeVars, found, remotes, reader, rpc, heard, netVars,
                   published, sent, executed>>

(***************************************************************************)
(* remotes_initialized is done: connect() returns, whatever has become of  *)
(* the connection and of the reader, on gmqtt after subscribing the        *)
(* responses; or it was cancelled, and connect() raises.                   *)
(***************************************************************************)
Discovered(k) ==
    /\ pc[k] = "discover"
    /\ found # "pending"
    /\ pc' = [pc EXCEPT ![k] = "none"]
    /\ ready' = (ready \/ found = "done")
    /\ listening' = IF library = "gmqtt" /\ found = "done" /\ link = "up"
                    THEN Topics ELSE listening
    /\ UNCHANGED <<baseVars, modeVars, found, remotes, reader, rpc, heard, link,
                   retained, infos, answers, published, sent, executed>>

(***************************************************************************)
(* A client that is cancelled while it waits for remotes_initialized       *)
(* cancels that future, for every client and for ever.                     *)
(***************************************************************************)
ConnectCancelled(k) ==
    /\ pc[k] = "discover"
    /\ ~careful
    /\ pc' = [pc EXCEPT ![k] = "none"]
    /\ found' = IF found = "pending" THEN "cancelled" ELSE found
    /\ UNCHANGED <<baseVars, modeVars, remotes, reader, ready, rpc, heard, netVars,
                   published, sent, executed>>

-----------------------------------------------------------------------------
(***************************************************************************)
(* The connection ends: the broker forgets our subscriptions, and what is  *)
(* on its way to us is lost.                                               *)
(***************************************************************************)
SessionEnds(how) ==
    /\ link' = how
    /\ listening' = {}
    /\ retained' = [retained EXCEPT ![Self] = "offline"]
    /\ infos' = NoInfos
    /\ answers' = {}

(***************************************************************************)
(* disconnect(): our info goes offline and the connection is closed;       *)
(* aiomqtt then waits for its reader, unless that has ended already.  On a *)
(* connection that is lost aiomqtt may also raise in its first step, and   *)
(* change nothing.  Pending calls are not told.                            *)
(***************************************************************************)
Disconnect(k) ==
    /\ pc[k] = "none"
    /\ link # "down"
    /\ SessionEnds("down")
    /\ IF reader \in ReaderRuns
       THEN pc' = [pc EXCEPT ![k] = "closing"] /\ UNCHANGED reader
       ELSE reader' = "none" /\ UNCHANGED pc
    /\ UNCHANGED <<baseVars, modeVars, found, remotes, ready, rpc, heard, published, sent,
                   executed>>

(***************************************************************************)
(* cancel_task(): a reader that has not ended after five seconds is        *)
(* cancelled, of which no pending call is told.                            *)
(***************************************************************************)
ReaderCancelled(k) ==
    /\ pc[k] = "closing"
    /\ reader \in ReaderRuns
    /\ reader' = "silent"
    /\ UNCHANGED <<baseVars, modeVars, found, remotes, pc, ready, rpc, heard, netVars,
                   published, sent, executed>>

DisconnectReturns(k) ==
    /\ pc[k] = "closing"
    /\ reader \notin ReaderRuns
    /\ reader' = "none"
    /\ pc' = [pc EXCEPT ![k] = "none"]
    /\ UNCHANGED <<baseVars, modeVars, found, remotes, ready, rpc, heard, netVars,
                   published, sent, executed>>

-----------------------------------------------------------------------------
(***************************************************************************)
(* The reader task, which subscribes the responses itself.                 *)
(***************************************************************************)
ReaderStarts ==
    /\ reader = "start"
    /\ link = "up"
    /\ reader' = "read"
    /\ listening' = listening \cup {"response"}
    /\ UNCHANGED <<baseVars, modeVars, found, remotes, pc, ready, rpc, heard, link,
                   retained, infos, answers, published, sent, executed>>

ReaderFails ==
    /\ reader' = "failed"
    /\ CancelPendingRequests

(***************************************************************************)
(* A message is handled by the reader, or by a task of its own.            *)
(***************************************************************************)
CanRead == IF library = "aiomqtt" THEN reader = "read" ELSE link = "up"

\* Mutant: only the first info is looked at.
ReadInfo_FirstOnly(n) ==
    /\ CanRead
    /\ infos[n] # <<>>
    /\ infos' = [infos EXCEPT ![n] = Tail(@)]
    /\ found' = IF found = "pending" THEN "done" ELSE found
    /\ remotes' = IF found = "pending" /\ Head(infos[n]) = "online"
                  THEN remotes \cup {n} ELSE remotes
    /\ UNCHANGED <<baseVars, modeVars, reader, pc, ready, rpc, heard, link, listening,
                   retained, answers, published, sent, executed>>

\* Mutant: the future is resolved after the message has been parsed, by an
\* online PLC.
ReadInfo_OnlinePlcs(n) ==
    /\ CanRead
    /\ infos[n] # <<>>
    /\ infos' = [infos EXCEPT ![n] = Tail(@)]
    /\ found' = IF found = "pending" /\ n # Self /\ Head(infos[n]) = "online"
                THEN "done" ELSE found
    /\ remotes' = IF Head(infos[n]) = "online" THEN remotes \cup {n} ELSE remotes \ {n}
    /\ UNCHANGED <<baseVars, modeVars, reader, pc, ready, rpc, heard, link, listening,
                   retained, answers, published, sent, executed>>

(***************************************************************************)
(* An info message resolves remotes_initialized, also by a cancelled one's *)
(* being done, and is parsed: it says online, or not.  One that cannot be  *)
(* parsed raises, which ends the reader of aiomqtt and is logged on gmqtt. *)
(***************************************************************************)
ReadInfo(n) ==
    /\ CanRead
    /\ infos[n] # <<>>
    /\ infos' = [infos EXCEPT ![n] = Tail(@)]
    /\ found' = IF found = "pending" THEN "done" ELSE found
    /\ IF Head(infos[n]) = "broken"
       THEN /\ UNCHANGED remotes
            /\ IF library = "aiomqtt" THEN ReaderFails ELSE UNCHANGED <<baseVars, reader>>
       ELSE /\ remotes' = IF Head(infos[n]) = "online"
                          THEN remotes \cup {n} ELSE remotes \ {n}
            /\ UNCHANGED <<baseVars, reader>>
    /\ UNCHANGED <<modeVars, pc, ready, rpc, heard, link, listening, retained, answers,
                   published, sent, executed>>

ReadAnswer(r) ==
    /\ CanRead
    /\ r \in answers
    /\ answers' = answers \ {r}
    /\ HandleResponse(r)
    /\ UNCHANGED <<modeVars, ctlVars, rpc, heard, link, listening, retained, infos,
                   published, sent, executed>>

(***************************************************************************)
(* A notification: the reader awaits the callback.  (On gmqtt the task of  *)
(* the message does, and nothing of the transport changes.)                *)
(***************************************************************************)
ReadNotification ==
    /\ reader = "read"
    /\ "response" \in listening
    /\ reader' = "callback"
    /\ UNCHANGED <<baseVars, modeVars, found, remotes, pc, ready, rpc, heard, netVars,
                   published, sent, executed>>

CallbackReturns ==
    /\ reader = "callback"
    /\ reader' = "read"
    /\ UNCHANGED <<baseVars, modeVars, found, remotes, pc, ready, rpc, heard, netVars,
                   published, sent, executed>>

(***************************************************************************)
(* The reader ends with an error: it finds the connection gone, a frame is *)
(* refused, or the callback raises.                                        *)
(***************************************************************************)
ConnectionFails ==
    /\ reader \in {"start", "read"}
    /\ link # "up"
    /\ ReaderFails
    /\ UNCHANGED <<modeVars, found, remotes, pc, ready, rpc, heard, netVars, published,
                   sent, executed>>

HandlerRaises ==
    /\ reader \in {"read", "callback"}
    /\ ReaderFails
    /\ UNCHANGED <<modeVars, found, remotes, pc, ready, rpc, heard, netVars, published,
                   sent, executed>>

(***************************************************************************)
(* The library hands out something else than a publication: the reader     *)
(* returns.  The connection stays, and no pending call is told.            *)
(***************************************************************************)
ReaderReturns ==
    /\ reader = "read"
    /\ reader' = "silent"
    /\ UNCHANGED <<baseVars, modeVars, found, remotes, pc, ready, rpc, heard, netVars,
                   published, sent, executed>>

-----------------------------------------------------------------------------
InFlight(r) == r \in sent \cup answers

Live(r) == rpc[r] = "waiting" \/ InFlight(r)

(***************************************************************************)
(* Assumption: an id that comes round again is not in use any more.        *)
(***************************************************************************)
IdFree(i) == \A r \in Reqs : Live(r) => invoke[r] # i

InPlace ==
    /\ link = "up"
    /\ "response" \in listening
    /\ library = "aiomqtt" => reader \in {"read", "callback"}

(***************************************************************************)
(* request(): an invoke id is used up in any case.  A node that is not     *)
(* known to be online is refused.  Without a connection the publication    *)
(* raises, or is dropped by the library and the call waits.                *)
(***************************************************************************)
Request(r) ==
    /\ rpc[r] = "idle"
    /\ \/ /\ \/ \E n \in Nodes : n \notin remotes
             \/ link # "up"
          /\ rpc' = [rpc EXCEPT ![r] = "rejected"]
          /\ nextId' = NextInvokeId(nextId)
          /\ UNCHANGED <<pending, invoke, future, got, sent, heard>>
       \/ /\ \E n \in Nodes : n \in remotes
          /\ IdFree(nextId)
          /\ SubscribeRequest(r)
          /\ rpc' = [rpc EXCEPT ![r] = "waiting"]
          /\ sent' = IF link = "up" THEN sent \cup {r} ELSE sent
          /\ heard' = IF InPlace THEN heard \cup {r} ELSE heard
    /\ UNCHANGED <<modeVars, ctlVars, netVars, published, executed>>

EndRequest(r, outcome) ==
    /\ UnsubscribeRequest(r, outcome = "ok")
    /\ rpc' = [rpc EXCEPT ![r] = outcome]
    /\ heard' = heard \ {r}
    /\ UNCHANGED <<modeVars, ctlVars, netVars, published, sent, executed>>

FutureDone(r) ==
    /\ rpc[r] = "waiting"
    /\ \/ future[r] = "result" /\ EndRequest(r, "ok")
       \/ future[r] = "failed" /\ EndRequest(r, "error")

(***************************************************************************)
(* The call is cancelled, or gives up after REQUEST_TIMEOUT.               *)
(***************************************************************************)
RequestEnds(r) ==
    /\ rpc[r] = "waiting"
    /\ EndRequest(r, "error")

-----------------------------------------------------------------------------
(***************************************************************************)
(* The environment.  A PLC executes what reaches it and answers; requests  *)
(* are published with QoS 0 and may be lost.  A PLC publishes its info.    *)
(* When the connection is lost the broker publishes our last will.         *)
(***************************************************************************)
PlcExecutes(r) ==
    /\ r \in sent
    /\ sent' = sent \ {r}
    /\ executed' = [executed EXCEPT ![r] = @ + 1]
    /\ answers' = IF "response" \in listening THEN answers \cup {r} ELSE answers
    /\ UNCHANGED <<baseVars, modeVars, ctlVars, rpc, heard, link, listening, retained,
                   infos, published>>

RequestLost(r) ==
    /\ r \in sent
    /\ sent' = sent \ {r}
    /\ UNCHANGED <<baseVars, modeVars, ctlVars, rpc, heard, netVars, published, executed>>

PublishInfo(n, info) ==
    /\ published < MaxInfos
    /\ published' = published + 1
    /\ retained' = [retained EXCEPT ![n] = info]
    /\ infos' = IF "info" \in listening
                THEN [infos EXCEPT ![n] = Append(@, info)] ELSE infos
    /\ UNCHANGED <<baseVars, modeVars, ctlVars, rpc, heard, link, listening, answers,
                   sent, executed>>

ConnectionLost ==
    /\ link = "up"
    /\ SessionEnds("lost")
    /\ UNCHANGED <<baseVars, modeVars, ctlVars, rpc, heard, published, sent, executed>>

-----------------------------------------------------------------------------
ClientNext(k) ==
    \/ Connect(k)
    \/ Entered(k)
    \/ Announced(k)
    \/ Opened(k)
    \/ OpenFails(k)
    \/ Discovered(k)
    \/ ConnectCancelled(k)
    \/ Disconnect(k)
    \/ ReaderCancelled(k)
    \/ DisconnectReturns(k)

ReaderNext ==
    \/ ReaderStarts
    \/ \E n \in All : ReadInfo(n)
    \/ \E r \in Reqs : ReadAnswer(r)
    \/ ReadNotification
    \/ CallbackReturns
    \/ ConnectionFails
    \/ HandlerRaises
    \/ ReaderReturns

RequestNext(r) ==
    \/ Request(r)
    \/ FutureDone(r)
    \/ RequestEnds(r)

BrokerNext ==
    \/ \E r \in Reqs : PlcExecutes(r) \/ RequestLost(r)
    \/ \E n \in Nodes, info \in Infos : PublishInfo(n, info)
    \/ ConnectionLost

Next ==
    \/ \E k \in Clients : ClientNext(k)
    \/ ReaderNext
    \/ \E r \in Reqs : RequestNext(r)
    \/ BrokerNext

Spec == Init /\ [][Next]_vars

-----------------------------------------------------------------------------
(***************************************************************************)
(* A connect() of careful callers that has returned leaves a transport     *)
(* that works, or a failure that shows: while the connection is up and the *)
(* reader has not ended, both subscriptions are in place or about to be,   *)
(* and there is someone to read them.  (After a failure connect() returns  *)
(* all the same, and repairs nothing.)                                     *)
(***************************************************************************)
ConnectIsUsable ==
    careful /\ ready /\ link = "up" /\ reader \notin {"failed", "silent"} =>
        /\ "info" \in listening
        /\ "response" \in listening \/ reader = "start"
        /\ library = "aiomqtt" => reader \in ReaderRuns

(***************************************************************************)
(* Nobody reads for the present connection any more, and nobody has told   *)
(* or will tell the calls that wait: gmqtt without a connection, for       *)
(* cancel_pending_requests() is never called there; aiomqtt when its       *)
(* reader has returned, or was cancelled by disconnect().  Only            *)
(* REQUEST_TIMEOUT ends such a call.                                       *)
(***************************************************************************)
Abandoned ==
    IF library = "gmqtt" THEN link # "up" ELSE reader \in {"silent", "none"}

(***************************************************************************)
(* A call that was accepted with all in place for its answer does not wait *)
(* in vain without being told, unless it is abandoned as above: the answer *)
(* of a call that has been executed is on its way to a reader that hands   *)
(* it over, or the reader is about to find the connection gone.            *)
(***************************************************************************)
AnswerAwaited ==
    \A r \in heard : future[r] = "undone" =>
        \/ InPlace /\ (executed[r] = 1 => r \in answers)
        \/ library = "aiomqtt" /\ link # "up" /\ reader \in {"read", "callback"}
        \/ Abandoned

(***************************************************************************)
(* The table of remotes says of each node what the broker retains, as soon *)
(* as the messages on their way have been read, also after reconnects; a   *)
(* broken info leaves the state before it.                                 *)
(***************************************************************************)
RemotesFollowBroker ==
    \A n \in Nodes :
        (/\ "info" \in listening
         /\ infos[n] = <<>>
         /\ retained[n] \in {"online", "offline"})
        => (n \in remotes <=> retained[n] = "online")

(***************************************************************************)
(* request() implements the abstract remote call.                          *)
(***************************************************************************)
CallStatus(p) ==
    CASE p = "waiting" -> "active"
      [] p = "error"   -> "failed"
      [] OTHER         -> p

Remote == INSTANCE RemoteCall WITH
    status <- [r \in Reqs |-> CallStatus(rpc[r])],
    executions <- executed

RemoteSpec == Remote!Spec

(***************************************************************************)
(* A connect() that waits for remotes_initialized does not wait in vain,   *)
(* whether or not any PLC has announced itself: as long as the connection  *)
(* and the reader last, an info message is on its way to us, our own at    *)
(* the least.                                                              *)
(***************************************************************************)
DiscoveryComes ==
    \A k \in Clients :
        (/\ pc[k] = "discover"
         /\ found = "pending"
         /\ link = "up"
         /\ library = "aiomqtt" => reader \in ReaderRuns)
        => \E n \in All : infos[n] # <<>>
=============================================================================
