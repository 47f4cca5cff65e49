------------------------- MODULE MqttTransportProofs -------------------------
(***************************************************************************)
(* Theorems about MqttTransport, for both classes, any number of clients,  *)
(* calls and PLCs, any range of invoke ids and careful and other callers.  *)
(***************************************************************************)
EXTENDS MqttTransport, SequenceTheorems, TLAPS

-----------------------------------------------------------------------------
(***************************************************************************)
(* Every operation keeps the types: the counter wraps, the table and the   *)
(* futures are updated at calls and ids.                                   *)
(***************************************************************************)
LEMMA BaseStepType ==
    ASSUME BaseTypeOK, NEW r \in Reqs, NEW b \in BOOLEAN,
           \/ SubscribeRequest(r)
           \/ UnsubscribeRequest(r, b)
           \/ HandleResponse(r)
           \/ CancelPendingRequests
           \/ UNCHANGED baseVars
    PROVE  BaseTypeOK'
<1> USE BaseAssumption DEF BaseTypeOK, Ids, FutureStates
<1>1. CASE SubscribeRequest(r)
  BY <1>1 DEF SubscribeRequest, NextInvokeId
<1>2. CASE UnsubscribeRequest(r, b)
  BY <1>2 DEF UnsubscribeRequest
<1>3. CASE HandleResponse(r)
  BY <1>3 DEF HandleResponse
<1>4. CASE CancelPendingRequests
  BY <1>4 DEF CancelPendingRequests
<1>5. CASE UNCHANGED baseVars
  BY <1>5 DEF baseVars
<1>6. QED
  BY <1>1, <1>2, <1>3, <1>4, <1>5

(***************************************************************************)
(* The steps that need no call to be named.                                *)
(***************************************************************************)
LEMMA BaseQuietType ==
    ASSUME BaseTypeOK, CancelPendingRequests \/ UNCHANGED baseVars
    PROVE  BaseTypeOK'
<1>1. CASE CancelPendingRequests
  BY <1>1 DEF BaseTypeOK, CancelPendingRequests, FutureStates
<1>2. CASE UNCHANGED baseVars
  BY <1>2 DEF BaseTypeOK, baseVars
<1>3. QED
  BY <1>1, <1>2

-----------------------------------------------------------------------------
(***************************************************************************)
(* The inductive invariants.  SessionInv: at most one client opens the     *)
(* connection, and until then there is none and no reader; a client that   *)
(* waits for the reader has closed the connection; the subscriptions are   *)
(* those of the connection.                                                *)
(***************************************************************************)
OneAt(places) == \A j, k \in Clients : pc[j] \in places /\ pc[k] \in places => j = k

OpeningInv ==
    /\ OneAt(Opening)
    /\ \A k \in Clients :
        /\ pc[k] = "opening" => link # "up"
        /\ pc[k] = "opening" /\ library = "aiomqtt" => link = "down"
        /\ pc[k] \in {"entered", "announced"} => library = "aiomqtt"
        /\ pc[k] \in Opening => reader = "none"
        /\ pc[k] = "announced" => retained[Self] # "none"

ClosingInv ==
    /\ OneAt({"closing"})
    /\ \A k \in Clients : pc[k] = "closing" => link = "down" /\ reader # "none"

ListenInv ==
    /\ link = "up" /\ (library = "aiomqtt" => reader # "none") => "info" \in listening
    /\ link # "up" => listening = {}
    /\ library = "aiomqtt" /\ link = "up" /\ reader \in {"read", "callback"}
            => "response" \in listening

SessionInv == OpeningInv /\ ClosingInv /\ ListenInv

(***************************************************************************)
(* The last info on its way is the one retained; without one the table of  *)
(* remotes says what is retained.  As long as no info has been read our    *)
(* own is on its way.                                                      *)
(***************************************************************************)
LastInfo(n) == infos[n][Len(infos[n])]

InfoInv ==
    "info" \in listening => \A n \in Nodes :
        /\ infos[n] # <<>> => LastInfo(n) = retained[n]
        /\ infos[n] = <<>> /\ retained[n] \in {"online", "offline"}
                => (n \in remotes <=> retained[n] = "online")

OwnInfoInv == found = "pending" /\ "info" \in listening => infos[Self] # <<>>

(***************************************************************************)
(* With careful callers remotes_initialized is not cancelled, one client   *)
(* at a time is inside connect(), none has returned while the connection   *)
(* is being opened, the reader has been started before connect() waits for *)
(* an info, and gmqtt's responses are subscribed, unless a connect() has   *)
(* yet to do that.                                                         *)
(***************************************************************************)
CarefulInv ==
    careful =>
        /\ found # "cancelled"
        /\ OneAt(Opening \cup {"discover"})
        /\ \A k \in Clients :
            /\ pc[k] \in Opening => ~ready
            /\ pc[k] = "discover" /\ link = "up" /\ library = "aiomqtt" => reader # "none"
        /\ library = "gmqtt" /\ link = "up" =>
            "response" \in listening \/ \E k \in Clients : pc[k] = "discover"

ReadyInv == ConnectIsUsable /\ CarefulInv

(***************************************************************************)
(* The calls: the table of pending requests is exact, ids in use are       *)
(* distinct, and where a call is tells how often it has been executed.     *)
(***************************************************************************)
Registration ==
    /\ \A r \in Reqs : rpc[r] = "waiting" => invoke[r] \in Ids /\ pending[invoke[r]] = r
    /\ \A i \in Ids : pending[i] # None =>
        rpc[pending[i]] = "waiting" /\ invoke[pending[i]] = i

DistinctIds ==
    \A q, r \in Reqs : Live(q) /\ Live(r) /\ invoke[q] = invoke[r] => q = r

WireInv ==
    /\ \A r \in Reqs : rpc[r] \in {"idle", "rejected"} => ~InFlight(r) /\ executed[r] = 0
    /\ \A r \in sent : invoke[r] \in Ids /\ executed[r] = 0
    /\ \A r \in answers : invoke[r] \in Ids /\ executed[r] = 1

AnswerInv ==
    \A r \in Reqs :
        /\ executed[r] \in {0, 1}
        /\ got[r] = r => executed[r] = 1
        /\ future[r] = "result" => got[r] = r
        /\ rpc[r] = "ok" => executed[r] = 1

CallInv == Registration /\ DistinctIds /\ WireInv /\ OwnResponse /\ AnswerInv

(***************************************************************************)
(* A call accepted with all in place is registered; there is none before   *)
(* the reader of a new connection has started.                             *)
(***************************************************************************)
HeardInv ==
    /\ AnswerAwaited
    /\ \A r \in heard : rpc[r] = "waiting"
    /\ \A k \in Clients : pc[k] \in {"entered", "announced"} => heard = {}

-----------------------------------------------------------------------------
(***************************************************************************)
(* Type correctness.                                                       *)
(***************************************************************************)
NetTypeOK ==
    /\ link \in {"down", "up", "lost"}
    /\ listening \subseteq Topics
    /\ retained \in [All -> Infos \cup {"none"}]
    /\ infos \in [All -> Seq(Infos)]
    /\ answers \subseteq Reqs

LEMMA OpenedType ==
    ASSUME TypeOK, NEW k \in Clients, Opened(k)
    PROVE  NetTypeOK'
<1>1. retained' \in [All -> Infos \cup {"none"}]
  BY DEF Opened, TypeOK, All, Infos
<1>2. \A n \in All : retained'[n] # "none" => <<retained'[n]>> \in Seq(Infos)
  BY <1>1
<1>3. infos' = [n \in All |->
                  IF retained'[n] # "none" THEN <<retained'[n]>> ELSE <<>>]
  BY DEF Opened
<1>4. infos' \in [All -> Seq(Infos)]
  BY <1>2, <1>3, EmptySeq
<1>5. QED
  BY <1>1, <1>4 DEF Opened, NetTypeOK, TypeOK, Topics

LEMMA SessionEndsType ==
    ASSUME TypeOK, NEW how \in {"down", "lost"}, SessionEnds(how)
    PROVE  NetTypeOK'
<1>1. infos' \in [All -> Seq(Infos)]
  BY EmptySeq DEF SessionEnds, NoInfos
<1>2. QED
  BY <1>1 DEF SessionEnds, NetTypeOK, TypeOK, All, Infos, Topics

LEMMA ClientType ==
    ASSUME TypeOK, NEW k \in Clients, ClientNext(k)
    PROVE  TypeOK'
<1> USE DEF TypeOK, modeVars, Places, Opening
<1>0. /\ BaseTypeOK'
      /\ UNCHANGED <<library, careful, remotes, rpc, published, sent, executed>>
  BY BaseQuietType
  DEF ClientNext, Connect, Entered, Announced, Opened, OpenFails, Discovered, ConnectCancelled, Disconnect,
      ReaderCancelled, DisconnectReturns
<1> DEFINE CtlType ==
        /\ found \in {"pending", "done", "cancelled"}
        /\ reader \in ReaderStates
        /\ library = "gmqtt" => reader = "none"
        /\ pc \in [Clients -> Places]
        /\ ready \in BOOLEAN
        /\ heard \subseteq Reqs
<1>1. NetTypeOK' /\ CtlType' => TypeOK'
  BY <1>0 DEF NetTypeOK
<1>2. CASE Connect(k)
  BY <1>1, <1>2 DEF Connect, netVars, NetTypeOK
<1>2a. CASE Entered(k)
  BY <1>1, <1>2a DEF Entered, NetTypeOK
<1>2b. CASE Announced(k)
  BY <1>1, <1>2b DEF Announced, NetTypeOK, All, Infos
<1>3. CASE Opened(k)
  <2>1. NetTypeOK'
    BY <1>3, OpenedType
  <2>2. QED
    BY <1>1, <1>3, <2>1 DEF Opened, ReaderStates, ReaderRuns
<1>4. CASE OpenFails(k)
  BY <1>1, <1>4 DEF OpenFails, netVars, NetTypeOK
<1>5. CASE Discovered(k)
  BY <1>1, <1>5 DEF Discovered, NetTypeOK, Topics
<1>6. CASE ConnectCancelled(k)
  BY <1>1, <1>6 DEF ConnectCancelled, netVars, NetTypeOK
<1>7. CASE Disconnect(k)
  <2>1. NetTypeOK'
    BY <1>7, SessionEndsType DEF Disconnect
  <2>2. QED
    BY <1>1, <1>7, <2>1 DEF Disconnect, ReaderStates
<1>8. CASE ReaderCancelled(k)
  BY <1>1, <1>8 DEF ReaderCancelled, netVars, NetTypeOK, ReaderStates, ReaderRuns
<1>9. CASE DisconnectReturns(k)
  BY <1>1, <1>9 DEF DisconnectReturns, netVars, NetTypeOK, ReaderStates
<1>10. QED
  BY <1>2, <1>2a, <1>2b, <1>3, <1>4, <1>5, <1>6, <1>7, <1>8, <1>9 DEF ClientNext

LEMMA ReaderType ==
    ASSUME TypeOK, ReaderNext
    PROVE  TypeOK'
<1> USE DEF TypeOK, modeVars, ReaderStates, ReaderRuns
<1>1. CASE \E r \in Reqs : ReadAnswer(r)
  <2>1. PICK r \in Reqs : ReadAnswer(r)
    BY <1>1
  <2>2. BaseTypeOK'
    BY <2>1, BaseStepType DEF ReadAnswer
  <2>3. QED
    BY <2>1, <2>2 DEF ReadAnswer, ctlVars
<1>2. CASE \E n \in All : ReadInfo(n)
  <2>1. PICK n \in All : ReadInfo(n)
    BY <1>2
  <2>2. BaseTypeOK'
    BY <2>1, BaseQuietType DEF ReadInfo, ReaderFails
  <2>3. infos' \in [All -> Seq(Infos)]
    BY <2>1, HeadTailProperties DEF ReadInfo
  <2>4. reader' \in ReaderStates /\ (library' = "gmqtt" => reader' = "none")
    BY <2>1 DEF ReadInfo, ReaderFails
  <2>5. QED
    BY <2>1, <2>2, <2>3, <2>4 DEF ReadInfo, ReaderFails
<1>3. CASE \/ ReaderStarts \/ ReadNotification \/ CallbackReturns
           \/ ConnectionFails \/ HandlerRaises \/ ReaderReturns
  <2>1. BaseTypeOK'
    BY <1>3, BaseQuietType
    DEF ReaderStarts, ReadNotification, CallbackReturns, ConnectionFails, HandlerRaises,
        ReaderReturns, ReaderFails
  <2>2. QED
    BY <1>3, <2>1
    DEF ReaderStarts, ReadNotification, CallbackReturns, ConnectionFails, HandlerRaises,
        ReaderReturns, ReaderFails, netVars, Topics
<1>4. QED
  BY <1>1, <1>2, <1>3 DEF ReaderNext

LEMMA RequestType ==
    ASSUME TypeOK, NEW r \in Reqs, RequestNext(r)
    PROVE  TypeOK'
<1> USE DEF TypeOK, modeVars, ctlVars, netVars
<1>1. CASE Request(r)
  <2>1. BaseTypeOK'
    <3>1. CASE SubscribeRequest(r)
      BY <3>1, BaseStepType
    <3>2. CASE nextId' = NextInvokeId(nextId) /\ UNCHANGED <<pending, invoke, future, got>>
      BY <3>2, BaseAssumption DEF BaseTypeOK, NextInvokeId, Ids
    <3>3. QED
      BY <1>1, <3>1, <3>2 DEF Request
  <2>2. QED
    BY <1>1, <2>1 DEF Request
<1>2. CASE FutureDone(r) \/ RequestEnds(r)
  <2>1. PICK o \in {"ok", "error"} : EndRequest(r, o)
    BY <1>2 DEF FutureDone, RequestEnds
  <2>2. BaseTypeOK'
    BY <2>1, BaseStepType DEF EndRequest
  <2>3. QED
    BY <2>1, <2>2 DEF EndRequest
<1>3. QED
  BY <1>1, <1>2 DEF RequestNext

LEMMA BrokerType ==
    ASSUME TypeOK, BrokerNext
    PROVE  TypeOK'
<1> USE DEF TypeOK, modeVars, ctlVars, netVars
<1>0. BaseTypeOK'
  BY BaseQuietType DEF BrokerNext, PlcExecutes, RequestLost, PublishInfo, ConnectionLost
<1>1. CASE \E r \in Reqs : PlcExecutes(r) \/ RequestLost(r)
  BY <1>0, <1>1 DEF PlcExecutes, RequestLost
<1>2. CASE \E n \in Nodes, info \in Infos : PublishInfo(n, info)
  <2>1. PICK n \in Nodes, info \in Infos : PublishInfo(n, info)
    BY <1>2
  <2>2. infos' \in [All -> Seq(Infos)]
    BY <2>1 DEF PublishInfo, All
  <2>3. QED
    BY <1>0, <2>1, <2>2, MqttAssumption DEF PublishInfo, All
<1>3. CASE ConnectionLost
  BY <1>0, <1>3, SessionEndsType DEF ConnectionLost, NetTypeOK
<1>4. QED
  BY <1>1, <1>2, <1>3 DEF BrokerNext

(***************************************************************************)
(* The variables keep their types; in particular there is a reader task    *)
(* only on aiomqtt, and the table of remotes holds known nodes.            *)
(***************************************************************************)
THEOREM TypeCorrect == Spec => []TypeOK
<1>1. Init => TypeOK
  <2> SUFFICES ASSUME Init
               PROVE  TypeOK
    OBVIOUS
  <2>1. BaseTypeOK
    BY BaseAssumption DEF Init, BaseInit, BaseTypeOK, Ids, FutureStates
  <2>2. infos \in [All -> Seq(Infos)]
    BY EmptySeq DEF Init, NoInfos
  <2>3. retained \in [All -> Infos \cup {"none"}]
    BY DEF Init, Infos
  <2>4. published \in 0..MaxInfos /\ executed \in [Reqs -> Nat]
    BY MqttAssumption DEF Init
  <2>5. QED
    BY <2>1, <2>2, <2>3, <2>4 DEF Init, TypeOK, ReaderStates, Places
<1>2. TypeOK /\ [Next]_vars => TypeOK'
  <2> SUFFICES ASSUME TypeOK, [Next]_vars
               PROVE  TypeOK'
    OBVIOUS
  <2>1. CASE Next
    BY <2>1, ClientType, ReaderType, RequestType, BrokerType DEF Next
  <2>2. CASE UNCHANGED vars
    BY <2>2, BaseQuietType DEF vars, TypeOK, modeVars, ctlVars, netVars
  <2>3. QED
    BY <2>1, <2>2
<1>3. QED
  BY <1>1, <1>2, PTL DEF Spec

-----------------------------------------------------------------------------
(***************************************************************************)
(* SessionInv is inductive.  Most steps leave what it is about alone, or   *)
(* only move the reader on.                                                *)
(***************************************************************************)
LEMMA SessionQuiet ==
    ASSUME SessionInv, UNCHANGED <<library, pc, link, listening>>,
           retained[Self] # "none" => retained'[Self] # "none",
           \/ reader' = reader
           \/ reader \in ReaderRuns /\ reader' \in {"failed", "silent"}
           \/ reader \in {"read", "callback"} /\ reader' \in {"read", "callback"}
    PROVE  SessionInv'
<1>1. OpeningInv'
  BY DEF SessionInv, OpeningInv, OneAt, ReaderRuns
<1>2. ClosingInv'
  BY DEF SessionInv, ClosingInv, OneAt
<1>3. ListenInv'
  BY DEF SessionInv, ListenInv, ReaderRuns
<1>4. QED
  BY <1>1, <1>2, <1>3 DEF SessionInv

LEMMA ClientSession ==
    ASSUME TypeOK, SessionInv, NEW k \in Clients, ClientNext(k)
    PROVE  SessionInv'
<1> USE DEF SessionInv, OpeningInv, ClosingInv, ListenInv, OneAt, Opening, TypeOK, modeVars,
            netVars
<1>1. CASE Connect(k)
  BY <1>1, MqttAssumption DEF Connect, Connected
<1>2. CASE Entered(k)
  BY <1>2 DEF Entered
<1>2b. CASE Announced(k)
  BY <1>2b DEF Announced, All
<1>2a. CASE Opened(k)
  BY <1>2a, MqttAssumption DEF Opened, Topics
<1>3. CASE OpenFails(k)
  BY <1>3 DEF OpenFails
<1>4. CASE Discovered(k)
  BY <1>4 DEF Discovered, Topics
<1>5. CASE ConnectCancelled(k)
  BY <1>5 DEF ConnectCancelled
<1>6. CASE Disconnect(k)
  BY <1>6 DEF Disconnect, SessionEnds, ReaderRuns, All
<1>7. CASE ReaderCancelled(k)
  BY <1>7, SessionQuiet DEF ReaderCancelled
<1>8. CASE DisconnectReturns(k)
  BY <1>8 DEF DisconnectReturns
<1>9. QED
  BY <1>1, <1>2, <1>2a, <1>2b, <1>3, <1>4, <1>5, <1>6, <1>7, <1>8 DEF ClientNext

LEMMA ReaderSession ==
    ASSUME TypeOK, SessionInv, ReaderNext
    PROVE  SessionInv'
<1> USE DEF modeVars, ctlVars, netVars, ReaderFails, ReaderRuns
<1>1. CASE ReaderStarts
  BY <1>1 DEF ReaderStarts, SessionInv, OpeningInv, ClosingInv, ListenInv, OneAt
<1>2. CASE \/ \E n \in All : ReadInfo(n)
           \/ \E r \in Reqs : ReadAnswer(r)
  BY <1>2, SessionQuiet DEF ReadInfo, ReadAnswer, CanRead
<1>3. CASE ReadNotification \/ CallbackReturns \/ ConnectionFails \/ HandlerRaises \/ ReaderReturns
  BY <1>3, SessionQuiet
  DEF ReadNotification, CallbackReturns, ConnectionFails, HandlerRaises, ReaderReturns
<1>4. QED
  BY <1>1, <1>2, <1>3 DEF ReaderNext

LEMMA EnvSession ==
    ASSUME TypeOK, SessionInv,
           (\E r \in Reqs : RequestNext(r)) \/ BrokerNext \/ UNCHANGED vars
    PROVE  SessionInv'
<1> USE DEF modeVars, ctlVars, netVars
<1>1. CASE ConnectionLost
  BY <1>1
  DEF ConnectionLost, SessionEnds, SessionInv, OpeningInv, ClosingInv, ListenInv, OneAt,
      TypeOK, All
<1>2. CASE ~ConnectionLost
  BY <1>2, SessionQuiet, MqttAssumption
  DEF RequestNext, Request, FutureDone, RequestEnds, EndRequest, BrokerNext, PlcExecutes,
      RequestLost, PublishInfo, vars, TypeOK, All
<1>3. QED
  BY <1>1, <1>2

LEMMA SessionInvariant == Spec => []SessionInv
<1>1. Init => SessionInv
  BY DEF Init, SessionInv, OpeningInv, ClosingInv, ListenInv, OneAt, Opening
<1>2. TypeOK /\ SessionInv /\ [Next]_vars => SessionInv'
  BY ClientSession, ReaderSession, EnvSession DEF Next
<1>3. QED
  BY <1>1, <1>2, TypeCorrect, PTL DEF Spec

-----------------------------------------------------------------------------
(***************************************************************************)
(* The table of remotes.  Only the subscription of the infos, an info read *)
(* or published, and the end of a connection concern it.                   *)
(***************************************************************************)
LEMMA OpenedInfo ==
    ASSUME TypeOK, SessionInv, NEW k \in Clients, Opened(k)
    PROVE  InfoInv' /\ OwnInfoInv'
<1>1. \A n \in All :
        /\ retained'[n] # "none" => infos'[n] = <<retained'[n]>>
        /\ retained'[n] = "none" => infos'[n] = <<>>
  <2>1. infos' = [n \in All |->
                    IF retained'[n] # "none" THEN <<retained'[n]>> ELSE <<>>]
    BY DEF Opened
  <2>2. QED
    BY <2>1, Zenon
<1>2. \A n \in All : retained'[n] # "none" => infos'[n] # <<>> /\ LastInfo(n)' = retained'[n]
  BY <1>1 DEF LastInfo
<1>3. InfoInv'
  BY <1>1, <1>2 DEF InfoInv, All
<1>4. retained'[Self] # "none"
  BY DEF Opened, SessionInv, OpeningInv, TypeOK, All
<1>5. OwnInfoInv'
  BY <1>1, <1>4 DEF OwnInfoInv, All
<1>6. QED
  BY <1>3, <1>5

LEMMA SessionEndsInfo ==
    ASSUME NEW how \in {"down", "lost"}, SessionEnds(how)
    PROVE  InfoInv' /\ OwnInfoInv'
BY DEF SessionEnds, InfoInv, OwnInfoInv

LEMMA InfoQuiet ==
    ASSUME InfoInv, OwnInfoInv, "info" \in listening' => "info" \in listening,
           UNCHANGED <<infos, remotes>>, \A n \in Nodes : retained'[n] = retained[n],
           found' = "pending" => found = "pending"
    PROVE  InfoInv' /\ OwnInfoInv'
BY DEF InfoInv, OwnInfoInv, LastInfo

(***************************************************************************)
(* The last info read is the one retained, and settles the table.          *)
(***************************************************************************)
LEMMA ReadInfoInfo ==
    ASSUME TypeOK, InfoInv, NEW n \in All, ReadInfo(n)
    PROVE  InfoInv' /\ OwnInfoInv'
<1>1. /\ infos[n] # <<>> /\ infos' = [infos EXCEPT ![n] = Tail(@)]
      /\ UNCHANGED <<link, listening, retained>>
      /\ found' # "pending"
  BY DEF ReadInfo
<1>2. remotes' = IF Head(infos[n]) = "broken" THEN remotes
                 ELSE IF Head(infos[n]) = "online" THEN remotes \cup {n} ELSE remotes \ {n}
  BY DEF ReadInfo
<1>3. /\ infos[n] \in Seq(Infos) /\ Head(infos[n]) \in Infos
      /\ infos'[n] = Tail(infos[n])
      /\ \A m \in All \ {n} : infos'[m] = infos[m] /\ (m \in remotes' <=> m \in remotes)
  BY <1>1, <1>2, HeadTailProperties DEF TypeOK
<1>4. infos'[n] # <<>> => infos'[n][Len(infos'[n])] = LastInfo(n)
  BY <1>1, <1>3, HeadTailProperties DEF LastInfo
<1>5. infos'[n] = <<>> => Head(infos[n]) = LastInfo(n)
  <2>1. Len(infos[n]) \in Nat /\ Len(infos'[n]) = Len(infos[n]) - 1
    BY <1>1, <1>3, HeadTailProperties, LenProperties
  <2>2. infos'[n] = <<>> => Len(infos[n]) = 1
    BY <2>1
  <2>3. QED
    BY <1>1, <1>3, <2>2 DEF LastInfo
<1>6. InfoInv'
  <2> SUFFICES ASSUME "info" \in listening, NEW m \in Nodes
               PROVE  /\ infos'[m] # <<>> => infos'[m][Len(infos'[m])] = retained[m]
                      /\ infos'[m] = <<>> /\ retained[m] \in {"online", "offline"}
                            => (m \in remotes' <=> retained[m] = "online")
    BY <1>1 DEF InfoInv, LastInfo
  <2>1. CASE m # n
    BY <1>3, <2>1 DEF InfoInv, LastInfo, All
  <2>2. CASE m = n
    BY <1>1, <1>2, <1>4, <1>5, <2>2 DEF InfoInv
  <2>3. QED
    BY <2>1, <2>2
<1>7. OwnInfoInv'
  BY <1>1 DEF OwnInfoInv
<1>8. QED
  BY <1>6, <1>7

LEMMA PublishInfoInfo ==
    ASSUME TypeOK, InfoInv, OwnInfoInv, NEW n \in Nodes, NEW info \in Infos, PublishInfo(n, info)
    PROVE  InfoInv' /\ OwnInfoInv'
<1> USE DEF PublishInfo, ctlVars
<1>0. n # Self /\ n \in All
  BY MqttAssumption DEF All
<1>1. OwnInfoInv'
  BY <1>0 DEF OwnInfoInv, TypeOK
<1>2. CASE "info" \notin listening
  BY <1>1, <1>2 DEF InfoInv
<1>3. CASE "info" \in listening
  <2>1. /\ infos'[n] = Append(infos[n], info) /\ infos[n] \in Seq(Infos)
        /\ retained'[n] = info
        /\ \A m \in All \ {n} : infos'[m] = infos[m] /\ retained'[m] = retained[m]
        /\ UNCHANGED <<listening, remotes>>
    BY <1>0, <1>3 DEF TypeOK
  <2>2. infos'[n] # <<>> /\ infos'[n][Len(infos'[n])] = info
    BY <2>1
  <2>3. InfoInv'
    BY <2>1, <2>2 DEF InfoInv, LastInfo, All
  <2>4. QED
    BY <1>1, <2>3
<1>4. QED
  BY <1>2, <1>3

LEMMA InfoStep ==
    ASSUME TypeOK, SessionInv, InfoInv, OwnInfoInv, [Next]_vars
    PROVE  InfoInv' /\ OwnInfoInv'
<1> USE DEF netVars, ctlVars
<1>1. ASSUME NEW k \in Clients, ClientNext(k)
      PROVE  InfoInv' /\ OwnInfoInv'
  <2>1. CASE Opened(k)
    BY <2>1, OpenedInfo
  <2>2. CASE Entered(k) \/ Announced(k) \/ OpenFails(k)
    BY <2>2, InfoQuiet, MqttAssumption DEF Entered, Announced, OpenFails, TypeOK, All
  <2>3. CASE Discovered(k)
    BY <2>3, InfoQuiet DEF Discovered, SessionInv, ListenInv
  <2>4. CASE Disconnect(k)
    BY <2>4, SessionEndsInfo DEF Disconnect
  <2>5. CASE Connect(k) \/ ConnectCancelled(k) \/ ReaderCancelled(k) \/ DisconnectReturns(k)
    BY <2>5, InfoQuiet DEF Connect, ConnectCancelled, ReaderCancelled, DisconnectReturns
  <2>6. QED
    BY <1>1, <2>1, <2>2, <2>3, <2>4, <2>5 DEF ClientNext
<1>2. ASSUME ReaderNext
      PROVE  InfoInv' /\ OwnInfoInv'
  <2>1. CASE \E n \in All : ReadInfo(n)
    BY <2>1, ReadInfoInfo
  <2>2. CASE ~\E n \in All : ReadInfo(n)
    BY <1>2, <2>2, InfoQuiet
    DEF ReaderNext, ReaderStarts, ReadAnswer, ReadNotification, CallbackReturns,
        ConnectionFails, HandlerRaises, ReaderReturns
  <2>3. QED
    BY <2>1, <2>2
<1>3. ASSUME BrokerNext
      PROVE  InfoInv' /\ OwnInfoInv'
  <2>1. CASE \E n \in Nodes, info \in Infos : PublishInfo(n, info)
    BY <2>1, PublishInfoInfo
  <2>2. CASE ConnectionLost
    BY <2>2, SessionEndsInfo DEF ConnectionLost
  <2>3. CASE \E r \in Reqs : PlcExecutes(r) \/ RequestLost(r)
    BY <2>3, InfoQuiet DEF PlcExecutes, RequestLost
  <2>4. QED
    BY <1>3, <2>1, <2>2, <2>3 DEF BrokerNext
<1>4. ASSUME (\E r \in Reqs : RequestNext(r)) \/ UNCHANGED vars
      PROVE  InfoInv' /\ OwnInfoInv'
  BY <1>4, InfoQuiet DEF RequestNext, Request, FutureDone, RequestEnds, EndRequest, vars
<1>5. QED
  BY <1>1, <1>2, <1>3, <1>4 DEF Next

LEMMA InfoInvariant == Spec => [](InfoInv /\ OwnInfoInv)
<1>1. Init => InfoInv /\ OwnInfoInv
  BY DEF Init, InfoInv, OwnInfoInv
<1>2. TypeOK /\ SessionInv /\ (InfoInv /\ OwnInfoInv) /\ [Next]_vars => (InfoInv /\ OwnInfoInv)'
  BY InfoStep
<1>3. QED
  BY <1>1, <1>2, TypeCorrect, SessionInvariant, PTL DEF Spec

(***************************************************************************)
(* Once the messages on their way have been read, the table of remotes     *)
(* says of each PLC what the broker retains, however often the connection  *)
(* was lost or closed (parse_info_message and the handlers that call it).  *)
(***************************************************************************)
THEOREM RemotesFollow == Spec => []RemotesFollowBroker
<1>1. InfoInv => RemotesFollowBroker
  BY DEF InfoInv, RemotesFollowBroker
<1>2. QED
  BY <1>1, InfoInvariant, PTL

(***************************************************************************)
(* A connect() that waits for remotes_initialized has an info message on   *)
(* its way to it: our own, which the broker retains, cannot have been read *)
(* before the future is done.                                              *)
(***************************************************************************)
THEOREM DiscoveryAlwaysComes == Spec => []DiscoveryComes
<1>1. SessionInv /\ OwnInfoInv => DiscoveryComes
  BY DEF SessionInv, ListenInv, OwnInfoInv, DiscoveryComes, All, ReaderRuns
<1>2. QED
  BY <1>1, SessionInvariant, InfoInvariant, PTL

-----------------------------------------------------------------------------
(***************************************************************************)
(* What connect() promises careful callers.                                *)
(***************************************************************************)
LEMMA ReadyQuiet ==
    ASSUME ReadyInv, UNCHANGED <<library, careful, ready, pc, link, listening, found>>,
           \/ reader' = reader
           \/ reader' \in {"failed", "silent"}
           \/ {reader, reader'} \subseteq {"read", "callback"}
    PROVE  ReadyInv'
BY DEF ReadyInv, ConnectIsUsable, CarefulInv, OneAt, ReaderRuns

LEMMA SessionEndsReady ==
    ASSUME ReadyInv, NEW how \in {"down", "lost"}, SessionEnds(how),
           UNCHANGED <<library, careful, ready, found>>,
           \A k \in Clients : pc'[k] = pc[k] \/ pc'[k] = "closing"
    PROVE  ReadyInv'
BY DEF SessionEnds, ReadyInv, ConnectIsUsable, CarefulInv, OneAt, Opening

LEMMA ClientReady ==
    ASSUME TypeOK, SessionInv, ReadyInv, NEW k \in Clients, ClientNext(k)
    PROVE  ReadyInv'
<1> USE DEF modeVars, netVars, OneAt, Opening
<1>1. CASE Connect(k)
  <2>1. CASE Connected /\ ready' = TRUE /\ pc' = pc
    BY <1>1, <2>1, MqttAssumption
    DEF Connect, Connected, MayConnect, ReadyInv, ConnectIsUsable, CarefulInv,
        SessionInv, ListenInv, TypeOK, ReaderRuns, ReaderStates
  <2>2. CASE pc' = [pc EXCEPT ![k] = "opening"] /\ ready' = FALSE
    BY <1>1, <2>2 DEF Connect, MayConnect, ReadyInv, ConnectIsUsable, CarefulInv, TypeOK
  <2>3. QED
    BY <1>1, <2>1, <2>2 DEF Connect
<1>1a. CASE Entered(k) \/ Announced(k)
  <2>1. /\ library = "aiomqtt" /\ reader = "none" /\ link' = "up"
        /\ pc[k] \in Opening /\ pc'[k] \in Opening
        /\ \A j \in Clients \ {k} : pc'[j] = pc[j]
        /\ UNCHANGED <<library, careful, found, reader, ready>>
    BY <1>1a DEF Entered, Announced, SessionInv, OpeningInv, TypeOK
  <2>2. CASE ~careful
    BY <2>1, <2>2 DEF ReadyInv, ConnectIsUsable, CarefulInv
  <2>3. CASE careful
    BY <2>1, <2>3 DEF ReadyInv, ConnectIsUsable, CarefulInv
  <2>4. QED
    BY <2>2, <2>3 DEF TypeOK
<1>2. CASE Opened(k)
  <2>1. /\ UNCHANGED <<library, careful, found>>
        /\ link' = "up" /\ "info" \in listening'
        /\ library = "aiomqtt" => reader' = "start"
        /\ library = "gmqtt" => (found = "done" => "response" \in listening')
        /\ ready' = (found = "done")
        /\ pc' = [pc EXCEPT ![k] = IF found = "pending" THEN "discover" ELSE "none"]
        /\ pc[k] \in Opening
    BY <1>2 DEF Opened, Topics
  <2>2. QED
    BY <2>1, MqttAssumption
    DEF ReadyInv, ConnectIsUsable, CarefulInv, TypeOK, ReaderRuns
<1>3. CASE OpenFails(k)
  BY <1>3 DEF OpenFails, ReadyInv, ConnectIsUsable, CarefulInv, TypeOK
<1>4. CASE Discovered(k)
  <2> USE DEF Discovered
  <2>1. CASE ~careful
    BY <1>4, <2>1 DEF ReadyInv, ConnectIsUsable, CarefulInv
  <2>2. CASE careful
    <3>1. found = "done" /\ found' = "done"
      BY <1>4, <2>2 DEF ReadyInv, CarefulInv, TypeOK
    <3>2. /\ \A j \in Clients : pc'[j] \in Opening \cup {"discover"} => pc'[j] = pc[j] /\ j # k
          /\ \A j \in Clients : j # k => pc[j] \notin Opening \cup {"discover"}
      BY <1>4, <2>2 DEF ReadyInv, CarefulInv, TypeOK
    <3>3. \A j \in Clients : pc'[j] \notin Opening \cup {"discover"}
      BY <3>2
    <3>4. library = "gmqtt" /\ link = "up" => listening' = Topics
      BY <1>4, <3>1
    <3>5. CarefulInv'
      BY <1>4, <3>1, <3>3, <3>4 DEF CarefulInv, Topics
    <3>6. CASE library = "gmqtt"
      <4>1. library' # "aiomqtt" /\ (link' = "up" => listening' = {"info", "response"})
        BY <1>4, <3>4, <3>6 DEF Topics
      <4>2. ConnectIsUsable'
        BY <4>1 DEF ConnectIsUsable
      <4>3. QED
        BY <3>5, <4>2 DEF ReadyInv
    <3>7. CASE library = "aiomqtt"
      <4>1. link = "up" => reader # "none"
        BY <1>4, <2>2, <3>7 DEF ReadyInv, CarefulInv
      <4>2. listening' = listening /\ UNCHANGED <<link, reader, library>>
        BY <1>4, <3>7
      <4>3. link = "up" /\ reader \notin {"failed", "silent"} => reader \in ReaderRuns
        BY <4>1 DEF TypeOK, ReaderStates
      <4>4. ConnectIsUsable'
        BY <3>7, <4>1, <4>2, <4>3
        DEF ConnectIsUsable, SessionInv, ListenInv, ReaderRuns
      <4>5. QED
        BY <3>5, <4>4 DEF ReadyInv
    <3>8. QED
      BY <3>6, <3>7, MqttAssumption DEF TypeOK
  <2>3. QED
    BY <2>1, <2>2, MqttAssumption DEF TypeOK
<1>5. CASE ConnectCancelled(k)
  BY <1>5 DEF ConnectCancelled, ReadyInv, ConnectIsUsable, CarefulInv
<1>6. CASE Disconnect(k)
  BY <1>6, SessionEndsReady DEF Disconnect, TypeOK
<1>7. CASE ReaderCancelled(k) \/ DisconnectReturns(k)
  <2>1. /\ link # "up" /\ UNCHANGED <<library, careful, link, listening, found, ready>>
        /\ \A j \in Clients : pc'[j] = pc[j] \/ pc'[j] = "none"
    BY <1>7 DEF ReaderCancelled, DisconnectReturns, SessionInv, ClosingInv, TypeOK
  <2>2. QED
    BY <2>1 DEF ReadyInv, ConnectIsUsable, CarefulInv
<1>8. QED
  BY <1>1, <1>1a, <1>2, <1>3, <1>4, <1>5, <1>6, <1>7 DEF ClientNext

LEMMA ReaderReady ==
    ASSUME TypeOK, ReadyInv, ReaderNext
    PROVE  ReadyInv'
<1> USE DEF modeVars, ctlVars, netVars, ReaderRuns, ReaderFails
<1>1. CASE ReaderStarts
  BY <1>1 DEF ReaderStarts, ReadyInv, ConnectIsUsable, CarefulInv, TypeOK, OneAt
<1>2. CASE \E n \in All : ReadInfo(n)
  BY <1>2 DEF ReadInfo, ReadyInv, ConnectIsUsable, CarefulInv, OneAt
<1>3. CASE \E r \in Reqs : ReadAnswer(r)
  BY <1>3, ReadyQuiet DEF ReadAnswer
<1>4. CASE ReadNotification \/ CallbackReturns \/ ConnectionFails \/ HandlerRaises \/ ReaderReturns
  BY <1>4, ReadyQuiet
  DEF ReadNotification, CallbackReturns, ConnectionFails, HandlerRaises, ReaderReturns
<1>5. QED
  BY <1>1, <1>2, <1>3, <1>4 DEF ReaderNext

LEMMA EnvReady ==
    ASSUME ReadyInv, (\E r \in Reqs : RequestNext(r)) \/ BrokerNext \/ UNCHANGED vars
    PROVE  ReadyInv'
<1> USE DEF modeVars, ctlVars, netVars
<1>1. CASE ConnectionLost
  BY <1>1, SessionEndsReady DEF ConnectionLost
<1>2. CASE ~ConnectionLost
  BY <1>2, ReadyQuiet
  DEF RequestNext, Request, FutureDone, RequestEnds, EndRequest, BrokerNext, PlcExecutes,
      RequestLost, PublishInfo, vars
<1>3. QED
  BY <1>1, <1>2

(***************************************************************************)
(* A connect() of careful callers that has returned leaves, on both        *)
(* classes and however many clients share the transport, one that works or *)
(* a failure that shows: while the connection is up and the reader has not *)
(* ended, the subscriptions are in place or about to be, and someone reads *)
(* them.                                                                   *)
(***************************************************************************)
THEOREM UsableOnceConnected == Spec => []ConnectIsUsable
<1>1. Init => ReadyInv
  BY DEF Init, ReadyInv, ConnectIsUsable, CarefulInv, OneAt, Opening
<1>2. TypeOK /\ SessionInv /\ ReadyInv /\ [Next]_vars => ReadyInv'
  BY ClientReady, ReaderReady, EnvReady DEF Next
<1>3. ReadyInv => ConnectIsUsable
  BY DEF ReadyInv
<1>4. QED
  BY <1>1, <1>2, <1>3, TypeCorrect, SessionInvariant, PTL DEF Spec

-----------------------------------------------------------------------------
(***************************************************************************)
(* The calls.  Connecting, closing and losing the connection concern them  *)
(* only through futures that fail and messages that are lost.              *)
(***************************************************************************)
Quiet ==
    /\ UNCHANGED <<pending, invoke, got, rpc, executed>>
    /\ sent' \subseteq sent /\ answers' \subseteq answers
    /\ \A r \in Reqs : future'[r] = "result" => future[r] = "result"

LEMMA QuietInv ==
    ASSUME CallInv, Quiet
    PROVE  CallInv'
<1> USE DEF Quiet
<1>1. \A r \in Reqs : InFlight(r)' => InFlight(r)
  BY DEF InFlight
<1>2. Registration' /\ DistinctIds'
  BY <1>1 DEF CallInv, Registration, DistinctIds, Live
<1>3. WireInv' /\ OwnResponse' /\ AnswerInv'
  BY <1>1 DEF CallInv, WireInv, OwnResponse, AnswerInv
<1>4. QED
  BY <1>2, <1>3 DEF CallInv

LEMMA ClientQuiet ==
    ASSUME NEW k, ClientNext(k)
    PROVE  Quiet
BY DEF ClientNext, Connect, Entered, Announced, Opened, OpenFails, Discovered,
       ConnectCancelled, Disconnect, ReaderCancelled, DisconnectReturns, SessionEnds, Quiet,
       baseVars, netVars

LEMMA ReaderQuiet ==
    ASSUME ReaderNext, \A r \in Reqs : ~ReadAnswer(r)
    PROVE  Quiet
<1>1. \/ CancelPendingRequests \/ UNCHANGED baseVars
  BY DEF ReaderNext, ReaderStarts, ReadInfo, ReadNotification, CallbackReturns,
         ConnectionFails, HandlerRaises, ReaderReturns, ReaderFails
<1>2. UNCHANGED <<rpc, executed, sent, answers>>
  BY DEF ReaderNext, ReaderStarts, ReadInfo, ReadNotification, CallbackReturns,
         ConnectionFails, HandlerRaises, ReaderReturns, netVars
<1>3. QED
  BY <1>1, <1>2 DEF Quiet, CancelPendingRequests, baseVars

LEMMA BrokerQuiet ==
    ASSUME BrokerNext \/ UNCHANGED vars, \A r \in Reqs : ~PlcExecutes(r)
    PROVE  Quiet
BY DEF BrokerNext, RequestLost, PublishInfo, ConnectionLost, SessionEnds, vars, Quiet,
       baseVars, netVars

(***************************************************************************)
(* An answer resolves the future of the call it answers and no other: the  *)
(* call registered under its id waits and has the id of the answer.        *)
(***************************************************************************)
LEMMA ReadAnswerFuture ==
    ASSUME TypeOK, CallInv, NEW r \in Reqs, ReadAnswer(r)
    PROVE  /\ executed[r] = 1
           /\ UNCHANGED <<pending, invoke, rpc, executed, sent>>
           /\ answers' = answers \ {r}
           /\ \/ UNCHANGED <<future, got>> /\ (rpc[r] = "waiting" => future[r] # "undone")
              \/ /\ future' = [future EXCEPT ![r] = "result"]
                 /\ got' = [got EXCEPT ![r] = r]
<1>1. InFlight(r) /\ invoke[r] \in Ids /\ executed[r] = 1
  BY DEF ReadAnswer, InFlight, CallInv, WireInv
<1>2. pending[invoke[r]] # None => pending[invoke[r]] = r
  BY <1>1 DEF CallInv, Registration, DistinctIds, Live, TypeOK, BaseTypeOK
<1>3. rpc[r] = "waiting" => pending[invoke[r]] = r
  BY DEF CallInv, Registration
<1>4. QED
  BY <1>1, <1>2, <1>3, BaseAssumption DEF ReadAnswer, HandleResponse

LEMMA ReadAnswerInv ==
    ASSUME TypeOK, CallInv, NEW r \in Reqs, ReadAnswer(r)
    PROVE  CallInv'
<1>1. /\ executed[r] = 1
      /\ UNCHANGED <<pending, invoke, rpc, executed, sent>>
      /\ answers' = answers \ {r}
      /\ \/ UNCHANGED <<future, got>>
         \/ /\ future' = [future EXCEPT ![r] = "result"]
            /\ got' = [got EXCEPT ![r] = r]
  BY ReadAnswerFuture
<1>2. \A q \in Reqs : InFlight(q)' => InFlight(q)
  BY <1>1 DEF InFlight
<1>3. Registration' /\ DistinctIds'
  BY <1>1, <1>2 DEF CallInv, Registration, DistinctIds, Live
<1>4. WireInv'
  BY <1>1, <1>2 DEF CallInv, WireInv
<1>5. \A q \in Reqs :
        \/ future'[q] = future[q] /\ got'[q] = got[q]
        \/ q = r /\ future'[q] = "result" /\ got'[q] = q
  BY <1>1 DEF TypeOK, BaseTypeOK
<1>6. OwnResponse' /\ AnswerInv'
  BY <1>1, <1>5 DEF CallInv, OwnResponse, AnswerInv
<1>7. QED
  BY <1>3, <1>4, <1>6 DEF CallInv

(***************************************************************************)
(* A call is registered under an id nobody uses (IdFree).                  *)
(***************************************************************************)
LEMMA RequestInv ==
    ASSUME TypeOK, CallInv, NEW r \in Reqs, Request(r)
    PROVE  CallInv'
<1>0. /\ ~InFlight(r) /\ executed[r] = 0 /\ rpc[r] = "idle"
      /\ UNCHANGED <<answers, executed, got>>
      /\ \A q \in Reqs \ {r} : rpc'[q] = rpc[q]
  BY DEF Request, CallInv, WireInv, TypeOK, netVars, SubscribeRequest
<1>1. CASE /\ rpc' = [rpc EXCEPT ![r] = "rejected"]
           /\ UNCHANGED <<pending, invoke, future, got, sent>>
  <2>1. rpc'[r] = "rejected" /\ \A q \in Reqs : InFlight(q)' <=> InFlight(q)
    BY <1>0, <1>1 DEF TypeOK, InFlight
  <2>2. Registration' /\ DistinctIds'
    BY <1>0, <1>1, <2>1 DEF CallInv, Registration, DistinctIds, Live, TypeOK, BaseTypeOK
  <2>3. WireInv' /\ OwnResponse' /\ AnswerInv'
    BY <1>0, <1>1, <2>1 DEF CallInv, WireInv, OwnResponse, AnswerInv
  <2>4. QED
    BY <2>2, <2>3 DEF CallInv
<1>2. CASE /\ IdFree(nextId)
           /\ SubscribeRequest(r)
           /\ rpc' = [rpc EXCEPT ![r] = "waiting"]
           /\ sent' \in {sent, sent \cup {r}}
  <2>1. /\ rpc'[r] = "waiting" /\ nextId \in Ids
        /\ invoke'[r] = nextId /\ pending'[nextId] = r /\ future'[r] = "undone"
        /\ \A q \in Reqs \ {r} : invoke'[q] = invoke[q] /\ future'[q] = future[q]
        /\ \A i \in Ids \ {nextId} : pending'[i] = pending[i]
    BY <1>2 DEF SubscribeRequest, TypeOK, BaseTypeOK
  <2>2. \A q \in Reqs \ {r} : (InFlight(q)' <=> InFlight(q)) /\ (Live(q)' <=> Live(q))
    BY <1>0, <1>2 DEF InFlight, Live
  <2>3. \A q \in Reqs \ {r} : Live(q) => invoke'[q] # nextId
    BY <1>2, <2>1 DEF IdFree
  <2>4. Registration'
    <3>1. \A q \in Reqs : rpc'[q] = "waiting" => invoke'[q] \in Ids /\ pending'[invoke'[q]] = q
      BY <1>0, <2>1, <2>3 DEF CallInv, Registration, Live
    <3>2. \A i \in Ids \ {nextId} : pending'[i] # None => pending'[i] \in Reqs \ {r}
      BY <1>0, <2>1 DEF CallInv, Registration, TypeOK, BaseTypeOK
    <3>3. \A i \in Ids : pending'[i] # None =>
            rpc'[pending'[i]] = "waiting" /\ invoke'[pending'[i]] = i
      BY <1>0, <2>1, <3>2 DEF CallInv, Registration
    <3>4. QED
      BY <3>1, <3>3 DEF Registration
  <2>5. DistinctIds'
    BY <2>1, <2>2, <2>3 DEF CallInv, DistinctIds
  <2>6. WireInv'
    <3>1. \A q \in Reqs : rpc'[q] \in {"idle", "rejected"} => ~InFlight(q)' /\ executed'[q] = 0
      BY <1>0, <2>1, <2>2 DEF CallInv, WireInv
    <3>2. \A q \in sent' : invoke'[q] \in Ids /\ executed'[q] = 0
      <4> SUFFICES ASSUME NEW q \in sent'
                   PROVE  invoke'[q] \in Ids /\ executed'[q] = 0
        OBVIOUS
      <4>1. CASE q = r
        BY <1>0, <2>1, <4>1
      <4>2. CASE q # r
        <5>1. q \in sent /\ q \in Reqs \ {r}
          BY <1>2, <4>2 DEF TypeOK
        <5>2. invoke'[q] = invoke[q] /\ executed'[q] = executed[q]
          BY <1>0, <2>1, <5>1
        <5>3. QED
          BY <5>1, <5>2 DEF CallInv, WireInv
      <4>3. QED
        BY <4>1, <4>2
    <3>3. \A q \in answers' : invoke'[q] \in Ids /\ executed'[q] = 1
      BY <1>0, <2>1 DEF CallInv, WireInv, TypeOK
    <3>4. QED
      BY <3>1, <3>2, <3>3 DEF WireInv
  <2>7. OwnResponse' /\ AnswerInv'
    BY <1>0, <2>1 DEF CallInv, OwnResponse, AnswerInv
  <2>8. QED
    BY <2>4, <2>5, <2>6, <2>7 DEF CallInv
<1>3. QED
  BY <1>1, <1>2 DEF Request

LEMMA EndRequestInv ==
    ASSUME TypeOK, CallInv, NEW r \in Reqs, NEW o \in {"ok", "error"}, EndRequest(r, o),
           rpc[r] = "waiting", o = "ok" => future[r] = "result"
    PROVE  CallInv'
<1>1. /\ rpc'[r] = o
      /\ \A q \in Reqs \ {r} : rpc'[q] = rpc[q]
      /\ UNCHANGED <<sent, answers, executed>>
  BY DEF EndRequest, TypeOK, netVars
<1>2. /\ pending' = [pending EXCEPT ![invoke[r]] = None]
      /\ future' = [future EXCEPT ![r] = "none"]
      /\ got'[r] \in {got[r], None}
      /\ \A q \in Reqs \ {r} : got'[q] = got[q]
      /\ invoke' = invoke
  BY DEF EndRequest, UnsubscribeRequest, TypeOK, BaseTypeOK
<1>3. \A q \in Reqs : (InFlight(q)' <=> InFlight(q)) /\ (Live(q)' => Live(q))
  BY <1>1 DEF InFlight, Live
<1>4. Registration'
  <2>1. \A q \in Reqs : rpc'[q] = "waiting" => q # r /\ rpc[q] = "waiting"
    BY <1>1
  <2>2. \A q \in Reqs : rpc'[q] = "waiting" => invoke[q] \in Ids /\ pending'[invoke[q]] = q
    BY <1>2, <2>1 DEF CallInv, Registration, TypeOK, BaseTypeOK
  <2>3. \A i \in Ids : pending'[i] # None => i # invoke[r] /\ pending'[i] = pending[i]
    BY <1>2 DEF TypeOK, BaseTypeOK
  <2>4. \A i \in Ids : pending'[i] # None => pending'[i] \in Reqs \ {r}
    BY <2>3 DEF CallInv, Registration, TypeOK, BaseTypeOK
  <2>5. QED
    BY <1>1, <1>2, <2>2, <2>3, <2>4 DEF CallInv, Registration
<1>5. DistinctIds'
  BY <1>2, <1>3 DEF CallInv, DistinctIds
<1>6. WireInv'
  BY <1>1, <1>2, <1>3 DEF CallInv, WireInv
<1>7. /\ future'[r] = "none"
      /\ got'[r] = r => got[r] = r
      /\ \A q \in Reqs \ {r} : future'[q] = future[q]
  BY <1>2, BaseAssumption DEF TypeOK, BaseTypeOK
<1>8. OwnResponse' /\ AnswerInv'
  <2>1. rpc'[r] = "ok" => executed[r] = 1
    BY <1>1 DEF CallInv, AnswerInv
  <2>2. OwnResponse'
    BY <1>2 DEF CallInv, OwnResponse
  <2>3. AnswerInv'
    BY <1>1, <1>2, <1>7, <2>1 DEF CallInv, AnswerInv
  <2>4. QED
    BY <2>2, <2>3
<1>9. QED
  BY <1>4, <1>5, <1>6, <1>8 DEF CallInv

LEMMA PlcExecutesInv ==
    ASSUME TypeOK, CallInv, NEW r \in Reqs, PlcExecutes(r)
    PROVE  CallInv'
<1>1. /\ r \in sent /\ sent' = sent \ {r}
      /\ executed[r] = 0 /\ executed'[r] = 1 /\ invoke[r] \in Ids
      /\ \A q \in Reqs \ {r} : executed'[q] = executed[q]
      /\ answers' \in {answers, answers \cup {r}}
      /\ UNCHANGED <<pending, invoke, future, got, rpc>>
  BY DEF PlcExecutes, baseVars, CallInv, WireInv, TypeOK
<1>2. \A q \in Reqs : InFlight(q)' => InFlight(q)
  BY <1>1 DEF InFlight
<1>3. Registration' /\ DistinctIds'
  BY <1>1, <1>2 DEF CallInv, Registration, DistinctIds, Live
<1>4. WireInv'
  BY <1>1, <1>2 DEF CallInv, WireInv, InFlight, TypeOK
<1>5. OwnResponse' /\ AnswerInv'
  BY <1>1 DEF CallInv, OwnResponse, AnswerInv
<1>6. QED
  BY <1>3, <1>4, <1>5 DEF CallInv

LEMMA RequestNextInv ==
    ASSUME TypeOK, CallInv, NEW r \in Reqs, RequestNext(r)
    PROVE  CallInv'
<1>1. CASE Request(r)
  BY <1>1, RequestInv
<1>2. CASE FutureDone(r) \/ RequestEnds(r)
  BY <1>2, EndRequestInv DEF FutureDone, RequestEnds
<1>3. QED
  BY <1>1, <1>2 DEF RequestNext

LEMMA CallInvariant == Spec => []CallInv
<1>1. Init => CallInv
  <2> SUFFICES ASSUME Init
               PROVE  CallInv
    OBVIOUS
  <2>1. \A r \in Reqs : rpc[r] = "idle" /\ ~InFlight(r) /\ executed[r] = 0
    BY DEF Init, InFlight
  <2>2. Registration /\ DistinctIds
    BY <2>1 DEF Init, BaseInit, Registration, DistinctIds, Live
  <2>3. WireInv /\ OwnResponse /\ AnswerInv
    BY <2>1, BaseAssumption DEF Init, BaseInit, WireInv, OwnResponse, AnswerInv
  <2>4. QED
    BY <2>2, <2>3 DEF CallInv
<1>2. TypeOK /\ CallInv /\ [Next]_vars => CallInv'
  <2> SUFFICES ASSUME TypeOK, CallInv, [Next]_vars
               PROVE  CallInv'
    OBVIOUS
  <2>1. CASE \E k \in Clients : ClientNext(k)
    BY <2>1, ClientQuiet, QuietInv
  <2>2. CASE ReaderNext
    BY <2>2, ReaderQuiet, QuietInv, ReadAnswerInv
  <2>3. CASE \E r \in Reqs : RequestNext(r)
    BY <2>3, RequestNextInv
  <2>4. CASE BrokerNext \/ UNCHANGED vars
    BY <2>4, BrokerQuiet, QuietInv, PlcExecutesInv
  <2>5. QED
    BY <2>1, <2>2, <2>3, <2>4 DEF Next
<1>3. QED
  BY <1>1, <1>2, TypeCorrect, PTL DEF Spec

(***************************************************************************)
(* Also over a broker that orders nothing across topics a call is handed   *)
(* the answer to itself or none (_handle_response).                        *)
(***************************************************************************)
THEOREM OwnResponseAlways == Spec => []OwnResponse
<1>1. CallInv => OwnResponse
  BY DEF CallInv
<1>2. QED
  BY <1>1, CallInvariant, PTL

-----------------------------------------------------------------------------
(***************************************************************************)
(* What a call accepted with all in place waits for.                       *)
(***************************************************************************)
LEMMA HeardQuiet ==
    ASSUME HeardInv, heard' \subseteq heard,
           UNCHANGED <<library, link, rpc, executed, answers>>,
           listening \subseteq listening',
           \A k \in Clients : pc'[k] \in {"entered", "announced"} =>
                \E j \in Clients : pc[j] \in {"entered", "announced"},
           \A r \in heard : future'[r] = "undone" => future[r] = "undone",
           \/ UNCHANGED reader
           \/ {reader, reader'} \subseteq {"read", "callback"}
           \/ \A r \in heard : future'[r] # "undone"
    PROVE  HeardInv'
BY DEF HeardInv, AnswerAwaited, InPlace, Abandoned

(***************************************************************************)
(* A reader that fails tells every call that is registered.                *)
(***************************************************************************)
LEMMA FailedHeard ==
    ASSUME TypeOK, CallInv, HeardInv, CancelPendingRequests
    PROVE  \A r \in heard : future'[r] # "undone"
<1>1. \A r \in heard : r \in Reqs /\ rpc[r] = "waiting"
  BY DEF TypeOK, HeardInv
<1>1a. \A r \in heard : Registered(r)
  BY <1>1 DEF CallInv, Registration, Registered
<1>2. QED
  BY <1>1, <1>1a DEF CancelPendingRequests

(***************************************************************************)
(* The end of a connection: the reader of aiomqtt, if it runs, is about to *)
(* find out; otherwise nobody reads.                                       *)
(***************************************************************************)
LEMMA EndHeard ==
    ASSUME TypeOK, HeardInv, UNCHANGED <<library, rpc, heard, future>>, link' # "up",
           \/ UNCHANGED reader
           \/ reader \notin ReaderRuns /\ reader' = "none"
           \/ reader' \in {"silent", "none"},
           \A k \in Clients : pc'[k] \in {"entered", "announced"} => pc'[k] = pc[k]
    PROVE  HeardInv'
<1>1. ASSUME NEW r \in heard, future[r] = "undone"
      PROVE  \/ Abandoned'
             \/ library = "aiomqtt" /\ reader' \in {"read", "callback"}
  <2>1. CASE library = "gmqtt"
    BY <2>1 DEF Abandoned
  <2>2. CASE library = "aiomqtt"
    BY <1>1, <2>2 DEF HeardInv, AnswerAwaited, InPlace, Abandoned, ReaderRuns
  <2>3. QED
    BY <2>1, <2>2, MqttAssumption DEF TypeOK
<1>2. AnswerAwaited'
  BY <1>1 DEF AnswerAwaited
<1>3. QED
  BY <1>2 DEF HeardInv

LEMMA ClientHeard ==
    ASSUME TypeOK, SessionInv, HeardInv, NEW k \in Clients, ClientNext(k)
    PROVE  HeardInv'
<1> USE DEF modeVars, netVars, baseVars
<1>1. CASE Connect(k) \/ Announced(k) \/ OpenFails(k) \/ Discovered(k) \/ ConnectCancelled(k)
  BY <1>1, HeardQuiet
  DEF Connect, Announced, OpenFails, Discovered, ConnectCancelled, TypeOK
<1>2. CASE Entered(k) \/ Opened(k)
  <2>1. heard' = {}
    BY <1>2 DEF Entered, Opened, HeardInv
  <2>2. QED
    BY <2>1 DEF HeardInv, AnswerAwaited
<1>3. CASE Disconnect(k)
  BY <1>3, EndHeard DEF Disconnect, SessionEnds, TypeOK
<1>4. CASE ReaderCancelled(k) \/ DisconnectReturns(k)
  BY <1>4, EndHeard
  DEF ReaderCancelled, DisconnectReturns, SessionInv, ClosingInv, TypeOK
<1>5. QED
  BY <1>1, <1>2, <1>3, <1>4 DEF ClientNext

LEMMA ReaderHeard ==
    ASSUME TypeOK, CallInv, HeardInv, ReaderNext
    PROVE  HeardInv'
<1> USE DEF modeVars, netVars, ctlVars, baseVars
<1>1. CASE ReadNotification \/ CallbackReturns
  BY <1>1, HeardQuiet DEF ReadNotification, CallbackReturns
<1>1a. CASE ReaderStarts
  BY <1>1a DEF ReaderStarts, HeardInv, AnswerAwaited, InPlace, Abandoned, TypeOK
<1>2. CASE ConnectionFails \/ HandlerRaises
  BY <1>2, HeardQuiet, FailedHeard DEF ConnectionFails, HandlerRaises, ReaderFails
<1>3. CASE \E n \in All : ReadInfo(n)
  BY <1>3, HeardQuiet, FailedHeard DEF ReadInfo, ReaderFails
<1>4. CASE \E r \in Reqs : ReadAnswer(r)
  <2>1. PICK r \in Reqs : ReadAnswer(r)
    BY <1>4
  <2>2. /\ answers' = answers \ {r}
        /\ UNCHANGED <<library, link, listening, reader, pc, rpc, executed, heard>>
    BY <2>1 DEF ReadAnswer
  <2>3. \/ UNCHANGED future /\ (rpc[r] = "waiting" => future[r] # "undone")
        \/ future' = [future EXCEPT ![r] = "result"]
    BY <2>1, ReadAnswerFuture
  <2>4. /\ rpc[r] = "waiting" => future'[r] # "undone"
        /\ \A q \in Reqs \ {r} : future'[q] = future[q]
    BY <2>3 DEF TypeOK, BaseTypeOK
  <2>5. QED
    BY <2>2, <2>4 DEF HeardInv, AnswerAwaited, InPlace, Abandoned, TypeOK
<1>5. CASE ReaderReturns
  <2>1. library = "aiomqtt"
    BY <1>5, MqttAssumption DEF ReaderReturns, TypeOK
  <2>2. QED
    BY <1>5, <2>1 DEF ReaderReturns, HeardInv, AnswerAwaited, Abandoned
<1>6. QED
  BY <1>1, <1>1a, <1>2, <1>3, <1>4, <1>5 DEF ReaderNext

LEMMA RequestHeard ==
    ASSUME TypeOK, SessionInv, CallInv, HeardInv, NEW r \in Reqs, RequestNext(r)
    PROVE  HeardInv'
<1> USE DEF modeVars, netVars, ctlVars
<1>0. UNCHANGED <<library, link, listening, reader, pc, executed, answers>>
  BY DEF RequestNext, Request, FutureDone, RequestEnds, EndRequest
<1>1. \A q \in heard \ {r} : rpc'[q] = rpc[q] /\ future'[q] = future[q]
  BY DEF RequestNext, Request, FutureDone, RequestEnds, EndRequest, SubscribeRequest,
         UnsubscribeRequest, TypeOK, BaseTypeOK
<1>2. r \in heard' => /\ rpc'[r] = "waiting"
                      /\ executed[r] = 0
                      /\ InPlace
  BY DEF RequestNext, Request, FutureDone, RequestEnds, EndRequest, CallInv, WireInv,
         HeardInv, TypeOK
<1>3. heard' \subseteq heard \cup {r}
  BY DEF RequestNext, Request, FutureDone, RequestEnds, EndRequest
<1>4. AnswerAwaited' /\ \A q \in heard' : rpc'[q] = "waiting"
  BY <1>0, <1>1, <1>2, <1>3 DEF HeardInv, AnswerAwaited, InPlace, Abandoned
<1>5. \A k \in Clients : pc[k] \in {"entered", "announced"} => heard' = {}
  BY <1>2, <1>3 DEF HeardInv, SessionInv, OpeningInv, Opening, InPlace
<1>6. QED
  BY <1>0, <1>4, <1>5 DEF HeardInv

LEMMA BrokerHeard ==
    ASSUME TypeOK, CallInv, HeardInv, BrokerNext \/ UNCHANGED vars
    PROVE  HeardInv'
<1> USE DEF modeVars, netVars, ctlVars, baseVars
<1>1. CASE ConnectionLost
  BY <1>1, EndHeard DEF ConnectionLost, SessionEnds
<1>2. CASE \E r \in Reqs : PlcExecutes(r)
  BY <1>2 DEF PlcExecutes, HeardInv, AnswerAwaited, InPlace, Abandoned, TypeOK
<1>3. CASE ~ConnectionLost /\ \A r \in Reqs : ~PlcExecutes(r)
  BY <1>3, HeardQuiet DEF BrokerNext, RequestLost, PublishInfo, vars
<1>4. QED
  BY <1>1, <1>2, <1>3

(***************************************************************************)
(* A call accepted with all in place for its answer waits only if an       *)
(* answer the PLC has given is on its way to a reader that is there, or    *)
(* the reader is about to find the connection gone, or the call is one     *)
(* that nobody tells: on gmqtt after the connection ended, on aiomqtt      *)
(* after the reader returned or was cancelled.                             *)
(***************************************************************************)
THEOREM AnswerAlwaysAwaited == Spec => []AnswerAwaited
<1>1. Init => HeardInv
  BY DEF Init, HeardInv, AnswerAwaited
<1>2. TypeOK /\ SessionInv /\ CallInv /\ HeardInv /\ [Next]_vars => HeardInv'
  BY ClientHeard, ReaderHeard, RequestHeard, BrokerHeard DEF Next
<1>3. HeardInv => AnswerAwaited
  BY DEF HeardInv
<1>4. QED
  BY <1>1, <1>2, <1>3, TypeCorrect, SessionInvariant, CallInvariant, PTL DEF Spec

-----------------------------------------------------------------------------
(***************************************************************************)
(* Refinement: request() implements RemoteCall.  A step of a call maps to  *)
(* Call, Reject, Return or Fail, PlcExecutes to Execute, possible once,    *)
(* because a call on its way has not been executed (WireInv); every other  *)
(* step leaves rpc and executed alone.                                     *)
(***************************************************************************)
callStatus == [r \in Reqs |-> CallStatus(rpc[r])]

LEMMA Becoming ==
    ASSUME TypeOK, NEW r \in Reqs, NEW v, rpc' = [rpc EXCEPT ![r] = v]
    PROVE  /\ callStatus[r] = CallStatus(rpc[r])
           /\ callStatus' = [callStatus EXCEPT ![r] = CallStatus(v)]
BY DEF callStatus, TypeOK

LEMMA RequestRefines ==
    ASSUME TypeOK, CallInv, NEW r \in Reqs, RequestNext(r)
    PROVE  Remote!Next
<1> USE DEF Remote!Next, Remote!Call, Remote!Reject, Remote!Return, Remote!Fail, Remote!Becomes
<1>0. executed' = executed
  BY DEF RequestNext, Request, FutureDone, RequestEnds, EndRequest
<1>1. CASE Request(r)
  <2>1. PICK v \in {"rejected", "waiting"} : rpc' = [rpc EXCEPT ![r] = v]
    BY <1>1 DEF Request
  <2>2. /\ callStatus[r] = "idle"
        /\ callStatus' = [callStatus EXCEPT ![r] = CallStatus(v)]
        /\ CallStatus(v) \in {"active", "rejected"}
    BY <1>1, <2>1, Becoming DEF Request, CallStatus
  <2>3. QED
    BY <1>0, <2>2 DEF callStatus
<1>2. CASE FutureDone(r) \/ RequestEnds(r)
  <2>1. PICK o \in {"ok", "error"} : /\ rpc' = [rpc EXCEPT ![r] = o]
                                     /\ o = "ok" => future[r] = "result"
    BY <1>2 DEF FutureDone, RequestEnds, EndRequest
  <2>2. /\ callStatus[r] = "active"
        /\ callStatus' = [callStatus EXCEPT ![r] = CallStatus(o)]
    BY <1>2, <2>1, Becoming DEF FutureDone, RequestEnds, CallStatus
  <2>3. CASE o = "error"
    BY <1>0, <2>2, <2>3 DEF callStatus, CallStatus
  <2>4. CASE o = "ok"
    <3>1. executed[r] = 1
      BY <2>1, <2>4 DEF CallInv, AnswerInv
    <3>2. QED
      BY <1>0, <2>2, <2>4, <3>1 DEF callStatus, CallStatus
  <2>5. QED
    BY <2>3, <2>4
<1>3. QED
  BY <1>1, <1>2 DEF RequestNext

LEMMA ExecuteRefines ==
    ASSUME TypeOK, CallInv, NEW r \in Reqs, PlcExecutes(r)
    PROVE  Remote!Next
<1>0. executed[r] = 0
  BY DEF PlcExecutes, CallInv, WireInv
<1>1. /\ executed' = [executed EXCEPT ![r] = 1]
      /\ rpc' = rpc
  BY <1>0 DEF PlcExecutes
<1>2. rpc[r] \in {"waiting", "error"}
  BY DEF PlcExecutes, CallInv, WireInv, InFlight, AnswerInv, TypeOK
<1>3. callStatus[r] \in {"active", "failed"} /\ callStatus' = callStatus
  BY <1>1, <1>2 DEF callStatus, CallStatus
<1>4. Remote!Execute(r)
  BY <1>0, <1>1, <1>3 DEF Remote!Execute, callStatus
<1>5. QED
  BY <1>4 DEF Remote!Next

(***************************************************************************)
(* request() implements the abstract remote call over MQTT as over TCP:    *)
(* rejected without effect, or published at most once, and successful only *)
(* after the PLC executed it.                                              *)
(***************************************************************************)
THEOREM ImplementsRemoteCall == Spec => RemoteSpec
<1>1. Init => Remote!Init
  BY DEF Init, Remote!Init, CallStatus
<1>2. TypeOK /\ CallInv /\ [Next]_vars => [Remote!Next]_(Remote!vars)
  <2> SUFFICES ASSUME TypeOK, CallInv, [Next]_vars
               PROVE  [Remote!Next]_(Remote!vars)
    OBVIOUS
  <2>1. CASE \E k \in Clients : ClientNext(k)
    BY <2>1, ClientQuiet DEF Quiet, Remote!vars
  <2>2. CASE ReaderNext
    BY <2>2, ReaderQuiet, ReadAnswerFuture DEF Quiet, Remote!vars
  <2>3. CASE \E r \in Reqs : RequestNext(r)
    BY <2>3, RequestRefines
  <2>4. CASE BrokerNext \/ UNCHANGED vars
    BY <2>4, BrokerQuiet, ExecuteRefines DEF Quiet, Remote!vars
  <2>5. QED
    BY <2>1, <2>2, <2>3, <2>4 DEF Next
<1>3. QED
  BY <1>1, <1>2, TypeCorrect, CallInvariant, PTL DEF Spec, RemoteSpec, Remote!Spec


=============================================================================
