----------------------- MODULE NotificationManagerProofs -----------------------
(***************************************************************************)
(* Proofs about NotificationManager: its types, for every transport and    *)
(* PLC, and, for TCP and aiomqtt and a PLC that neither samples early nor  *)
(* hands out a held handle, with symbols of one size, that an entered      *)
(* context stays subscribed, that samples reach their owner or else the    *)
(* callback of a context that has been left, and that no callback runs for *)
(* a sample of its own whose removal is confirmed.                         *)
(***************************************************************************)
EXTENDS NotificationManager, QueueFacts, TLAPS

-----------------------------------------------------------------------------
(***************************************************************************)
(* What is on the wire for a subscription, on every transport: at most one *)
(* request or answer, of the kind that the subscription awaits, unless it  *)
(* has given up.                                                           *)
(***************************************************************************)
IsAnswer(j, s) == inbox[j] \notin Frames /\ inbox[j].to = s

RequestInv ==
    \A i \in DOMAIN toPlc : \A s \in Subs : toPlc[i].from = s =>
        /\ toPlc[i].op = "add" => pc[s] \in {"adding", "failed"}
        /\ toPlc[i].op = "delete" =>
            /\ pc[s] \in {"deleting", "failed"}
            /\ pc[s] = "deleting" => toPlc[i].handle = handle[s]
            /\ table[toPlc[i].handle] # None
        /\ pc[s] # "failed" => answer[s] = "undone" \/ (answer[s] = "error" /\ ~reading)

OneRequest ==
    \A s \in Subs : \A i, k \in DOMAIN toPlc :
        toPlc[i].from = s /\ toPlc[k].from = s => i = k

AnswerInv ==
    \A j \in DOMAIN inbox : \A s \in Subs : IsAnswer(j, s) =>
        /\ pc[s] \in {"adding", "deleting", "failed"}
        /\ pc[s] # "failed" => answer[s] = "undone"
        /\ pc[s] = "adding" /\ inbox[j].ok => inbox[j].handle # None
        /\ pc[s] = "deleting" => inbox[j].handle = None

OneAnswer ==
    \A s \in Subs :
        /\ \A j, k \in DOMAIN inbox : IsAnswer(j, s) /\ IsAnswer(k, s) => j = k
        /\ \A i \in DOMAIN toPlc : \A j \in DOMAIN inbox :
            ~(toPlc[i].from = s /\ IsAnswer(j, s))

\* A context is entered with the handle of the answer, and is in the table.
EnteredInv ==
    \A s \in Subs :
        /\ pc[s] = "adding" /\ answer[s] = "ok" => handle[s] # None
        /\ pc[s] \in {"active", "deleting"} => table[handle[s]] # None

WireInv ==
    /\ RequestInv
    /\ OneRequest
    /\ AnswerInv
    /\ OneAnswer
    /\ EnteredInv

-----------------------------------------------------------------------------
(***************************************************************************)
(* The rest holds on TCP and aiomqtt, if the PLC samples a notification    *)
(* only when its context has been entered, and keeps a held handle, and no *)
(* frame is misread.                                                       *)
(***************************************************************************)
OrderlyPlc == ~EarlySamples /\ ~ReuseHeld /\ ~Shifts

Orderly == Serial /\ OrderlyPlc

OnWire(f) == \E i \in DOMAIN inbox : inbox[i] = f

(***************************************************************************)
(* One handler at a time; the one that removes a handle is never answered, *)
(* since the answer is read after it has returned.  While somebody reads,  *)
(* a handler waits for every removal on its way.  A frame is on the wire   *)
(* once, and callbacks run only in a handler.                              *)
(***************************************************************************)
HandlerInv ==
    /\ \A f, g \in Frames : Busy(f) /\ Busy(g) => f = g
    /\ \A f \in Frames : fpc[f] = "cleanup" => answer[f] \in {"undone", "error"}
    /\ reading => \A i \in DOMAIN toPlc :
        toPlc[i].from \in Frames => fpc[toPlc[i].from] = "cleanup"
    /\ \A i \in DOMAIN inbox : inbox[i] \in Frames => fpc[inbox[i]] = "wire"
    /\ \A i, j \in DOMAIN inbox : inbox[i] \in Frames /\ inbox[i] = inbox[j] => i = j
    /\ \A f \in Frames : \A h \in Handles : callee[f][h] # None => fpc[f] = "callback"

(***************************************************************************)
(* The PLC keeps the notifications of TCP as long as the connection lasts, *)
(* those of aiomqtt whatever becomes of it.                                *)
(***************************************************************************)
Lasting == link = "up" \/ transport = "aiomqtt"

(***************************************************************************)
(* Subscription s owns handle h, or will when its answer has been read.    *)
(***************************************************************************)
Claims(s, h) ==
    \/ pc[s] \in {"active", "deleting"} /\ handle[s] = h
    \/ pc[s] = "adding" /\ answer[s] = "ok" /\ handle[s] = h
    \/ /\ pc[s] = "adding"
       /\ \E j \in DOMAIN inbox : IsAnswer(j, s) /\ inbox[j].ok /\ inbox[j].handle = h

\* Who does not read has nothing in its inbox; without a session the PLC has nothing.
DownInv ==
    /\ ~reading => inbox = <<>>
    /\ link = "down" => ~reading
    /\ ~Lasting =>
        /\ toPlc = <<>>
        /\ plc = NoSubs
        /\ \A s \in Subs : \A h \in Handles :
            Claims(s, h) /\ pc[s] \in {"adding", "active"} => s \in gone

\* A handle has one owner, and the PLC knows no other.
ClaimInv ==
    /\ \A s, t \in Subs : \A h \in Handles : Claims(s, h) /\ Claims(t, h) => s = t
    /\ \A s \in Subs : \A h \in Handles : Claims(s, h) =>
        /\ plc[h] \in {s, None}
        /\ pc[s] = "adding" /\ Lasting => plc[h] = s
        /\ \A k \in Handles : plc[k] = s => k = h
    /\ \A s \in Subs : pc[s] \in {"active", "deleting"} => table[handle[s]] = s
    /\ \A s \in Subs : pc[s] = "active" /\ s \notin gone => plc[handle[s]] = s

\* Who is in the table has entered its context under that handle; who waits, requests.
TableInv ==
    /\ \A h \in Handles : table[h] # None =>
        /\ handle[table[h]] = h
        /\ pc[table[h]] \in {"active", "deleting", "done", "failed"}
    /\ \A s \in Subs : pc[s] \notin {"adding", "deleting"} => answer[s] = "none"

\* Whom the PLC keeps a notification for: nobody whose removal it confirmed.
PlcInv ==
    \A h \in Handles : \A s \in Subs : plc[h] = s =>
        /\ pc[s] \in {"adding", "active", "deleting", "failed"}
        /\ \A i \in DOMAIN toPlc : toPlc[i].from = s => toPlc[i].op = "delete"
        /\ pc[s] = "deleting" =>
            /\ answer[s] # "ok"
            /\ \A j \in DOMAIN inbox : IsAnswer(j, s) => ~inbox[j].ok
        /\ \A i \in DOMAIN toPlc : toPlc[i].handle = h => pc[s] \in {"deleting", "failed"}

(***************************************************************************)
(* A sample on the wire is of a subscription that has not left its context *)
(* with a confirmation.                                                    *)
(***************************************************************************)
SampleInv ==
    /\ \A f \in Frames : OnWire(f) => \A h \in Handles : \A s \in Subs : source[f][h] = s =>
        /\ pc[s] \in {"active", "deleting", "failed"}
        /\ pc[s] # "failed" => handle[s] = h
        /\ pc[s] = "deleting" => answer[s] # "ok"
        /\ table[h] = None => pc[s] = "failed"
        /\ table[h] = None /\ Lasting /\ (\A g \in Frames : fpc[g] # "cleanup") =>
            plc[h] = s
    /\ \A i, j \in DOMAIN inbox : \A s \in Subs : \A h \in Handles :
        (/\ i < j
         /\ IsAnswer(i, s) /\ inbox[i].ok
         /\ inbox[j] \in Frames
         /\ source[inbox[j]][h] = s)
        => pc[s] # "deleting"

\* The next owner of the handle of a sample has not read its answer, behind the sample.
NextOwnerInv ==
    \A j \in DOMAIN inbox : \A s, t \in Subs : \A h \in Handles :
        (/\ inbox[j] \in Frames
         /\ source[inbox[j]][h] = s
         /\ Claims(t, h)
         /\ s # t)
        => /\ pc[t] = "adding" /\ answer[t] # "ok"
           /\ \A k \in DOMAIN inbox : IsAnswer(k, t) => j < k

\* What a callback has been called with.
CalleeInv ==
    \A f \in Frames : \A h \in Handles : callee[f][h] # None =>
        /\ source[f][h] \in Subs
        /\ \/ callee[f][h] = source[f][h]
           \/ /\ pc[source[f][h]] = "failed"
              /\ pc[callee[f][h]] \in {"done", "failed"}
        /\ pc[source[f][h]] # "done"
        /\ pc[source[f][h]] = "deleting" => answer[source[f][h]] # "ok"

OrderlyParts ==
    /\ HandlerInv
    /\ DownInv
    /\ ClaimInv
    /\ TableInv
    /\ PlcInv
    /\ SampleInv
    /\ NextOwnerInv
    /\ CalleeInv

OrderlyInv == Orderly => OrderlyParts

-----------------------------------------------------------------------------
(***************************************************************************)
(* Type correctness, with the handle of an entered context from EnteredInv.*)
(***************************************************************************)
LEMMA SendType ==
    ASSUME TypeOK, NEW x \in Subs \cup Frames, NEW op, NEW h,
           [from |-> x, op |-> op, handle |-> h] \in Requests, Send(x, op, h)
    PROVE  /\ toPlc' \in Seq(Requests)
           /\ answer' \in [Subs \cup Frames -> {"none", "undone", "ok", "error"}]
<1>1. Append(toPlc, [from |-> x, op |-> op, handle |-> h]) \in Seq(Requests)
  BY AppendFacts DEF TypeOK
<1>2. QED
  BY <1>1 DEF Send, TypeOK

LEMMA SubType ==
    ASSUME TypeOK, EnteredInv, NEW s \in Subs, SubNext(s)
    PROVE  TypeOK'
<1> DEFINE Rest ==
        /\ UNCHANGED <<transport, frameVars, linkVars, inbox, plc, gone>>
<1> DEFINE Ctl ==
        /\ pc' \in [Subs -> SubPCs]
        /\ \A t \in Subs : pc'[t] \in {"active", "deleting", "done"} => handle[t] # None
        /\ toPlc' \in Seq(Requests)
        /\ answer' \in [Subs \cup Frames -> {"none", "undone", "ok", "error"}]
<1>0. handle[s] \in Handles \cup {None} /\ pc \in [Subs -> SubPCs]
  BY DEF TypeOK
<1>1. CASE \/ Subscribe(s) \/ LookupReturns(s)
  <2>1. CreateNotification(s) => Ctl
    <3> SUFFICES ASSUME CreateNotification(s) PROVE Ctl
      OBVIOUS
    <3>1. [from |-> s, op |-> "add", handle |-> None] \in Requests
      BY DEF Requests
    <3>2. Send(s, "add", None) => toPlc' \in Seq(Requests)
            /\ answer' \in [Subs \cup Frames -> {"none", "undone", "ok", "error"}]
      BY <3>1, SendType
    <3>3. QED
      BY <3>2 DEF CreateNotification, TypeOK, SubPCs
  <2>2. Ctl
    BY <1>1, <2>1 DEF Subscribe, LookupReturns, TypeOK, SubPCs
  <2>3. QED
    BY <1>1, <2>2 DEF Subscribe, LookupReturns, TypeOK, frameVars, linkVars
<1>2. CASE Exit(s)
  <2>1. handle[s] \in Handles
    BY <1>2 DEF Exit, TypeOK
  <2>2. [from |-> s, op |-> "delete", handle |-> handle[s]] \in Requests
    BY <2>1 DEF Requests
  <2>3. Send(s, "delete", handle[s]) => toPlc' \in Seq(Requests)
            /\ answer' \in [Subs \cup Frames -> {"none", "undone", "ok", "error"}]
    BY <2>2, SendType
  <2>4. Ctl
    BY <1>2, <2>1, <2>3 DEF Exit, RemoveNotification, TypeOK, SubPCs
  <2>5. QED
    BY <1>2, <2>4 DEF Exit, TypeOK, frameVars, linkVars
<1>3. CASE AddReturns(s)
  <2>1. handle[s] \in Handles
    BY <1>3 DEF AddReturns, TypeOK, EnteredInv
  <2>2. table' \in [Handles -> Subs \cup {None}]
    BY <1>3, <2>1 DEF AddReturns, TypeOK
  <2>3. Ctl
    BY <1>3, <2>1, NotificationAssumption DEF AddReturns, EndRequest, TypeOK, SubPCs
  <2>4. QED
    BY <1>3, <2>2, <2>3 DEF AddReturns, TypeOK, frameVars, linkVars
<1>4. CASE DeleteReturns(s) \/ RequestFails(s) \/ GivesUp(s)
  <2>1. Ctl
    BY <1>4 DEF DeleteReturns, RequestFails, GivesUp, EndRequest, TypeOK, SubPCs
  <2>2. QED
    BY <1>4, <2>1 DEF DeleteReturns, RequestFails, GivesUp, TypeOK, frameVars, linkVars
<1>5. QED
  BY <1>1, <1>2, <1>3, <1>4 DEF SubNext

LEMMA CleanupType ==
    ASSUME TypeOK, NEW f \in Frames, NEW K \in SUBSET Handles, NEW U \in SUBSET Handles,
           Cleanup(f, K, U)
    PROVE  /\ toPlc' \in Seq(Requests)
           /\ answer' \in [Subs \cup Frames -> {"none", "undone", "ok", "error"}]
           /\ fpc' \in [Frames -> FramePCs]
           /\ known' \in [Frames -> SUBSET Handles]
           /\ todo' \in [Frames -> SUBSET Handles]
           /\ UNCHANGED <<callee, source>>
<1>1. PICK h \in U :
        /\ Send(f, "delete", h)
        /\ fpc' = [fpc EXCEPT ![f] = "cleanup"]
        /\ known' = [known EXCEPT ![f] = K]
        /\ todo' = [todo EXCEPT ![f] = U \ {h}]
        /\ UNCHANGED <<callee, source>>
  BY DEF Cleanup
<1>2. [from |-> f, op |-> "delete", handle |-> h] \in Requests
  BY DEF Requests
<1>3. QED
  BY <1>1, <1>2, SendType DEF TypeOK, FramePCs

FrameTypeOK ==
    /\ fpc \in [Frames -> FramePCs]
    /\ source \in [Frames -> [Handles -> Subs \cup {None}]]
    /\ known \in [Frames -> SUBSET Handles]
    /\ todo \in [Frames -> SUBSET Handles]
    /\ callee \in [Frames -> [Handles -> Subs \cup {None}]]

LEMMA HandlerEndsType ==
    ASSUME TypeOK, NEW f \in Frames, HandlerEnds(f)
    PROVE  FrameTypeOK'
BY DEF HandlerEnds, TypeOK, FrameTypeOK, FramePCs, NoSubs

LEMMA DispatchType ==
    ASSUME TypeOK, NEW f \in Frames, NEW K \in SUBSET Handles, Dispatch(f, K)
    PROVE  FrameTypeOK'
<1>1. CASE K = {}
  BY <1>1, HandlerEndsType DEF Dispatch
<1>2. CASE K # {}
  <2>1. Callee(K) \in [Handles -> Subs \cup {None}]
    BY DEF Callee, TypeOK
  <2>2. FrameTypeOK
    BY DEF TypeOK, FrameTypeOK
  <2>3. QED
    BY <1>2, <2>1, <2>2 DEF Dispatch, FrameTypeOK, FramePCs
<1>3. QED
  BY <1>1, <1>2

LEMMA SessionEndsType ==
    ASSUME TypeOK, SessionEnds
    PROVE  /\ toPlc' \in Seq(Requests)
           /\ plc' \in [Handles -> Subs \cup {None}] /\ gone' \subseteq Subs
BY EmptySeq DEF SessionEnds, TypeOK, NoSubs

LEMMA ReadingEndsType ==
    ASSUME TypeOK, ReadingEnds
    PROVE  /\ toPlc' \in Seq(Requests) /\ inbox' \in Seq(Answers \cup Frames)
           /\ answer' \in [Subs \cup Frames -> {"none", "undone", "ok", "error"}]
           /\ link' \in {"up", "cut", "down"} /\ reading' \in BOOLEAN
           /\ plc' \in [Handles -> Subs \cup {None}] /\ gone' \subseteq Subs
<1>1. inbox' \in Seq(Answers \cup Frames)
  BY EmptySeq DEF ReadingEnds
<1>2. answer' \in [Subs \cup Frames -> {"none", "undone", "ok", "error"}]
  BY DEF ReadingEnds, TypeOK
<1>3. link' \in {"up", "cut", "down"} /\ reading' \in BOOLEAN /\ SessionEnds
  BY DEF ReadingEnds
<1>4. QED
  BY <1>1, <1>2, <1>3, SessionEndsType

LEMMA RaisesType ==
    ASSUME TypeOK, NEW f \in Frames, NEW rest \in Seq(Answers \cup Frames), HandlerRaises(f, rest)
    PROVE  TypeOK'
<1>1. FrameTypeOK'
  BY HandlerEndsType DEF HandlerRaises
<1>2. UNCHANGED <<subVars, transport>>
  BY DEF HandlerRaises
<1>3. CASE ReadingEnds
  BY <1>1, <1>2, <1>3, ReadingEndsType DEF TypeOK, FrameTypeOK, subVars
<1>4. CASE EndRequest(f) /\ inbox' = rest /\ UNCHANGED <<linkVars, toPlc, plc, gone>>
  BY <1>1, <1>2, <1>4 DEF EndRequest, TypeOK, FrameTypeOK, subVars, linkVars
<1>5. QED
  BY <1>3, <1>4 DEF HandlerRaises

LEMMA ReadingsType ==
    ASSUME NEW f \in Frames, NEW r \in Readings(f)
    PROVE  r.known \in SUBSET Handles /\ r.unknown \in SUBSET Handles
BY DEF Readings, Sampled, Tabled

LEMMA HandlerType ==
    ASSUME TypeOK, NEW f \in Frames, HandlerNext(f)
    PROVE  TypeOK'
<1>1. CASE ReadSamples(f)
  <2>1. Tail(inbox) \in Seq(Answers \cup Frames)
    BY <1>1, TailFacts DEF ReadSamples, TypeOK
  <2>2. PICK r \in Readings(f) :
            \/ /\ \/ Dispatch(f, r.known) /\ UNCHANGED <<toPlc, answer>>
                  \/ Cleanup(f, r.known, r.unknown)
               /\ inbox' = Tail(inbox)
               /\ UNCHANGED <<subVars, linkVars, plc, gone, transport>>
            \/ HandlerRaises(f, Tail(inbox))
    BY <1>1 DEF ReadSamples
  <2>3. CASE HandlerRaises(f, Tail(inbox))
    BY <2>1, <2>3, RaisesType
  <2>4. CASE /\ \/ Dispatch(f, r.known) /\ UNCHANGED <<toPlc, answer>>
                \/ Cleanup(f, r.known, r.unknown)
             /\ inbox' = Tail(inbox)
             /\ UNCHANGED <<subVars, linkVars, plc, gone, transport>>
    <3>1. /\ toPlc' \in Seq(Requests)
          /\ answer' \in [Subs \cup Frames -> {"none", "undone", "ok", "error"}]
          /\ FrameTypeOK'
      <4>1. CASE Dispatch(f, r.known) /\ UNCHANGED <<toPlc, answer>>
        BY <4>1, ReadingsType, DispatchType DEF TypeOK
      <4>2. CASE Cleanup(f, r.known, r.unknown)
        <5>1. callee \in [Frames -> [Handles -> Subs \cup {None}]]
              /\ source \in [Frames -> [Handles -> Subs \cup {None}]]
          BY DEF TypeOK
        <5>2. QED
          BY <4>2, <5>1, ReadingsType, CleanupType DEF FrameTypeOK
      <4>3. QED
        BY <2>4, <4>1, <4>2
    <3>2. QED
      BY <2>1, <2>4, <3>1 DEF TypeOK, FrameTypeOK, subVars, linkVars
  <2>5. QED
    BY <2>2, <2>3, <2>4
<1>2. CASE CleanupReturns(f)
  <2>0. known[f] \in SUBSET Handles /\ todo[f] \in SUBSET Handles
    BY DEF TypeOK
  <2>1. \/ Dispatch(f, known[f]) /\ EndRequest(f) /\ UNCHANGED toPlc
        \/ Cleanup(f, known[f], todo[f])
    BY <1>2 DEF CleanupReturns
  <2>2. EndRequest(f) => answer' \in [Subs \cup Frames -> {"none", "undone", "ok", "error"}]
    BY DEF EndRequest, TypeOK
  <2>3. /\ toPlc' \in Seq(Requests)
        /\ answer' \in [Subs \cup Frames -> {"none", "undone", "ok", "error"}]
        /\ FrameTypeOK'
    BY <2>0, <2>1, <2>2, CleanupType, DispatchType DEF TypeOK, FrameTypeOK
  <2>4. QED
    BY <1>2, <2>3 DEF CleanupReturns, TypeOK, FrameTypeOK, subVars, linkVars
<1>3. CASE HandlerRaises(f, inbox)
  BY <1>3, RaisesType DEF TypeOK
<1>4. CASE CallbackReturns(f)
  BY <1>4, HandlerEndsType DEF CallbackReturns, TypeOK, FrameTypeOK, subVars, linkVars
<1>5. CASE HandlerCancelled(f)
  <2>1. FrameTypeOK' /\ inbox' \in Seq(Answers \cup Frames)
    BY <1>5, HandlerEndsType, EmptySeq DEF HandlerCancelled
  <2>2. QED
    BY <1>5, <2>1 DEF HandlerCancelled, EndRequest, TypeOK, FrameTypeOK, subVars
<1>6. QED
  BY <1>1, <1>2, <1>3, <1>4, <1>5 DEF HandlerNext, CleanupFails, CleanupTimesOut, CallbackRaises

LEMMA HeadAnswer ==
    ASSUME TypeOK, inbox # <<>>, Head(inbox) \notin Frames
    PROVE  /\ inbox[1] = Head(inbox) /\ Head(inbox) \in Answers
           /\ 1 \in DOMAIN inbox
<1>1. 1 \in DOMAIN inbox /\ Head(inbox) = inbox[1] /\ inbox[1] \in Answers \cup Frames
  BY TailFacts DEF TypeOK
<1>2. QED
  BY <1>1

LEMMA ReadAnswerType ==
    ASSUME TypeOK, ReadAnswer
    PROVE  TypeOK'
<1> DEFINE a == Head(inbox)
<1>1. a \in Answers /\ inbox' \in Seq(Answers \cup Frames)
  BY HeadAnswer, TailFacts DEF ReadAnswer, TypeOK
<1>2. a.handle \in Handles \cup {None}
  BY <1>1 DEF Answers
<1>3. answer' \in [Subs \cup Frames -> {"none", "undone", "ok", "error"}]
  BY DEF ReadAnswer, TypeOK
<1>4. /\ handle' \in [Subs -> Handles \cup {None}]
      /\ \A s \in Subs : handle[s] # None => handle'[s] # None
  BY <1>2 DEF ReadAnswer, TypeOK
<1>5. QED
  BY <1>1, <1>3, <1>4 DEF ReadAnswer, TypeOK, frameVars, linkVars

LEMMA HeadRequest ==
    ASSUME TypeOK, toPlc # <<>>
    PROVE  /\ toPlc[1] = Head(toPlc) /\ Head(toPlc) \in Requests
           /\ 1 \in DOMAIN toPlc
           /\ Head(toPlc).op = "add" => Head(toPlc).from \in Subs
           /\ Head(toPlc).op = "delete" =>
                Head(toPlc).from \in Subs \cup Frames /\ Head(toPlc).handle \in Handles
<1>1. 1 \in DOMAIN toPlc /\ Head(toPlc) = toPlc[1] /\ toPlc[1] \in Requests
  BY TailFacts DEF TypeOK
<1>2. QED
  BY <1>1 DEF Requests

LEMMA AnswerType ==
    ASSUME TypeOK, NEW x \in Subs \cup Frames, NEW ok \in BOOLEAN,
           NEW h \in Handles \cup {None}, Answer(x, ok, h)
    PROVE  inbox' \in Seq(Answers \cup Frames)
<1>1. [to |-> x, ok |-> ok, handle |-> h] \in Answers
  BY DEF Answers
<1>2. QED
  BY <1>1, AppendFacts DEF Answer, TypeOK

LEMMA PrefixesFacts ==
    ASSUME TypeOK, NEW q \in Prefixes(toPlc)
    PROVE  q \in Seq(Requests) /\ \A i \in DOMAIN q : i \in DOMAIN toPlc /\ q[i] = toPlc[i]
BY PrefixFacts DEF Prefixes, TypeOK

LEMMA EnvType ==
    ASSUME TypeOK, EnvNext
    PROVE  TypeOK'
<1>1. CASE NetworkFails
  <2>1. /\ toPlc' \in Seq(Requests)
        /\ plc' \in [Handles -> Subs \cup {None}] /\ gone' \subseteq Subs
    BY <1>1, SessionEndsType, PrefixesFacts DEF NetworkFails, TypeOK
  <2>2. inbox' \in Seq(Answers \cup Frames)
    BY <1>1, EmptySeq DEF NetworkFails, TypeOK
  <2>3. QED
    BY <1>1, <2>1, <2>2 DEF NetworkFails, TypeOK, subVars, frameVars
<1>2. CASE Reconnects
  BY <1>2 DEF Reconnects, TypeOK, subVars, frameVars
<1>a. CASE Noticed \/ Disconnect
  BY <1>a, ReadingEndsType DEF Noticed, Disconnect, TypeOK, subVars, frameVars
<1>3. CASE PlcAdds
  <2>1. toPlc' \in Seq(Requests)
    BY <1>3, TailFacts DEF PlcAdds, TypeOK
  <2>2. Head(toPlc).from \in Subs
    BY <1>3, HeadRequest DEF PlcAdds
  <2>3. \/ \E h \in Handles :
              plc' = [plc EXCEPT ![h] = Head(toPlc).from] /\ Answer(Head(toPlc).from, TRUE, h)
        \/ Answer(Head(toPlc).from, FALSE, None) /\ UNCHANGED plc
    BY <1>3 DEF PlcAdds
  <2>4. inbox' \in Seq(Answers \cup Frames) /\ plc' \in [Handles -> Subs \cup {None}]
    BY <2>2, <2>3, AnswerType DEF TypeOK
  <2>5. QED
    BY <1>3, <2>1, <2>4 DEF PlcAdds, TypeOK, subVars, frameVars, linkVars
<1>4. CASE PlcDeletes
  <2>1. toPlc' \in Seq(Requests)
    BY <1>4, TailFacts DEF PlcDeletes, TypeOK
  <2>2. Head(toPlc).from \in Subs \cup Frames
    BY <1>4, HeadRequest DEF PlcDeletes
  <2>3. inbox' \in Seq(Answers \cup Frames)
    BY <1>4, <2>2, AnswerType DEF PlcDeletes
  <2>4. plc' \in [Handles -> Subs \cup {None}]
    BY <1>4 DEF PlcDeletes, TypeOK
  <2>5. QED
    BY <1>4, <2>1, <2>3, <2>4 DEF PlcDeletes, TypeOK, subVars, frameVars, linkVars
<1>5. ASSUME NEW f \in Frames, PlcSamples(f) PROVE TypeOK'
  <2>1. inbox' \in Seq(Answers \cup Frames)
    BY <1>5, AppendFacts DEF PlcSamples, TypeOK
  <2>2. PICK H \in SUBSET Handles :
            source' = [source EXCEPT ![f] = [h \in Handles |-> IF h \in H THEN plc[h] ELSE None]]
    BY <1>5 DEF PlcSamples
  <2>3. [h \in Handles |-> IF h \in H THEN plc[h] ELSE None] \in [Handles -> Subs \cup {None}]
    BY DEF TypeOK
  <2>4. source' \in [Frames -> [Handles -> Subs \cup {None}]]
    BY <2>2, <2>3 DEF TypeOK
  <2>5. fpc' \in [Frames -> FramePCs]
    BY <1>5 DEF PlcSamples, TypeOK, FramePCs
  <2>6. QED
    BY <1>5, <2>1, <2>4, <2>5 DEF PlcSamples, TypeOK, subVars, linkVars
<1>6. QED
  BY <1>1, <1>2, <1>a, <1>3, <1>4, <1>5 DEF EnvNext

-----------------------------------------------------------------------------
(***************************************************************************)
(* WireInv is inductive.  A subscription sends a request when nothing of   *)
(* an earlier one is left, and ends one that is answered, or gives up.     *)
(***************************************************************************)
Unheard(s) ==
    /\ \A i \in DOMAIN toPlc : toPlc[i].from # s
    /\ \A j \in DOMAIN inbox : ~IsAnswer(j, s)

LEMMA UnheardSub ==
    ASSUME TypeOK, WireInv, NEW s \in Subs,
           \/ pc[s] \notin {"adding", "deleting", "failed"}
           \/ pc[s] # "failed" /\ answer[s] \in {"none", "ok"}
    PROVE  Unheard(s)
<1>1. \A i \in DOMAIN toPlc : toPlc[i].op \in {"add", "delete"}
  BY ElementOfSeq, LenProperties DEF TypeOK, Requests
<1>2. QED
  BY <1>1 DEF WireInv, RequestInv, AnswerInv, Unheard

LEMMA SendWire ==
    ASSUME TypeOK, WireInv, NEW s \in Subs, NEW op \in {"add", "delete"}, NEW h,
           [from |-> s, op |-> op, handle |-> h] \in Requests,
           pc[s] \in {"idle", "lookup", "active"}, Send(s, op, h),
           UNCHANGED <<table, handle, inbox, reading>>,
           \/ op = "add" /\ pc' = [pc EXCEPT ![s] = "adding"]
           \/ /\ op = "delete" /\ pc' = [pc EXCEPT ![s] = "deleting"]
              /\ h = handle[s] /\ table[h] # None
    PROVE  WireInv'
<1>0. Unheard(s)
  BY UnheardSub
<1>1. /\ DOMAIN toPlc \subseteq DOMAIN toPlc'
      /\ \A i \in DOMAIN toPlc : toPlc'[i] = toPlc[i]
      /\ \A i \in DOMAIN toPlc' : i \notin DOMAIN toPlc =>
            i = Len(toPlc) + 1 /\ toPlc'[i] = [from |-> s, op |-> op, handle |-> h]
  BY AppendFacts DEF Send, TypeOK
<1>2. answer'[s] = "undone" /\ \A t \in Subs : t # s => answer'[t] = answer[t]
  BY DEF Send, TypeOK
<1>3. \A t \in Subs : t # s => pc'[t] = pc[t]
  BY DEF TypeOK
<1>4. pc'[s] = IF op = "add" THEN "adding" ELSE "deleting"
  BY DEF TypeOK
<1>5. RequestInv'
  BY <1>0, <1>1, <1>2, <1>3, <1>4 DEF WireInv, RequestInv, Unheard
<1>6. OneRequest'
  BY <1>0, <1>1 DEF WireInv, OneRequest, Unheard
<1>7. AnswerInv'
  BY <1>0, <1>2, <1>3 DEF WireInv, AnswerInv, Unheard, IsAnswer
<1>8. OneAnswer'
  BY <1>0, <1>1 DEF WireInv, OneAnswer, Unheard, IsAnswer
<1>9. EnteredInv'
  BY <1>2, <1>3, <1>4 DEF WireInv, EnteredInv
<1>10. QED
  BY <1>5, <1>6, <1>7, <1>8, <1>9 DEF WireInv

LEMMA EndWire ==
    ASSUME TypeOK, WireInv, NEW s \in Subs,
           UNCHANGED <<toPlc, inbox, handle, reading>>,
           \A t \in Subs : t # s => pc'[t] = pc[t] /\ answer'[t] = answer[t],
           pc'[s] = "failed" \/ (Unheard(s) /\ pc'[s] # "adding"),
           \A k : table[k] # None => table'[k] # None,
           pc'[s] \in {"active", "deleting"} => table'[handle[s]] # None
    PROVE  WireInv'
<1>1. RequestInv'
  BY DEF WireInv, RequestInv, Unheard
<1>2. OneRequest'
  BY DEF WireInv, OneRequest
<1>3. AnswerInv'
  BY DEF WireInv, AnswerInv, Unheard, IsAnswer
<1>4. OneAnswer'
  BY DEF WireInv, OneAnswer, IsAnswer
<1>5. EnteredInv'
  BY DEF WireInv, EnteredInv
<1>6. QED
  BY <1>1, <1>2, <1>3, <1>4, <1>5 DEF WireInv

LEMMA SubWire ==
    ASSUME TypeOK, WireInv, NEW s \in Subs, SubNext(s)
    PROVE  WireInv'
<1>1. CASE Subscribe(s) \/ LookupReturns(s)
  <2>0. pc[s] \in {"idle", "lookup"} /\ UNCHANGED <<table, handle, inbox, reading>>
    BY <1>1 DEF Subscribe, LookupReturns, linkVars
  <2>1. CASE Send(s, "add", None) /\ pc' = [pc EXCEPT ![s] = "adding"]
    <3>1. [from |-> s, op |-> "add", handle |-> None] \in Requests
      BY DEF Requests
    <3>2. QED
      BY <2>0, <2>1, <3>1, SendWire
  <2>2. CASE UNCHANGED <<toPlc, answer>> /\ \E p \in {"failed", "rejected", "lookup"} :
                pc' = [pc EXCEPT ![s] = p]
    <3>1. /\ \A t \in Subs : t # s => pc'[t] = pc[t] /\ answer'[t] = answer[t]
          /\ pc'[s] \in {"failed", "rejected", "lookup"}
      BY <2>2 DEF TypeOK
    <3>2. Unheard(s)
      BY <2>0, UnheardSub
    <3>3. QED
      BY <2>0, <2>2, <3>1, <3>2, EndWire
  <2>3. QED
    BY <1>1, <2>1, <2>2 DEF Subscribe, LookupReturns, CreateNotification
<1>2. CASE Exit(s)
  <2>0. pc[s] = "active" /\ UNCHANGED <<table, handle, inbox, reading>> /\ table[handle[s]] # None
    BY <1>2 DEF Exit, WireInv, EnteredInv, linkVars
  <2>1. CASE Send(s, "delete", handle[s]) /\ pc' = [pc EXCEPT ![s] = "deleting"]
    <3>1. [from |-> s, op |-> "delete", handle |-> handle[s]] \in Requests
      BY <2>0 DEF Requests, TypeOK
    <3>2. QED
      BY <2>0, <2>1, <3>1, SendWire
  <2>2. CASE UNCHANGED <<toPlc, answer>> /\ pc' = [pc EXCEPT ![s] = "failed"]
    <3>1. /\ \A t \in Subs : t # s => pc'[t] = pc[t] /\ answer'[t] = answer[t]
          /\ pc'[s] = "failed"
      BY <2>2 DEF TypeOK
    <3>2. QED
      BY <2>0, <2>2, <3>1, EndWire
  <2>3. QED
    BY <1>2, <2>1, <2>2 DEF Exit, RemoveNotification
<1>3. CASE AddReturns(s)
  <2>1. Unheard(s) /\ handle[s] \in Handles
    BY <1>3, UnheardSub DEF AddReturns, WireInv, EnteredInv, TypeOK
  <2>2. /\ \A t \in Subs : t # s => pc'[t] = pc[t] /\ answer'[t] = answer[t]
        /\ pc'[s] = "active"
    BY <1>3 DEF AddReturns, EndRequest, TypeOK
  <2>3. table' = [table EXCEPT ![handle[s]] = s] /\ s # None
    BY <1>3, NotificationAssumption DEF AddReturns
  <2>4. table'[handle[s]] = s
    BY <2>1, <2>3 DEF TypeOK
  <2>5. \A k : table[k] # None => table'[k] # None
    BY <2>1, <2>3 DEF TypeOK
  <2>6. UNCHANGED <<toPlc, inbox, handle, reading>>
    BY <1>3 DEF AddReturns, linkVars
  <2>7. QED
    BY <2>1, <2>2, <2>3, <2>4, <2>5, <2>6, EndWire
<1>4. CASE DeleteReturns(s) \/ RequestFails(s) \/ GivesUp(s)
  <2>1. /\ \A t \in Subs : t # s => pc'[t] = pc[t] /\ answer'[t] = answer[t]
        /\ pc'[s] \in {"done", "failed"}
        /\ UNCHANGED <<toPlc, inbox, handle, table, reading>>
    BY <1>4 DEF DeleteReturns, RequestFails, GivesUp, EndRequest, TypeOK, linkVars
  <2>2. pc'[s] = "failed" \/ Unheard(s)
    <3>1. CASE DeleteReturns(s)
      BY <3>1, UnheardSub DEF DeleteReturns
    <3>2. CASE RequestFails(s) \/ GivesUp(s)
      BY <3>2 DEF RequestFails, GivesUp, TypeOK
    <3>3. QED
      BY <1>4, <3>1, <3>2
  <2>3. QED
    BY <2>1, <2>2, EndWire
<1>5. QED
  BY <1>1, <1>2, <1>3, <1>4 DEF SubNext

(***************************************************************************)
(* Steps that leave the subscriptions, their requests and their answers    *)
(* alone: frames come and go, and handlers send requests.                  *)
(***************************************************************************)
LEMMA OtherWire ==
    ASSUME TypeOK, WireInv, NEW d \in {0, 1},
           UNCHANGED <<subVars, reading>>, \A s \in Subs : answer'[s] = answer[s],
           \A i \in DOMAIN toPlc' : toPlc'[i].from \in Subs =>
                i \in DOMAIN toPlc /\ toPlc'[i] = toPlc[i],
           \A j \in DOMAIN inbox' : inbox'[j] \notin Frames =>
                j \in Nat /\ j + d \in DOMAIN inbox /\ inbox'[j] = inbox[j + d]
    PROVE  WireInv'
<1>1. RequestInv'
  BY DEF WireInv, RequestInv, subVars
<1>2. OneRequest'
  BY DEF WireInv, OneRequest
<1>3. AnswerInv'
  BY DEF WireInv, AnswerInv, IsAnswer, subVars
<1>4. OneAnswer'
  <2>1. \A s \in Subs : \A j, k \in DOMAIN inbox' : IsAnswer(j, s)' /\ IsAnswer(k, s)' => j = k
    <3> SUFFICES ASSUME NEW s \in Subs, NEW j \in DOMAIN inbox', NEW k \in DOMAIN inbox',
                        IsAnswer(j, s)', IsAnswer(k, s)'
                 PROVE  j = k
      OBVIOUS
    <3>1. j \in Nat /\ k \in Nat /\ j + d = k + d
      BY DEF WireInv, OneAnswer, IsAnswer
    <3>2. QED
      BY <3>1
  <2>2. \A s \in Subs : \A i \in DOMAIN toPlc' : \A j \in DOMAIN inbox' :
            ~(toPlc'[i].from = s /\ IsAnswer(j, s)')
    BY DEF WireInv, OneAnswer, IsAnswer
  <2>3. QED
    BY <2>1, <2>2 DEF OneAnswer
<1>5. EnteredInv'
  BY DEF WireInv, EnteredInv, subVars
<1>6. QED
  BY <1>1, <1>2, <1>3, <1>4, <1>5 DEF WireInv

LEMMA EndsWire ==
    ASSUME TypeOK, WireInv, UNCHANGED subVars, reading' = FALSE, inbox' = <<>>,
           \A s \in Subs : \/ answer'[s] = answer[s]
                           \/ answer[s] = "undone" /\ answer'[s] = "error",
           \A i \in DOMAIN toPlc' : i \in DOMAIN toPlc /\ toPlc'[i] = toPlc[i]
    PROVE  WireInv'
<1>1. DOMAIN inbox' = {}
  OBVIOUS
<1>2. RequestInv'
  BY DEF WireInv, RequestInv, subVars
<1>3. OneRequest' /\ AnswerInv' /\ OneAnswer'
  BY <1>1 DEF WireInv, OneRequest, AnswerInv, OneAnswer
<1>4. EnteredInv'
  BY DEF WireInv, EnteredInv, subVars
<1>5. QED
  BY <1>2, <1>3, <1>4 DEF WireInv

LEMMA ReadingEndsWire ==
    ASSUME TypeOK, WireInv, ReadingEnds, UNCHANGED subVars
    PROVE  WireInv'
<1>1. /\ reading' = FALSE /\ inbox' = <<>>
      /\ \A i \in DOMAIN toPlc' : i \in DOMAIN toPlc /\ toPlc'[i] = toPlc[i]
  BY DEF ReadingEnds, SessionEnds
<1>2. \A s \in Subs : \/ answer'[s] = answer[s]
                      \/ answer[s] = "undone" /\ answer'[s] = "error"
  BY DEF ReadingEnds, TypeOK
<1>3. QED
  BY <1>1, <1>2, EndsWire

LEMMA SameWire ==
    ASSUME TypeOK, UNCHANGED inbox
    PROVE  \A j \in DOMAIN inbox' : inbox'[j] \notin Frames =>
                j \in Nat /\ j + 0 \in DOMAIN inbox /\ inbox'[j] = inbox[j + 0]
<1>1. DOMAIN inbox = 1..Len(inbox) /\ Len(inbox) \in Nat
  BY LenProperties DEF TypeOK
<1>2. QED
  BY <1>1

LEMMA CleanupSends ==
    ASSUME TypeOK, NEW f \in Frames, NEW K, NEW U \in SUBSET Handles, Cleanup(f, K, U)
    PROVE  /\ \A i \in DOMAIN toPlc' :
                \/ i \in DOMAIN toPlc /\ toPlc'[i] = toPlc[i]
                \/ /\ link = "up"
                   /\ toPlc'[i].from = f
                   /\ toPlc'[i].op = "delete"
                   /\ toPlc'[i].handle \in U
           /\ \A x \in Subs \cup Frames :
                answer'[x] = IF x = f THEN "undone" ELSE answer[x]
           /\ fpc' = [fpc EXCEPT ![f] = "cleanup"]
           /\ link # "up" => UNCHANGED toPlc
           /\ UNCHANGED <<callee, source>>
<1>1. PICK h \in U : Send(f, "delete", h) /\ fpc' = [fpc EXCEPT ![f] = "cleanup"]
                        /\ UNCHANGED <<callee, source>>
  BY DEF Cleanup
<1>2. [from |-> f, op |-> "delete", handle |-> h] \in Requests
  BY DEF Requests
<1>3. QED
  BY <1>1, <1>2, AppendFacts DEF Send, TypeOK

LEMMA RaisesWire ==
    ASSUME TypeOK, WireInv, NEW f \in Frames, NEW d \in {0, 1}, NEW rest, HandlerRaises(f, rest),
           \A j \in DOMAIN rest : rest[j] \notin Frames =>
                j \in Nat /\ j + d \in DOMAIN inbox /\ rest[j] = inbox[j + d]
    PROVE  WireInv'
<1>1. CASE ReadingEnds
  BY <1>1, ReadingEndsWire DEF HandlerRaises
<1>2. CASE EndRequest(f) /\ inbox' = rest /\ UNCHANGED <<linkVars, toPlc, plc, gone>>
  <2>1. \A s \in Subs : answer'[s] = answer[s]
    BY <1>2, NotificationAssumption DEF EndRequest, TypeOK
  <2>2. UNCHANGED <<subVars, reading>>
    BY <1>2 DEF HandlerRaises, linkVars
  <2>3. QED
    BY <1>2, <2>1, <2>2, OtherWire
<1>3. QED
  BY <1>1, <1>2 DEF HandlerRaises

LEMMA HandlerWire ==
    ASSUME TypeOK, WireInv, NEW f \in Frames, HandlerNext(f)
    PROVE  WireInv'
<1>0. f \notin Subs
  BY NotificationAssumption
<1>1. CASE ReadSamples(f)
  <2>0. \A j \in DOMAIN Tail(inbox) :
            j \in Nat /\ j + 1 \in DOMAIN inbox /\ Tail(inbox)[j] = inbox[j + 1]
    BY <1>1, TailFacts DEF ReadSamples, TypeOK
  <2>1. PICK r \in Readings(f) :
            \/ /\ (UNCHANGED <<toPlc, answer>> \/ Cleanup(f, r.known, r.unknown))
               /\ inbox' = Tail(inbox)
               /\ UNCHANGED <<subVars, linkVars>>
            \/ HandlerRaises(f, Tail(inbox))
    BY <1>1 DEF ReadSamples
  <2>2. CASE HandlerRaises(f, Tail(inbox))
    BY <2>0, <2>2, RaisesWire
  <2>3. CASE /\ (UNCHANGED <<toPlc, answer>> \/ Cleanup(f, r.known, r.unknown))
             /\ inbox' = Tail(inbox)
             /\ UNCHANGED <<subVars, linkVars>>
    <3>1. /\ \A i \in DOMAIN toPlc' : toPlc'[i].from \in Subs =>
                i \in DOMAIN toPlc /\ toPlc'[i] = toPlc[i]
          /\ \A s \in Subs : answer'[s] = answer[s]
      BY <1>0, <2>3, ReadingsType, CleanupSends
    <3>2. QED
      BY <2>0, <2>3, <3>1, OtherWire DEF linkVars
  <2>4. QED
    BY <2>1, <2>2, <2>3
<1>2. CASE CleanupReturns(f)
  <2>0. todo[f] \in SUBSET Handles
    BY DEF TypeOK
  <2>1. (EndRequest(f) /\ UNCHANGED toPlc) \/ Cleanup(f, known[f], todo[f])
    BY <1>2 DEF CleanupReturns
  <2>2. /\ \A i \in DOMAIN toPlc' : toPlc'[i].from \in Subs =>
                i \in DOMAIN toPlc /\ toPlc'[i] = toPlc[i]
        /\ \A s \in Subs : answer'[s] = answer[s]
    <3>1. CASE EndRequest(f) /\ UNCHANGED toPlc
      BY <1>0, <3>1 DEF EndRequest, TypeOK
    <3>2. CASE Cleanup(f, known[f], todo[f])
      BY <1>0, <2>0, <3>2, CleanupSends
    <3>3. QED
      BY <2>1, <3>1, <3>2
  <2>3. UNCHANGED <<subVars, reading>> /\ UNCHANGED inbox
    BY <1>2 DEF CleanupReturns, linkVars
  <2>4. QED
    BY <2>2, <2>3, SameWire, OtherWire
<1>3. CASE HandlerRaises(f, inbox)
  <2>1. \A j \in DOMAIN inbox : j \in Nat /\ j + 0 \in DOMAIN inbox /\ inbox[j] = inbox[j + 0]
    <3>1. DOMAIN inbox = 1..Len(inbox) /\ Len(inbox) \in Nat
      BY LenProperties DEF TypeOK
    <3>2. QED
      BY <3>1
  <2>2. QED
    BY <1>3, <2>1, RaisesWire
<1>4. CASE CallbackReturns(f)
  <2>1. UNCHANGED <<subVars, reading>> /\ UNCHANGED <<toPlc, inbox, answer>>
    BY <1>4 DEF CallbackReturns, linkVars
  <2>2. QED
    BY <2>1, SameWire, OtherWire
<1>5. CASE HandlerCancelled(f)
  <2>1. UNCHANGED subVars /\ reading' = FALSE /\ inbox' = <<>> /\ UNCHANGED toPlc
    BY <1>5 DEF HandlerCancelled
  <2>2. \A s \in Subs : answer'[s] = answer[s]
    BY <1>0, <1>5 DEF HandlerCancelled, EndRequest, TypeOK
  <2>3. QED
    BY <2>1, <2>2, EndsWire
<1>6. QED
  BY <1>1, <1>2, <1>3, <1>4, <1>5 DEF HandlerNext, CleanupFails, CleanupTimesOut, CallbackRaises

LEMMA ReadAnswerWire ==
    ASSUME TypeOK, WireInv, ReadAnswer
    PROVE  WireInv'
<1> DEFINE a == Head(inbox)
<1> DEFINE waits == answer[a.to] = "undone"
<1>1. /\ 1 \in DOMAIN inbox /\ a = inbox[1] /\ a \in Answers /\ a \notin Frames
      /\ \A j \in DOMAIN inbox' :
            j \in Nat /\ j + 1 \in DOMAIN inbox /\ j + 1 # 1 /\ inbox'[j] = inbox[j + 1]
  BY HeadAnswer, TailFacts DEF ReadAnswer, TypeOK
<1>2. /\ answer' = IF waits THEN [answer EXCEPT ![a.to] = IF a.ok THEN "ok" ELSE "error"]
                   ELSE answer
      /\ handle' = IF waits /\ a.handle # None THEN [handle EXCEPT ![a.to] = a.handle]
                   ELSE handle
      /\ UNCHANGED <<table, pc, toPlc, reading>> /\ reading
  BY DEF ReadAnswer, CanRead, linkVars
<1>3. \A s \in Subs : s # a.to => answer'[s] = answer[s] /\ handle'[s] = handle[s]
  BY <1>2 DEF TypeOK
<1>4. \A s \in Subs : s = a.to => Unheard(s)'
  <2> SUFFICES ASSUME NEW s \in Subs, s = a.to PROVE Unheard(s)'
    OBVIOUS
  <2>1. IsAnswer(1, s)
    BY <1>1 DEF IsAnswer
  <2>2. \A i \in DOMAIN toPlc : toPlc[i].from # s
    BY <1>1, <2>1 DEF WireInv, OneAnswer
  <2>3. \A j \in DOMAIN inbox : IsAnswer(j, s) => j = 1
    BY <1>1, <2>1 DEF WireInv, OneAnswer
  <2>4. \A j \in DOMAIN inbox' : ~IsAnswer(j, s)'
    BY <1>1, <2>3 DEF IsAnswer
  <2>5. QED
    BY <1>2, <2>2, <2>4 DEF Unheard
<1>5. RequestInv'
  BY <1>2, <1>3, <1>4 DEF WireInv, RequestInv, Unheard
<1>6. OneRequest'
  BY <1>2 DEF WireInv, OneRequest
<1>7. AnswerInv'
  BY <1>1, <1>2, <1>3, <1>4 DEF WireInv, AnswerInv, Unheard, IsAnswer
<1>8. OneAnswer'
  <2>1. \A s \in Subs : \A j, k \in DOMAIN inbox' : IsAnswer(j, s)' /\ IsAnswer(k, s)' => j = k
    <3> SUFFICES ASSUME NEW s \in Subs, NEW j \in DOMAIN inbox', NEW k \in DOMAIN inbox',
                        IsAnswer(j, s)', IsAnswer(k, s)'
                 PROVE  j = k
      OBVIOUS
    <3>1. j \in Nat /\ k \in Nat /\ j + 1 = k + 1
      BY <1>1 DEF WireInv, OneAnswer, IsAnswer
    <3>2. QED
      BY <3>1
  <2>2. \A s \in Subs : \A i \in DOMAIN toPlc' : \A j \in DOMAIN inbox' :
            ~(toPlc'[i].from = s /\ IsAnswer(j, s)')
    BY <1>1, <1>2 DEF WireInv, OneAnswer, IsAnswer
  <2>3. QED
    BY <2>1, <2>2 DEF OneAnswer
<1>9. EnteredInv'
  <2> SUFFICES ASSUME NEW s \in Subs
               PROVE  /\ pc[s] = "adding" /\ answer'[s] = "ok" => handle'[s] # None
                      /\ pc[s] \in {"active", "deleting"} => table[handle'[s]] # None
    BY <1>2 DEF EnteredInv
  <2>1. CASE s # a.to
    BY <1>3, <2>1 DEF WireInv, EnteredInv
  <2>2. CASE s = a.to
    <3>1. IsAnswer(1, s)
      BY <1>1, <2>2 DEF IsAnswer
    <3>2. /\ pc[s] \in {"adding", "deleting", "failed"}
          /\ pc[s] # "failed" => answer[s] = "undone"
          /\ pc[s] = "adding" /\ a.ok => a.handle # None
          /\ pc[s] = "deleting" => a.handle = None
      BY <1>1, <3>1 DEF WireInv, AnswerInv
    <3>3. pc[s] = "deleting" => handle'[s] = handle[s]
      BY <1>2, <3>2
    <3>4. pc[s] = "adding" => answer'[s] = IF a.ok THEN "ok" ELSE "error"
      BY <1>2, <2>2, <3>2 DEF TypeOK
    <3>5. pc[s] = "adding" /\ a.ok => handle'[s] = a.handle
      BY <1>2, <2>2, <3>2 DEF TypeOK
    <3>6. QED
      BY <3>2, <3>3, <3>4, <3>5 DEF WireInv, EnteredInv
  <2>3. QED
    BY <2>1, <2>2
<1>10. QED
  BY <1>5, <1>6, <1>7, <1>8, <1>9 DEF WireInv

(***************************************************************************)
(* The PLC turns the first request into the last answer.                   *)
(***************************************************************************)
LEMMA PlcAnswerWire ==
    ASSUME TypeOK, WireInv, toPlc # <<>>, toPlc' = Tail(toPlc),
           NEW ok \in BOOLEAN, NEW h \in Handles \cup {None}, Answer(Head(toPlc).from, ok, h),
           Head(toPlc).op = "add" => Head(toPlc).from \in Subs /\ (ok => h # None),
           Head(toPlc).op = "delete" => h = None,
           UNCHANGED <<subVars, answer, reading>>
    PROVE  WireInv'
<1> DEFINE r == Head(toPlc)
<1> DEFINE n == Len(inbox) + 1
<1>1. /\ 1 \in DOMAIN toPlc /\ r = toPlc[1] /\ r \in Requests
      /\ \A i \in DOMAIN toPlc' :
            i \in Nat /\ i + 1 \in DOMAIN toPlc /\ i + 1 # 1 /\ toPlc'[i] = toPlc[i + 1]
  BY TailFacts DEF TypeOK
<1>2. [to |-> r.from, ok |-> ok, handle |-> h] \in Answers
  BY <1>1 DEF Answers, Requests
<1>3. /\ DOMAIN inbox \subseteq DOMAIN inbox'
      /\ \A j \in DOMAIN inbox : inbox'[j] = inbox[j]
      /\ \A j \in DOMAIN inbox' : j \notin DOMAIN inbox =>
            reading /\ j = n /\ inbox'[n] = [to |-> r.from, ok |-> ok, handle |-> h]
  BY <1>2, AppendFacts DEF Answer, TypeOK
<1>4. r.op \in {"add", "delete"}
  BY <1>1 DEF Requests
<1>5. \A s \in Subs : r.from = s =>
        /\ pc[s] \in {"adding", "deleting", "failed"}
        /\ pc[s] # "failed" /\ reading => answer[s] = "undone"
        /\ pc[s] = "adding" /\ ok => h # None
        /\ pc[s] = "deleting" => h = None
        /\ \A j \in DOMAIN inbox : ~IsAnswer(j, s)
        /\ \A i \in DOMAIN toPlc' : toPlc'[i].from # s
  BY <1>1, <1>4 DEF WireInv, RequestInv, OneRequest, OneAnswer
<1>6. RequestInv'
  BY <1>1 DEF WireInv, RequestInv, subVars
<1>7. OneRequest'
  <2> SUFFICES ASSUME NEW s \in Subs, NEW i \in DOMAIN toPlc', NEW k \in DOMAIN toPlc',
                      toPlc'[i].from = s, toPlc'[k].from = s
               PROVE  i = k
    BY DEF OneRequest
  <2>1. i \in Nat /\ k \in Nat /\ i + 1 = k + 1
    BY <1>1 DEF WireInv, OneRequest
  <2>2. QED
    BY <2>1
<1>8. \A j \in DOMAIN inbox' : \A s \in Subs : IsAnswer(j, s)' =>
        \/ j \in DOMAIN inbox /\ IsAnswer(j, s) /\ r.from # s
        \/ /\ j = n /\ r.from = s /\ reading
           /\ inbox'[j].ok = ok /\ inbox'[j].handle = h
  BY <1>3, <1>5 DEF IsAnswer
<1>9. AnswerInv'
  BY <1>3, <1>5, <1>8 DEF WireInv, AnswerInv, subVars
<1>10. OneAnswer'
  <2>1. \A s \in Subs : \A j, k \in DOMAIN inbox' : IsAnswer(j, s)' /\ IsAnswer(k, s)' => j = k
    BY <1>8 DEF WireInv, OneAnswer
  <2>2. \A s \in Subs : \A i \in DOMAIN toPlc' : \A j \in DOMAIN inbox' :
            ~(toPlc'[i].from = s /\ IsAnswer(j, s)')
    BY <1>1, <1>5, <1>8 DEF WireInv, OneAnswer
  <2>3. QED
    BY <2>1, <2>2 DEF OneAnswer
<1>11. EnteredInv'
  BY DEF WireInv, EnteredInv, subVars
<1>12. QED
  BY <1>6, <1>7, <1>9, <1>10, <1>11 DEF WireInv

LEMMA EnvWire ==
    ASSUME TypeOK, WireInv, EnvNext
    PROVE  WireInv'
<1>1. CASE NetworkFails
  <2>1. \A i \in DOMAIN toPlc' : i \in DOMAIN toPlc /\ toPlc'[i] = toPlc[i]
    BY <1>1, PrefixesFacts DEF NetworkFails, SessionEnds
  <2>2. \A j \in DOMAIN inbox' : inbox'[j] \notin Frames =>
            j \in Nat /\ j + 0 \in DOMAIN inbox /\ inbox'[j] = inbox[j + 0]
    BY <1>1, SameWire DEF NetworkFails
  <2>3. QED
    BY <1>1, <2>1, <2>2, OtherWire DEF NetworkFails
<1>2. CASE Reconnects
  <2>1. DOMAIN toPlc' = {} /\ UNCHANGED <<subVars, inbox, answer>>
    BY <1>2 DEF Reconnects
  <2>2. QED
    BY <2>1 DEF WireInv, RequestInv, OneRequest, AnswerInv, OneAnswer, EnteredInv, IsAnswer, subVars
<1>a. CASE Noticed \/ Disconnect
  BY <1>a, ReadingEndsWire DEF Noticed, Disconnect
<1>3. CASE PlcAdds
  <2>1. /\ toPlc # <<>> /\ toPlc' = Tail(toPlc) /\ UNCHANGED <<subVars, answer, reading>>
        /\ Head(toPlc).op = "add" /\ Head(toPlc).from \in Subs
    BY <1>3, HeadRequest DEF PlcAdds, linkVars
  <2>2. \/ \E h \in Handles : Answer(Head(toPlc).from, TRUE, h)
        \/ Answer(Head(toPlc).from, FALSE, None)
    BY <1>3 DEF PlcAdds
  <2>3. \A h \in Handles : h # None
    BY NotificationAssumption
  <2>4. QED
    BY <2>1, <2>2, <2>3, PlcAnswerWire
<1>4. CASE PlcDeletes
  <2>1. /\ toPlc # <<>> /\ toPlc' = Tail(toPlc) /\ UNCHANGED <<subVars, answer, reading>>
        /\ Head(toPlc).op = "delete"
        /\ Answer(Head(toPlc).from, plc[Head(toPlc).handle] # None, None)
    BY <1>4 DEF PlcDeletes, linkVars
  <2>2. QED
    BY <2>1, PlcAnswerWire
<1>5. ASSUME NEW f \in Frames, PlcSamples(f) PROVE WireInv'
  <2>1. \A j \in DOMAIN inbox' : inbox'[j] \notin Frames =>
            j \in Nat /\ j + 0 \in DOMAIN inbox /\ inbox'[j] = inbox[j + 0]
    <3>1. /\ DOMAIN inbox' = DOMAIN inbox \cup {Len(inbox) + 1}
          /\ \A j \in DOMAIN inbox : inbox'[j] = inbox[j]
          /\ inbox'[Len(inbox) + 1] = f
      BY <1>5, AppendFacts DEF PlcSamples, TypeOK
    <3>2. DOMAIN inbox = 1..Len(inbox) /\ Len(inbox) \in Nat
      BY LenProperties DEF TypeOK
    <3>3. QED
      BY <3>1, <3>2
  <2>2. QED
    BY <1>5, <2>1, OtherWire DEF PlcSamples, linkVars
<1>6. QED
  BY <1>1, <1>2, <1>a, <1>3, <1>4, <1>5 DEF EnvNext

(***************************************************************************)
(* Every variable keeps its type, and a context that has been entered has  *)
(* a handle, on every transport and with every PLC.                        *)
(***************************************************************************)
LEMMA WireInvariant == Spec => [](TypeOK /\ WireInv)
<1>1. Init => TypeOK /\ WireInv
  <2>1. Init => TypeOK
    BY EmptySeq, NotificationAssumption DEF Init, TypeOK, SubPCs, FramePCs, NoSubs
  <2>2. Init => WireInv
    BY DEF Init, WireInv, RequestInv, OneRequest, AnswerInv, OneAnswer, EnteredInv
  <2>3. QED
    BY <2>1, <2>2
<1>2. TypeOK /\ WireInv /\ [Next]_vars => (TypeOK /\ WireInv)'
  <2> SUFFICES ASSUME TypeOK, WireInv, [Next]_vars PROVE (TypeOK /\ WireInv)'
    OBVIOUS
  <2>0. EnteredInv
    BY DEF WireInv
  <2>1. ASSUME NEW s \in Subs, SubNext(s) PROVE (TypeOK /\ WireInv)'
    BY <2>0, <2>1, SubType, SubWire
  <2>2. CASE ReadAnswer
    BY <2>2, ReadAnswerType, ReadAnswerWire
  <2>3. ASSUME NEW f \in Frames, HandlerNext(f) PROVE (TypeOK /\ WireInv)'
    BY <2>3, HandlerType, HandlerWire
  <2>4. CASE EnvNext
    BY <2>4, EnvType, EnvWire
  <2>5. CASE UNCHANGED vars
    BY <2>5 DEF vars, subVars, frameVars, linkVars, TypeOK, WireInv, RequestInv, OneRequest,
       AnswerInv, OneAnswer, EnteredInv, IsAnswer
  <2>6. QED
    BY <2>1, <2>2, <2>3, <2>4, <2>5 DEF Next
<1>3. QED
  BY <1>1, <1>2, PTL DEF Spec

(***************************************************************************)
(* The variables keep their types; in particular whoever deletes its       *)
(* notification, or has entered its context, was given a handle.           *)
(***************************************************************************)
THEOREM TypeCorrect == Spec => []TypeOK
BY WireInvariant, PTL

-----------------------------------------------------------------------------
(***************************************************************************)
(* OrderlyInv is inductive.  First, nobody reads any more, or the network  *)
(* fails.                                                                  *)
(***************************************************************************)
SessionLost ==
    /\ ~Lasting'
    /\ toPlc' = <<>>
    /\ plc' = NoSubs
    /\ gone' = gone \cup {s \in Subs : pc[s] \in {"adding", "active"}}

LEMMA EndsOrderly ==
    ASSUME TypeOK, OrderlyParts, UNCHANGED subVars, reading' = FALSE, inbox' = <<>>,
           \A f \in Frames :
                \/ fpc'[f] = fpc[f] /\ callee'[f] = callee[f] /\ source'[f] = source[f]
                \/ ~Busy(f)' /\ \A h \in Handles : callee'[f][h] = None,
           \A x \in Subs \cup Frames :
                \/ answer'[x] = answer[x]
                \/ answer[x] = "undone" /\ answer'[x] = "error"
                \/ x \in Frames /\ ~Busy(x)',
           SessionLost \/ (UNCHANGED <<toPlc, plc, gone>> /\ Lasting' = Lasting)
    PROVE  OrderlyParts'
<1>0. /\ \A s \in Subs : s # None /\ s \notin Frames
      /\ DOMAIN inbox' = {}
  BY NotificationAssumption
<1>a. \A s \in Subs : answer'[s] = "ok" <=> answer[s] = "ok"
  BY <1>0
<1>b. \A s \in Subs : \A h \in Handles : Claims(s, h)' => Claims(s, h)
  BY <1>0, <1>a DEF Claims, subVars
<1>c. SessionLost =>
        /\ \A h \in Handles : plc'[h] = None
        /\ DOMAIN toPlc' = {}
        /\ \A s \in Subs : pc[s] \in {"adding", "active"} => s \in gone'
  BY DEF SessionLost, NoSubs
<1> USE DEF OrderlyParts
<1>1. HandlerInv'
  <2>1. \A f, g \in Frames : Busy(f)' /\ Busy(g)' => f = g
    BY DEF HandlerInv, Busy
  <2>2. \A f \in Frames : fpc'[f] = "cleanup" => answer'[f] \in {"undone", "error"}
    BY DEF HandlerInv, Busy
  <2>3. \A f \in Frames : \A h \in Handles : callee'[f][h] # None => fpc'[f] = "callback"
    BY DEF HandlerInv
  <2>4. QED
    BY <1>0, <2>1, <2>2, <2>3 DEF HandlerInv
<1>2. DownInv'
  <2>1. ~Lasting' => /\ toPlc' = <<>>
                     /\ plc' = NoSubs
                     /\ \A s \in Subs : \A h \in Handles :
                        Claims(s, h)' /\ pc'[s] \in {"adding", "active"} => s \in gone'
    <3>1. CASE SessionLost
      BY <1>c, <3>1 DEF SessionLost, subVars
    <3>2. CASE UNCHANGED <<toPlc, plc, gone>> /\ Lasting' = Lasting
      BY <1>b, <3>2 DEF DownInv, subVars
    <3>3. QED
      BY <3>1, <3>2
  <2>2. QED
    BY <2>1 DEF DownInv
<1>3. ClaimInv'
  <2>2. \A s, t \in Subs : \A h \in Handles : Claims(s, h)' /\ Claims(t, h)' => s = t
    BY <1>b DEF ClaimInv
  <2>3. \A s \in Subs : pc'[s] \in {"active", "deleting"} => table'[handle'[s]] = s
    BY DEF ClaimInv, subVars
  <2>4. CASE SessionLost
    <3>1. \A s \in Subs : handle'[s] = handle[s] /\ pc'[s] = pc[s] /\ ~Lasting'
      BY <2>4 DEF subVars, SessionLost
    <3>2. QED
      BY <1>0, <1>c, <2>2, <2>3, <2>4, <3>1 DEF ClaimInv
  <2>5. CASE UNCHANGED <<toPlc, plc, gone>> /\ Lasting' = Lasting
    BY <1>b, <2>2, <2>3, <2>5 DEF ClaimInv, subVars
  <2>6. QED
    BY <2>4, <2>5
<1>4. TableInv'
  BY <1>0 DEF TableInv, subVars
<1>5. PlcInv'
  <2>1. CASE SessionLost
    BY <1>0, <1>c, <2>1 DEF PlcInv
  <2>2. CASE UNCHANGED <<toPlc, plc, gone>> /\ Lasting' = Lasting
    BY <1>0, <1>a, <2>2 DEF PlcInv, subVars
  <2>3. QED
    BY <2>1, <2>2
<1>6. SampleInv' /\ NextOwnerInv'
  BY <1>0 DEF SampleInv, NextOwnerInv, OnWire
<1>7. CalleeInv'
  BY <1>a DEF CalleeInv, subVars
<1>8. QED
  BY <1>1, <1>2, <1>3, <1>4, <1>5, <1>6, <1>7

LEMMA ReadingEndsOrderly ==
    ASSUME TypeOK, OrderlyParts, Serial, ReadingEnds, UNCHANGED <<subVars, transport>>,
           \A f \in Frames :
                \/ fpc'[f] = fpc[f] /\ callee'[f] = callee[f] /\ source'[f] = source[f]
                \/ ~Busy(f)' /\ \A h \in Handles : callee'[f][h] = None
    PROVE  OrderlyParts'
<1>1. reading' = FALSE /\ inbox' = <<>> /\ SessionEnds
  BY DEF ReadingEnds
<1>2. \A x \in Subs \cup Frames :
            \/ answer'[x] = answer[x]
            \/ answer[x] = "undone" /\ answer'[x] = "error"
  BY DEF ReadingEnds, TypeOK
<1>3. SessionLost \/ (UNCHANGED <<toPlc, plc, gone>> /\ Lasting' = Lasting)
  BY NotificationAssumption DEF ReadingEnds, SessionEnds, SessionLost, Lasting, Serial, TypeOK
<1>4. QED
  BY <1>1, <1>2, <1>3, EndsOrderly

LEMMA NetworkFailsOrderly ==
    ASSUME TypeOK, OrderlyParts, Serial, NetworkFails
    PROVE  OrderlyParts'
<1>0. \A s \in Subs : s # None
  BY NotificationAssumption
<1>a. /\ UNCHANGED <<table, pc, handle, answer, fpc, source, callee, reading, transport, inbox>>
      /\ link' = IF reading THEN "cut" ELSE "down"
  BY DEF NetworkFails, subVars, frameVars
<1>b. \A i \in DOMAIN toPlc' : i \in DOMAIN toPlc /\ toPlc'[i] = toPlc[i]
  BY PrefixesFacts DEF NetworkFails, SessionEnds
<1>c. SessionLost \/ (UNCHANGED <<plc, gone>> /\ Lasting' /\ Lasting)
  BY <1>a, NotificationAssumption DEF NetworkFails, SessionEnds, SessionLost, Lasting, Serial, TypeOK
<1>d. SessionLost =>
        /\ \A h \in Handles : plc'[h] = None
        /\ DOMAIN toPlc' = {}
        /\ \A s \in Subs : pc[s] \in {"adding", "active"} => s \in gone'
  BY DEF SessionLost, NoSubs
<1>e. \A s \in Subs : \A h \in Handles : Claims(s, h)' <=> Claims(s, h)
  BY <1>a DEF Claims, IsAnswer
<1> USE DEF OrderlyParts
<1>1. HandlerInv'
  BY <1>a, <1>b DEF HandlerInv, Busy
<1>2. DownInv'
  BY <1>a, <1>c, <1>d DEF DownInv, SessionLost
<1>3. ClaimInv'
  <2>1. CASE SessionLost
    <3>1. ~Lasting'
      BY <2>1 DEF SessionLost
    <3>2. QED
      BY <1>0, <1>a, <1>d, <1>e, <2>1, <3>1 DEF ClaimInv
  <2>2. CASE UNCHANGED <<plc, gone>> /\ Lasting' /\ Lasting
    BY <1>a, <1>e, <2>2 DEF ClaimInv
  <2>3. QED
    BY <1>c, <2>1, <2>2
<1>4. TableInv'
  BY <1>a DEF TableInv
<1>5. PlcInv'
  <2>1. CASE SessionLost
    BY <1>0, <1>d, <2>1 DEF PlcInv
  <2>2. CASE UNCHANGED <<plc, gone>> /\ Lasting' /\ Lasting
    BY <1>a, <1>b, <2>2 DEF PlcInv, IsAnswer
  <2>3. QED
    BY <1>c, <2>1, <2>2
<1>6. SampleInv'
  <2>1. CASE SessionLost
    <3>1. ~Lasting'
      BY <2>1 DEF SessionLost
    <3>2. QED
      BY <1>a, <3>1 DEF SampleInv, OnWire, IsAnswer
  <2>2. CASE UNCHANGED <<plc, gone>> /\ Lasting' /\ Lasting
    BY <1>a, <2>2 DEF SampleInv, OnWire, IsAnswer
  <2>3. QED
    BY <1>c, <2>1, <2>2
<1>7. NextOwnerInv'
  BY <1>a, <1>e DEF NextOwnerInv, IsAnswer
<1>8. CalleeInv'
  BY <1>a DEF CalleeInv
<1>9. QED
  BY <1>1, <1>2, <1>3, <1>4, <1>5, <1>6, <1>7, <1>8

\* Who is in the table, or has been called back, is a subscription.
LEMMA HoldersAreSubs ==
    ASSUME TypeOK
    PROVE  /\ \A h \in Handles : table[h] # None => table[h] \in Subs
           /\ \A f \in Frames : \A h \in Handles :
                callee[f][h] # None => callee[f][h] \in Subs
BY DEF TypeOK

(***************************************************************************)
(* A subscription's step: of another one nothing changes but the entry of  *)
(* a handle that it does not hold.                                         *)
(***************************************************************************)
SubStep(s) ==
    /\ UNCHANGED <<frameVars, linkVars, inbox, plc, gone, transport, handle>>
    /\ \A x \in (Subs \cup Frames) \ {s} : answer'[x] = answer[x]
    /\ \A t \in Subs \ {s} : pc'[t] = pc[t]

LEMMA FailsOrderly ==
    ASSUME TypeOK, OrderlyParts, NEW s \in Subs, SubStep(s), UNCHANGED <<table, toPlc>>,
           \/ pc'[s] = "failed"
           \/ pc[s] \in {"idle", "lookup"} /\ pc'[s] \in {"lookup", "rejected"},
           \/ answer'[s] = "none"
           \/ answer'[s] = answer[s] /\ pc[s] \in {"idle", "lookup", "active"}
    PROVE  OrderlyParts'
<1>0. s \notin Frames
  BY NotificationAssumption
<1>l. Lasting' = Lasting
  BY DEF SubStep, linkVars, Lasting
<1> USE <1>l DEF SubStep, frameVars, linkVars, OrderlyParts
<1>a. \A t \in Subs : \A h \in Handles : Claims(t, h)' => Claims(t, h) /\ t # s
  BY DEF Claims, IsAnswer
<1>1. HandlerInv'
  BY <1>0 DEF HandlerInv, Busy
<1>2. DownInv'
  BY <1>a DEF DownInv
<1>3. ClaimInv'
  BY <1>a DEF ClaimInv
<1>4. TableInv'
  BY <1>0, HoldersAreSubs DEF TableInv
<1>5. PlcInv'
  BY DEF PlcInv, IsAnswer
<1>6. SampleInv'
  BY DEF SampleInv, OnWire, IsAnswer
<1>7. NextOwnerInv'
  BY <1>a DEF NextOwnerInv, IsAnswer
<1>8. CalleeInv'
  BY HoldersAreSubs DEF CalleeInv
<1>9. QED
  BY <1>1, <1>2, <1>3, <1>4, <1>5, <1>6, <1>7, <1>8

\* A request is appended, or gets lost.
LEMMA SendAppends ==
    ASSUME TypeOK, NEW x \in Subs \cup Frames, NEW op, NEW h,
           [from |-> x, op |-> op, handle |-> h] \in Requests, Send(x, op, h)
    PROVE  /\ DOMAIN toPlc \subseteq DOMAIN toPlc'
           /\ \A i \in DOMAIN toPlc : toPlc'[i] = toPlc[i]
           /\ \A i \in DOMAIN toPlc' :
                \/ i \in DOMAIN toPlc
                \/ toPlc'[i] = [from |-> x, op |-> op, handle |-> h]
           /\ link # "up" => toPlc' = toPlc
           /\ answer'[x] = "undone"
BY AppendFacts DEF Send, TypeOK

LEMMA AddOrderly ==
    ASSUME TypeOK, WireInv, OrderlyParts, NEW s \in Subs, SubStep(s), UNCHANGED table,
           pc[s] \in {"idle", "lookup"}, Send(s, "add", None), pc'[s] = "adding"
    PROVE  OrderlyParts'
<1>0. s \notin Frames /\ None \notin Handles
  BY NotificationAssumption
<1>l. (Lasting' = Lasting) /\ (~Lasting => link # "up")
  BY DEF SubStep, linkVars, Lasting
<1>b. /\ DOMAIN toPlc \subseteq DOMAIN toPlc'
      /\ \A i \in DOMAIN toPlc : toPlc'[i] = toPlc[i]
      /\ \A i \in DOMAIN toPlc' :
            \/ i \in DOMAIN toPlc
            \/ toPlc'[i] = [from |-> s, op |-> "add", handle |-> None]
      /\ link # "up" => toPlc' = toPlc
      /\ answer'[s] = "undone"
  <2>1. [from |-> s, op |-> "add", handle |-> None] \in Requests
    BY DEF Requests
  <2>2. QED
    BY <2>1, SendAppends
<1>c. Unheard(s)
  BY UnheardSub
<1> USE DEF SubStep, frameVars, linkVars, OrderlyParts
<1>a. \A t \in Subs : \A h \in Handles : Claims(t, h)' => Claims(t, h) /\ t # s
  BY <1>b, <1>c DEF Claims, IsAnswer, Unheard
<1>1. HandlerInv'
  BY <1>0, <1>b DEF HandlerInv, Busy
<1>2. DownInv'
  BY <1>a, <1>b, <1>l DEF DownInv
<1>3. ClaimInv'
  BY <1>a, <1>l DEF ClaimInv
<1>4. TableInv'
  BY <1>a, <1>b, HoldersAreSubs DEF TableInv
<1>5. PlcInv'
  <2>1. \A h \in Handles : plc[h] # s
    BY DEF PlcInv
  <2>2. QED
    BY <1>0, <1>b, <2>1 DEF PlcInv, IsAnswer
<1>6. SampleInv'
  BY <1>l DEF SampleInv, OnWire, IsAnswer
<1>7. NextOwnerInv'
  BY <1>a DEF NextOwnerInv, IsAnswer
<1>8. CalleeInv'
  BY <1>b, HoldersAreSubs DEF CalleeInv
<1>9. QED
  BY <1>1, <1>2, <1>3, <1>4, <1>5, <1>6, <1>7, <1>8

LEMMA AddReturnsOrderly ==
    ASSUME TypeOK, WireInv, OrderlyParts, NEW s \in Subs, AddReturns(s)
    PROVE  OrderlyParts'
<1>0. s \notin Frames /\ s # None
  BY NotificationAssumption
<1>a. /\ pc[s] = "adding" /\ answer[s] = "ok" /\ handle[s] \in Handles
      /\ UNCHANGED <<handle, frameVars, linkVars, toPlc, inbox, plc, gone, transport>>
  BY DEF AddReturns, WireInv, EnteredInv, TypeOK
<1>b. /\ \A x \in (Subs \cup Frames) \ {s} : answer'[x] = answer[x]
      /\ answer'[s] = "none"
      /\ \A t \in Subs \ {s} : pc'[t] = pc[t]
      /\ pc'[s] = "active"
      /\ table'[handle[s]] = s
      /\ \A h \in Handles \ {handle[s]} : table'[h] = table[h]
  BY <1>a DEF AddReturns, EndRequest, TypeOK
<1>c. Unheard(s)
  BY <1>a, UnheardSub
<1>d. Claims(s, handle[s])
  BY <1>a DEF Claims
<1>e. /\ plc[handle[s]] \in {s, None}
      /\ Lasting => plc[handle[s]] = s
      /\ ~Lasting => s \in gone
  BY <1>a, <1>d DEF OrderlyParts, ClaimInv, DownInv
<1>l. Lasting' = Lasting
  BY <1>a DEF Lasting, linkVars
<1>f. \A t \in Subs : \A h \in Handles : Claims(t, h)' =>
        Claims(t, h) /\ (t = s => h = handle[s])
  BY <1>a, <1>b, <1>c DEF Claims, IsAnswer, Unheard
<1> USE DEF frameVars, linkVars, OrderlyParts
<1>1. HandlerInv'
  BY <1>0, <1>a, <1>b DEF HandlerInv, Busy
<1>2. DownInv'
  BY <1>a, <1>b, <1>e, <1>f, <1>l DEF DownInv
<1>3. ClaimInv'
  <2>2. \A t, u \in Subs : \A h \in Handles : Claims(t, h)' /\ Claims(u, h)' => t = u
    BY <1>f DEF ClaimInv
  <2>3. \A t \in Subs : \A h \in Handles : Claims(t, h)' =>
            /\ plc'[h] \in {t, None}
            /\ pc'[t] = "adding" /\ Lasting' => plc'[h] = t
            /\ \A k \in Handles : plc'[k] = t => k = h
    BY <1>a, <1>b, <1>f, <1>l DEF ClaimInv
  <2>4. ASSUME NEW t \in Subs, pc'[t] \in {"active", "deleting"} PROVE table'[handle'[t]] = t
    <3>1. CASE t = s
      BY <1>a, <1>b, <3>1
    <3>2. CASE t # s
      <4>1. pc[t] \in {"active", "deleting"} /\ table[handle[t]] = t /\ handle[t] \in Handles
        BY <1>b, <2>4, <3>2 DEF ClaimInv, TypeOK
      <4>2. Claims(t, handle[t])
        BY <4>1 DEF Claims
      <4>3. handle[t] # handle[s]
        BY <1>a, <1>d, <3>2, <4>1, <4>2 DEF ClaimInv
      <4>4. QED
        BY <1>a, <1>b, <4>1, <4>3
    <3>3. QED
      BY <3>1, <3>2
  <2>5. ASSUME NEW t \in Subs, pc'[t] = "active", t \notin gone'
        PROVE  plc'[handle'[t]] = t
    <3>1. CASE t = s
      BY <1>a, <1>e, <2>5, <3>1
    <3>2. CASE t # s
      BY <1>a, <1>b, <2>5, <3>2 DEF ClaimInv
    <3>3. QED
      BY <3>1, <3>2
  <2>6. QED
    BY <2>2, <2>3, <2>4, <2>5 DEF ClaimInv
<1>4. PlcInv'
  <2>1. \A h \in Handles : plc[h] = s => \A i \in DOMAIN toPlc : toPlc[i].handle # h
    BY <1>a DEF PlcInv
  <2>2. QED
    BY <1>a, <1>b, <2>1 DEF PlcInv, IsAnswer
<1>5. SampleInv'
  <2>1. \A f \in Frames : OnWire(f) => \A h \in Handles : source[f][h] # s
    BY <1>a DEF SampleInv
  <2>2. \A h \in Handles : table'[h] = None => table[h] = None
    BY <1>0, <1>b
  <2>3. QED
    BY <1>a, <1>b, <1>l, <2>1, <2>2 DEF SampleInv, OnWire, IsAnswer
<1>6. CalleeInv'
  BY <1>a, <1>b, HoldersAreSubs DEF CalleeInv
<1>7. TableInv'
  BY <1>a, <1>b, HoldersAreSubs DEF TableInv
<1>8. NextOwnerInv'
  <2>1. ASSUME NEW j \in DOMAIN inbox, inbox[j] \in Frames, NEW u \in Subs,
               source[inbox[j]][handle[s]] = u
        PROVE  u = s
    BY <1>a, <1>d, <2>1 DEF NextOwnerInv
  <2>2. QED
    BY <1>a, <1>b, <1>f, <2>1 DEF NextOwnerInv, IsAnswer
<1>9. QED
  BY <1>1, <1>2, <1>3, <1>4, <1>5, <1>6, <1>7, <1>8

LEMMA ExitOrderly ==
    ASSUME TypeOK, WireInv, OrderlyParts, NEW s \in Subs, SubStep(s), UNCHANGED table,
           pc[s] = "active", Send(s, "delete", handle[s]), pc'[s] = "deleting"
    PROVE  OrderlyParts'
<1>0. s \notin Frames /\ handle[s] \in Handles
  BY NotificationAssumption DEF TypeOK
<1>l. (Lasting' = Lasting) /\ (~Lasting => link # "up")
  BY DEF SubStep, linkVars, Lasting
<1> USE DEF SubStep, frameVars, linkVars, OrderlyParts
<1>a. [from |-> s, op |-> "delete", handle |-> handle[s]] \in Requests
  BY <1>0 DEF Requests
<1>b. /\ DOMAIN toPlc \subseteq DOMAIN toPlc'
      /\ \A i \in DOMAIN toPlc : toPlc'[i] = toPlc[i]
      /\ \A i \in DOMAIN toPlc' :
            \/ i \in DOMAIN toPlc
            \/ toPlc'[i] = [from |-> s, op |-> "delete", handle |-> handle[s]]
      /\ link # "up" => toPlc' = toPlc
      /\ answer'[s] = "undone"
  BY <1>a, SendAppends
<1>c. Unheard(s)
  BY UnheardSub
<1>d. Claims(s, handle[s])
  BY DEF Claims
<1>e. \A t \in Subs : \A h \in Handles : Claims(t, h)' => Claims(t, h)
  BY <1>b, <1>c DEF Claims, IsAnswer, Unheard
<1>1. HandlerInv'
  BY <1>0, <1>b DEF HandlerInv, Busy
<1>2. DownInv'
  BY <1>b, <1>e, <1>l DEF DownInv
<1>3. ClaimInv'
  BY <1>e, <1>l DEF ClaimInv
<1>4. PlcInv'
  <2>1. plc[handle[s]] \in {s, None}
    BY <1>0, <1>d DEF ClaimInv
  <2>2. None \notin Subs
    BY NotificationAssumption
  <2>3. QED
    BY <1>0, <1>b, <1>c, <2>1, <2>2 DEF PlcInv, IsAnswer, Unheard
<1>5. SampleInv'
  <2>1. \A j \in DOMAIN inbox : ~IsAnswer(j, s)
    BY <1>c DEF Unheard
  <2>2. QED
    BY <1>b, <1>l, <2>1 DEF SampleInv, OnWire, IsAnswer
<1>6. CalleeInv'
  BY <1>b, HoldersAreSubs DEF CalleeInv
<1>7. TableInv'
  BY <1>a, <1>b, HoldersAreSubs DEF TableInv
<1>8. NextOwnerInv'
  BY <1>e DEF NextOwnerInv, IsAnswer
<1>9. QED
  BY <1>1, <1>2, <1>3, <1>4, <1>5, <1>6, <1>7, <1>8

LEMMA DeleteReturnsOrderly ==
    ASSUME TypeOK, WireInv, OrderlyParts, NEW s \in Subs, DeleteReturns(s)
    PROVE  OrderlyParts'
<1>0. s \notin Frames
  BY NotificationAssumption
<1>a. /\ pc[s] = "deleting" /\ answer[s] = "ok"
      /\ UNCHANGED <<table, handle, frameVars, linkVars, toPlc, inbox, plc, gone, transport>>
  BY DEF DeleteReturns
<1>b. /\ \A x \in (Subs \cup Frames) \ {s} : answer'[x] = answer[x]
      /\ \A t \in Subs \ {s} : pc'[t] = pc[t]
      /\ pc'[s] = "done" /\ answer'[s] = "none"
  BY DEF DeleteReturns, EndRequest, TypeOK
<1>l. Lasting' = Lasting
  BY <1>a DEF Lasting, linkVars
<1>e. \A t \in Subs : \A h \in Handles : Claims(t, h)' => Claims(t, h) /\ t # s
  BY <1>a, <1>b DEF Claims, IsAnswer
<1> USE <1>l DEF frameVars, linkVars, OrderlyParts
<1>1. HandlerInv'
  BY <1>0, <1>a, <1>b DEF HandlerInv, Busy
<1>2. DownInv'
  BY <1>a, <1>b, <1>e DEF DownInv
<1>3. ClaimInv'
  BY <1>a, <1>b, <1>e DEF ClaimInv
<1>4. PlcInv'
  <2>1. \A h \in Handles : plc[h] # s
    BY <1>a DEF PlcInv
  <2>2. QED
    BY <1>a, <1>b, <2>1 DEF PlcInv, IsAnswer
<1>5. SampleInv'
  <2>1. \A f \in Frames : OnWire(f) => \A h \in Handles : source[f][h] # s
    BY <1>a DEF SampleInv
  <2>2. QED
    BY <1>a, <1>b, <2>1 DEF SampleInv, OnWire, IsAnswer
<1>6. CalleeInv'
  <2>1. \A f \in Frames : \A h \in Handles : callee[f][h] # None => source[f][h] # s
    BY <1>a DEF CalleeInv
  <2>2. QED
    BY <1>a, <1>b, <2>1, HoldersAreSubs DEF CalleeInv
<1>7. TableInv'
  BY <1>a, <1>b, HoldersAreSubs DEF TableInv
<1>8. NextOwnerInv'
  BY <1>a, <1>b, <1>e DEF NextOwnerInv, IsAnswer
<1>9. QED
  BY <1>1, <1>2, <1>3, <1>4, <1>5, <1>6, <1>7, <1>8

LEMMA SubOrderly ==
    ASSUME TypeOK, WireInv, OrderlyParts, NEW s \in Subs, SubNext(s)
    PROVE  OrderlyParts'
<1>1. CASE Subscribe(s) \/ LookupReturns(s)
  <2>0. /\ pc[s] \in {"idle", "lookup"}
        /\ UNCHANGED <<table, frameVars, linkVars, inbox, plc, gone, transport, handle>>
    BY <1>1 DEF Subscribe, LookupReturns
  <2>1. CASE Send(s, "add", None) /\ pc' = [pc EXCEPT ![s] = "adding"]
    <3>1. SubStep(s) /\ pc'[s] = "adding"
      BY <2>0, <2>1 DEF SubStep, Send, TypeOK
    <3>2. QED
      BY <2>0, <2>1, <3>1, AddOrderly
  <2>2. CASE UNCHANGED <<toPlc, answer>> /\ \E p \in {"failed", "rejected", "lookup"} :
                pc' = [pc EXCEPT ![s] = p]
    <3>1. SubStep(s) /\ pc'[s] \in {"failed", "rejected", "lookup"} /\ answer' = answer
      BY <2>0, <2>2 DEF SubStep, TypeOK
    <3>2. QED
      BY <2>0, <2>2, <3>1, FailsOrderly
  <2>3. QED
    BY <1>1, <2>1, <2>2 DEF Subscribe, LookupReturns, CreateNotification
<1>2. CASE Exit(s)
  <2>0. /\ pc[s] = "active"
        /\ UNCHANGED <<table, frameVars, linkVars, inbox, plc, gone, transport, handle>>
    BY <1>2 DEF Exit
  <2>1. CASE Send(s, "delete", handle[s]) /\ pc' = [pc EXCEPT ![s] = "deleting"]
    <3>1. SubStep(s) /\ pc'[s] = "deleting"
      BY <2>0, <2>1 DEF SubStep, Send, TypeOK
    <3>2. QED
      BY <2>0, <2>1, <3>1, ExitOrderly
  <2>2. CASE UNCHANGED <<toPlc, answer>> /\ pc' = [pc EXCEPT ![s] = "failed"]
    <3>1. SubStep(s) /\ pc'[s] = "failed" /\ answer' = answer
      BY <2>0, <2>2 DEF SubStep, TypeOK
    <3>2. QED
      BY <2>0, <2>2, <3>1, FailsOrderly
  <2>3. QED
    BY <1>2, <2>1, <2>2 DEF Exit, RemoveNotification
<1>3. CASE AddReturns(s)
  BY <1>3, AddReturnsOrderly
<1>4. CASE DeleteReturns(s)
  BY <1>4, DeleteReturnsOrderly
<1>5. CASE RequestFails(s) \/ GivesUp(s)
  <2>1. /\ SubStep(s) /\ pc'[s] = "failed" /\ answer'[s] = "none"
        /\ UNCHANGED <<table, toPlc>>
    BY <1>5 DEF RequestFails, GivesUp, EndRequest, SubStep, TypeOK
  <2>2. QED
    BY <2>1, FailsOrderly
<1>6. QED
  BY <1>1, <1>2, <1>3, <1>4, <1>5 DEF SubNext

(***************************************************************************)
(* An answer is read when no handler runs, and it is the only one of its   *)
(* subscription; what is behind it in the inbox has been sent after it.    *)
(***************************************************************************)
LEMMA ReadAnswerOrderly ==
    ASSUME TypeOK, WireInv, OrderlyParts, Serial, ReadAnswer
    PROVE  OrderlyParts'
<1> DEFINE a == Head(inbox)
<1> DEFINE waits == answer[a.to] = "undone"
<1>0. \A s \in Subs : s \notin Frames
  BY NotificationAssumption
<1>a. /\ 1 \in DOMAIN inbox /\ a = inbox[1] /\ a \in Answers /\ a \notin Frames
      /\ \A j \in DOMAIN inbox' :
            /\ j \in Nat /\ j + 1 \in DOMAIN inbox /\ j + 1 # 1 /\ 1 < j + 1
            /\ inbox'[j] = inbox[j + 1]
  <2>1. /\ 1 \in DOMAIN inbox /\ a = inbox[1] /\ a \in Answers /\ a \notin Frames
        /\ \A j \in DOMAIN inbox' :
            j \in Nat /\ j + 1 \in DOMAIN inbox /\ j + 1 # 1 /\ inbox'[j] = inbox[j + 1]
    BY HeadAnswer, TailFacts DEF ReadAnswer, TypeOK
  <2>2. \A j \in Nat : j + 1 # 1 => 1 < j + 1
    OBVIOUS
  <2>3. QED
    BY <2>1, <2>2
<1>b. /\ answer' = IF waits THEN [answer EXCEPT ![a.to] = IF a.ok THEN "ok" ELSE "error"]
                   ELSE answer
      /\ handle' = IF waits /\ a.handle # None THEN [handle EXCEPT ![a.to] = a.handle]
                   ELSE handle
      /\ UNCHANGED <<table, pc, toPlc, frameVars, linkVars, plc, gone, transport>>
      /\ inbox # <<>> /\ reading
      /\ \A f \in Frames : ~Busy(f)
  BY DEF ReadAnswer, CanRead, Busy
<1>l. Lasting' = Lasting
  BY <1>b DEF Lasting, linkVars
<1>c. \A s \in Subs : s # a.to => answer'[s] = answer[s] /\ handle'[s] = handle[s]
  BY <1>b DEF TypeOK
<1>d. \A s \in Subs : s = a.to =>
        /\ IsAnswer(1, s)
        /\ pc[s] \in {"adding", "deleting", "failed"}
        /\ pc[s] # "failed" => answer[s] = "undone"
        /\ pc[s] = "adding" /\ a.ok => a.handle # None
        /\ pc[s] = "deleting" => a.handle = None
        /\ \A j \in DOMAIN inbox' : ~IsAnswer(j, s)'
        /\ pc[s] # "failed" => answer'[s] = IF a.ok THEN "ok" ELSE "error"
        /\ pc[s] = "deleting" => handle'[s] = handle[s]
        /\ pc[s] = "adding" /\ a.ok => handle'[s] = a.handle
  <2> SUFFICES ASSUME NEW s \in Subs, s = a.to
               PROVE  /\ IsAnswer(1, s)
                      /\ pc[s] \in {"adding", "deleting", "failed"}
                      /\ pc[s] # "failed" => answer[s] = "undone"
                      /\ pc[s] = "adding" /\ a.ok => a.handle # None
                      /\ pc[s] = "deleting" => a.handle = None
                      /\ \A j \in DOMAIN inbox' : ~IsAnswer(j, s)'
                      /\ pc[s] # "failed" => answer'[s] = IF a.ok THEN "ok" ELSE "error"
                      /\ pc[s] = "deleting" => handle'[s] = handle[s]
                      /\ pc[s] = "adding" /\ a.ok => handle'[s] = a.handle
    OBVIOUS
  <2>1. IsAnswer(1, s)
    BY <1>a DEF IsAnswer
  <2>2. /\ pc[s] \in {"adding", "deleting", "failed"}
        /\ pc[s] # "failed" => answer[s] = "undone"
        /\ pc[s] = "adding" /\ a.ok => a.handle # None
        /\ pc[s] = "deleting" => a.handle = None
    BY <1>a, <2>1 DEF WireInv, AnswerInv
  <2>3. \A j \in DOMAIN inbox : IsAnswer(j, s) => j = 1
    BY <1>a, <2>1 DEF WireInv, OneAnswer
  <2>4. \A j \in DOMAIN inbox' : ~IsAnswer(j, s)'
    BY <1>a, <2>3 DEF IsAnswer
  <2>5. pc[s] # "failed" => answer'[s] = IF a.ok THEN "ok" ELSE "error"
    BY <1>b, <2>2 DEF TypeOK
  <2>6. pc[s] = "deleting" => handle'[s] = handle[s]
    BY <1>b, <2>2
  <2>7. pc[s] = "adding" /\ a.ok => handle'[s] = a.handle
    BY <1>b, <2>2 DEF TypeOK
  <2>8. QED
    BY <2>1, <2>2, <2>4, <2>5, <2>6, <2>7
<1>e. \A j \in DOMAIN inbox' : \A s \in Subs : IsAnswer(j, s)' =>
        IsAnswer(j + 1, s) /\ s # a.to
  BY <1>a, <1>d DEF IsAnswer
<1> USE DEF frameVars, linkVars, OrderlyParts
<1>f. \A s \in Subs : s = a.to /\ pc[s] = "failed" =>
        answer'[s] = answer[s] /\ handle'[s] = handle[s]
  BY <1>b DEF TableInv
<1>g. ASSUME NEW s \in Subs, NEW h \in Handles, Claims(s, h)' PROVE Claims(s, h)
  <2>1. CASE s # a.to
    BY <1>a, <1>b, <1>c, <1>e, <1>g, <2>1 DEF Claims
  <2>2. CASE s = a.to
    <3>1. pc[s] \in {"adding", "deleting"}
      BY <1>b, <1>d, <1>g, <2>2 DEF Claims
    <3>2. CASE pc[s] = "deleting"
      BY <1>b, <1>d, <1>g, <2>2, <3>2 DEF Claims
    <3>3. CASE pc[s] = "adding"
      <4>1. answer'[s] = "ok" /\ handle'[s] = h
        BY <1>b, <1>d, <1>g, <2>2, <3>3 DEF Claims
      <4>2. a.ok
        BY <1>d, <2>2, <3>3, <4>1
      <4>3. a.handle = h
        BY <1>d, <2>2, <3>3, <4>1, <4>2
      <4>4. QED
        BY <1>a, <1>d, <2>2, <3>3, <4>2, <4>3 DEF Claims
    <3>4. QED
      BY <3>1, <3>2, <3>3
  <2>3. QED
    BY <2>1, <2>2
<1>1. HandlerInv'
  <2>1. \A i, j \in DOMAIN inbox' : inbox'[i] \in Frames /\ inbox'[i] = inbox'[j] => i = j
    <3> SUFFICES ASSUME NEW i \in DOMAIN inbox', NEW j \in DOMAIN inbox',
                        inbox'[i] \in Frames, inbox'[i] = inbox'[j]
                 PROVE  i = j
      OBVIOUS
    <3>1. i \in Nat /\ j \in Nat /\ i + 1 = j + 1
      BY <1>a DEF HandlerInv
    <3>2. QED
      BY <3>1
  <2>2. \A i \in DOMAIN inbox' : inbox'[i] \in Frames => fpc'[inbox'[i]] = "wire"
    BY <1>a, <1>b DEF HandlerInv
  <2>3. QED
    BY <1>b, <2>1, <2>2 DEF HandlerInv, Busy
<1>2. DownInv'
  BY <1>b, <1>g, <1>l DEF DownInv
<1>3. ClaimInv'
  <2>2. \A s \in Subs : pc[s] \in {"active", "deleting"} => handle'[s] = handle[s]
    BY <1>c, <1>d
  <2>3. QED
    BY <1>b, <1>g, <1>l, <2>2 DEF ClaimInv
<1>4. PlcInv'
  <2>1. \A s \in Subs : \A h \in Handles :
            plc[h] = s /\ pc[s] = "deleting" => answer'[s] # "ok"
    BY <1>a, <1>c, <1>d DEF PlcInv
  <2>2. \A s \in Subs : \A h \in Handles : plc[h] = s /\ pc[s] = "deleting" =>
            \A j \in DOMAIN inbox' : IsAnswer(j, s)' => ~inbox'[j].ok
    BY <1>a, <1>e DEF PlcInv
  <2>3. QED
    BY <1>b, <2>1, <2>2 DEF PlcInv
<1>5. SampleInv'
  <2>1. \A f \in Frames : OnWire(f)' => \E j \in DOMAIN inbox : 1 < j /\ inbox[j] = f
    BY <1>a DEF OnWire
  <2>2. ASSUME NEW f \in Frames, OnWire(f)', NEW h \in Handles, NEW s \in Subs,
               source[f][h] = s
        PROVE  /\ pc[s] \in {"active", "deleting", "failed"}
               /\ pc[s] # "failed" => handle'[s] = h
               /\ pc[s] = "deleting" => answer'[s] # "ok"
               /\ table[h] = None => pc[s] = "failed"
               /\ table[h] = None /\ Lasting /\ (\A g \in Frames : fpc[g] # "cleanup") =>
                    plc[h] = s
    <3>1. PICK j \in DOMAIN inbox : 1 < j /\ inbox[j] = f
      BY <2>1, <2>2
    <3>2. OnWire(f)
      BY <3>1 DEF OnWire
    <3>3. /\ pc[s] \in {"active", "deleting", "failed"}
          /\ pc[s] # "failed" => handle[s] = h
          /\ pc[s] = "deleting" => answer[s] # "ok"
          /\ table[h] = None => pc[s] = "failed"
          /\ table[h] = None /\ Lasting /\ (\A g \in Frames : fpc[g] # "cleanup") =>
                plc[h] = s
      BY <2>2, <3>2 DEF SampleInv
    <3>4. CASE s # a.to
      BY <1>c, <3>3, <3>4
    <3>5. CASE s = a.to
      <4>1. a.ok => pc[s] # "deleting"
        BY <1>a, <1>d, <2>2, <3>1, <3>5 DEF SampleInv
      <4>2. QED
        BY <1>d, <3>3, <3>5, <4>1
    <3>6. QED
      BY <3>4, <3>5
  <2>3. ASSUME NEW i \in DOMAIN inbox', NEW j \in DOMAIN inbox', NEW s \in Subs,
               NEW h \in Handles, i < j, IsAnswer(i, s)', inbox'[i].ok,
               inbox'[j] \in Frames, source[inbox'[j]][h] = s
        PROVE  pc[s] # "deleting"
    <3>1. i + 1 < j + 1 /\ i + 1 \in DOMAIN inbox /\ j + 1 \in DOMAIN inbox
      BY <1>a, <2>3
    <3>2. IsAnswer(i + 1, s) /\ inbox'[i] = inbox[i + 1] /\ inbox'[j] = inbox[j + 1]
      BY <1>a, <1>e, <2>3
    <3>3. QED
      BY <2>3, <3>1, <3>2 DEF SampleInv
  <2>4. QED
    BY <1>b, <1>l, <2>2, <2>3 DEF SampleInv
<1>6. CalleeInv'
  <2>1. \A f \in Frames : \A h \in Handles : callee[f][h] = None
    BY <1>b DEF HandlerInv, Busy
  <2>2. QED
    BY <1>b, <2>1 DEF CalleeInv
<1>7. TableInv'
  <2>1. \A h \in Handles : table[h] # None => handle'[table[h]] = handle[table[h]]
    <3> SUFFICES ASSUME NEW h \in Handles, table[h] # None
                 PROVE  handle'[table[h]] = handle[table[h]]
      OBVIOUS
    <3>1. table[h] \in Subs /\ pc[table[h]] \in {"active", "deleting", "done", "failed"}
      BY HoldersAreSubs DEF TableInv
    <3>2. QED
      BY <1>c, <1>d, <1>f, <3>1
  <2>2. \A s \in Subs : pc[s] \notin {"adding", "deleting"} => answer'[s] = "none"
    BY <1>c, <1>d, <1>f DEF TableInv
  <2>3. QED
    BY <1>b, <2>1, <2>2 DEF TableInv
<1>8. NextOwnerInv'
  <2> SUFFICES ASSUME NEW j \in DOMAIN inbox', NEW s \in Subs, NEW t \in Subs,
                      NEW h \in Handles, inbox'[j] \in Frames,
                      source[inbox'[j]][h] = s, Claims(t, h)', s # t
               PROVE  /\ pc[t] = "adding" /\ answer'[t] # "ok"
                      /\ \A k \in DOMAIN inbox' : IsAnswer(k, t)' => j < k
    BY <1>b DEF NextOwnerInv
  <2>1. /\ pc[t] = "adding" /\ answer[t] # "ok"
        /\ \A k \in DOMAIN inbox : IsAnswer(k, t) => j + 1 < k
    BY <1>a, <1>g DEF NextOwnerInv
  <2>2. j \in Nat /\ ~(j + 1 < 1)
    BY <1>a
  <2>3. t # a.to
    BY <1>a, <1>d, <2>1, <2>2
  <2>4. ASSUME NEW k \in DOMAIN inbox', IsAnswer(k, t)' PROVE j < k
    <3>1. j + 1 < k + 1 /\ k \in Nat
      BY <1>a, <1>e, <2>1, <2>4
    <3>2. QED
      BY <2>2, <3>1
  <2>5. QED
    BY <1>c, <2>1, <2>3, <2>4
<1>9. QED
  BY <1>1, <1>2, <1>3, <1>4, <1>5, <1>6, <1>7, <1>8

(***************************************************************************)
(* An exception ends the handler, and the reader that awaits it.           *)
(***************************************************************************)
LEMMA HandlerEndsAlone ==
    ASSUME TypeOK, NEW f \in Frames, HandlerEnds(f)
    PROVE  /\ fpc'[f] = "done"
           /\ \A h \in Handles : callee'[f][h] = None /\ source'[f][h] = None
           /\ \A g \in Frames \ {f} :
                fpc'[g] = fpc[g] /\ callee'[g] = callee[g] /\ source'[g] = source[g]
BY DEF HandlerEnds, NoSubs, TypeOK

LEMMA RaisesOrderly ==
    ASSUME TypeOK, OrderlyParts, Serial, NEW f \in Frames, NEW rest, HandlerRaises(f, rest)
    PROVE  OrderlyParts'
<1>1. HandlerEnds(f) /\ ReadingEnds /\ UNCHANGED <<subVars, transport>>
  BY DEF HandlerRaises
<1>2. \A g \in Frames :
        \/ fpc'[g] = fpc[g] /\ callee'[g] = callee[g] /\ source'[g] = source[g]
        \/ ~Busy(g)' /\ \A h \in Handles : callee'[g][h] = None
  BY <1>1, HandlerEndsAlone DEF Busy
<1>3. QED
  BY <1>1, <1>2, ReadingEndsOrderly

(***************************************************************************)
(* Reading a frame: all its samples are of known handles, and the table    *)
(* has their owners; or the handler removes a handle that nobody claims.   *)
(***************************************************************************)
LEMMA ReadSamplesOrderly ==
    ASSUME TypeOK, OrderlyParts, Serial, ~Shifts, NEW f \in Frames, ReadSamples(f)
    PROVE  OrderlyParts'
<1> DEFINE K == Sampled(f) \cap Tabled
<1> DEFINE U == Sampled(f) \ Tabled
<1>0. /\ f \notin Subs /\ None \notin Subs
      /\ U \in SUBSET Handles /\ K \in SUBSET Handles
  BY NotificationAssumption DEF Sampled
<1>a. /\ 1 \in DOMAIN inbox /\ f = inbox[1]
      /\ \A j \in DOMAIN Tail(inbox) :
            /\ j \in Nat /\ j + 1 \in DOMAIN inbox /\ j + 1 # 1
            /\ Tail(inbox)[j] = inbox[j + 1]
  BY TailFacts DEF ReadSamples, TypeOK
<1>r. PICK r \in Readings(f) :
        \/ /\ \/ r.unknown = {} /\ Dispatch(f, r.known) /\ UNCHANGED <<toPlc, answer>>
              \/ Cleanup(f, r.known, r.unknown)
           /\ inbox' = Tail(inbox)
           /\ UNCHANGED <<subVars, linkVars, plc, gone, transport>>
        \/ HandlerRaises(f, Tail(inbox))
  BY DEF ReadSamples
<1>s. r.known = K /\ r.unknown = U
  BY DEF Readings, Misread
<1> SUFFICES ASSUME ~HandlerRaises(f, Tail(inbox)) PROVE OrderlyParts'
  BY RaisesOrderly
<1>b. /\ UNCHANGED <<table, pc, handle, linkVars, plc, gone, transport>>
      /\ inbox # <<>> /\ inbox' = Tail(inbox) /\ reading
      /\ \A g \in Frames : ~Busy(g)
      /\ \/ U = {} /\ Dispatch(f, K) /\ UNCHANGED <<toPlc, answer>>
         \/ Cleanup(f, K, U)
  BY <1>r, <1>s DEF ReadSamples, CanRead, Busy, subVars
<1>l. Lasting' = Lasting
  BY <1>b DEF Lasting, linkVars
<1> HIDE DEF K, U
<1> USE DEF OrderlyParts, linkVars
<1>c. OnWire(f) /\ fpc[f] = "wire"
  BY <1>a DEF OnWire, HandlerInv
<1>d. \A g \in Frames \ {f} : fpc'[g] = fpc[g] /\ source'[g] = source[g] /\ callee'[g] = callee[g]
  <2>1. CASE Dispatch(f, K)
    BY <2>1 DEF Dispatch, HandlerEnds, TypeOK
  <2>2. CASE Cleanup(f, K, U)
    BY <1>0, <2>2, CleanupSends DEF TypeOK
  <2>3. QED
    BY <1>b, <2>1, <2>2
<1>e. /\ \A i \in DOMAIN toPlc' :
            \/ i \in DOMAIN toPlc /\ toPlc'[i] = toPlc[i]
            \/ /\ fpc'[f] = "cleanup"
               /\ toPlc'[i].from = f /\ toPlc'[i].op = "delete" /\ toPlc'[i].handle \in U
      /\ \A s \in Subs : answer'[s] = answer[s]
      /\ fpc'[f] = "cleanup" => answer'[f] = "undone"
      /\ fpc'[f] # "cleanup" => U = {}
      /\ link # "up" => UNCHANGED toPlc
  <2>1. CASE U = {} /\ Dispatch(f, K) /\ UNCHANGED <<toPlc, answer>>
    <3>1. fpc'[f] \in {"done", "callback"}
      BY <2>1 DEF Dispatch, HandlerEnds, TypeOK
    <3>2. QED
      BY <2>1, <3>1
  <2>2. CASE Cleanup(f, K, U)
    <3>1. fpc'[f] = "cleanup"
      BY <1>0, <2>2, CleanupSends DEF TypeOK
    <3>2. QED
      BY <1>0, <2>2, <3>1, CleanupSends
  <2>3. QED
    BY <1>b, <2>1, <2>2
<1>f. \A h \in Handles : callee[f][h] = None
  BY <1>c DEF HandlerInv
<1>g. \A h \in Handles : callee'[f][h] # None =>
        fpc'[f] = "callback" /\ h \in K /\ callee'[f][h] = table[h] /\ source'[f] = source[f]
  <2>1. CASE Dispatch(f, K) /\ K = {}
    BY <2>1 DEF Dispatch, HandlerEnds, NoSubs, TypeOK
  <2>2. CASE Dispatch(f, K) /\ K # {}
    <3>1. fpc'[f] = "callback" /\ callee'[f] = Callee(K) /\ source' = source
      BY <2>2 DEF Dispatch, TypeOK
    <3>2. QED
      BY <3>1 DEF Callee
  <2>3. CASE Cleanup(f, K, U)
    BY <1>0, <1>f, <2>3, CleanupSends DEF TypeOK
  <2>4. QED
    BY <1>b, <2>1, <2>2, <2>3
<1>1. HandlerInv'
  <2>1. \A g, k \in Frames : Busy(g)' /\ Busy(k)' => g = k
    BY <1>b, <1>d DEF Busy
  <2>2. \A g \in Frames : fpc'[g] = "cleanup" => answer'[g] = "undone"
    BY <1>b, <1>d, <1>e DEF Busy
  <2>3. \A i \in DOMAIN toPlc' : toPlc'[i].from \in Frames => fpc'[toPlc'[i].from] = "cleanup"
    BY <1>b, <1>e DEF HandlerInv, Busy
  <2>4. \A i \in DOMAIN inbox' : inbox'[i] \in Frames =>
            inbox'[i] # f /\ fpc'[inbox'[i]] = "wire"
    BY <1>a, <1>b, <1>d DEF HandlerInv
  <2>5. \A i, j \in DOMAIN inbox' : inbox'[i] \in Frames /\ inbox'[i] = inbox'[j] => i = j
    <3> SUFFICES ASSUME NEW i \in DOMAIN inbox', NEW j \in DOMAIN inbox',
                        inbox'[i] \in Frames, inbox'[i] = inbox'[j]
                 PROVE  i = j
      OBVIOUS
    <3>1. i \in Nat /\ j \in Nat /\ i + 1 = j + 1
      BY <1>a, <1>b DEF HandlerInv
    <3>2. QED
      BY <3>1
  <2>6. \A g \in Frames : \A h \in Handles : callee'[g][h] # None => fpc'[g] = "callback"
    BY <1>d, <1>g DEF HandlerInv
  <2>7. QED
    BY <2>1, <2>2, <2>3, <2>4, <2>5, <2>6 DEF HandlerInv
<1>h. \A j \in DOMAIN inbox' : \A s \in Subs : IsAnswer(j, s)' => IsAnswer(j + 1, s)
  BY <1>a, <1>b DEF IsAnswer
<1>t. \A s \in Subs : \A h \in Handles : Claims(s, h)' => Claims(s, h)
  BY <1>a, <1>b, <1>e, <1>h DEF Claims
<1>2. DownInv'
  BY <1>b, <1>e, <1>l, <1>t DEF DownInv, Lasting
<1>3. ClaimInv'
  BY <1>b, <1>l, <1>t DEF ClaimInv
<1>4. PlcInv'
  <2>1. ASSUME NEW h \in U, NEW s \in Subs, plc[h] = s PROVE pc[s] = "failed"
    <3>1. h \in Handles /\ source[f][h] \in Subs /\ table[h] = None
      BY DEF U, Sampled, Tabled, TypeOK
    <3>2. \A g \in Frames : fpc[g] # "cleanup"
      BY <1>b DEF Busy
    <3>3. /\ pc[source[f][h]] = "failed"
          /\ Lasting => plc[h] = source[f][h]
      BY <1>c, <3>1, <3>2 DEF SampleInv
    <3>4. Lasting
      BY <1>0, <2>1, <3>1 DEF DownInv, NoSubs
    <3>5. QED
      BY <2>1, <3>3, <3>4
  <2>2. \A h \in Handles : \A s \in Subs : plc[h] = s =>
            /\ \A i \in DOMAIN toPlc' : toPlc'[i].from = s => toPlc'[i].op = "delete"
            /\ \A i \in DOMAIN toPlc' : toPlc'[i].handle = h => pc[s] \in {"deleting", "failed"}
    BY <1>e, <2>1 DEF PlcInv
  <2>3. \A s \in Subs : \A h \in Handles : plc[h] = s /\ pc[s] = "deleting" =>
            \A j \in DOMAIN inbox' : IsAnswer(j, s)' => ~inbox'[j].ok
    BY <1>a, <1>b, <1>h DEF PlcInv
  <2>4. QED
    BY <1>b, <1>e, <2>2, <2>3 DEF PlcInv
<1>5. SampleInv'
  <2>1. \A g \in Frames : OnWire(g)' => OnWire(g) /\ g # f
    BY <1>a, <1>b DEF OnWire, HandlerInv
  <2>2. \A g \in Frames : fpc[g] # "cleanup"
    BY <1>b DEF Busy
  <2>3. ASSUME NEW i \in DOMAIN inbox', NEW j \in DOMAIN inbox', NEW s \in Subs,
               NEW h \in Handles, i < j, IsAnswer(i, s)', inbox'[i].ok,
               inbox'[j] \in Frames, source'[inbox'[j]][h] = s
        PROVE  pc'[s] # "deleting"
    <3>1. i + 1 < j + 1 /\ i + 1 \in DOMAIN inbox /\ j + 1 \in DOMAIN inbox
      BY <1>a, <1>b, <2>3
    <3>2. IsAnswer(i + 1, s) /\ inbox'[i] = inbox[i + 1] /\ inbox'[j] = inbox[j + 1]
      BY <1>a, <1>b, <1>h, <2>3
    <3>3. inbox'[j] # f
      BY <2>1, <2>3 DEF OnWire
    <3>4. source[inbox[j + 1]][h] = s
      BY <1>d, <2>3, <3>2, <3>3
    <3>5. QED
      BY <1>b, <2>3, <3>1, <3>2, <3>4 DEF SampleInv
  <2>4. \A g \in Frames : OnWire(g)' => \A h \in Handles : \A s \in Subs : source'[g][h] = s =>
            /\ pc'[s] \in {"active", "deleting", "failed"}
            /\ pc'[s] # "failed" => handle'[s] = h
            /\ pc'[s] = "deleting" => answer'[s] # "ok"
            /\ table'[h] = None => pc'[s] = "failed"
            /\ table'[h] = None /\ Lasting' => plc'[h] = s
    BY <1>b, <1>d, <1>e, <1>l, <2>1, <2>2 DEF SampleInv
  <2>5. QED
    BY <2>3, <2>4 DEF SampleInv
<1>6. CalleeInv'
  <2>1. \A g \in Frames \ {f} : \A h \in Handles : callee'[g][h] = None
    BY <1>b, <1>d DEF HandlerInv, Busy
  <2>2. ASSUME NEW h \in Handles, callee'[f][h] # None
        PROVE  /\ source'[f][h] \in Subs
               /\ \/ callee'[f][h] = source'[f][h]
                  \/ /\ pc'[source'[f][h]] = "failed"
                     /\ pc'[callee'[f][h]] \in {"done", "failed"}
               /\ pc'[source'[f][h]] # "done"
               /\ pc'[source'[f][h]] = "deleting" => answer'[source'[f][h]] # "ok"
    <3>1. source'[f] = source[f] /\ callee'[f][h] = table[h] /\ source[f][h] \in Subs
      BY <1>g, <2>2 DEF K, Sampled, TypeOK
    <3>5. /\ table[h] \in Subs /\ handle[table[h]] = h
          /\ pc[table[h]] \in {"active", "deleting", "done", "failed"}
      BY <2>2, <3>1, HoldersAreSubs DEF TableInv
    <3>6. table[h] # source[f][h] => pc[table[h]] \notin {"active", "deleting"}
      BY <1>a, <3>1, <3>5 DEF NextOwnerInv, Claims
    <3>2. /\ pc[source[f][h]] \in {"active", "deleting", "failed"}
          /\ pc[source[f][h]] # "failed" => handle[source[f][h]] = h
          /\ pc[source[f][h]] = "deleting" => answer[source[f][h]] # "ok"
      BY <1>c, <3>1 DEF SampleInv
    <3>3. pc[source[f][h]] # "failed" => table[h] = source[f][h]
      BY <3>1, <3>2 DEF ClaimInv
    <3>4. QED
      BY <1>b, <1>e, <3>1, <3>2, <3>3, <3>5, <3>6
  <2>3. QED
    BY <2>1, <2>2 DEF CalleeInv
<1>7. TableInv'
  BY <1>b, <1>e, HoldersAreSubs DEF TableInv
<1>8. NextOwnerInv'
  <2> SUFFICES ASSUME NEW j \in DOMAIN inbox', NEW s \in Subs, NEW t \in Subs,
                      NEW h \in Handles, inbox'[j] \in Frames,
                      source'[inbox'[j]][h] = s, Claims(t, h)', s # t
               PROVE  /\ pc'[t] = "adding" /\ answer'[t] # "ok"
                      /\ \A k \in DOMAIN inbox' : IsAnswer(k, t)' => j < k
    BY DEF NextOwnerInv
  <2>1. inbox'[j] # f /\ inbox'[j] = inbox[j + 1] /\ j + 1 \in DOMAIN inbox /\ j \in Nat
    BY <1>a, <1>b DEF HandlerInv
  <2>2. source[inbox[j + 1]][h] = s
    BY <1>d, <2>1
  <2>3. /\ pc[t] = "adding" /\ answer[t] # "ok"
        /\ \A k \in DOMAIN inbox : IsAnswer(k, t) => j + 1 < k
    BY <1>t, <2>1, <2>2 DEF NextOwnerInv
  <2>4. ASSUME NEW k \in DOMAIN inbox', IsAnswer(k, t)' PROVE j < k
    <3>1. j + 1 < k + 1 /\ k \in Nat
      BY <1>a, <1>b, <1>h, <2>3, <2>4
    <3>2. QED
      BY <2>1, <3>1
  <2>5. QED
    BY <1>b, <1>e, <2>3, <2>4
<1>9. QED
  BY <1>1, <1>2, <1>3, <1>4, <1>5, <1>6, <1>7, <1>8

LEMMA CallbackReturnsOrderly ==
    ASSUME TypeOK, OrderlyParts, NEW f \in Frames, CallbackReturns(f)
    PROVE  OrderlyParts'
<1> USE DEF OrderlyParts
<1>0. /\ UNCHANGED <<table, pc, handle, answer, linkVars, toPlc, inbox, plc, gone, transport>>
      /\ HandlerEnds(f) /\ fpc[f] = "callback" /\ Busy(f)
  BY DEF CallbackReturns, subVars, Busy
<1>a. /\ fpc'[f] = "done"
      /\ \A h \in Handles : callee'[f][h] = None /\ source'[f][h] = None
      /\ \A g \in Frames \ {f} :
            fpc'[g] = fpc[g] /\ callee'[g] = callee[g] /\ source'[g] = source[g]
  BY <1>0, HandlerEndsAlone
<1>b. \A g \in Frames \ {f} : ~Busy(g) /\ \A h \in Handles : callee[g][h] = None
  BY <1>0 DEF HandlerInv, Busy
<1>c. \A s, h : Claims(s, h)' <=> Claims(s, h)
  BY <1>0 DEF Claims, IsAnswer
<1>l. Lasting' = Lasting
  BY <1>0 DEF Lasting, linkVars
<1>n. None \notin Subs
  BY NotificationAssumption
<1>w. \A i \in DOMAIN inbox : inbox[i] # f
  BY <1>0 DEF HandlerInv
<1> USE DEF linkVars
<1>1. HandlerInv'
  BY <1>a, <1>b, <1>0 DEF HandlerInv, Busy
<1>2. DownInv'
  BY <1>0, <1>c, <1>l DEF DownInv
<1>3. ClaimInv'
  BY <1>0, <1>c, <1>l DEF ClaimInv
<1>4. PlcInv'
  BY <1>0 DEF PlcInv, IsAnswer
<1>5. SampleInv'
  <2>1. \A g \in Frames : fpc'[g] # "cleanup" => fpc[g] # "cleanup"
    BY <1>0, <1>a
  <2>2. QED
    BY <1>0, <1>a, <1>l, <1>n, <1>w, <2>1 DEF SampleInv, OnWire, IsAnswer
<1>6. CalleeInv'
  BY <1>0, <1>a, <1>b DEF CalleeInv
<1>7. TableInv'
  BY <1>0 DEF TableInv
<1>8. NextOwnerInv'
  BY <1>0, <1>a, <1>c, <1>w DEF NextOwnerInv, IsAnswer
<1>9. QED
  BY <1>1, <1>2, <1>3, <1>4, <1>5, <1>6, <1>7, <1>8

LEMMA HandlerOrderly ==
    ASSUME TypeOK, OrderlyParts, Serial, ~Shifts, NEW f \in Frames, HandlerNext(f)
    PROVE  OrderlyParts'
<1>1. CASE ReadSamples(f)
  BY <1>1, ReadSamplesOrderly
<1>2. CASE CleanupReturns(f)
  BY <1>2 DEF CleanupReturns, HandlerInv, OrderlyParts
<1>3. CASE CleanupFails(f) \/ CleanupTimesOut(f) \/ CallbackRaises(f)
  BY <1>3, RaisesOrderly DEF CleanupFails, CleanupTimesOut, CallbackRaises
<1>4. CASE CallbackReturns(f)
  BY <1>4, CallbackReturnsOrderly
<1>5. CASE HandlerCancelled(f)
  <2>1. /\ HandlerEnds(f) /\ UNCHANGED <<subVars, toPlc, plc, gone, transport>>
        /\ reading' = FALSE /\ inbox' = <<>> /\ EndRequest(f)
        /\ link = (IF transport = "tcp" THEN "down" ELSE "cut") /\ link' = "down"
    BY <1>5 DEF HandlerCancelled
  <2>2. \A g \in Frames :
            \/ fpc'[g] = fpc[g] /\ callee'[g] = callee[g] /\ source'[g] = source[g]
            \/ ~Busy(g)' /\ \A h \in Handles : callee'[g][h] = None
    BY <2>1, HandlerEndsAlone DEF Busy
  <2>3. ~Busy(f)'
    BY <2>1, HandlerEndsAlone DEF Busy
  <2>4. \A x \in Subs \cup Frames :
            \/ answer'[x] = answer[x]
            \/ answer[x] = "undone" /\ answer'[x] = "error"
            \/ x \in Frames /\ ~Busy(x)'
    BY <2>1, <2>3 DEF EndRequest, TypeOK
  <2>5. Lasting' = Lasting
    BY <2>1, NotificationAssumption DEF Lasting
  <2>6. QED
    BY <2>1, <2>2, <2>4, <2>5, EndsOrderly
<1>6. QED
  BY <1>1, <1>2, <1>3, <1>4, <1>5 DEF HandlerNext

-----------------------------------------------------------------------------
(***************************************************************************)
(* The steps of the PLC.                                                   *)
(***************************************************************************)
PlcAnswers(ok, h) ==
    /\ toPlc # <<>>
    /\ toPlc' = Tail(toPlc)
    /\ Answer(Head(toPlc).from, ok, h)
    /\ UNCHANGED <<subVars, answer, frameVars, linkVars, gone, transport>>

LEMMA PlcTakes ==
    ASSUME TypeOK, WireInv, OrderlyParts, NEW ok \in BOOLEAN, NEW h \in Handles \cup {None},
           PlcAnswers(ok, h)
    PROVE  /\ Lasting /\ Lasting'
           /\ 1 \in DOMAIN toPlc /\ Head(toPlc) = toPlc[1]
           /\ \A i \in DOMAIN toPlc' : \E k \in DOMAIN toPlc : toPlc'[i] = toPlc[k]
           /\ \A s \in Subs : Head(toPlc).from = s =>
                /\ \A i \in DOMAIN toPlc' : toPlc'[i].from # s
                /\ \A j \in DOMAIN inbox : ~IsAnswer(j, s)
           /\ \A j \in DOMAIN inbox' : \A s \in Subs : IsAnswer(j, s)' =>
                \/ j \in DOMAIN inbox /\ IsAnswer(j, s) /\ inbox'[j] = inbox[j]
                \/ /\ Head(toPlc).from = s
                   /\ inbox'[j].ok = ok /\ inbox'[j].handle = h
                   /\ \A i \in DOMAIN inbox : i < j
           /\ \A j \in DOMAIN inbox' : inbox'[j] \in Frames =>
                j \in DOMAIN inbox /\ inbox'[j] = inbox[j]
           /\ \A f \in Frames : OnWire(f)' => OnWire(f)
           /\ \A i, j \in DOMAIN inbox' : i < j /\ inbox'[j] \in Frames =>
                /\ i \in DOMAIN inbox /\ inbox'[i] = inbox[i]
                /\ j \in DOMAIN inbox /\ inbox'[j] = inbox[j]
           /\ HandlerInv' /\ DownInv'
<1> DEFINE r == Head(toPlc)
<1> DEFINE n == Len(inbox) + 1
<1>1. /\ 1 \in DOMAIN toPlc /\ r = toPlc[1] /\ r \in Requests
      /\ \A i \in DOMAIN toPlc' :
            i \in Nat /\ i + 1 \in DOMAIN toPlc /\ i + 1 # 1 /\ toPlc'[i] = toPlc[i + 1]
  BY TailFacts DEF PlcAnswers, TypeOK
<1>2. [to |-> r.from, ok |-> ok, handle |-> h] \in Answers
  BY <1>1 DEF Answers, Requests
<1>3. \/ inbox' = inbox
      \/ /\ DOMAIN inbox' = DOMAIN inbox \cup {n}
         /\ \A j \in DOMAIN inbox : inbox'[j] = inbox[j] /\ j < n
         /\ inbox'[n] = [to |-> r.from, ok |-> ok, handle |-> h]
         /\ inbox'[n] \notin Frames
         /\ reading
  BY <1>2, AppendFacts, FrameAssumption DEF PlcAnswers, Answer, TypeOK
<1>4. \A s \in Subs : r.from = s =>
        /\ \A i \in DOMAIN toPlc' : toPlc'[i].from # s
        /\ \A j \in DOMAIN inbox : ~IsAnswer(j, s)
  BY <1>1 DEF WireInv, OneRequest, OneAnswer
<1>5. \A j \in DOMAIN inbox' : \A s \in Subs : IsAnswer(j, s)' =>
        \/ j \in DOMAIN inbox /\ IsAnswer(j, s) /\ inbox'[j] = inbox[j]
        \/ /\ r.from = s /\ inbox'[j].ok = ok /\ inbox'[j].handle = h
           /\ \A i \in DOMAIN inbox : i < j
  BY <1>3 DEF IsAnswer
<1>6. \A f \in Frames : OnWire(f)' => OnWire(f)
  BY <1>3 DEF OnWire
<1>7. \A i, j \in DOMAIN inbox' : i < j /\ inbox'[j] \in Frames =>
        /\ i \in DOMAIN inbox /\ inbox'[i] = inbox[i]
        /\ j \in DOMAIN inbox /\ inbox'[j] = inbox[j]
  <2>1. \A j \in DOMAIN inbox : j \in Nat /\ n \in Nat
    BY LenProperties DEF TypeOK
  <2>2. QED
    BY <1>3, <2>1
<1>8. Lasting /\ Lasting'
  BY DEF PlcAnswers, OrderlyParts, DownInv, Lasting, linkVars
<1>9. HandlerInv'
  BY <1>1, <1>3 DEF HandlerInv, Busy, OrderlyParts, PlcAnswers, frameVars, linkVars
<1>10. DownInv'
  BY <1>3, <1>8 DEF DownInv, PlcAnswers, OrderlyParts, linkVars
<1>12. \A j \in DOMAIN inbox' : inbox'[j] \in Frames =>
        j \in DOMAIN inbox /\ inbox'[j] = inbox[j]
  BY <1>3
<1>11. QED
  BY <1>1, <1>3, <1>4, <1>5, <1>6, <1>7, <1>8, <1>9, <1>10, <1>12

LEMMA PlcAddsOrderly ==
    ASSUME TypeOK, WireInv, OrderlyParts, ~ReuseHeld, PlcAdds
    PROVE  OrderlyParts'
<1> DEFINE r == Head(toPlc)
<1>s. PICK s \in Subs : s = r.from
  BY HeadRequest DEF PlcAdds
<1>0. /\ r.op = "add" /\ toPlc # <<>> /\ s = r.from
      /\ None \notin Subs /\ None \notin Handles
  BY <1>s, NotificationAssumption DEF PlcAdds
<1>a. /\ 1 \in DOMAIN toPlc /\ r = toPlc[1]
  BY <1>0, HeadRequest
<1>b. /\ pc[s] \in {"adding", "failed"}
      /\ pc[s] # "failed" => answer[s] # "ok"
  BY <1>0, <1>a DEF WireInv, RequestInv
<1>c. \A h \in Handles : plc[h] # s
  BY <1>0, <1>a DEF OrderlyParts, PlcInv
<1>u. UNCHANGED <<table, pc, handle, answer, fpc, source, known, todo, callee, linkVars, gone, transport>>
  BY DEF PlcAdds, subVars, frameVars
<1>1. ASSUME NEW h \in Handles, MayHandOut(h), plc' = [plc EXCEPT ![h] = s], Answer(s, TRUE, h)
      PROVE  OrderlyParts'
  <2>a. PlcAnswers(TRUE, h)
    BY <1>0, <1>1 DEF PlcAdds, PlcAnswers
  <2>b. /\ Lasting /\ Lasting'
        /\ \A i \in DOMAIN toPlc' : \E k \in DOMAIN toPlc : toPlc'[i] = toPlc[k]
        /\ \A i \in DOMAIN toPlc' : toPlc'[i].from # s
        /\ \A j \in DOMAIN inbox : ~IsAnswer(j, s)
        /\ \A j \in DOMAIN inbox' : \A t \in Subs : IsAnswer(j, t)' =>
             \/ j \in DOMAIN inbox /\ IsAnswer(j, t) /\ inbox'[j] = inbox[j]
             \/ /\ t = s /\ inbox'[j].handle = h
                /\ \A i \in DOMAIN inbox : i < j
        /\ \A j \in DOMAIN inbox' : inbox'[j] \in Frames =>
             j \in DOMAIN inbox /\ inbox'[j] = inbox[j]
        /\ \A f \in Frames : OnWire(f)' => OnWire(f)
        /\ \A i, j \in DOMAIN inbox' : i < j /\ inbox'[j] \in Frames =>
             /\ i \in DOMAIN inbox /\ inbox'[i] = inbox[i]
             /\ j \in DOMAIN inbox /\ inbox'[j] = inbox[j]
        /\ HandlerInv' /\ DownInv'
    BY <1>0, <2>a, PlcTakes, ZenonT(60)
  <2>c. /\ plc[h] = None /\ plc'[h] = s
        /\ \A k \in Handles \ {h} : plc'[k] = plc[k]
        /\ \A t \in Subs : ~(pc[t] \in {"active", "deleting"} /\ handle[t] = h)
        /\ \A i \in DOMAIN toPlc : toPlc[i].handle # h
    BY <1>1 DEF MayHandOut, Held, TypeOK
  <2>d. \A t \in Subs : ~Claims(t, h)
    BY <1>0, <2>b, <2>c DEF OrderlyParts, ClaimInv, Claims
  <2>e. \A t \in Subs : \A k \in Handles : Claims(t, k)' =>
            (Claims(t, k) /\ t # s /\ k # h) \/ (t = s /\ k = h)
    <3>1. ASSUME NEW t \in Subs, NEW k \in Handles, Claims(t, k)', t # s
          PROVE  Claims(t, k)
      BY <1>u, <2>b, <3>1 DEF Claims
    <3>2. ASSUME NEW k \in Handles, Claims(s, k)' PROVE k = h
      BY <1>0, <1>b, <1>u, <2>b, <3>2 DEF Claims
    <3>3. QED
      BY <2>d, <3>1, <3>2
  <2>1. ClaimInv'
    <3>1. \A t, v \in Subs : \A k \in Handles : Claims(t, k)' /\ Claims(v, k)' => t = v
      BY <2>e DEF OrderlyParts, ClaimInv
    <3>2. \A t \in Subs : \A k \in Handles : Claims(t, k)' =>
            /\ plc'[k] \in {t, None}
            /\ pc'[t] = "adding" /\ Lasting' => plc'[k] = t
            /\ \A m \in Handles : plc'[m] = t => m = k
      BY <1>c, <1>u, <2>b, <2>c, <2>e DEF OrderlyParts, ClaimInv
    <3>3. \A t \in Subs : pc'[t] \in {"active", "deleting"} => table'[handle'[t]] = t
      BY <1>u DEF OrderlyParts, ClaimInv
    <3>4. \A t \in Subs : pc'[t] = "active" /\ t \notin gone' => plc'[handle'[t]] = t
      BY <1>u, <2>c DEF OrderlyParts, ClaimInv, TypeOK
    <3>5. QED
      BY <3>1, <3>2, <3>3, <3>4 DEF ClaimInv
  <2>2. PlcInv'
    <3>1. ASSUME NEW k \in Handles, NEW t \in Subs, plc'[k] = t
          PROVE  /\ pc'[t] \in {"adding", "active", "deleting", "failed"}
                 /\ \A i \in DOMAIN toPlc' : toPlc'[i].from = t => toPlc'[i].op = "delete"
                 /\ pc'[t] = "deleting" =>
                        /\ answer'[t] # "ok"
                        /\ \A j \in DOMAIN inbox' : IsAnswer(j, t)' => ~inbox'[j].ok
                 /\ \A i \in DOMAIN toPlc' :
                        toPlc'[i].handle = k => pc'[t] \in {"deleting", "failed"}
      <4>1. CASE k = h
        BY <1>b, <1>u, <2>b, <2>c, <3>1, <4>1
      <4>2. CASE k # h
        <5>1. plc[k] = t /\ t # s
          BY <1>c, <2>c, <3>1, <4>2
        <5>2. QED
          BY <1>u, <2>b, <5>1 DEF OrderlyParts, PlcInv
      <4>3. QED
        BY <4>1, <4>2
    <3>2. QED
      BY <3>1 DEF PlcInv
  <2>3. SampleInv'
    <3>1. \A f \in Frames : OnWire(f)' => \A k \in Handles : \A t \in Subs : source'[f][k] = t =>
            /\ pc'[t] \in {"active", "deleting", "failed"}
            /\ pc'[t] # "failed" => handle'[t] = k
            /\ pc'[t] = "deleting" => answer'[t] # "ok"
            /\ table'[k] = None => pc'[t] = "failed"
            /\ table'[k] = None /\ Lasting' /\ (\A g \in Frames : fpc'[g] # "cleanup") =>
                plc'[k] = t
      BY <1>0, <1>u, <2>b, <2>c DEF OrderlyParts, SampleInv
    <3>2. \A i, j \in DOMAIN inbox' : \A t \in Subs : \A k \in Handles :
            (/\ i < j
             /\ IsAnswer(i, t)' /\ inbox'[i].ok
             /\ inbox'[j] \in Frames
             /\ source'[inbox'[j]][k] = t)
            => pc'[t] # "deleting"
      BY <1>u, <2>b DEF OrderlyParts, SampleInv, IsAnswer
    <3>3. QED
      BY <3>1, <3>2 DEF SampleInv
  <2>4. CalleeInv'
    BY <1>u DEF OrderlyParts, CalleeInv
  <2>5. TableInv'
    BY <1>u DEF OrderlyParts, TableInv
  <2>6. NextOwnerInv'
    <3> SUFFICES ASSUME NEW j \in DOMAIN inbox', NEW w \in Subs, NEW t \in Subs,
                        NEW k \in Handles, inbox'[j] \in Frames,
                        source[inbox'[j]][k] = w, Claims(t, k)', w # t
                 PROVE  /\ pc[t] = "adding" /\ answer[t] # "ok"
                        /\ \A m \in DOMAIN inbox' : IsAnswer(m, t)' => j < m
      BY <1>u DEF NextOwnerInv
    <3>1. j \in DOMAIN inbox /\ inbox'[j] = inbox[j]
      BY <2>b
    <3>2. CASE Claims(t, k) /\ t # s
      BY <2>b, <3>1, <3>2 DEF OrderlyParts, NextOwnerInv
    <3>3. CASE t = s
      <4>1. pc[s] = "adding"
        BY <1>b, <1>u, <3>3 DEF Claims
      <4>2. QED
        BY <1>b, <2>b, <3>1, <3>3, <4>1
    <3>4. QED
      BY <2>e, <3>2, <3>3
  <2>7. QED
    BY <2>b, <2>1, <2>2, <2>3, <2>4, <2>5, <2>6 DEF OrderlyParts
<1>2. CASE Answer(s, FALSE, None) /\ UNCHANGED plc
  <2>a. PlcAnswers(FALSE, None)
    BY <1>0, <1>2 DEF PlcAdds, PlcAnswers
  <2>b. /\ \A i \in DOMAIN toPlc' : \E k \in DOMAIN toPlc : toPlc'[i] = toPlc[k]
        /\ \A j \in DOMAIN inbox' : \A t \in Subs : IsAnswer(j, t)' =>
             \/ j \in DOMAIN inbox /\ IsAnswer(j, t) /\ inbox'[j] = inbox[j]
             \/ ~inbox'[j].ok /\ \A i \in DOMAIN inbox : i < j
        /\ \A j \in DOMAIN inbox' : inbox'[j] \in Frames =>
             j \in DOMAIN inbox /\ inbox'[j] = inbox[j]
        /\ Lasting /\ Lasting'
        /\ \A f \in Frames : OnWire(f)' => OnWire(f)
        /\ \A i, j \in DOMAIN inbox' : i < j /\ inbox'[j] \in Frames =>
             /\ i \in DOMAIN inbox /\ inbox'[i] = inbox[i]
             /\ j \in DOMAIN inbox /\ inbox'[j] = inbox[j]
        /\ HandlerInv' /\ DownInv'
    BY <1>0, <2>a, PlcTakes, ZenonT(60)
  <2>c. \A t \in Subs : \A k \in Handles : Claims(t, k)' => Claims(t, k)
    BY <1>u, <2>b DEF Claims
  <2>1. ClaimInv'
    BY <1>2, <1>u, <2>b, <2>c DEF OrderlyParts, ClaimInv
  <2>2. PlcInv'
    BY <1>2, <1>u, <2>b DEF OrderlyParts, PlcInv
  <2>3. SampleInv'
    BY <1>2, <1>u, <2>b DEF OrderlyParts, SampleInv, IsAnswer
  <2>4. CalleeInv'
    BY <1>u DEF OrderlyParts, CalleeInv
  <2>5. TableInv'
    BY <1>u DEF OrderlyParts, TableInv
  <2>6. NextOwnerInv'
    BY <1>u, <2>b, <2>c DEF OrderlyParts, NextOwnerInv
  <2>7. QED
    BY <2>b, <2>1, <2>2, <2>3, <2>4, <2>5, <2>6 DEF OrderlyParts
<1>3. QED
  BY <1>1, <1>2, <1>s DEF PlcAdds

LEMMA PlcDeletesOrderly ==
    ASSUME TypeOK, WireInv, OrderlyParts, PlcDeletes
    PROVE  OrderlyParts'
<1> DEFINE r == Head(toPlc)
<1>h. PICK h \in Handles : h = r.handle
  BY HeadRequest DEF PlcDeletes
<1>a. /\ 1 \in DOMAIN toPlc /\ r = toPlc[1] /\ r.op = "delete" /\ toPlc # <<>>
      /\ r.from \in Subs \cup Frames /\ r.handle = h
      /\ None \notin Subs /\ None \notin Handles
  BY <1>h, HeadRequest, NotificationAssumption DEF PlcDeletes
<1>u. UNCHANGED <<table, pc, handle, answer, fpc, source, known, todo, callee, linkVars, gone, transport>>
  BY DEF PlcDeletes, subVars, frameVars
<1>b. \A s \in Subs : s = r.from =>
        /\ pc[s] \in {"deleting", "failed"}
        /\ pc[s] = "deleting" => handle[s] = h
        /\ table[h] # None
  BY <1>a DEF WireInv, RequestInv
<1>c. /\ plc'[h] = None
      /\ \A k \in Handles \ {h} : plc'[k] = plc[k]
  BY <1>a DEF PlcDeletes, TypeOK
<1>d. PlcAnswers(plc[h] # None, None)
  BY <1>a DEF PlcDeletes, PlcAnswers
<1>e. /\ Lasting /\ Lasting'
      /\ \A i \in DOMAIN toPlc' : \E k \in DOMAIN toPlc : toPlc'[i] = toPlc[k]
      /\ \A j \in DOMAIN inbox' : \A t \in Subs : IsAnswer(j, t)' =>
           \/ j \in DOMAIN inbox /\ IsAnswer(j, t) /\ inbox'[j] = inbox[j]
           \/ /\ r.from = t /\ inbox'[j].handle = None
              /\ \A i \in DOMAIN inbox : i < j
      /\ \A j \in DOMAIN inbox' : inbox'[j] \in Frames =>
           j \in DOMAIN inbox /\ inbox'[j] = inbox[j]
      /\ \A f \in Frames : OnWire(f)' => OnWire(f)
      /\ \A i, j \in DOMAIN inbox' : i < j /\ inbox'[j] \in Frames =>
           /\ i \in DOMAIN inbox /\ inbox'[i] = inbox[i]
           /\ j \in DOMAIN inbox /\ inbox'[j] = inbox[j]
      /\ HandlerInv' /\ DownInv'
  BY <1>d, PlcTakes, ZenonT(60)
<1>f. \A t \in Subs : plc[h] = t => pc[t] \in {"deleting", "failed"}
  BY <1>a DEF OrderlyParts, PlcInv
<1>g. \A t \in Subs : \A k \in Handles : Claims(t, k)' => Claims(t, k)
  BY <1>a, <1>u, <1>e DEF Claims
<1>1. ClaimInv'
  <2>2. \A t, v \in Subs : \A k \in Handles : Claims(t, k)' /\ Claims(v, k)' => t = v
    BY <1>g DEF OrderlyParts, ClaimInv
  <2>3. \A t \in Subs : \A k \in Handles : Claims(t, k)' =>
            /\ plc'[k] \in {t, None}
            /\ pc'[t] = "adding" /\ Lasting' => plc'[k] = t
            /\ \A m \in Handles : plc'[m] = t => m = k
    BY <1>a, <1>c, <1>e, <1>f, <1>g, <1>u DEF OrderlyParts, ClaimInv
  <2>4. \A t \in Subs : pc'[t] \in {"active", "deleting"} => table'[handle'[t]] = t
    BY <1>u DEF OrderlyParts, ClaimInv
  <2>5. \A t \in Subs : pc'[t] = "active" /\ t \notin gone' => plc'[handle'[t]] = t
    BY <1>a, <1>u, <1>c, <1>f DEF OrderlyParts, ClaimInv, TypeOK
  <2>6. QED
    BY <2>2, <2>3, <2>4, <2>5 DEF ClaimInv
<1>2. PlcInv'
  <2>1. ASSUME NEW k \in Handles, NEW t \in Subs, plc'[k] = t
        PROVE  /\ plc[k] = t
               /\ pc[t] = "deleting" => t # r.from
    <3>1. k # h /\ plc[k] = t
      BY <1>a, <1>c, <2>1
    <3>2. ASSUME pc[t] = "deleting", t = r.from PROVE FALSE
      <4>1. handle[t] = h
        BY <1>b, <3>2
      <4>2. Claims(t, h)
        BY <3>2, <4>1 DEF Claims
      <4>3. QED
        BY <3>1, <4>2 DEF OrderlyParts, ClaimInv
    <3>3. QED
      BY <3>1, <3>2
  <2>2. QED
    BY <1>u, <1>e, <2>1 DEF OrderlyParts, PlcInv
<1>3. SampleInv'
  <2>1. ASSUME NEW f \in Frames, OnWire(f)', NEW k \in Handles, NEW t \in Subs,
               source[f][k] = t, table[k] = None, \A g \in Frames : fpc[g] # "cleanup"
        PROVE  plc'[k] = t
    <3>1. plc[k] = t
      BY <1>e, <2>1 DEF OrderlyParts, SampleInv
    <3>5. reading
      BY <1>e, <2>1 DEF OrderlyParts, DownInv, OnWire
    <3>2. r.from \notin Frames
      BY <1>a, <2>1, <3>5 DEF OrderlyParts, HandlerInv
    <3>3. table[h] # None
      BY <1>a, <1>b, <3>2
    <3>4. QED
      BY <1>c, <2>1, <3>1, <3>3
  <2>2. \A f \in Frames : OnWire(f)' => \A k \in Handles : \A t \in Subs : source'[f][k] = t =>
            /\ pc'[t] \in {"active", "deleting", "failed"}
            /\ pc'[t] # "failed" => handle'[t] = k
            /\ pc'[t] = "deleting" => answer'[t] # "ok"
            /\ table'[k] = None => pc'[t] = "failed"
            /\ table'[k] = None /\ Lasting' /\ (\A g \in Frames : fpc'[g] # "cleanup") =>
                plc'[k] = t
    BY <1>u, <1>e, <2>1 DEF OrderlyParts, SampleInv
  <2>3. \A i, j \in DOMAIN inbox' : \A t \in Subs : \A k \in Handles :
            (/\ i < j
             /\ IsAnswer(i, t)' /\ inbox'[i].ok
             /\ inbox'[j] \in Frames
             /\ source'[inbox'[j]][k] = t)
            => pc'[t] # "deleting"
    BY <1>u, <1>e DEF OrderlyParts, SampleInv, IsAnswer
  <2>4. QED
    BY <2>2, <2>3 DEF SampleInv
<1>4. CalleeInv'
  BY <1>u DEF OrderlyParts, CalleeInv
<1>5. TableInv'
  BY <1>u DEF OrderlyParts, TableInv
<1>6. NextOwnerInv'
  BY <1>u, <1>e, <1>g DEF OrderlyParts, NextOwnerInv
<1>7. QED
  BY <1>e, <1>1, <1>2, <1>3, <1>4, <1>5, <1>6 DEF OrderlyParts

LEMMA PlcSamplesOrderly ==
    ASSUME TypeOK, OrderlyParts, ~EarlySamples, NEW f \in Frames, PlcSamples(f)
    PROVE  OrderlyParts'
<1> DEFINE n == Len(inbox) + 1
<1>a. /\ fpc[f] = "unsent" /\ fpc' = [fpc EXCEPT ![f] = "wire"]
      /\ UNCHANGED <<table, pc, handle, answer, known, todo, callee, linkVars, toPlc, plc, gone, transport>>
      /\ None \notin Subs
  BY NotificationAssumption DEF PlcSamples, subVars
<1>b. PICK H \in SUBSET {h \in Handles : plc[h] # None} :
        /\ H # {}
        /\ \A h \in H : pc[plc[h]] # "adding"
        /\ source' = [source EXCEPT ![f] = [h \in Handles |-> IF h \in H THEN plc[h] ELSE None]]
  BY DEF PlcSamples
<1>c. /\ DOMAIN inbox' = DOMAIN inbox \cup {n}
      /\ \A j \in DOMAIN inbox : inbox'[j] = inbox[j] /\ j < n
      /\ inbox'[n] = f
      /\ \A j \in DOMAIN inbox : j \in Nat /\ n \in Nat
  BY AppendFacts, LenProperties DEF PlcSamples, TypeOK
<1>d. /\ \A g \in Frames \ {f} : source'[g] = source[g] /\ fpc'[g] = fpc[g]
      /\ \A h \in Handles : source'[f][h] = IF h \in H THEN plc[h] ELSE None
      /\ fpc'[f] = "wire"
  BY <1>a, <1>b DEF TypeOK
<1>e. \A j \in DOMAIN inbox' : \A s \in Subs : IsAnswer(j, s)' =>
        j \in DOMAIN inbox /\ IsAnswer(j, s) /\ inbox'[j] = inbox[j]
  BY <1>c DEF IsAnswer
<1>f. \A j \in DOMAIN inbox : inbox[j] # f
  BY <1>a DEF OrderlyParts, HandlerInv
<1>g. link = "up" /\ reading /\ UNCHANGED <<link, reading>> /\ Lasting /\ Lasting'
  BY DEF PlcSamples, Lasting, linkVars
<1>o. ASSUME NEW h \in H, NEW s \in Subs, plc[h] = s
      PROVE  /\ pc[s] \in {"active", "deleting", "failed"}
             /\ pc[s] # "failed" => handle[s] = h /\ table[h] = s
             /\ pc[s] = "deleting" =>
                    /\ answer[s] # "ok"
                    /\ \A j \in DOMAIN inbox : IsAnswer(j, s) => ~inbox[j].ok
  <2>1. /\ pc[s] \in {"adding", "active", "deleting", "failed"} /\ h \in Handles
        /\ pc[s] = "deleting" =>
            /\ answer[s] # "ok"
            /\ \A j \in DOMAIN inbox : IsAnswer(j, s) => ~inbox[j].ok
    BY <1>b, <1>o DEF OrderlyParts, PlcInv
  <2>2. pc[s] # "adding"
    BY <1>b, <1>o
  <2>3. pc[s] # "failed" => Claims(s, handle[s]) /\ handle[s] \in Handles /\ table[handle[s]] = s
    BY <2>1, <2>2 DEF Claims, TypeOK, OrderlyParts, ClaimInv
  <2>4. pc[s] # "failed" => handle[s] = h
    BY <1>o, <2>1, <2>3 DEF OrderlyParts, ClaimInv
  <2>5. QED
    BY <2>1, <2>2, <2>3, <2>4
<1>1. HandlerInv'
  <2>1. \A i, j \in DOMAIN inbox' : inbox'[i] \in Frames /\ inbox'[i] = inbox'[j] => i = j
    BY <1>c, <1>f DEF OrderlyParts, HandlerInv
  <2>2. \A i \in DOMAIN inbox' : inbox'[i] \in Frames => fpc'[inbox'[i]] = "wire"
    BY <1>c, <1>d DEF OrderlyParts, HandlerInv
  <2>3. \A i \in DOMAIN toPlc : toPlc[i].from \in Frames => fpc'[toPlc[i].from] = "cleanup"
    BY <1>a, <1>d, <1>g DEF OrderlyParts, HandlerInv
  <2>4. \A g \in Frames : fpc'[g] \in {"cleanup", "callback"} => fpc[g] = fpc'[g]
    BY <1>d
  <2>5. \A g \in Frames : \A h \in Handles : callee[g][h] # None => fpc'[g] = "callback"
    BY <1>a, <1>d DEF OrderlyParts, HandlerInv
  <2>6. \A g, k \in Frames : Busy(g)' /\ Busy(k)' => g = k
    BY <2>4 DEF OrderlyParts, HandlerInv, Busy
  <2>7. \A g \in Frames : fpc'[g] = "cleanup" => answer'[g] \in {"undone", "error"}
    BY <1>a, <2>4 DEF OrderlyParts, HandlerInv
  <2>8. QED
    BY <1>a, <1>g, <2>1, <2>2, <2>3, <2>5, <2>6, <2>7 DEF HandlerInv
<1>2. DownInv'
  BY <1>a, <1>g DEF DownInv
<1>h. \A t \in Subs : \A k \in Handles : Claims(t, k)' => Claims(t, k)
  BY <1>a, <1>e DEF Claims
<1>3. ClaimInv'
  BY <1>a, <1>g, <1>h DEF OrderlyParts, ClaimInv
<1>4. PlcInv'
  BY <1>a, <1>e DEF OrderlyParts, PlcInv
<1>5. SampleInv'
  <2>1. \A g \in Frames \ {f} : OnWire(g)' => OnWire(g)
    BY <1>c DEF OnWire
  <2>2. (\A g \in Frames : fpc'[g] # "cleanup") => \A g \in Frames : fpc[g] # "cleanup"
    BY <1>a, <1>d
  <2>3. ASSUME NEW g \in Frames, OnWire(g)', NEW h \in Handles, NEW s \in Subs,
               source'[g][h] = s
        PROVE  /\ pc'[s] \in {"active", "deleting", "failed"}
               /\ pc'[s] # "failed" => handle'[s] = h
               /\ pc'[s] = "deleting" => answer'[s] # "ok"
               /\ table'[h] = None => pc'[s] = "failed"
               /\ table'[h] = None /\ Lasting' /\ (\A k \in Frames : fpc'[k] # "cleanup") =>
                    plc'[h] = s
    <3>1. CASE g = f
      <4>1. h \in H /\ plc[h] = s
        BY <1>a, <1>d, <2>3, <3>1
      <4>2. QED
        BY <1>a, <1>o, <4>1
    <3>2. CASE g # f
      <4>1. source[g][h] = s /\ OnWire(g)
        BY <1>d, <2>1, <2>3, <3>2
      <4>2. QED
        BY <1>a, <1>g, <2>2, <4>1 DEF OrderlyParts, SampleInv
    <3>3. QED
      BY <3>1, <3>2
  <2>4. ASSUME NEW i \in DOMAIN inbox', NEW j \in DOMAIN inbox', NEW s \in Subs,
               NEW h \in Handles, i < j, IsAnswer(i, s)', inbox'[i].ok,
               inbox'[j] \in Frames, source'[inbox'[j]][h] = s
        PROVE  pc'[s] # "deleting"
    <3>1. i \in DOMAIN inbox /\ IsAnswer(i, s) /\ inbox'[i] = inbox[i]
      BY <1>e, <2>4
    <3>2. CASE j = n
      <4>1. h \in H /\ plc[h] = s
        BY <1>a, <1>c, <1>d, <2>4, <3>2
      <4>2. QED
        BY <1>a, <1>o, <2>4, <3>1, <4>1
    <3>3. CASE j # n
      <4>1. j \in DOMAIN inbox /\ inbox'[j] = inbox[j] /\ inbox[j] # f
        BY <1>c, <1>f, <3>3
      <4>2. source[inbox[j]][h] = s
        BY <1>d, <2>4, <4>1
      <4>3. QED
        BY <1>a, <2>4, <3>1, <4>1, <4>2 DEF OrderlyParts, SampleInv
    <3>4. QED
      BY <3>2, <3>3
  <2>5. QED
    BY <2>3, <2>4 DEF SampleInv
<1>6. CalleeInv'
  <2>1. \A h \in Handles : callee[f][h] = None
    BY <1>a DEF OrderlyParts, HandlerInv
  <2>2. QED
    BY <1>a, <1>d, <2>1 DEF OrderlyParts, CalleeInv
<1>7. TableInv'
  BY <1>a DEF OrderlyParts, TableInv
<1>8. NextOwnerInv'
  <2> SUFFICES ASSUME NEW j \in DOMAIN inbox', NEW s \in Subs, NEW t \in Subs,
                      NEW h \in Handles, inbox'[j] \in Frames,
                      source'[inbox'[j]][h] = s, Claims(t, h)', s # t
               PROVE  /\ pc[t] = "adding" /\ answer[t] # "ok"
                      /\ \A k \in DOMAIN inbox' : IsAnswer(k, t)' => j < k
    BY <1>a DEF NextOwnerInv
  <2>1. CASE j = n
    <3>1. plc[h] = s
      BY <1>a, <1>c, <1>d, <2>1
    <3>2. QED
      BY <1>a, <1>h, <3>1 DEF OrderlyParts, ClaimInv
  <2>2. CASE j # n
    <3>1. j \in DOMAIN inbox /\ inbox'[j] = inbox[j] /\ inbox[j] # f
      BY <1>c, <1>f, <2>2
    <3>2. source[inbox[j]][h] = s
      BY <1>d, <3>1
    <3>3. QED
      BY <1>e, <1>h, <3>1, <3>2 DEF OrderlyParts, NextOwnerInv
  <2>3. QED
    BY <2>1, <2>2
<1>9. QED
  BY <1>1, <1>2, <1>3, <1>4, <1>5, <1>6, <1>7, <1>8 DEF OrderlyParts

LEMMA EnvOrderly ==
    ASSUME TypeOK, WireInv, OrderlyParts, Orderly, EnvNext
    PROVE  OrderlyParts'
<1>1. CASE NetworkFails
  BY <1>1, NetworkFailsOrderly DEF Orderly
<1>6. CASE Noticed \/ Disconnect
  <2>1. ReadingEnds /\ UNCHANGED <<subVars, frameVars, transport>>
    BY <1>6 DEF Noticed, Disconnect
  <2>2. QED
    BY <2>1, ReadingEndsOrderly DEF Orderly, frameVars
<1>2. CASE Reconnects
  <2>1. /\ UNCHANGED <<table, pc, handle, answer, fpc, source, known, todo, callee, toPlc,
                       inbox, plc, gone, transport>>
        /\ link = "down" /\ link' = "up" /\ reading' = TRUE
        /\ \A s \in Subs : answer[s] # "ok"
        /\ inbox = <<>> /\ DOMAIN inbox = {} /\ toPlc = <<>> /\ DOMAIN toPlc = {}
    BY <1>2 DEF Reconnects, subVars, frameVars, OrderlyParts, DownInv
  <2>l. Lasting'
    BY <2>1 DEF Lasting
  <2>2. ClaimInv'
    <3>1. \A t \in Subs : \A k \in Handles : Claims(t, k)' => Claims(t, k) /\ pc[t] # "adding"
      BY <2>1 DEF Claims
    <3>2. QED
      BY <2>1, <3>1 DEF OrderlyParts, ClaimInv
  <2>3. QED
    BY <2>1, <2>l, <2>2 DEF OrderlyParts, HandlerInv, Busy, DownInv, TableInv, PlcInv,
       SampleInv, NextOwnerInv, CalleeInv, OnWire, IsAnswer
<1>3. CASE PlcAdds
  BY <1>3, PlcAddsOrderly DEF Orderly, OrderlyPlc
<1>4. CASE PlcDeletes
  BY <1>4, PlcDeletesOrderly
<1>5. ASSUME NEW f \in Frames, PlcSamples(f) PROVE OrderlyParts'
  BY <1>5, PlcSamplesOrderly DEF Orderly, OrderlyPlc
<1>7. QED
  BY <1>1, <1>2, <1>3, <1>4, <1>5, <1>6 DEF EnvNext

LEMMA OrderlyInvariant == Spec => [](TypeOK /\ OrderlyInv)
<1>1. Init => OrderlyInv
  <2> SUFFICES ASSUME Init PROVE OrderlyParts
    BY DEF OrderlyInv
  <2>0. None \notin Subs
    BY NotificationAssumption
  <2>1. /\ \A s \in Subs : pc[s] = "idle"
        /\ \A f \in Frames : fpc[f] = "unsent"
        /\ \A f \in Frames : \A h \in Handles : callee[f][h] = None /\ source[f][h] = None
        /\ \A h \in Handles : plc[h] = None
        /\ DOMAIN toPlc = {} /\ DOMAIN inbox = {}
        /\ link = "up" /\ reading /\ Lasting
        /\ \A h \in Handles : table[h] = None
        /\ \A s \in Subs : answer[s] = "none"
    BY DEF Init, NoSubs, Lasting
  <2>2. ClaimInv
    BY <2>1 DEF ClaimInv, Claims
  <2>3. HandlerInv
    BY <2>1 DEF HandlerInv, Busy
  <2>4. DownInv /\ TableInv /\ PlcInv /\ SampleInv /\ NextOwnerInv /\ CalleeInv
    BY <2>0, <2>1 DEF DownInv, TableInv, PlcInv, SampleInv, NextOwnerInv, OnWire, CalleeInv
  <2>5. QED
    BY <2>2, <2>3, <2>4 DEF OrderlyParts
<1>2. TypeOK /\ WireInv /\ OrderlyInv /\ [Next]_vars => OrderlyInv'
  <2> SUFFICES ASSUME TypeOK, WireInv, OrderlyInv, [Next]_vars, Orderly'
               PROVE  OrderlyParts'
    BY DEF OrderlyInv
  <2>1. transport' = transport
    <3>1. \A s \in Subs : SubNext(s) => transport' = transport
      BY DEF SubNext, Subscribe, LookupReturns, AddReturns, Exit, DeleteReturns, RequestFails,
         GivesUp
    <3>2. \A f \in Frames : HandlerNext(f) => transport' = transport
      BY DEF HandlerNext, ReadSamples, CleanupReturns, CleanupFails, CleanupTimesOut,
         CallbackRaises, CallbackReturns, HandlerRaises, HandlerCancelled
    <3>3. ReadAnswer \/ EnvNext => transport' = transport
      BY DEF ReadAnswer, EnvNext, NetworkFails, Noticed, Disconnect, Reconnects, PlcAdds,
         PlcDeletes, PlcSamples
    <3>4. QED
      BY <3>1, <3>2, <3>3 DEF Next, vars
  <2>2. Orderly /\ OrderlyParts
    BY <2>1 DEF Orderly, OrderlyPlc, OrderlyInv, Serial
  <2>3. ASSUME NEW s \in Subs, SubNext(s) PROVE OrderlyParts'
    BY <2>2, <2>3, SubOrderly
  <2>4. CASE ReadAnswer
    BY <2>2, <2>4, ReadAnswerOrderly DEF Orderly
  <2>5. ASSUME NEW f \in Frames, HandlerNext(f) PROVE OrderlyParts'
    BY <2>2, <2>5, HandlerOrderly DEF Orderly, OrderlyPlc
  <2>6. CASE EnvNext
    BY <2>2, <2>6, EnvOrderly
  <2>7. CASE UNCHANGED vars
    <3>0. UNCHANGED <<table, pc, handle, answer, fpc, source, callee, link, reading, toPlc,
                      inbox, plc, gone, transport>>
      BY <2>7 DEF vars, subVars, frameVars, linkVars
    <3>1. /\ \A s, h : Claims(s, h)' <=> Claims(s, h)
          /\ Lasting' <=> Lasting
      BY <3>0 DEF Claims, IsAnswer, Lasting
    <3>2. HandlerInv' /\ DownInv' /\ TableInv' /\ PlcInv'
      BY <2>2, <3>0, <3>1 DEF OrderlyParts, HandlerInv, Busy, DownInv, TableInv, PlcInv, IsAnswer
    <3>3. SampleInv' /\ CalleeInv' /\ NextOwnerInv'
      BY <2>2, <3>0, <3>1 DEF OrderlyParts, SampleInv, OnWire, IsAnswer, CalleeInv, NextOwnerInv
    <3>4. ClaimInv'
      BY <2>2, <3>0, <3>1 DEF OrderlyParts, ClaimInv
    <3>5. QED
      BY <3>2, <3>3, <3>4 DEF OrderlyParts
  <2>8. QED
    BY <2>3, <2>4, <2>5, <2>6, <2>7 DEF Next
<1>3. QED
  BY <1>1, <1>2, WireInvariant, PTL DEF Spec

(***************************************************************************)
(* On TCP and aiomqtt an entered context stays subscribed as long as its   *)
(* connection lasts: the PLC keeps its notification, and no cleanup        *)
(* removes it.                                                             *)
(***************************************************************************)
THEOREM ActiveStaysSubscribed == Spec => [](OrderlyPlc => ActiveIsSubscribed)
<1>1. OrderlyInv => (OrderlyPlc => ActiveIsSubscribed)
  BY DEF OrderlyInv, Orderly, OrderlyParts, ClaimInv, ActiveIsSubscribed
<1>2. QED
  BY <1>1, OrderlyInvariant, PTL

(***************************************************************************)
(* On TCP and aiomqtt a sample goes to the callback of the subscription it *)
(* was taken for, or, if that subscription has failed, perhaps to one      *)
(* whose own context has been left: never to that of another context still *)
(* entered, however often handles are reused.                              *)
(***************************************************************************)
THEOREM SamplesReachOwner == Spec => [](OrderlyPlc => DeliveredToOwner)
<1>1. OrderlyInv => (OrderlyPlc => DeliveredToOwner)
  BY DEF OrderlyInv, Orderly, OrderlyParts, CalleeInv, DeliveredToOwner
<1>2. QED
  BY <1>1, OrderlyInvariant, PTL

(***************************************************************************)
(* On TCP and aiomqtt no callback is running for a sample of its own       *)
(* subscription whose removal is confirmed.  (For a sample of another one  *)
(* that failed it may, and after an exit by REQUEST_TIMEOUT.)              *)
(***************************************************************************)
THEOREM CallbacksInScope == Spec => [](OrderlyPlc => CallbackInScope)
<1>1. OrderlyInv => (OrderlyPlc => CallbackInScope)
  BY DEF OrderlyInv, Orderly, OrderlyParts, CalleeInv, CallbackInScope
<1>2. QED
  BY <1>1, OrderlyInvariant, PTL
=============================================================================
