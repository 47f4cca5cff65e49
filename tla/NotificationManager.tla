-------------------------- MODULE NotificationManager --------------------------
(***************************************************************************)
(* NotificationManager of src/aioads/ads_notifications.py: subscriptions   *)
(* as context managers, the table that maps a PLC's notification handles   *)
(* to callbacks, and the handling of notification frames.                  *)
(*                                                                         *)
(* The transport is abstract: requests reach the PLC in order, and answers *)
(* and notification frames are read in order.  On TCP and aiomqtt a frame  *)
(* is read only when the handler of the one before has returned; on gmqtt  *)
(* every frame is handled in its own task.  An exception of the handler    *)
(* costs TCP the connection, and with it the notifications; on aiomqtt it  *)
(* only ends the reader, until the transport is connected anew; on gmqtt   *)
(* it is logged.                                                           *)
(*                                                                         *)
(* A frame is an element of Frames, sent at most once: |Frames| bounds the *)
(* notifications a PLC sends.                                              *)
(***************************************************************************)
EXTENDS Integers, Sequences, FiniteSets

CONSTANTS
    Subs,           \* the uses of create_notification()
    Frames,         \* the notification frames
    Handles,        \* the notification handles of the PLC
    MaxSubs,        \* MAX_SUBSCRIPTIONS
    None,
    Transports,     \* the transports considered
    EarlySamples,   \* whether the PLC samples a handle before its subscriber
                    \* has seen the answer, as for the initial value
    ReuseHeld,      \* whether the PLC hands out a handle a context still holds
                    \* or is removing, as when it numbers from 1 again for a
                    \* new connection
    Shifts          \* whether symbols differ in size: a value that is parsed
                    \* by an old entry of the table then ends where it should
                    \* not, and the rest of the frame is misread

ASSUME NotificationAssumption ==
    /\ MaxSubs \in Nat
    /\ Transports \subseteq {"tcp", "aiomqtt", "gmqtt"}
    /\ EarlySamples \in BOOLEAN /\ ReuseHeld \in BOOLEAN /\ Shifts \in BOOLEAN
    /\ None \notin Subs \cup Frames \cup Handles
    /\ Subs \cap Frames = {}

VARIABLES
    transport,  \* the class of the transport
    table,      \* _callback_handles: handle -> the subscription called back
    pc,         \* where each subscription is
    handle,     \* the handle of its answer, its notification_handle
    answer,     \* the future of the request a subscription or handler awaits
    fpc,        \* where each frame, later its handler, is
    source,     \* a frame's samples: handle -> the subscription they are for
    known,      \* the handles of a frame found in the table
    todo,       \* the unknown handles whose removal is not requested yet
    callee,     \* the subscriptions called back for a frame's handles
    link,       \* the connection: up, down, or cut, which the reader has not
                \* noticed yet
    reading,    \* whether somebody reads what comes in
    toPlc,      \* requests on their way to the PLC
    inbox,      \* answers and frames on their way to us
    plc,        \* the PLC's notifications: handle -> subscription
    gone        \* history: the subscriptions a lost connection has ended

subVars == <<table, pc, handle>>
frameVars == <<fpc, source, known, todo, callee>>
linkVars == <<link, reading>>
vars == <<subVars, answer, frameVars, linkVars, toPlc, inbox, plc, gone, transport>>

Serial == transport # "gmqtt"

SubPCs == {"idle", "rejected", "lookup", "adding", "active", "deleting", "done", "failed"}
FramePCs == {"unsent", "wire", "cleanup", "callback", "done"}

Requests ==
    [from : Subs, op : {"add"}, handle : {None}]
        \cup [from : Subs \cup Frames, op : {"delete"}, handle : Handles]
Answers == [to : Subs \cup Frames, ok : BOOLEAN, handle : Handles \cup {None}]

ASSUME FrameAssumption == Frames \cap Answers = {}

NoSubs == [h \in Handles |-> None]

(***************************************************************************)
(* Types, and that a context which has been entered has a handle.          *)
(***************************************************************************)
TypeOK ==
    /\ transport \in Transports
    /\ table \in [Handles -> Subs \cup {None}]
    /\ pc \in [Subs -> SubPCs]
    /\ handle \in [Subs -> Handles \cup {None}]
    /\ \A s \in Subs : pc[s] \in {"active", "deleting", "done"} => handle[s] # None
    /\ answer \in [Subs \cup Frames -> {"none", "undone", "ok", "error"}]
    /\ fpc \in [Frames -> FramePCs]
    /\ source \in [Frames -> [Handles -> Subs \cup {None}]]
    /\ known \in [Frames -> SUBSET Handles]
    /\ todo \in [Frames -> SUBSET Handles]
    /\ callee \in [Frames -> [Handles -> Subs \cup {None}]]
    /\ link \in {"up", "cut", "down"}
    /\ reading \in BOOLEAN
    /\ toPlc \in Seq(Requests)
    /\ inbox \in Seq(Answers \cup Frames)
    /\ plc \in [Handles -> Subs \cup {None}]
    /\ gone \subseteq Subs

Init ==
    /\ transport \in Transports
    /\ table = NoSubs
    /\ pc = [s \in Subs |-> "idle"]
    /\ handle = [s \in Subs |-> None]
    /\ answer = [x \in Subs \cup Frames |-> "none"]
    /\ fpc = [f \in Frames |-> "unsent"]
    /\ source = [f \in Frames |-> NoSubs]
    /\ known = [f \in Frames |-> {}]
    /\ todo = [f \in Frames |-> {}]
    /\ callee = [f \in Frames |-> NoSubs]
    /\ link = "up"
    /\ reading = TRUE
    /\ toPlc = <<>>
    /\ inbox = <<>>
    /\ plc = NoSubs
    /\ gone = {}

-----------------------------------------------------------------------------
(***************************************************************************)
(* transport.request() up to its suspension, and its end.  Without a       *)
(* connection TCP refuses it; the libraries of MQTT refuse it or drop it.  *)
(* A connection that is cut takes requests which reach nobody.             *)
(***************************************************************************)
Takes == transport = "tcp" => link # "down"
Refuses == IF transport = "tcp" THEN link = "down" ELSE link # "up"

Send(x, op, h) ==
    /\ Takes
    /\ toPlc' = IF link = "up"
                THEN Append(toPlc, [from |-> x, op |-> op, handle |-> h]) ELSE toPlc
    /\ answer' = [answer EXCEPT ![x] = "undone"]

EndRequest(x) == answer' = [answer EXCEPT ![x] = "none"]

(***************************************************************************)
(* _create_notification() and _remove_notification(): a request that is    *)
(* refused raises, and the context manager with it.                        *)
(***************************************************************************)
CreateNotification(s) ==
    \/ /\ Send(s, "add", None)
       /\ pc' = [pc EXCEPT ![s] = "adding"]
    \/ /\ Refuses
       /\ pc' = [pc EXCEPT ![s] = "failed"]
       /\ UNCHANGED <<toPlc, answer>>

RemoveNotification(s) ==
    \/ /\ Send(s, "delete", handle[s])
       /\ pc' = [pc EXCEPT ![s] = "deleting"]
    \/ /\ Refuses
       /\ pc' = [pc EXCEPT ![s] = "failed"]
       /\ UNCHANGED <<toPlc, answer>>

TableSize == Cardinality({h \in Handles : table[h] # None})

(***************************************************************************)
(* create_notification() up to its first suspension: the limit is checked, *)
(* then the symbol is looked up, without a suspension if it is cached.     *)
(***************************************************************************)
Subscribe(s) ==
    /\ pc[s] = "idle"
    /\ \/ /\ TableSize >= MaxSubs
          /\ pc' = [pc EXCEPT ![s] = "rejected"]
          /\ UNCHANGED <<toPlc, answer>>
       \/ /\ TableSize < MaxSubs
          /\ pc' = [pc EXCEPT ![s] = "lookup"]
          /\ UNCHANGED <<toPlc, answer>>
       \/ /\ TableSize < MaxSubs
          /\ CreateNotification(s)
    /\ UNCHANGED <<table, handle, frameVars, linkVars, inbox, plc, gone, transport>>

LookupReturns(s) ==
    /\ pc[s] = "lookup"
    /\ CreateNotification(s)
    /\ UNCHANGED <<table, handle, frameVars, linkVars, inbox, plc, gone, transport>>

\* Mutant: the error code of the answer is not looked at.
AddReturns_Unchecked(s) ==
    /\ pc[s] = "adding"
    /\ answer[s] \in {"ok", "error"}
    /\ table' = [table EXCEPT ![handle[s]] = s]
    /\ pc' = [pc EXCEPT ![s] = "active"]
    /\ EndRequest(s)
    /\ UNCHANGED <<handle, frameVars, linkVars, toPlc, inbox, plc, gone, transport>>

\* Mutant: the callback is not registered.
AddReturns_Unregistered(s) ==
    /\ pc[s] = "adding"
    /\ answer[s] = "ok"
    /\ pc' = [pc EXCEPT ![s] = "active"]
    /\ EndRequest(s)
    /\ UNCHANGED <<table, handle, frameVars, linkVars, toPlc, inbox, plc, gone, transport>>

(***************************************************************************)
(* The subscriber sees the answer, registers the callback under the handle *)
(* and enters the context.                                                 *)
(***************************************************************************)
AddReturns(s) ==
    /\ pc[s] = "adding"
    /\ answer[s] = "ok"
    /\ table' = [table EXCEPT ![handle[s]] = s]
    /\ pc' = [pc EXCEPT ![s] = "active"]
    /\ EndRequest(s)
    /\ UNCHANGED <<handle, frameVars, linkVars, toPlc, inbox, plc, gone, transport>>

(***************************************************************************)
(* The context is left, normally or by an exception.                       *)
(***************************************************************************)
Exit(s) ==
    /\ pc[s] = "active"
    /\ RemoveNotification(s)
    /\ UNCHANGED <<table, handle, frameVars, linkVars, inbox, plc, gone, transport>>

(***************************************************************************)
(* The removal is confirmed.  The table keeps the entry.                   *)
(***************************************************************************)
DeleteReturns(s) ==
    /\ pc[s] = "deleting"
    /\ answer[s] = "ok"
    /\ pc' = [pc EXCEPT ![s] = "done"]
    /\ EndRequest(s)
    /\ UNCHANGED <<table, handle, frameVars, linkVars, toPlc, inbox, plc, gone, transport>>

RequestFails(s) ==
    /\ pc[s] \in {"adding", "deleting"}
    /\ answer[s] = "error"
    /\ pc' = [pc EXCEPT ![s] = "failed"]
    /\ EndRequest(s)
    /\ UNCHANGED <<table, handle, frameVars, linkVars, toPlc, inbox, plc, gone, transport>>

(***************************************************************************)
(* The lookup fails, or the subscriber is cancelled or waits longer than   *)
(* REQUEST_TIMEOUT: the context is not entered, or is left.                *)
(***************************************************************************)
GivesUp(s) ==
    /\ pc[s] \in {"lookup", "adding", "deleting"}
    /\ pc' = [pc EXCEPT ![s] = "failed"]
    /\ EndRequest(s)
    /\ UNCHANGED <<table, handle, frameVars, linkVars, toPlc, inbox, plc, gone, transport>>

-----------------------------------------------------------------------------
(***************************************************************************)
(* The end of a TCP connection: what is on its way to the PLC is lost, and *)
(* the PLC drops the notifications of the connection.  Over MQTT the PLC   *)
(* keeps them, and what the broker has reaches it.                         *)
(***************************************************************************)
SessionEnds ==
    IF transport = "tcp"
    THEN /\ toPlc' = <<>>
         /\ plc' = NoSubs
         /\ gone' = gone \cup {s \in Subs : pc[s] \in {"adding", "active"}}
    ELSE UNCHANGED <<toPlc, plc, gone>>

\* Mutant: the pending requests are not told.
ReadingEnds_PendingKept ==
    /\ reading' = FALSE
    /\ link' = IF transport = "tcp" \/ link # "up" THEN "down" ELSE "up"
    /\ inbox' = <<>>
    /\ SessionEnds
    /\ UNCHANGED answer

(***************************************************************************)
(* The read loop of TCP, or the reader of aiomqtt, ends with an error; the *)
(* pending requests are told, and TCP closes the connection.               *)
(***************************************************************************)
ReadingEnds ==
    /\ reading' = FALSE
    /\ link' = IF transport = "tcp" \/ link # "up" THEN "down" ELSE "up"
    /\ inbox' = <<>>
    /\ answer' = [x \in DOMAIN answer |->
                    IF answer[x] = "undone" THEN "error" ELSE answer[x]]
    /\ SessionEnds

Busy(f) == fpc[f] \in {"cleanup", "callback"}

\* Mutant: the handler is started and not awaited.
CanRead_NotAwaited == reading

\* Mutant: every transport awaits the handler.
CanRead_Awaited == reading /\ \A f \in Frames : ~Busy(f)

(***************************************************************************)
(* The read loop waits for a frame, not for a handler.                     *)
(***************************************************************************)
CanRead == reading /\ (Serial => \A f \in Frames : ~Busy(f))

ReadAnswer ==
    /\ inbox # <<>>
    /\ Head(inbox) \notin Frames
    /\ CanRead
    /\ inbox' = Tail(inbox)
    /\ LET a == Head(inbox)
           waits == answer[a.to] = "undone"
       IN  /\ answer' = IF waits
                        THEN [answer EXCEPT ![a.to] = IF a.ok THEN "ok" ELSE "error"]
                        ELSE answer
           /\ handle' = IF waits /\ a.handle # None
                        THEN [handle EXCEPT ![a.to] = a.handle]
                        ELSE handle
    /\ UNCHANGED <<table, pc, frameVars, linkVars, toPlc, plc, gone, transport>>

(***************************************************************************)
(* The handler of frame f ends.                                            *)
(***************************************************************************)
HandlerEnds(f) ==
    /\ fpc' = [fpc EXCEPT ![f] = "done"]
    /\ known' = [known EXCEPT ![f] = {}]
    /\ todo' = [todo EXCEPT ![f] = {}]
    /\ callee' = [callee EXCEPT ![f] = NoSubs]
    /\ source' = [source EXCEPT ![f] = NoSubs]

\* Mutant: every value goes to the callback of the last handle in the loop.
Callee_LateBinding(K) ==
    [h \in Handles |-> IF h \in K THEN table[CHOOSE k \in K : TRUE] ELSE None]

(***************************************************************************)
(* Who is called back for the known handles K: the table is read again.    *)
(***************************************************************************)
Callee(K) == [h \in Handles |-> IF h \in K THEN table[h] ELSE None]

(***************************************************************************)
(* The end of on_notification_received(): the callbacks of the known       *)
(* handles run, as tasks that are awaited together.                        *)
(***************************************************************************)
Dispatch(f, K) ==
    IF K = {}
    THEN HandlerEnds(f)
    ELSE /\ fpc' = [fpc EXCEPT ![f] = "callback"]
         /\ callee' = [callee EXCEPT ![f] = Callee(K)]
         /\ known' = [known EXCEPT ![f] = {}]
         /\ todo' = [todo EXCEPT ![f] = {}]
         /\ UNCHANGED source

(***************************************************************************)
(* The end of parse_notification_payload(): the removal of an unknown      *)
(* handle is requested and awaited, one after the other.  A removal that   *)
(* fails leaves the other ones out.                                        *)
(***************************************************************************)
Cleanup(f, K, U) ==
    \E h \in U :
        /\ Send(f, "delete", h)
        /\ fpc' = [fpc EXCEPT ![f] = "cleanup"]
        /\ known' = [known EXCEPT ![f] = K]
        /\ todo' = [todo EXCEPT ![f] = U \ {h}]
        /\ UNCHANGED <<callee, source>>

(***************************************************************************)
(* An exception leaves the handler of frame f: the reader that awaits it   *)
(* ends, or only the handler's own task.                                   *)
(***************************************************************************)
HandlerRaises(f, rest) ==
    /\ HandlerEnds(f)
    /\ IF Serial
       THEN ReadingEnds
       ELSE /\ EndRequest(f)
            /\ inbox' = rest
            /\ UNCHANGED <<linkVars, toPlc, plc, gone>>
    /\ UNCHANGED <<subVars, transport>>

(***************************************************************************)
(* How the samples of a frame may be read: by the handles in the table,    *)
(* and the others.  If an old entry has a type of another size, the        *)
(* cursor, which is not set, is in the middle of the next sample, and what *)
(* is read from there on may be any handle.                                *)
(***************************************************************************)
Sampled(f) == {h \in Handles : source[f][h] # None}

Tabled == {h \in Handles : table[h] # None}

Misread(f) == Shifts /\ \E h \in Sampled(f) : table[h] \notin {None, source[f][h]}

Readings(f) ==
    {[known |-> Sampled(f) \cap Tabled, unknown |-> Sampled(f) \ Tabled]}
        \cup {r \in [known : SUBSET Tabled, unknown : SUBSET (Handles \ Tabled)] : Misread(f)}

\* Mutant: samples of unknown handles are dropped.
ReadSamples_NoCleanup(f) ==
    /\ inbox # <<>>
    /\ Head(inbox) = f
    /\ CanRead
    /\ inbox' = Tail(inbox)
    /\ \E r \in Readings(f) : Dispatch(f, r.known)
    /\ UNCHANGED <<subVars, answer, linkVars, toPlc, plc, gone, transport>>

(***************************************************************************)
(* A notification frame is read: its samples are parsed, those of unknown  *)
(* handles are skipped and remembered.  A value that cannot be parsed      *)
(* raises before any removal, and so does a removal that is refused.       *)
(***************************************************************************)
ReadSamples(f) ==
    /\ inbox # <<>>
    /\ Head(inbox) = f
    /\ CanRead
    /\ \E r \in Readings(f) :
        \/ /\ \/ r.unknown = {} /\ Dispatch(f, r.known) /\ UNCHANGED <<toPlc, answer>>
              \/ Cleanup(f, r.known, r.unknown)
           /\ inbox' = Tail(inbox)
           /\ UNCHANGED <<subVars, linkVars, plc, gone, transport>>
        \/ /\ r.known # {} \/ Refuses
           /\ HandlerRaises(f, Tail(inbox))

CleanupReturns(f) ==
    /\ fpc[f] = "cleanup"
    /\ answer[f] = "ok"
    /\ \/ /\ todo[f] = {}
          /\ Dispatch(f, known[f])
          /\ EndRequest(f)
          /\ UNCHANGED toPlc
       \/ Cleanup(f, known[f], todo[f])
    /\ UNCHANGED <<subVars, linkVars, inbox, plc, gone, transport>>

(***************************************************************************)
(* A removal fails, by its answer, by being refused, or by REQUEST_TIMEOUT *)
(* (or the handler's being cancelled); or a callback raises.               *)
(***************************************************************************)
CleanupFails(f) ==
    /\ fpc[f] = "cleanup"
    /\ \/ answer[f] = "error"
       \/ answer[f] = "ok" /\ todo[f] # {} /\ Refuses
    /\ HandlerRaises(f, inbox)

CleanupTimesOut(f)  == fpc[f] = "cleanup" /\ answer[f] = "undone" /\ HandlerRaises(f, inbox)
CallbackRaises(f)   == fpc[f] = "callback" /\ HandlerRaises(f, inbox)

(***************************************************************************)
(* disconnect() cancels a reader that has not ended after five seconds,    *)
(* and the handler it awaits; no pending request is told of that.          *)
(***************************************************************************)
HandlerCancelled(f) ==
    /\ Serial /\ Busy(f)
    /\ link = IF transport = "tcp" THEN "down" ELSE "cut"
    /\ HandlerEnds(f)
    /\ EndRequest(f)
    /\ link' = "down"
    /\ reading' = FALSE
    /\ inbox' = <<>>
    /\ UNCHANGED <<subVars, toPlc, plc, gone, transport>>

CallbackReturns(f) ==
    /\ fpc[f] = "callback"
    /\ HandlerEnds(f)
    /\ UNCHANGED <<subVars, answer, linkVars, toPlc, inbox, plc, gone, transport>>

-----------------------------------------------------------------------------
(***************************************************************************)
(* The transport and the PLC.                                              *)
(***************************************************************************)
Prefixes(q) == {SubSeq(q, 1, n) : n \in 0..Len(q)}

(***************************************************************************)
(* The connection is lost, whatever is going on: of what is on its way the *)
(* last messages do not arrive.  A reader has yet to notice, and may read  *)
(* some of them before; on gmqtt the library notices, and nothing else     *)
(* does.  For MQTT this is also disconnect().                              *)
(***************************************************************************)
NetworkFails ==
    /\ link = "up"
    /\ link' = IF Serial /\ reading THEN "cut" ELSE "down"
    /\ inbox' = IF Serial THEN inbox ELSE <<>>
    /\ IF transport = "tcp"
       THEN SessionEnds
       ELSE toPlc' \in Prefixes(toPlc) /\ UNCHANGED <<plc, gone>>
    /\ UNCHANGED <<subVars, answer, frameVars, reading, transport>>

Noticed ==
    /\ link = "cut"
    /\ CanRead
    /\ ReadingEnds
    /\ UNCHANGED <<subVars, frameVars, transport>>

(***************************************************************************)
(* disconnect() on TCP: the connection is closed and the pending requests  *)
(* are told at once, also while the read loop awaits a handler.            *)
(***************************************************************************)
Disconnect ==
    /\ transport = "tcp"
    /\ link # "down"
    /\ ReadingEnds
    /\ UNCHANGED <<subVars, frameVars, transport>>

(***************************************************************************)
(* The transport is connected anew, on TCP by the supervisor or, as on     *)
(* MQTT, by connect(), once the reader has ended.  A handshake takes       *)
(* several rounds of the event loop and of the network: subscribers whose  *)
(* futures are done have run by then, and what was on its way to the PLC   *)
(* has reached it.                                                         *)
(***************************************************************************)
Reconnects ==
    /\ link = "down"
    /\ Serial => \A f \in Frames : ~Busy(f)
    /\ \A s \in Subs : answer[s] \notin {"ok", "error"}
    /\ toPlc = <<>>
    /\ link' = "up"
    /\ reading' = TRUE
    /\ UNCHANGED <<subVars, answer, frameVars, toPlc, inbox, plc, gone, transport>>

(***************************************************************************)
(* What the PLC sends arrives if somebody is there to read it.             *)
(***************************************************************************)
Answer(x, ok, h) ==
    inbox' = IF link = "up" /\ reading
             THEN Append(inbox, [to |-> x, ok |-> ok, handle |-> h]) ELSE inbox

Held(h) ==
    \/ \E s \in Subs : pc[s] \in {"active", "deleting"} /\ handle[s] = h
    \/ \E i \in DOMAIN toPlc : toPlc[i].handle = h

MayHandOut(h) == plc[h] = None /\ (ReuseHeld \/ ~Held(h))

PlcAdds ==
    /\ toPlc # <<>>
    /\ Head(toPlc).op = "add"
    /\ toPlc' = Tail(toPlc)
    /\ LET s == Head(toPlc).from
       IN  \/ \E h \in Handles :
                /\ MayHandOut(h)
                /\ plc' = [plc EXCEPT ![h] = s]
                /\ Answer(s, TRUE, h)
          \/ /\ Answer(s, FALSE, None)
             /\ UNCHANGED plc
    /\ UNCHANGED <<subVars, answer, frameVars, linkVars, gone, transport>>

PlcDeletes ==
    /\ toPlc # <<>>
    /\ Head(toPlc).op = "delete"
    /\ toPlc' = Tail(toPlc)
    /\ LET h == Head(toPlc).handle
       IN  /\ Answer(Head(toPlc).from, plc[h] # None, None)
           /\ plc' = [plc EXCEPT ![h] = None]
    /\ UNCHANGED <<subVars, answer, frameVars, linkVars, gone, transport>>

PlcSamples(f) ==
    /\ fpc[f] = "unsent"
    /\ link = "up" /\ reading
    /\ \E H \in SUBSET {h \in Handles : plc[h] # None} :
        /\ H # {}
        /\ EarlySamples \/ \A h \in H : pc[plc[h]] # "adding"
        /\ source' = [source EXCEPT ![f] = [h \in Handles |-> IF h \in H THEN plc[h] ELSE None]]
    /\ fpc' = [fpc EXCEPT ![f] = "wire"]
    /\ inbox' = Append(inbox, f)
    /\ UNCHANGED <<subVars, answer, known, todo, callee, linkVars, toPlc, plc, gone, transport>>

-----------------------------------------------------------------------------
SubNext(s) ==
    \/ Subscribe(s)
    \/ LookupReturns(s)
    \/ AddReturns(s)
    \/ Exit(s)
    \/ DeleteReturns(s)
    \/ RequestFails(s)
    \/ GivesUp(s)

HandlerNext(f) ==
    \/ ReadSamples(f)
    \/ CleanupReturns(f)
    \/ CleanupFails(f)
    \/ CleanupTimesOut(f)
    \/ CallbackReturns(f)
    \/ CallbackRaises(f)
    \/ HandlerCancelled(f)

EnvNext ==
    \/ NetworkFails
    \/ Noticed
    \/ Disconnect
    \/ Reconnects
    \/ PlcAdds
    \/ PlcDeletes
    \/ \E f \in Frames : PlcSamples(f)

Next ==
    \/ \E s \in Subs : SubNext(s)
    \/ ReadAnswer
    \/ \E f \in Frames : HandlerNext(f)
    \/ EnvNext

Spec == Init /\ [][Next]_vars

(***************************************************************************)
(* The request of x was lost, or its answer is: only REQUEST_TIMEOUT, or   *)
(* the reader's noticing, ends it.                                         *)
(***************************************************************************)
Lost(x) ==
    /\ answer[x] = "undone"
    /\ \A i \in DOMAIN toPlc : toPlc[i].from # x
    /\ \A i \in DOMAIN inbox : inbox[i] \notin Frames => inbox[i].to # x

(***************************************************************************)
(* Fairness: the event loop runs what is ready, a reader notices that its  *)
(* connection is cut, callbacks end, and the PLC answers what reaches it.  *)
(* REQUEST_TIMEOUT ends what a handler on TCP or aiomqtt waits for, since  *)
(* nobody else can, and over MQTT a subscriber's request that is lost;     *)
(* elsewhere no timeout is assumed.                                        *)
(***************************************************************************)
Fairness ==
    /\ WF_vars(ReadAnswer \/ \E f \in Frames : ReadSamples(f))
    /\ WF_vars(Noticed)
    /\ WF_vars(PlcAdds \/ PlcDeletes)
    /\ \A s \in Subs :
        WF_vars(\/ AddReturns(s) \/ DeleteReturns(s) \/ RequestFails(s)
                \/ transport # "tcp" /\ Lost(s) /\ GivesUp(s))
    /\ \A f \in Frames :
        WF_vars(\/ CleanupReturns(f) \/ CleanupFails(f)
                \/ Serial /\ CleanupTimesOut(f)
                \/ CallbackReturns(f) \/ CallbackRaises(f))

FairSpec == Spec /\ Fairness

-----------------------------------------------------------------------------
(***************************************************************************)
(* While a context is entered, and its connection has not been lost, the   *)
(* PLC keeps its notification: the cleanup removes only what is "not       *)
(* longer used" (ads_notifications.py:52), on TCP and aiomqtt.  On gmqtt   *)
(* two frames of one unknown handle are removed twice, the second time     *)
(* perhaps from the next subscription that has the handle.                 *)
(***************************************************************************)
ActiveIsSubscribed ==
    Serial => \A s \in Subs : pc[s] = "active" /\ s \notin gone => plc[handle[s]] = s

(***************************************************************************)
(* On TCP and aiomqtt a sample is delivered to the callback of the         *)
(* subscription it was taken for, though handles are reused and the table  *)
(* keeps old entries; if that subscription has failed, and the PLC keeps   *)
(* it, it may go to a callback whose own context has been left, but never  *)
(* to that of another context still entered.  On gmqtt the table, read     *)
(* again after the removals, may hold a newer owner by then.               *)
(***************************************************************************)
DeliveredToOwner ==
    Serial => \A f \in Frames : \A h \in Handles : callee[f][h] # None =>
        \/ callee[f][h] = source[f][h]
        \/ /\ source[f][h] \in Subs
           /\ pc[source[f][h]] = "failed"
           /\ pc[callee[f][h]] \in {"done", "failed"}

(***************************************************************************)
(* While a callback runs for a sample of its own subscription, on TCP and  *)
(* aiomqtt, the removal of that subscription is not confirmed, though its  *)
(* entry is never removed from the table.  (A context that is left by      *)
(* REQUEST_TIMEOUT may be called back afterwards, and so may an old        *)
(* callback for the sample of a subscription that failed, as above.)       *)
(***************************************************************************)
CallbackInScope ==
    Serial => \A f \in Frames : \A h \in Handles :
        callee[f][h] # None /\ callee[f][h] = source[f][h] => pc[callee[f][h]] # "done"

(***************************************************************************)
(* A notification the PLC keeps for a subscription that failed is removed  *)
(* once it is alone in a frame and its handle unknown (lines 52, 151-156), *)
(* over MQTT unless the connection is lost, although on aiomqtt the reader *)
(* cannot read the answer and ends.  (On TCP the connection ends, and the  *)
(* notification in any case.  Of several unknown handles of one frame a    *)
(* reader that awaits its handler removes only one.)                       *)
(***************************************************************************)
UnknownRemoved ==
    \A h \in Handles :
        (/\ CanRead /\ link = "up"
         /\ inbox # <<>> /\ Head(inbox) \in Frames
         /\ Sampled(Head(inbox)) = {h}
         /\ plc[h] = source[Head(inbox)][h] /\ pc[plc[h]] = "failed"
         /\ table[h] = None)
        ~> (plc[h] = None \/ (transport # "tcp" /\ link # "up"))

(***************************************************************************)
(* Leaving a context ends: with the answer, an error or the connection, on *)
(* MQTT, where nobody may be told, by REQUEST_TIMEOUT.                     *)
(***************************************************************************)
ExitCompletes ==
    \A s \in Subs : pc[s] = "deleting" ~> pc[s] \in {"done", "failed"}

(***************************************************************************)
(* On gmqtt the removal of an unknown handle that is on its way, or whose  *)
(* answer is, ends without waiting for REQUEST_TIMEOUT, as the test of the *)
(* handler supposes (test_ads_notifications.py:155), unless the connection *)
(* is lost.                                                                *)
(***************************************************************************)
CleanupAnswered ==
    \A f \in Frames :
        (transport = "gmqtt" /\ fpc[f] = "cleanup" /\ ~Lost(f))
            ~> (fpc[f] # "cleanup" \/ link # "up")
=============================================================================
