---------------------------- MODULE BaseTransport ----------------------------
(***************************************************************************)
(* BaseTransport of src/aioads/transport.py: the invoke-id counter, the    *)
(* table of pending requests and the futures their callers wait on.  The   *)
(* module has operators and no specification of its own: the transports    *)
(* EXTEND it and call the operators from their actions, as the classes     *)
(* that inherit from BaseTransport call its methods.                       *)
(*                                                                         *)
(* A call of ITransport.request() is an element of Reqs, made once.  On    *)
(* the wire a request and its answer are both named by the request; the    *)
(* bytes carry only its invoke id, so an answer is matched by invoke[r].   *)
(***************************************************************************)
EXTENDS Integers

CONSTANTS
    Reqs,           \* the calls of request() considered
    MaxInvokeId,    \* 0xFFFFFFFF in the code
    None            \* Python's None

ASSUME BaseAssumption ==
    /\ MaxInvokeId \in Nat \ {0}
    /\ None \notin Reqs

VARIABLES
    nextId,     \* _invoke_id
    pending,    \* _pending_requests: invoke id -> the call waiting on it
    invoke,     \* the invoke id a call was given, 0 before that
    future,     \* the state of the future a call waits on
    got         \* the answer stored in the future: the call it answers

baseVars == <<nextId, pending, invoke, future, got>>

Ids == 1..MaxInvokeId

FutureStates == {"none", "undone", "result", "failed"}

BaseTypeOK ==
    /\ nextId \in Ids
    /\ pending \in [Ids -> Reqs \cup {None}]
    /\ invoke \in [Reqs -> 0..MaxInvokeId]
    /\ future \in [Reqs -> FutureStates]
    /\ got \in [Reqs -> Reqs \cup {None}]

BaseInit ==
    /\ nextId = 1
    /\ pending = [i \in Ids |-> None]
    /\ invoke = [r \in Reqs |-> 0]
    /\ future = [r \in Reqs |-> "none"]
    /\ got = [r \in Reqs |-> None]

-----------------------------------------------------------------------------
\* Mutant: the counter does not wrap.
NextInvokeId_NoWrap(id) == id + 1

(***************************************************************************)
(* get_next_invoke_id(): hands out nextId and steps the counter, which     *)
(* wraps to 1 after MaxInvokeId (0 is never used).                         *)
(***************************************************************************)
NextInvokeId(id) == IF id + 1 > MaxInvokeId THEN 1 ELSE id + 1

Registered(r) == r \in {pending[i] : i \in Ids}

(***************************************************************************)
(* Entering subscribe_request(invoke_id): a fresh future is stored under   *)
(* the id, replacing whatever is there.                                    *)
(***************************************************************************)
SubscribeRequest(r) ==
    /\ nextId' = NextInvokeId(nextId)
    /\ invoke' = [invoke EXCEPT ![r] = nextId]
    /\ pending' = [pending EXCEPT ![nextId] = r]
    /\ future' = [future EXCEPT ![r] = "undone"]
    /\ UNCHANGED got

(***************************************************************************)
(* Leaving subscribe_request: the finally clause deletes the entry however *)
(* the call ends.  The call keeps the answer only when it returns it; the  *)
(* future itself is unreachable from then on.                              *)
(***************************************************************************)
UnsubscribeRequest(r, returns) ==
    /\ pending' = [pending EXCEPT ![invoke[r]] = None]
    /\ future' = [future EXCEPT ![r] = "none"]
    /\ got' = [got EXCEPT ![r] = IF returns THEN @ ELSE None]
    /\ UNCHANGED <<nextId, invoke>>

\* Mutant: the answer goes to whichever call is waiting.
HandleResponse_AnyWaiter(m) ==
    /\ \E r \in Reqs :
        /\ future[r] = "undone"
        /\ future' = [future EXCEPT ![r] = "result"]
        /\ got' = [got EXCEPT ![r] = m]
    /\ UNCHANGED <<nextId, pending, invoke>>

(***************************************************************************)
(* _handle_response(): the answer to call m resolves the future registered *)
(* under m's invoke id, if that future is still waiting; an answer with an *)
(* unknown id, or for a future already done, is dropped.                   *)
(***************************************************************************)
HandleResponse(m) ==
    LET r == pending[invoke[m]]
    IN  /\ IF r # None /\ future[r] = "undone"
           THEN /\ future' = [future EXCEPT ![r] = "result"]
                /\ got' = [got EXCEPT ![r] = m]
           ELSE UNCHANGED <<future, got>>
        /\ UNCHANGED <<nextId, pending, invoke>>

\* Mutant: the pending calls are not told.
CancelPendingRequests_Skipped == UNCHANGED baseVars

(***************************************************************************)
(* cancel_pending_requests(ex): every pending future that is not done      *)
(* fails with ex; the entries stay until their callers unsubscribe.        *)
(***************************************************************************)
CancelPendingRequests ==
    /\ future' = [r \in Reqs |->
                    IF Registered(r) /\ future[r] = "undone"
                    THEN "failed" ELSE future[r]]
    /\ UNCHANGED <<nextId, pending, invoke, got>>

(***************************************************************************)
(* Every answer a call has been handed is the answer to that very call.    *)
(***************************************************************************)
OwnResponse == \A r \in Reqs : got[r] \in {None, r}
=============================================================================
