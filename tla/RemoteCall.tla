----------------------------- MODULE RemoteCall -----------------------------
(***************************************************************************)
(* What ITransport.request() promises its caller, whatever the transport:  *)
(* a call is rejected without effect, or it is sent at most once; it       *)
(* returns the answer only if the PLC executed it; and a call that failed  *)
(* (connection lost, timeout, cancelled) may or may not have been, or may  *)
(* still be, executed -- once.  The comment on _teardown_stream            *)
(* (transport.py:348-349) gives the reason: a write may already have been  *)
(* applied, so sending it again could apply it twice.                      *)
(***************************************************************************)
EXTENDS Integers

CONSTANT Reqs

VARIABLES status, executions

vars == <<status, executions>>

Statuses == {"idle", "active", "rejected", "ok", "failed"}

Init ==
    /\ status = [r \in Reqs |-> "idle"]
    /\ executions = [r \in Reqs |-> 0]

Becomes(r, from, to) ==
    /\ status[r] = from
    /\ status' = [status EXCEPT ![r] = to]
    /\ UNCHANGED executions

Call(r)   == Becomes(r, "idle", "active")
Reject(r) == Becomes(r, "idle", "rejected")
Fail(r)   == Becomes(r, "active", "failed")

Return(r) ==
    /\ executions[r] = 1
    /\ Becomes(r, "active", "ok")

Execute(r) ==
    /\ status[r] \in {"active", "failed"}
    /\ executions[r] = 0
    /\ executions' = [executions EXCEPT ![r] = 1]
    /\ UNCHANGED status

Next == \E r \in Reqs :
    \/ Call(r)
    \/ Reject(r)
    \/ Fail(r)
    \/ Return(r)
    \/ Execute(r)

Spec == Init /\ [][Next]_vars
=============================================================================
