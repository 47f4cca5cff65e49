-------------------------- MODULE MCAdsTcpTransport --------------------------
(***************************************************************************)
(* Instances of AdsTcpTransport for TLC.                                   *)
(***************************************************************************)
EXTENDS AdsTcpTransport, TLC

(***************************************************************************)
(* Calls, supervisor objects and connections are interchangeable; sound    *)
(* for the runs that check no liveness.                                    *)
(***************************************************************************)
Symmetry ==
    Permutations(Reqs) \cup Permutations(Clients) \cup Permutations(Sups)
        \cup Permutations(Conns)

(***************************************************************************)
(* Bound: a PLC that is reached by no call and a network that cuts no      *)
(* connection, for the run whose question is the queue for the lock when   *)
(* clients close and reopen behind it.                                     *)
(***************************************************************************)
QuietEnvironment ==
    /\ \A r \in Reqs : executed[r] = 0
    /\ \A c \in Conns : link[c] # "down"
=============================================================================
