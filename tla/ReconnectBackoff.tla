-------------------------- MODULE ReconnectBackoff --------------------------
(***************************************************************************)
(* The timing of AdsTcpTransport._supervise() (transport.py:411-467): when *)
(* the supervisor tries to connect again.  Time is counted in whole        *)
(* seconds.  The connection control is in AdsTcpTransport; here only the   *)
(* clock, the backoff and the lifetime of connections matter, and the      *)
(* transport is not closed.                                                *)
(***************************************************************************)
EXTENDS Integers

CONSTANTS
    Initial,        \* RECONNECT_INITIAL_BACKOFF
    MaxBackoff,     \* RECONNECT_MAX_BACKOFF
    Threshold,      \* RECONNECT_STABILITY_THRESHOLD
    MaxTeardown     \* the longest _teardown_stream() takes: the lock held by a
                    \* blocked drain(), and wait_closed()

ASSUME BackoffAssumption ==
    /\ Initial \in Nat \ {0}
    /\ MaxBackoff \in Nat
    /\ Threshold \in Nat
    /\ MaxTeardown \in Nat
    /\ Initial <= MaxBackoff
    /\ Initial <= Threshold

VARIABLES
    now,            \* loop.time()
    phase,          \* what the supervisor is doing
    backoff,        \* the local variable backoff
    connectedAt,    \* connected_at
    wakeAt,         \* when the current sleep ends
    lostAt,         \* history: when the connection or the attempt failed last
    triedAt,        \* history: when the last attempt began
    short           \* history: failures in a row: attempts that failed and
                    \* connections that lived less than Threshold

vars == <<now, phase, backoff, connectedAt, wakeAt, lostAt, triedAt, short>>

Phases == {"reading", "teardown", "sleep", "opening"}

TypeOK ==
    /\ now \in Nat
    /\ phase \in Phases
    /\ backoff \in Initial..MaxBackoff
    /\ connectedAt \in 0..now
    /\ wakeAt \in Nat
    /\ lostAt \in 0..now
    /\ triedAt \in 0..now
    /\ short \in Nat

Init ==
    /\ now = 0
    /\ phase = "reading"
    /\ backoff = Initial
    /\ connectedAt = 0
    /\ wakeAt = 0
    /\ lostAt = 0
    /\ triedAt = 0
    /\ short = 0

Smaller(a, b) == IF a <= b THEN a ELSE b

\* Mutant: the backoff is not capped.
Doubled_Uncapped(b) == 2 * b

Doubled(b) == Smaller(2 * b, MaxBackoff)

(***************************************************************************)
(* Time passes.  Sleeps end on time, and a teardown within MaxTeardown.    *)
(***************************************************************************)
Tick ==
    /\ phase = "sleep" => now < wakeAt
    /\ phase = "teardown" => now < lostAt + MaxTeardown
    /\ now' = now + 1
    /\ UNCHANGED <<phase, backoff, connectedAt, wakeAt, lostAt, triedAt, short>>

(***************************************************************************)
(* The read loop ends; the teardown begins.                                *)
(***************************************************************************)
Drop ==
    /\ phase = "reading"
    /\ phase' = "teardown"
    /\ lostAt' = now
    /\ short' = IF now - connectedAt >= Threshold THEN 0 ELSE short + 1
    /\ UNCHANGED <<now, backoff, connectedAt, wakeAt, triedAt>>

\* Mutant: the backoff resets after every drop.
Uptime_Forgotten == Threshold

(***************************************************************************)
(* uptime, taken after the teardown.                                       *)
(***************************************************************************)
Uptime == now - connectedAt

\* Mutant: jitter in place of the backoff, not on top of it.
Sleep_JitterOnly ==
    /\ phase' = "sleep"
    /\ \E jitter \in 0..backoff : wakeAt' = now + jitter
    /\ backoff' = Doubled(backoff)

(***************************************************************************)
(* The sleep of backoff plus jitter, after which the backoff doubles.      *)
(***************************************************************************)
Sleep ==
    /\ phase' = "sleep"
    /\ \E jitter \in 0..backoff : wakeAt' = now + backoff + jitter
    /\ backoff' = Doubled(backoff)

(***************************************************************************)
(* The teardown is over: a stable connection resets the backoff and is     *)
(* replaced at once, any other one counts as a failure.                    *)
(***************************************************************************)
TornDown ==
    /\ phase = "teardown"
    /\ \/ /\ Uptime >= Threshold
          /\ backoff' = Initial
          /\ phase' = "opening"
          /\ triedAt' = now
          /\ UNCHANGED wakeAt
       \/ /\ Uptime < Threshold
          /\ Sleep
          /\ UNCHANGED triedAt
    /\ UNCHANGED <<now, connectedAt, lostAt, short>>

Wake ==
    /\ phase = "sleep"
    /\ now >= wakeAt
    /\ phase' = "opening"
    /\ triedAt' = now
    /\ UNCHANGED <<now, backoff, connectedAt, wakeAt, lostAt, short>>

AttemptFails ==
    /\ phase = "opening"
    /\ Sleep
    /\ lostAt' = now
    /\ short' = short + 1
    /\ UNCHANGED <<now, connectedAt, triedAt>>

AttemptSucceeds ==
    /\ phase = "opening"
    /\ phase' = "reading"
    /\ connectedAt' = now
    /\ UNCHANGED <<now, backoff, wakeAt, lostAt, triedAt, short>>

Next ==
    \/ Tick
    \/ Drop
    \/ TornDown
    \/ Wake
    \/ AttemptFails
    \/ AttemptSucceeds

Spec == Init /\ [][Next]_vars

-----------------------------------------------------------------------------
(***************************************************************************)
(* No busy loop: two attempts are at least the initial backoff apart, even *)
(* when the peer accepts and closes at once (transport.py:214-221).        *)
(***************************************************************************)
AttemptsSpaced ==
    [][phase # "opening" /\ phase' = "opening" => now >= triedAt + Initial]_vars

(***************************************************************************)
(* Exponential backoff: after n failures in a row the next attempt comes   *)
(* no earlier than Initial * 2^(n-1) seconds, or MaxBackoff, after the     *)
(* last of them; only after a connection that really stayed up for the     *)
(* threshold is it immediate (transport.py:421-424).                       *)
(***************************************************************************)
MinDelay(n) == IF n = 0 THEN 0 ELSE Smaller(Initial * 2^(n - 1), MaxBackoff)

BackoffRespected ==
    [][phase # "opening" /\ phase' = "opening" => now >= lostAt + MinDelay(short)]_vars
=============================================================================
