----------------------- MODULE ReconnectBackoffProofs -----------------------
(***************************************************************************)
(* The supervisor never attempts to connect twice within the initial       *)
(* backoff, for every value of the delays and however long a teardown      *)
(* takes.                                                                  *)
(***************************************************************************)
EXTENDS ReconnectBackoff, TLAPS

(***************************************************************************)
(* The inductive invariant: a connection was made no earlier than the last *)
(* attempt began, and a sleep ends at least the initial backoff after it.  *)
(***************************************************************************)
SpacingInv ==
    /\ TypeOK
    /\ phase \in {"reading", "teardown"} => connectedAt >= triedAt
    /\ phase = "sleep" => wakeAt >= triedAt + Initial

(***************************************************************************)
(* Doubling keeps the backoff between its bounds.                          *)
(***************************************************************************)
LEMMA DoubledInRange ==
    ASSUME NEW b \in Initial..MaxBackoff
    PROVE  Doubled(b) \in Initial..MaxBackoff
  BY BackoffAssumption DEF Doubled, Smaller

(***************************************************************************)
(* The facts Sleep establishes, whichever jitter is drawn.                 *)
(***************************************************************************)
LEMMA SleepFacts ==
    ASSUME TypeOK, Sleep
    PROVE  /\ phase' = "sleep"
           /\ wakeAt' \in Nat
           /\ wakeAt' >= now + Initial
           /\ backoff' \in Initial..MaxBackoff
  <1>1. PICK jitter \in 0..backoff : wakeAt' = now + backoff + jitter
    BY DEF Sleep
  <1>2. wakeAt' \in Nat /\ wakeAt' >= now + Initial
    BY <1>1, BackoffAssumption DEF TypeOK
  <1>3. backoff' \in Initial..MaxBackoff
    BY DoubledInRange DEF TypeOK, Sleep
  <1> QED BY <1>2, <1>3 DEF Sleep

LEMMA SpacingInit == Init => SpacingInv
  BY BackoffAssumption DEF Init, SpacingInv, TypeOK, Phases

LEMMA SpacingStep == SpacingInv /\ [Next]_vars => SpacingInv'
  <1> SUFFICES ASSUME SpacingInv, [Next]_vars
               PROVE  SpacingInv'
    OBVIOUS
  <1> USE BackoffAssumption DEF SpacingInv, TypeOK, Phases
  <1>1. CASE Tick
    BY <1>1 DEF Tick
  <1>2. CASE Drop
    BY <1>2 DEF Drop
  <1>3. CASE TornDown
    <2>1. CASE Uptime >= Threshold /\ phase' = "opening"
      BY <1>3, <2>1 DEF TornDown, Sleep
    <2>2. CASE Sleep /\ UNCHANGED triedAt
      BY <1>3, <2>2, SleepFacts DEF TornDown
    <2> QED BY <1>3, <2>1, <2>2 DEF TornDown
  <1>4. CASE Wake
    BY <1>4 DEF Wake
  <1>5. CASE AttemptFails
    BY <1>5, SleepFacts DEF AttemptFails
  <1>6. CASE AttemptSucceeds
    BY <1>6 DEF AttemptSucceeds
  <1>7. CASE UNCHANGED vars
    BY <1>7 DEF vars
  <1> QED BY <1>1, <1>2, <1>3, <1>4, <1>5, <1>6, <1>7 DEF Next

(***************************************************************************)
(* An attempt begins only after a sleep that ended on time, or after a     *)
(* connection that was up for Threshold, and neither is shorter than the   *)
(* initial backoff.                                                        *)
(***************************************************************************)
LEMMA SpacedStep ==
    SpacingInv /\ [Next]_vars =>
        [phase # "opening" /\ phase' = "opening" => now >= triedAt + Initial]_vars
  <1> SUFFICES ASSUME SpacingInv, Next, phase # "opening", phase' = "opening"
               PROVE  now >= triedAt + Initial
    BY DEF vars
  <1> USE BackoffAssumption DEF SpacingInv, TypeOK
  <1>1. CASE TornDown
    BY <1>1 DEF TornDown, Uptime, Sleep
  <1>2. CASE Wake
    BY <1>2 DEF Wake
  <1> QED
    BY <1>1, <1>2
    DEF Next, Tick, Drop, AttemptFails, AttemptSucceeds

(***************************************************************************)
(* The backoff stays between RECONNECT_INITIAL_BACKOFF and                 *)
(* RECONNECT_MAX_BACKOFF, and no time stamp lies in the future.            *)
(***************************************************************************)
THEOREM BackoffBounded == Spec => []TypeOK
  <1>1. SpacingInv => TypeOK
    BY DEF SpacingInv
  <1> QED BY <1>1, SpacingInit, SpacingStep, PTL DEF Spec

(***************************************************************************)
(* No busy loop: _supervise() spaces its attempts by at least the initial  *)
(* backoff whatever the peer does.                                         *)
(***************************************************************************)
THEOREM NoBusyLoop == Spec => AttemptsSpaced
  <1> QED BY SpacingInit, SpacingStep, SpacedStep, PTL DEF Spec, AttemptsSpaced
-----------------------------------------------------------------------------
(***************************************************************************)
(* The law of powers of two, a fact of arithmetic for which the provers    *)
(* have no axiom.                                                          *)
(***************************************************************************)
PowersDouble == \A n \in Nat : 2^n \in Nat /\ 2^(n + 1) = 2 * (2^n)

(***************************************************************************)
(* The backoff is the delay of the next failure, a sleep lasts at least    *)
(* the delay of the last one, and in a teardown that takes no time uptime  *)
(* tells whether the connection was stable.                                *)
(***************************************************************************)
GrowthInv ==
    /\ SpacingInv
    /\ phase # "teardown" => backoff >= MinDelay(short + 1)
    /\ phase = "teardown" =>
        /\ now = lostAt
        /\ Uptime >= Threshold <=> short = 0
        /\ short # 0 => backoff >= MinDelay(short)
    /\ phase = "sleep" => wakeAt >= lostAt + MinDelay(short)

(***************************************************************************)
(* The delays: none, the initial backoff, and doubled from there.          *)
(***************************************************************************)
LEMMA DelayFacts ==
    ASSUME PowersDouble
    PROVE  /\ MinDelay(0) = 0
           /\ MinDelay(1) = Initial
           /\ \A n \in Nat : MinDelay(n) \in Nat
           /\ \A n \in Nat \ {0} :
                MinDelay(n + 1) = Smaller(2 * (Initial * 2^(n - 1)), MaxBackoff)
  <1>1. MinDelay(0) = 0
    BY DEF MinDelay
  <1>2. 2^0 = 1
    OBVIOUS
  <1>3. 1 - 1 = 0 /\ 1 # 0
    OBVIOUS
  <1>4. MinDelay(1) = Smaller(Initial * 2^0, MaxBackoff)
    BY <1>3 DEF MinDelay
  <1>5. MinDelay(1) = Initial
    BY <1>2, <1>4, BackoffAssumption DEF Smaller
  <1>6. ASSUME NEW n \in Nat
        PROVE  MinDelay(n) \in Nat
    <2>1. CASE n = 0
      BY <1>1, <2>1
    <2>2. CASE n # 0
      <3>1. n - 1 \in Nat
        BY <2>2
      <3>2. 2^(n - 1) \in Nat
        BY <3>1 DEF PowersDouble
      <3>3. Initial * 2^(n - 1) \in Nat
        BY <3>2, BackoffAssumption
      <3>4. QED
        BY <2>2, <3>3, BackoffAssumption DEF MinDelay, Smaller
    <2>3. QED
      BY <2>1, <2>2
  <1>7. ASSUME NEW n \in Nat \ {0}
        PROVE  MinDelay(n + 1) = Smaller(2 * (Initial * 2^(n - 1)), MaxBackoff)
    <2>1. n - 1 \in Nat /\ (n - 1) + 1 = n /\ (n + 1) - 1 = n /\ n + 1 # 0
      OBVIOUS
    <2>2. 2^(n - 1) \in Nat /\ 2^n = 2 * (2^(n - 1))
      BY <2>1 DEF PowersDouble
    <2>3. MinDelay(n + 1) = Smaller(Initial * 2^n, MaxBackoff)
      BY <2>1 DEF MinDelay
    <2>4. Initial * (2 * (2^(n - 1))) = 2 * (Initial * 2^(n - 1))
      BY <2>2, BackoffAssumption
    <2>5. QED
      BY <2>2, <2>3, <2>4
  <1>8. QED
    BY <1>1, <1>5, <1>6, <1>7

(***************************************************************************)
(* A backoff that covers a delay covers the next one when it is doubled.   *)
(***************************************************************************)
LEMMA DoubledCovers ==
    ASSUME PowersDouble, NEW b \in Initial..MaxBackoff, NEW n \in Nat \ {0},
           b >= MinDelay(n)
    PROVE  Doubled(b) >= MinDelay(n + 1)
  <1> DEFINE d == Initial * 2^(n - 1)
  <1>1. d \in Nat
    <2>1. n - 1 \in Nat
      OBVIOUS
    <2>2. 2^(n - 1) \in Nat
      BY <2>1 DEF PowersDouble
    <2>3. QED
      BY <2>2, BackoffAssumption
  <1>2. MinDelay(n) = Smaller(d, MaxBackoff)
    BY DEF MinDelay
  <1>3. MinDelay(n + 1) = Smaller(2 * d, MaxBackoff)
    BY DelayFacts
  <1> HIDE DEF d
  <1>4. QED
    BY <1>1, <1>2, <1>3, BackoffAssumption DEF Doubled, Smaller

LEMMA GrowthInit == PowersDouble /\ Init => GrowthInv
  BY SpacingInit, DelayFacts, BackoffAssumption DEF Init, GrowthInv

(***************************************************************************)
(* A sleep for the failure counted n lasts the delay of n failures, and    *)
(* leaves the backoff of the next.                                         *)
(***************************************************************************)
LEMMA SleepCovers ==
    ASSUME PowersDouble, SpacingInv, Sleep, NEW n \in Nat \ {0}, backoff >= MinDelay(n)
    PROVE  /\ wakeAt' >= now + MinDelay(n)
           /\ backoff' >= MinDelay(n + 1)
  <1>1. backoff \in Initial..MaxBackoff /\ now \in Nat /\ backoff \in Nat
    BY BackoffAssumption DEF SpacingInv, TypeOK
  <1>2. MinDelay(n) \in Nat
    BY DelayFacts
  <1>3. PICK jitter \in 0..backoff : wakeAt' = now + backoff + jitter
    BY DEF Sleep
  <1>4. wakeAt' >= now + MinDelay(n)
    BY <1>1, <1>2, <1>3
  <1>5. backoff' >= MinDelay(n + 1)
    BY <1>1, DoubledCovers DEF Sleep
  <1>6. QED
    BY <1>4, <1>5

LEMMA GrowthStep ==
    ASSUME PowersDouble, MaxTeardown = 0, GrowthInv, [Next]_vars
    PROVE  GrowthInv'
  <1>0. SpacingInv' /\ SpacingInv
    BY SpacingStep DEF GrowthInv
  <1>a. /\ now \in Nat /\ short \in Nat /\ lostAt \in Nat /\ connectedAt \in Nat
        /\ backoff \in Nat /\ backoff >= Initial /\ wakeAt \in Nat
    BY <1>0, BackoffAssumption DEF SpacingInv, TypeOK
  <1>b. /\ MinDelay(short) \in Nat /\ MinDelay(short + 1) \in Nat
        /\ MinDelay(0) = 0 /\ MinDelay(1) = Initial
        /\ short + 1 \in Nat \ {0}
    BY <1>a, DelayFacts
  <1>1. CASE Tick
    BY <1>0, <1>1, <1>a DEF Tick, GrowthInv
  <1>2. CASE Drop
    <2>1. CASE now - connectedAt >= Threshold
      BY <1>0, <1>2, <2>1, <1>a, BackoffAssumption DEF Drop, GrowthInv, Uptime
    <2>2. CASE ~(now - connectedAt >= Threshold)
      BY <1>0, <1>2, <2>2, <1>a, BackoffAssumption DEF Drop, GrowthInv, Uptime
    <2>3. QED
      BY <2>1, <2>2
  <1>3. CASE TornDown
    <2>1. CASE Uptime >= Threshold /\ backoff' = Initial /\ phase' = "opening"
      <3>1. short = 0 /\ short' = 0
        BY <1>3, <2>1 DEF TornDown, GrowthInv
      <3>2. backoff' >= MinDelay(short' + 1)
        BY <1>b, <2>1, <3>1, BackoffAssumption
      <3>3. QED
        BY <1>0, <2>1, <3>2 DEF GrowthInv
    <2>2. CASE Uptime < Threshold /\ Sleep
      <3>1. now = lostAt /\ short # 0 /\ backoff >= MinDelay(short)
        BY <1>3, <1>a, <2>2, BackoffAssumption DEF TornDown, GrowthInv, Uptime
      <3>2. wakeAt' >= now + MinDelay(short) /\ backoff' >= MinDelay(short + 1)
        BY <1>0, <1>a, <2>2, <3>1, SleepCovers
      <3>3. QED
        BY <1>0, <1>3, <2>2, <3>1, <3>2 DEF TornDown, Sleep, GrowthInv
    <2>3. QED
      BY <1>3, <2>1, <2>2 DEF TornDown
  <1>4. CASE Wake
    BY <1>0, <1>4 DEF Wake, GrowthInv
  <1>5. CASE AttemptFails
    <2>1. backoff >= MinDelay(short + 1)
      BY <1>5 DEF AttemptFails, GrowthInv
    <2>2. wakeAt' >= now + MinDelay(short + 1) /\ backoff' >= MinDelay((short + 1) + 1)
      BY <1>0, <1>5, <1>b, <2>1, SleepCovers DEF AttemptFails
    <2>3. QED
      BY <1>0, <1>5, <2>2 DEF AttemptFails, Sleep, GrowthInv
  <1>6. CASE AttemptSucceeds
    BY <1>0, <1>6 DEF AttemptSucceeds, GrowthInv
  <1>7. CASE UNCHANGED vars
    BY <1>0, <1>7 DEF vars, GrowthInv, Uptime
  <1>8. QED
    BY <1>1, <1>2, <1>3, <1>4, <1>5, <1>6, <1>7 DEF Next

(***************************************************************************)
(* Exponential backoff, when a teardown takes no time: after n failures in *)
(* a row the next attempt waits Initial * 2^(n-1) seconds, or MaxBackoff   *)
(* (transport.py:421-424).  With slow teardowns it does not hold.          *)
(***************************************************************************)
THEOREM ExponentialBackoff ==
    ASSUME PowersDouble, MaxTeardown = 0
    PROVE  Spec => BackoffRespected
  <1>1. Init => GrowthInv
    BY GrowthInit
  <1>2. GrowthInv /\ [Next]_vars => GrowthInv'
    BY GrowthStep
  <1>3. GrowthInv /\ [Next]_vars =>
            [phase # "opening" /\ phase' = "opening" => now >= lostAt + MinDelay(short)]_vars
    <2> SUFFICES ASSUME GrowthInv, Next, phase # "opening", phase' = "opening"
                 PROVE  now >= lostAt + MinDelay(short)
      BY DEF vars
    <2>0. now \in Nat /\ lostAt \in Nat /\ wakeAt \in Nat /\ short \in Nat
      BY DEF GrowthInv, SpacingInv, TypeOK
    <2>1. MinDelay(0) = 0 /\ MinDelay(short) \in Nat
      BY <2>0, DelayFacts
    <2>2. CASE TornDown
      <3>1. now = lostAt /\ short = 0
        BY <2>2 DEF TornDown, Sleep, GrowthInv
      <3>2. QED
        BY <2>0, <2>1, <3>1
    <2>3. CASE Wake
      <3>1. wakeAt >= lostAt + MinDelay(short) /\ now >= wakeAt
        BY <2>3 DEF Wake, GrowthInv
      <3>2. QED
        BY <2>0, <2>1, <3>1
    <2>4. QED
      BY <2>2, <2>3 DEF Next, Tick, Drop, AttemptFails, AttemptSucceeds
  <1>4. QED
    BY <1>1, <1>2, <1>3, PTL DEF Spec, BackoffRespected
=============================================================================
