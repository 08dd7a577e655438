------------------------------- MODULE Delayer -------------------------------
(***************************************************************************)
(* utility/Delayer.cpp: a delay that a loop polls with isTimedOut, against *)
(* the roll-over of millis(), an unsigned number of RollOver values.  One  *)
(* task owns a Delayer; time passes between any two of its calls.          *)
(***************************************************************************)
EXTENDS Integers

CONSTANTS
  RollOver,  \* 2^32: unsigned long has 32 bits
  Delays,    \* the delays that are set
  MaxGap,    \* the longest time between two polls of a loop that keeps up
  Horizon    \* the history variables count time up to here

ASSUME DelayerAssumption ==
  /\ RollOver \in Nat \ {0}
  /\ Delays \subseteq 0..(RollOver - 1) /\ Delays # {}
  /\ MaxGap \in Nat \ {0}
  /\ \A d \in Delays : d + MaxGap <= RollOver /\ 2 * (d + MaxGap) <= Horizon
  /\ Horizon \in Nat /\ RollOver <= Horizon

VARIABLES
  millis,      \* what millis() returns
  m_delay, m_lastTime,
  answer,      \* what the call just made to isTimedOut returned, or "none"
  elapsed,     \* history: time since the last time-out or reset
  since,       \* history: time since the last time-out, reset or setDelay
  sincePoll,   \* history: time since isTimedOut was called
  neglected    \* history: polls were further apart than MaxGap

delayVars == <<millis, m_delay, m_lastTime, answer, elapsed, since, sincePoll, neglected>>

(* The difference of two unsigned numbers. *)
Minus(a, b) == IF a >= b THEN a - b ELSE a - b + RollOver

UpTo(bound, n) == IF n < bound THEN n ELSE bound

DelayInit ==
  /\ millis \in 0..(RollOver - 1) /\ m_delay \in Delays /\ m_lastTime = 0
  /\ answer = "none"
  /\ elapsed = millis /\ since = 0 /\ sincePoll = 0 /\ neglected = FALSE

Tick ==
  /\ millis' = IF millis = RollOver - 1 THEN 0 ELSE millis + 1
  /\ elapsed' = UpTo(Horizon, elapsed + 1)
  /\ since' = UpTo(Horizon, since + 1)
  /\ sincePoll' = UpTo(MaxGap, sincePoll + 1)
  /\ neglected' = (neglected \/ sincePoll = MaxGap)
  /\ answer' = "none"
  /\ UNCHANGED <<m_delay, m_lastTime>>

(* setDelay; disable is setDelay(0) *)
SetDelay(delayMs) ==
  /\ m_delay' = delayMs
  /\ since' = 0 /\ sincePoll' = 0 /\ neglected' = FALSE
  /\ answer' = "none"
  /\ UNCHANGED <<millis, m_lastTime, elapsed>>

Restarted == elapsed' = 0 /\ since' = 0 /\ neglected' = FALSE

Reset ==
  /\ m_lastTime' = millis
  /\ Restarted /\ sincePoll' = 0
  /\ answer' = "none"
  /\ UNCHANGED <<millis, m_delay>>

isActive == m_delay > 0

(* Mutant: the sum in place of the difference. *)
ReachedBySum == millis >= (m_lastTime + m_delay) % RollOver

(* currentTime - m_lastTime >= m_delay, also the test of peek *)
Reached == Minus(millis, m_lastTime) >= m_delay

(* Mutant: a signed difference, and nothing for the roll-over. *)
IsTimedOutSigned ==
  /\ IF isActive /\ millis - m_lastTime >= m_delay
       THEN m_lastTime' = millis /\ answer' = "yes" /\ Restarted
       ELSE answer' = "no" /\ UNCHANGED <<m_lastTime, elapsed, since, neglected>>
  /\ sincePoll' = 0
  /\ UNCHANGED <<millis, m_delay>>

IsTimedOut ==
  /\ IF isActive /\ Reached
       THEN m_lastTime' = millis /\ answer' = "yes" /\ Restarted
       ELSE /\ m_lastTime' = IF isActive /\ millis < m_lastTime THEN 0 ELSE m_lastTime
            /\ answer' = "no"
            /\ UNCHANGED <<elapsed, since, neglected>>
  /\ sincePoll' = 0
  /\ UNCHANGED <<millis, m_delay>>

DelayNext == Tick \/ (\E d \in Delays : SetDelay(d)) \/ Reset \/ IsTimedOut

DelaySpec == DelayInit /\ [][DelayNext]_delayVars

-----------------------------------------------------------------------------
(* Type invariant: numbers within their ranges. *)
DelayTypeOK ==
  /\ millis \in 0..(RollOver - 1) /\ m_lastTime \in 0..(RollOver - 1)
  /\ m_delay \in Delays
  /\ answer \in {"none", "yes", "no"}
  /\ elapsed \in 0..Horizon /\ since \in 0..Horizon /\ sincePoll \in 0..MaxGap
  /\ neglected \in BOOLEAN

(* Delayer.h: isTimedOut returns true only when the delay is active and has  *)
(* passed since the last time-out or reset, however often millis() rolls     *)
(* over and whenever setDelay is called.                                     *)
NeverEarly == [][answer' = "yes" => isActive /\ elapsed >= m_delay]_delayVars

(* Delayer.cpp:53: "the delayer should continue to produce time-outs" with a *)
(* little skipping: polled in time, an active delay times out before it and  *)
(* the time between two polls have passed twice.                             *)
NotLate == isActive /\ ~neglected => since < 2 * (m_delay + MaxGap)
=============================================================================
