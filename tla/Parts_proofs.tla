----------------------------- MODULE Parts_proofs -----------------------------
(***************************************************************************)
(* The utilities: for every width of millis(), all delays and every rhythm *)
(* of polls that keeps up, a Delayer never times out early and never very  *)
(* late; for every clock longer than the longest sequence the LED shows    *)
(* the code that was set.  And the four parts side by side: what each of   *)
(* them promises on its own it promises in the device.                     *)
(***************************************************************************)
EXTENDS Parts, WebServer_proofs, HttpRequests_proofs

(* The time since m_lastTime, as the code computes it. *)
Passed == Minus(millis, m_lastTime)

(* The roll-over may hide time from the code, never add any. *)
NeverAhead == Passed <= elapsed

(* How late a delay that is polled in time can be.  Since it was set or timed *)
(* out it has not been polled; or it was found not to be over at the last    *)
(* poll, and what the code does not count is at most the wait for the first  *)
(* poll and, when a roll-over has set m_lastTime to 0, less than one delay.  *)
Late ==
  \/ since <= sincePoll
  \/ /\ sincePoll <= Passed /\ Passed < sincePoll + m_delay
     /\ \/ since <= MaxGap + Passed
        \/ m_lastTime = 0 /\ since < MaxGap + m_delay + Passed

Lateness == isActive /\ ~neglected => Late

DelayInv == DelayTypeOK /\ NeverAhead /\ Lateness

-----------------------------------------------------------------------------
LEMMA DelaysAre ==
  /\ RollOver \in Nat /\ RollOver > 0 /\ MaxGap \in Nat /\ MaxGap > 0
  /\ Horizon \in Nat /\ RollOver <= Horizon
  /\ \A d \in Delays : d \in Nat /\ d < RollOver /\ d + MaxGap <= RollOver
BY DelayerAssumption

(* The type invariant without its Boolean. *)
Ranges ==
  /\ millis \in 0..(RollOver - 1) /\ m_lastTime \in 0..(RollOver - 1)
  /\ m_delay \in Delays
  /\ answer \in {"none", "yes", "no"}
  /\ elapsed \in 0..Horizon /\ since \in 0..Horizon /\ sincePoll \in 0..MaxGap

(* Counting up to a bound. *)
LEMMA UpToCounts ==
  ASSUME NEW bound \in Nat, NEW n \in Nat
  PROVE  UpTo(bound, n) \in 0..bound /\ UpTo(bound, n) <= n /\ (n <= bound => UpTo(bound, n) = n)
BY DEF UpTo

(* A tick adds one to the time that has passed, unless a whole turn of       *)
(* millis() is complete, which then counts for nothing.                      *)
LEMMA TickPasses ==
  ASSUME DelayTypeOK, Tick
  PROVE  /\ DelayTypeOK'
         /\ Passed < RollOver - 1 => Passed' = Passed + 1
         /\ Passed <= RollOver - 1 /\ Passed' <= RollOver - 1
         /\ Passed' <= Passed + 1
         /\ Passed \in Nat /\ Passed' \in Nat
<1> USE DelaysAre DEF DelayTypeOK
<1>1. elapsed' \in 0..Horizon /\ since' \in 0..Horizon /\ sincePoll' \in 0..MaxGap
  BY UpToCounts DEF Tick
<1>2. DelayTypeOK'
  BY <1>1 DEF Tick
<1>3. QED BY <1>2 DEF Tick, Passed, Minus

LEMMA TickInv == DelayInv /\ Tick => DelayInv'
<1> SUFFICES ASSUME DelayInv, Tick PROVE DelayInv'
  OBVIOUS
<1> USE DelaysAre DEF DelayInv
<1>1. DelayTypeOK'
  BY TickPasses
<1>2. NeverAhead'
  <2>1. elapsed' = IF elapsed + 1 < Horizon THEN elapsed + 1 ELSE Horizon
    BY DEF Tick, UpTo
  <2>2. QED BY <2>1, TickPasses DEF NeverAhead, DelayTypeOK
<1>3. Lateness'
  <2> SUFFICES ASSUME isActive, ~neglected'
               PROVE  Late'
    BY DEF Lateness, Tick, isActive
  <2>1. Late /\ sincePoll < MaxGap /\ sincePoll' = sincePoll + 1
    <3>1. ~neglected /\ sincePoll # MaxGap
      BY DEF Tick
    <3>2. sincePoll' = sincePoll + 1 /\ sincePoll < MaxGap
      BY <3>1 DEF Tick, DelayTypeOK, UpTo
    <3>3. QED BY <3>1, <3>2 DEF Lateness
  <2>2. since' <= since + 1 /\ since' \in Nat /\ since \in Nat
    BY UpToCounts DEF Tick, DelayTypeOK
  <2>3. m_delay' = m_delay /\ m_lastTime' = m_lastTime /\ m_delay \in Delays
    BY DEF Tick, DelayTypeOK
  <2>4. CASE since <= sincePoll
    BY <2>1, <2>2, <2>4 DEF Late, DelayTypeOK
  <2>5. CASE /\ sincePoll <= Passed /\ Passed < sincePoll + m_delay
             /\ \/ since <= MaxGap + Passed
                \/ m_lastTime = 0 /\ since < MaxGap + m_delay + Passed
    <3>1. Passed' = Passed + 1
      BY <2>1, <2>3, <2>5, TickPasses DEF DelayTypeOK
    <3>2. QED BY <2>1, <2>2, <2>3, <2>5, <3>1, TickPasses DEF Late, DelayTypeOK
  <2>6. QED BY <2>1, <2>4, <2>5 DEF Late
<1>4. QED BY <1>1, <1>2, <1>3

(* A roll-over takes away at most the p that had passed, less than the delay. *)
LEMMA StillBelow ==
  ASSUME NEW s \in Nat, NEW poll \in Nat, NEW d \in Nat, NEW p \in Nat, NEW q \in Nat,
         poll <= MaxGap, p < d, s <= poll \/ s <= MaxGap + p
  PROVE  s < MaxGap + d + q
<1>1. MaxGap \in Nat
  BY DelayerAssumption
<1>2. QED BY <1>1

(* A poll that answers "yes" restarts the delay, and the delay has passed; a *)
(* poll that answers "no" may lose what passed before the roll-over.         *)
LEMMA PollInv ==
  ASSUME DelayInv, IsTimedOut
  PROVE  DelayInv' /\ (answer' = "yes" => isActive /\ elapsed >= m_delay)
<1> USE DelaysAre DEF DelayInv
<1>1. CASE isActive /\ Reached
  <2>1. /\ m_lastTime' = millis /\ answer' = "yes" /\ elapsed' = 0 /\ since' = 0
        /\ sincePoll' = 0 /\ neglected' = FALSE /\ UNCHANGED <<millis, m_delay>>
    BY <1>1 DEF IsTimedOut, Restarted
  <2>2. DelayTypeOK'
    <3>1. Ranges'
      BY <2>1 DEF DelayTypeOK, Ranges
    <3>2. neglected' \in BOOLEAN
      BY <2>1
    <3>3. QED BY <3>1, <3>2, Zenon DEF DelayTypeOK, Ranges
  <2>3. NeverAhead' /\ Late'
    BY <2>1 DEF DelayTypeOK, NeverAhead, Late, Passed, Minus
  <2>4. elapsed >= m_delay
    BY <1>1 DEF DelayTypeOK, Reached, NeverAhead, Passed, Minus
  <2>5. QED BY <1>1, <2>2, <2>3, <2>4 DEF Lateness
<1>2. CASE ~isActive
  <2>1. /\ answer' = "no" /\ sincePoll' = 0
        /\ UNCHANGED <<millis, m_delay, m_lastTime, elapsed, since, neglected>>
    BY <1>2 DEF IsTimedOut
  <2>2. DelayTypeOK' /\ NeverAhead'
    BY <2>1 DEF DelayTypeOK, NeverAhead, Passed, Minus
  <2>3. ~isActive'
    BY <1>2, <2>1 DEF isActive
  <2>4. QED BY <2>1, <2>2, <2>3 DEF Lateness
<1>3. CASE isActive /\ ~Reached
  <2>1. /\ answer' = "no" /\ sincePoll' = 0
        /\ UNCHANGED <<millis, m_delay, elapsed, since, neglected>>
        /\ m_lastTime' = IF millis < m_lastTime THEN 0 ELSE m_lastTime
    BY <1>3 DEF IsTimedOut
  <2>2. Passed < m_delay /\ Passed' <= Passed /\ Passed' \in Nat /\ Passed \in Nat
    BY <1>3, <2>1 DEF Reached, DelayTypeOK, Passed, Minus
  <2>3. DelayTypeOK' /\ NeverAhead'
    BY <2>1, <2>2 DEF DelayTypeOK, NeverAhead
  <2>4. Late => Late'
    <3>1. CASE millis < m_lastTime
      <4>1. m_lastTime' = 0 /\ m_lastTime # 0
        BY <3>1, <2>1 DEF DelayTypeOK
      <4>2. m_delay \in Nat /\ since \in Nat /\ sincePoll \in Nat /\ sincePoll <= MaxGap
        BY DEF DelayTypeOK
      <4>3. m_delay' = m_delay /\ since' = since /\ sincePoll' = 0
        BY <2>1
      <4>4. ASSUME Late
            PROVE  since < MaxGap + m_delay + Passed'
        <5>1. since <= sincePoll \/ since <= MaxGap + Passed
          BY <4>1, <4>4 DEF Late
        <5>2. Passed \in Nat /\ Passed' \in Nat /\ Passed < m_delay
          BY <2>2
        <5>3. QED BY <5>1, <5>2, <4>2, StillBelow
      <4>5. sincePoll' <= Passed' /\ Passed' < sincePoll' + m_delay'
        BY <4>2, <4>3, <2>2
      <4>6. QED BY <4>1, <4>3, <4>4, <4>5 DEF Late
    <3>2. CASE ~(millis < m_lastTime)
      <4>1. m_lastTime' = m_lastTime
        BY <3>2, <2>1
      <4>2. Passed' = Passed
        BY <4>1, <2>1 DEF Passed
      <4>3. QED BY <4>1, <4>2, <2>1, <2>2 DEF DelayTypeOK, Late
    <3>3. QED BY <3>1, <3>2
  <2>5. QED BY <1>3, <2>1, <2>3, <2>4 DEF Lateness
<1>4. QED BY <1>1, <1>2, <1>3

LEMMA DelayNextInv ==
  ASSUME DelayInv, [DelayNext]_delayVars
  PROVE  DelayInv' /\ (~UNCHANGED delayVars /\ answer' = "yes" => isActive /\ elapsed >= m_delay)
<1> USE DelaysAre
<1>1. CASE Tick
  BY <1>1, TickInv DEF Tick
<1>2. ASSUME NEW d \in Delays, SetDelay(d)
      PROVE  DelayInv' /\ answer' = "none"
  <2>1. DelayTypeOK'
    <3>1. Ranges'
      BY <1>2 DEF SetDelay, DelayInv, DelayTypeOK, Ranges
    <3>2. neglected' \in BOOLEAN
      BY <1>2 DEF SetDelay
    <3>3. QED BY <3>1, <3>2, Zenon DEF DelayTypeOK, Ranges
  <2>2. NeverAhead' /\ Late'
    BY <1>2 DEF SetDelay, DelayInv, DelayTypeOK, NeverAhead, Late, Passed, Minus
  <2>3. QED BY <1>2, <2>1, <2>2 DEF SetDelay, DelayInv, Lateness
<1>3. ASSUME Reset
      PROVE  DelayInv' /\ answer' = "none"
  <2>1. DelayTypeOK'
    <3>1. Ranges'
      BY <1>3 DEF Reset, Restarted, DelayInv, DelayTypeOK, Ranges
    <3>2. neglected' \in BOOLEAN
      BY <1>3 DEF Reset, Restarted
    <3>3. QED BY <3>1, <3>2, Zenon DEF DelayTypeOK, Ranges
  <2>2. NeverAhead' /\ Late'
    BY <1>3 DEF Reset, Restarted, DelayInv, DelayTypeOK, NeverAhead, Late, Passed, Minus
  <2>3. QED BY <1>3, <2>1, <2>2 DEF Reset, DelayInv, Lateness
<1>4. CASE IsTimedOut
  BY <1>4, PollInv
<1>5. CASE UNCHANGED delayVars
  BY <1>5 DEF delayVars, DelayInv, DelayTypeOK, NeverAhead, Passed, Minus, Lateness, Late, isActive
<1>6. QED BY <1>1, <1>2, <1>3, <1>4, <1>5 DEF DelayNext

-----------------------------------------------------------------------------
(* The inductive invariant holds in every reachable state. *)
THEOREM DelayInvariance == DelaySpec => []DelayInv
<1>1. DelayInit => DelayInv
  <2> SUFFICES ASSUME DelayInit PROVE DelayInv
    OBVIOUS
  <2>1. DelayTypeOK
    <3>1. Ranges
      BY DelaysAre DEF DelayInit, Ranges
    <3>2. neglected \in BOOLEAN
      BY DEF DelayInit
    <3>3. QED BY <3>1, <3>2, Zenon DEF DelayTypeOK, Ranges
  <2>2. NeverAhead /\ Late
    BY <2>1, DelaysAre DEF DelayInit, DelayTypeOK, NeverAhead, Passed, Minus, Late
  <2>3. QED BY <2>1, <2>2 DEF DelayInv, Lateness
<1>2. DelayInv /\ [DelayNext]_delayVars => DelayInv'
  BY DelayNextInv
<1>3. QED BY <1>1, <1>2, PTL DEF DelaySpec

(* The fields of a Delayer keep within their ranges. *)
THEOREM DelayTypeCorrect == DelaySpec => []DelayTypeOK
<1>1. DelayInv => DelayTypeOK
  BY DEF DelayInv
<1>2. QED BY <1>1, DelayInvariance, PTL

(* isTimedOut never answers true before the delay has passed.                *)
THEOREM DelayNeverEarly == DelaySpec => NeverEarly
<1>1. DelayInv /\ [DelayNext]_delayVars
        => [answer' = "yes" => isActive /\ elapsed >= m_delay]_delayVars
  BY DelayNextInv
<1>2. QED BY <1>1, DelayInvariance, PTL DEF DelaySpec, NeverEarly

(* A delay that is polled in time ends before it and the time between two    *)
(* polls have passed twice.                                                  *)
THEOREM DelayNotLate == DelaySpec => []NotLate
<1>1. DelayInv => NotLate
  <2> SUFFICES ASSUME DelayInv, isActive, ~neglected
               PROVE  since < 2 * (m_delay + MaxGap)
    BY DEF NotLate
  <2>1. Late
    BY DEF DelayInv, Lateness
  <2>2. Passed \in Int
    BY DelaysAre DEF DelayInv, DelayTypeOK, Passed, Minus
  <2>3. QED
    BY <2>1, <2>2, DelaysAre DEF DelayInv, DelayTypeOK, Late, isActive
<1>2. QED BY <1>1, DelayInvariance, PTL

-----------------------------------------------------------------------------
(* What the setters that have returned have set. *)
SettersDone ==
  /\ setter <= 2 => onTime = Shown.on /\ offTime = Shown.off
  /\ setter <= 1 => pulseCount = Shown.count
  /\ setter = 0 => pauseTime = Shown.pause

(* The blink codes of updateBlinker. *)
Codes == { Pattern(2, 2, 5, 15), Pattern(2, 3, 2, 15), Pattern(10, 10, 1, 0),
           Pattern(20, 20, 1, 0), Pattern(2, 2, 1, 40) }

IsCode == Pattern(onTime, offTime, pulseCount, pauseTime) \in Codes

Duration == PulseTime * pulseCount + pauseTime

(* The level of the pin at a time of the sequence, and the number of pulses  *)
(* that have begun by then.                                                  *)
Level(time) ==
  \E pulse \in 0..(pulseCount - 1) :
    pulse * PulseTime < time /\ time <= pulse * PulseTime + onTime

Begun(n, time) ==
  /\ n \in 0..pulseCount
  /\ \A pulse \in 0..(pulseCount - 1) : pulse * PulseTime < time <=> pulse < n

(* Callbacks since the sequence started. *)
Periods == (clock - lastSequenceStart) % ClockRange

(* In a clean sequence the pin and the count are those of the last callback. *)
Counted ==
  /\ Periods >= 1 /\ 2 * Periods <= Duration + 2
  /\ Periods = 1 => blinks = IF led THEN 1 ELSE 0
  /\ Periods > 1 => led = Level(2 * Periods - 2) /\ Begun(blinks, 2 * Periods - 2)

LedInv ==
  /\ LedTypeOK
  /\ SettersDone
  /\ clean => IsCode
  /\ clean /\ lastSequenceStart # 0 => Counted

-----------------------------------------------------------------------------
(* The clock is the time of a ring of ClockRange periods. *)
LEMMA RingDifference ==
  ASSUME NEW a \in 0..(ClockRange - 1), NEW b \in 0..(ClockRange - 1)
  PROVE  (a - b) % ClockRange = IF a >= b THEN a - b ELSE a - b + ClockRange
BY IndicatorAssumption

LEMMA RingNext ==
  ASSUME NEW a \in 0..(ClockRange - 1)
  PROVE  (a + 1) % ClockRange = IF a = ClockRange - 1 THEN 0 ELSE a + 1
BY IndicatorAssumption

(* A callback advances the time of the sequence by a period, which is 1      *)
(* after a restart.                                                          *)
LEMMA PeriodsNext ==
  ASSUME LedTypeOK, clock' = (clock + 1) % ClockRange
  PROVE  /\ clock' \in 0..(ClockRange - 1)
         /\ Periods \in 0..(ClockRange - 1)
         /\ lastSequenceStart' = lastSequenceStart /\ Periods + 1 < ClockRange => Periods' = Periods + 1
         /\ lastSequenceStart' = clock => Periods' = 1
<1> USE IndicatorAssumption
<1>1. /\ clock \in 0..(ClockRange - 1) /\ lastSequenceStart \in 0..(ClockRange - 1)
      /\ clock' = IF clock = ClockRange - 1 THEN 0 ELSE clock + 1
  BY RingNext DEF LedTypeOK
<1>2. Periods = IF clock >= lastSequenceStart THEN clock - lastSequenceStart
                ELSE clock - lastSequenceStart + ClockRange
  BY <1>1, RingDifference DEF Periods
<1>3. clock' \in 0..(ClockRange - 1)
  BY <1>1
<1>4. ASSUME lastSequenceStart' \in 0..(ClockRange - 1)
      PROVE  Periods' = IF clock' >= lastSequenceStart' THEN clock' - lastSequenceStart'
                        ELSE clock' - lastSequenceStart' + ClockRange
  BY <1>3, <1>4, RingDifference DEF Periods
<1>5. QED BY <1>1, <1>2, <1>3, <1>4

(* The five codes, as numbers. *)
LEMMA CodeCases ==
  ASSUME IsCode, LedTypeOK
  PROVE  \/ onTime = 2 /\ offTime = 2 /\ pulseCount = 5 /\ pauseTime = 15
         \/ onTime = 2 /\ offTime = 3 /\ pulseCount = 2 /\ pauseTime = 15
         \/ onTime = 10 /\ offTime = 10 /\ pulseCount = 1 /\ pauseTime = 0
         \/ onTime = 20 /\ offTime = 20 /\ pulseCount = 1 /\ pauseTime = 0
         \/ onTime = 2 /\ offTime = 2 /\ pulseCount = 1 /\ pauseTime = 40
BY DEF IsCode, Codes, Pattern

(* No pulse or gap of a code is shorter than a period: between two callbacks *)
(* the pin goes on exactly when the next pulse has begun.                    *)
LEMMA NextPulse ==
  ASSUME IsCode, LedTypeOK, NEW d \in Nat, d >= 2, NEW n \in Nat, Begun(n, 2 * d - 2)
  PROVE  Begun(IF Level(2 * d) /\ ~Level(2 * d - 2) THEN n + 1 ELSE n, 2 * d)
<1>1. CASE onTime = 2 /\ offTime = 2 /\ pulseCount = 5 /\ pauseTime = 15
  BY <1>1 DEF Begun, Level, PulseTime
<1>2. CASE onTime = 2 /\ offTime = 3 /\ pulseCount = 2 /\ pauseTime = 15
  BY <1>2 DEF Begun, Level, PulseTime
<1>3. CASE onTime = 10 /\ offTime = 10 /\ pulseCount = 1 /\ pauseTime = 0
  BY <1>3 DEF Begun, Level, PulseTime
<1>4. CASE onTime = 20 /\ offTime = 20 /\ pulseCount = 1 /\ pauseTime = 0
  BY <1>4 DEF Begun, Level, PulseTime
<1>5. CASE onTime = 2 /\ offTime = 2 /\ pulseCount = 1 /\ pauseTime = 40
  BY <1>5 DEF Begun, Level, PulseTime
<1>6. QED BY <1>1, <1>2, <1>3, <1>4, <1>5, CodeCases

LEMMA ShownIsCode == Shown \in Codes /\ Shown = Pattern(Shown.on, Shown.off, Shown.count, Shown.pause)
<1> USE DEF Shown, Codes, Pattern
<1>1. CASE m_wifiState = "DISCONNECTED"
  BY <1>1
<1>2. CASE m_wifiState = "CONNECTING"
  BY <1>2
<1>3. CASE m_wifiState = "PROVISIONING"
  BY <1>3
<1>4. CASE m_wifiState \notin {"DISCONNECTED", "CONNECTING", "PROVISIONING"} /\ m_mqttState = "DISCONNECTED"
  BY <1>4
<1>5. CASE m_wifiState \notin {"DISCONNECTED", "CONNECTING", "PROVISIONING"} /\ m_mqttState # "DISCONNECTED"
  BY <1>5
<1>6. QED BY <1>1, <1>2, <1>3, <1>4, <1>5

(* Every code has a pulse, and every pulse takes time. *)
LEMMA ShownTypes ==
  /\ Shown.on \in Nat \ {0} /\ Shown.off \in Nat
  /\ Shown.count \in 1..255 /\ Shown.pause \in Nat
BY ShownIsCode DEF Codes, Pattern

LEMMA SettledIsCode == LedInv /\ setter = 0 => IsCode
BY ShownIsCode DEF LedInv, SettersDone, IsCode

(* The event loop's setters and states leave a clean sequence as it is. *)
LEMMA SetterInv ==
  ASSUME LedInv, SetterNext \/ StatusNext
  PROVE  LedInv'
<1>1. /\ clock' = clock /\ lastSequenceStart' = lastSequenceStart /\ led' = led
      /\ clean' => (clean /\ blinks' = blinks /\ pattern' = pattern)
      /\ clean' \in BOOLEAN /\ blinks' \in Nat
  <2>1. CASE StatusNext
    BY <2>1 DEF StatusNext, SetWifiState, SetMqttState, pattern, ledHistory, LedInv, LedTypeOK
  <2>2. ASSUME NEW n \in 1..3, Set(n)
        PROVE  /\ clock' = clock /\ lastSequenceStart' = lastSequenceStart /\ led' = led
               /\ clean' => (clean /\ blinks' = blinks /\ pattern' = pattern)
               /\ clean' \in BOOLEAN /\ blinks' \in Nat
    <3>1. /\ clock' = clock /\ lastSequenceStart' = lastSequenceStart /\ led' = led
          /\ clean' = (clean /\ pattern' = pattern)
          /\ blinks' = IF clean /\ pattern' = pattern THEN blinks ELSE 0
      BY <2>2 DEF Set, Count
    <3>2. CASE clean /\ pattern' = pattern
      BY <3>1, <3>2 DEF LedInv, LedTypeOK
    <3>3. CASE ~(clean /\ pattern' = pattern)
      BY <3>1, <3>3
    <3>4. QED BY <3>2, <3>3
  <2>3. QED
    BY <2>1, <2>2 DEF SetterNext, SetPulseTime, SetPulseCount, SetPauseTime
<1>2. LedTypeOK'
  <2>1. torn' \in BOOLEAN
    BY DEF SetterNext, StatusNext, SetPulseTime, SetPulseCount, SetPauseTime, Set,
           SetWifiState, SetMqttState, ledHistory, LedInv, LedTypeOK
  <2>2. CASE StatusNext
    BY <1>1, <2>1, <2>2 DEF LedInv, LedTypeOK, StatusNext, SetWifiState, SetMqttState, pattern
  <2>3. CASE SetterNext
    <3>1. /\ onTime' \in {onTime, Shown.on} /\ offTime' \in {offTime, Shown.off}
          /\ pulseCount' \in {pulseCount, Shown.count} /\ pauseTime' \in {pauseTime, Shown.pause}
      BY <2>3 DEF SetterNext, SetPulseTime, SetPulseCount, SetPauseTime
    <3>2. setter' \in 0..3 /\ UNCHANGED <<m_wifiState, m_mqttState>>
      BY <2>3 DEF SetterNext, SetPulseTime, SetPulseCount, SetPauseTime, Set
    <3>3. QED BY <1>1, <2>1, <3>1, <3>2, ShownTypes DEF LedInv, LedTypeOK
  <2>4. QED BY <2>2, <2>3
<1>3. SettersDone'
  <2>1. CASE SetterNext
    <3>1. Shown' = Shown
      BY <2>1 DEF SetterNext, SetPulseTime, SetPulseCount, SetPauseTime, Set, Shown
    <3>2. QED BY <2>1, <3>1 DEF LedInv, LedTypeOK, SettersDone, SetterNext, SetPulseTime, SetPulseCount, SetPauseTime, Set
  <2>2. CASE StatusNext
    BY <2>2 DEF StatusNext, SetWifiState, SetMqttState, SettersDone
  <2>3. QED BY <2>1, <2>2
<1>4. clean' => IsCode'
  BY <1>1 DEF LedInv, IsCode, pattern
<1>5. clean' /\ lastSequenceStart' # 0 => Counted'
  BY <1>1 DEF LedInv, Counted, Periods, Duration, PulseTime, Level, Begun, pattern
<1>6. QED BY <1>2, <1>3, <1>4, <1>5 DEF LedInv

(* What every callback does. *)
LEMMA CallbackTypes ==
  ASSUME LedInv, NEW on \in BOOLEAN, SetLevel(on), lastSequenceStart' \in {clock, lastSequenceStart},
         clean' \in BOOLEAN, blinks' \in Nat
  PROVE  LedTypeOK' /\ SettersDone' /\ IsCode' = IsCode
<1>1. clock' \in 0..(ClockRange - 1)
  BY PeriodsNext DEF LedInv, SetLevel
<1>2. Shown' = Shown
  BY DEF SetLevel, Shown
<1>3. LedTypeOK'
  BY <1>1 DEF LedInv, LedTypeOK, SetLevel, pattern
<1>4. SettersDone'
  BY <1>2 DEF LedInv, SettersDone, SetLevel, pattern
<1>5. QED BY <1>3, <1>4 DEF IsCode, SetLevel, pattern

(* A code lasts between 20 and 44 units: less than the clock's range. *)
LEMMA DurationIs ==
  ASSUME IsCode, LedTypeOK
  PROVE  Duration \in 20..44
BY CodeCases DEF Duration, PulseTime

(* A callback that starts a sequence. *)
LEMMA StartInv ==
  ASSUME LedInv, FirstCallback \/ RestartSequence(FALSE) \/ RestartSequence(TRUE)
  PROVE  LedInv'
<1>1. PICK on \in BOOLEAN : /\ lastSequenceStart' = clock
                            /\ SetLevel(on) /\ Count(setter = 0, IF on THEN 1 ELSE 0)
  <2>1. FirstCallback => SetLevel(TRUE) /\ Count(setter = 0, 1) /\ lastSequenceStart' = clock
    BY DEF FirstCallback
  <2>2. \A late \in BOOLEAN : RestartSequence(late) =>
          SetLevel(FALSE) /\ Count(setter = 0, 0) /\ lastSequenceStart' = clock
    BY DEF RestartSequence
  <2>3. QED BY <2>1, <2>2
<1>2. /\ clean' = (setter = 0) /\ led' = on
      /\ blinks' = IF setter = 0 THEN (IF on THEN 1 ELSE 0) ELSE 0
  BY <1>1 DEF Count, SetLevel
<1>3. clean' \in BOOLEAN /\ blinks' \in Nat
  BY <1>2
<1>4. LedTypeOK' /\ SettersDone' /\ IsCode' = IsCode
  BY <1>1, <1>3, CallbackTypes
<1>5. ASSUME clean'
      PROVE  IsCode' /\ Counted'
  <2>1. setter = 0
    BY <1>2, <1>5
  <2>2. IsCode'
    BY <2>1, <1>4, SettledIsCode
  <2>3. Periods' = 1
    BY <1>1, PeriodsNext DEF LedInv, SetLevel
  <2>4. PICK length \in 20..44 : Duration' = length
    <3>1. IsCode /\ Duration \in 20..44
      BY <2>2, <1>4, DurationIs DEF LedInv
    <3>2. Duration' = Duration
      BY <1>1 DEF SetLevel, pattern, Duration, PulseTime
    <3>3. QED BY <3>1, <3>2
  <2>5. blinks' = IF led' THEN 1 ELSE 0
    BY <1>2, <2>1
  <2>6. QED BY <2>2, <2>3, <2>4, <2>5 DEF Counted
<1>6. QED BY <1>4, <1>5 DEF LedInv

(* A callback within a sequence. *)
LEMMA CallbackInv ==
  ASSUME LedInv, NEW late \in BOOLEAN, Callback(late)
  PROVE  LedInv'
<1>1. /\ lastSequenceStart # 0 /\ lastSequenceStart' = lastSequenceStart
      /\ ~SequenceOver(late) /\ SetLevel(InPulse(late))
      /\ clean' = (clean /\ ~late)
      /\ blinks' = IF clean /\ ~late THEN (IF led' /\ ~led THEN blinks + 1 ELSE blinks) ELSE 0
  BY DEF Callback, Count
<1>2. clean' \in BOOLEAN /\ blinks' \in Nat
  BY <1>1 DEF LedInv, LedTypeOK
<1>3. InPulse(late) \in BOOLEAN
  BY DEF InPulse
<1>4. LedTypeOK' /\ SettersDone' /\ IsCode' = IsCode
  BY <1>1, <1>2, <1>3, CallbackTypes
<1>5. ASSUME clean'
      PROVE  IsCode' /\ Counted'
  <2>1. clean /\ late = FALSE
    BY <1>1, <1>5
  <2>2. IsCode /\ IsCode' /\ Counted
    BY <2>1, <1>1, <1>4 DEF LedInv
  <2>3. LedTypeOK
    BY DEF LedInv
  <2>0. PICK d \in Nat : d = Periods
    BY <1>1, <2>3, PeriodsNext, IndicatorAssumption DEF SetLevel
  <2>4. SequenceTime = 2 * d
    BY <2>0 DEF SequenceTime, Periods
  <2>5. d >= 1 /\ 2 * d <= Duration /\ Duration \in 20..44
    <3>1. d \in 0..(ClockRange - 1) /\ Duration \in 20..44
      BY <2>0, <1>1, <2>2, <2>3, PeriodsNext, DurationIs DEF SetLevel
    <3>2. Before(Duration, FALSE)
      BY <1>1, <2>1 DEF SequenceOver, Duration
    <3>3. 2 * d <= Duration
      BY <2>4, <3>1, <3>2, IndicatorAssumption DEF Before
    <3>4. QED BY <2>0, <2>2, <3>1, <3>3, IndicatorAssumption DEF Counted
  <2>6. Periods' = d + 1 /\ Duration' = Duration
    <3>1. d + 1 < ClockRange
      BY <2>5, IndicatorAssumption
    <3>2. Periods' = d + 1
      BY <2>0, <1>1, <2>3, <3>1, PeriodsNext DEF SetLevel
    <3>3. QED BY <1>1, <3>2 DEF SetLevel, pattern, Duration, PulseTime
  <2>7. led' = Level(2 * d)
    <3>1. led' = InPulse(FALSE)
      BY <1>1, <2>1 DEF SetLevel
    <3>2. \A t \in Nat : Before(t, FALSE) <=> 2 * d <= t
      BY <2>4, <2>5 DEF Before
    <3>3. InPulse(FALSE) <=> Level(2 * d)
      <4>1. \A pulse \in 0..(pulseCount - 1) :
               /\ pulse * PulseTime \in Nat /\ pulse * PulseTime + onTime \in Nat
               /\ pulse = 0 => pulse * PulseTime = 0
        BY <2>3 DEF LedTypeOK, PulseTime
      <4>2. \A pulse \in 0..(pulseCount - 1) :
               ((pulse > 0 => ~Before(pulse * PulseTime, FALSE)) /\ Before(pulse * PulseTime + onTime, FALSE))
                 <=> (pulse * PulseTime < 2 * d /\ 2 * d <= pulse * PulseTime + onTime)
        <5> TAKE pulse \in 0..(pulseCount - 1)
        <5> DEFINE begin == pulse * PulseTime
        <5>1. begin \in Nat /\ begin + onTime \in Nat /\ (pulse = 0 => begin = 0)
          BY <4>1
        <5>2. pulse \in Int /\ pulse >= 0
          BY <2>3 DEF LedTypeOK
        <5> HIDE DEF begin
        <5>3. ((pulse > 0 => ~Before(begin, FALSE)) /\ Before(begin + onTime, FALSE))
                 <=> (begin < 2 * d /\ 2 * d <= begin + onTime)
          <6>1. Before(begin, FALSE) <=> 2 * d <= begin
            BY <3>2, <5>1
          <6>2. Before(begin + onTime, FALSE) <=> 2 * d <= begin + onTime
            BY <3>2, <5>1
          <6>3. pulse = 0 \/ pulse > 0
            BY <5>2
          <6>4. 2 * d > 0 /\ 2 * d \in Nat
            BY <2>5
          <6>5. begin < 2 * d <=> ~(2 * d <= begin)
            BY <5>1
          <6>6. pulse = 0 => begin < 2 * d
            BY <6>4, <5>1
          <6>7. pulse = 0 => ~(pulse > 0)
            OBVIOUS
          <6>8. QED BY <6>1, <6>2, <6>3, <6>5, <6>6, <6>7
        <5>4. QED BY <5>3 DEF begin
      <4>3. QED BY <4>2 DEF InPulse, Level
    <3>4. QED BY <3>1, <3>3 DEF InPulse, Level
  <2>8. Begun(blinks', 2 * d)
    <3>1. blinks \in Nat /\ blinks' = IF led' /\ ~led THEN blinks + 1 ELSE blinks
      BY <1>1, <2>1, <2>3 DEF LedTypeOK
    <3>2. CASE d = 1
      <4>1. blinks = IF led THEN 1 ELSE 0
        BY <2>0, <2>2, <3>2 DEF Counted
      <4>2. Level(2) /\ Begun(1, 2)
        <5>1. CASE onTime = 2 /\ offTime = 2 /\ pulseCount = 5
          BY <5>1 DEF Level, Begun, PulseTime
        <5>2. CASE onTime = 2 /\ offTime = 3 /\ pulseCount = 2
          BY <5>2 DEF Level, Begun, PulseTime
        <5>3. CASE pulseCount = 1 /\ onTime \in {2, 10, 20} /\ offTime \in {2, 10, 20}
          BY <5>3 DEF Level, Begun, PulseTime
        <5>4. QED BY <5>1, <5>2, <5>3, <2>2, <2>3, CodeCases
      <4>3. blinks' = 1
        BY <3>1, <3>2, <4>1, <4>2, <2>7
      <4>4. QED BY <3>2, <4>2, <4>3
    <3>3. CASE d > 1
      <4>1. led = Level(2 * d - 2) /\ Begun(blinks, 2 * d - 2)
        BY <2>0, <2>2, <3>3 DEF Counted
      <4>2. Begun(IF Level(2 * d) /\ ~Level(2 * d - 2) THEN blinks + 1 ELSE blinks, 2 * d)
        BY <2>2, <2>3, <2>5, <3>1, <3>3, <4>1, NextPulse
      <4>3. QED BY <3>1, <4>1, <4>2, <2>7
    <3>4. QED BY <3>2, <3>3, <2>5
  <2>9. Counted'
    <3>1. pulseCount' = pulseCount /\ onTime' = onTime /\ PulseTime' = PulseTime
      BY <1>1 DEF SetLevel, pattern, PulseTime
    <3>2. /\ Periods' > 1 /\ 2 * Periods' <= Duration' + 2 /\ 2 * Periods' - 2 = 2 * d
      BY <2>5, <2>6
    <3>3. led' = Level(2 * d)' /\ Begun(blinks', 2 * d)
      BY <2>7, <2>8, <3>1 DEF Level
    <3>4. Periods' >= 1 /\ ~(Periods' = 1)
      BY <2>5, <2>6
    <3>5. led' = Level(2 * Periods - 2)' /\ Begun(blinks', 2 * Periods' - 2)
      BY <3>2, <3>3 DEF Level
    <3>6. Begun(blinks, 2 * Periods - 2)'
      BY <3>1, <3>5 DEF Begun
    <3>7. QED BY <3>2, <3>4, <3>5, <3>6 DEF Counted
  <2>10. QED BY <2>2, <2>9
<1>6. QED BY <1>4, <1>5 DEF LedInv

(* The inductive invariant holds initially and in every step. *)
LEMMA LedInitInv == LedInit => LedInv
<1> SUFFICES ASSUME LedInit PROVE LedInv
  OBVIOUS
<1>1. LedTypeOK
  <2>1. /\ 0 \in 0..(ClockRange - 1) /\ clock \in 0..(ClockRange - 1)
        /\ m_wifiState \in WifiState /\ m_mqttState \in MqttState
    BY IndicatorAssumption DEF LedInit, WifiState, MqttState
  <2>2. led \in BOOLEAN /\ torn \in BOOLEAN /\ clean \in BOOLEAN /\ lastSequenceStart = 0
    BY DEF LedInit
  <2>3. /\ onTime \in Nat \ {0} /\ pulseCount \in 1..255 /\ setter \in 0..3
        /\ offTime \in Nat /\ pauseTime \in Nat /\ blinks \in Nat
    BY DEF LedInit
  <2>4. QED BY <2>1, <2>2, <2>3 DEF LedTypeOK
<1>2. SettersDone /\ ~clean
  BY DEF LedInit, SettersDone
<1>3. QED BY <1>1, <1>2 DEF LedInv

LEMMA LedNextInv == LedInv /\ [LedNext]_ledVars => LedInv'
<1> SUFFICES ASSUME LedInv, [LedNext]_ledVars PROVE LedInv'
  OBVIOUS
<1>1. CASE TimerNext
  BY <1>1, StartInv, CallbackInv DEF TimerNext, LateCallback
<1>2. CASE SetterNext \/ StatusNext
  BY <1>2, SetterInv
<1>3. CASE UNCHANGED ledVars
  <2>1. /\ UNCHANGED <<m_wifiState, m_mqttState, setter, clock, lastSequenceStart, led, torn, clean, blinks>>
        /\ UNCHANGED <<onTime, offTime, pulseCount, pauseTime>>
    BY <1>3 DEF ledVars, pattern, ledHistory
  <2>2. LedTypeOK' /\ SettersDone'
    BY <2>1 DEF LedInv, LedTypeOK, SettersDone, Shown
  <2>3. IsCode' = IsCode /\ (Counted => Counted')
    BY <2>1 DEF IsCode, Counted, Periods, Duration, PulseTime, Level, Begun
  <2>4. QED BY <2>1, <2>2, <2>3 DEF LedInv
<1>4. QED BY <1>1, <1>2, <1>3 DEF LedNext

(* No callback finds a pattern without pulses, or pulses that take no time.  *)
THEOREM LedTypeCorrect == LedSpec => []LedTypeOK
<1>1. LedInv => LedTypeOK
  BY DEF LedInv
<1>2. QED BY <1>1, LedInitInv, LedNextInv, PTL DEF LedSpec

(* The LED goes on as often as the code says, for every range of the clock   *)
(* that is longer than the longest sequence, wherever in it a sequence lies. *)
THEOREM LedShowsPulses == LedSpec => PulsesShown
<1>1. LedInv /\ [LedNext]_ledVars => (RestartSequence(FALSE) /\ clean /\ setter = 0 => blinks = Shown.count)
  <2> SUFFICES ASSUME LedInv, RestartSequence(FALSE), clean, setter = 0
               PROVE  blinks = Shown.count
    OBVIOUS
  <2>1. Counted /\ IsCode /\ LedTypeOK /\ pulseCount = Shown.count
    BY DEF LedInv, SettersDone, RestartSequence
  <2>2. PICK d \in Nat : d = Periods
    BY <2>1, PeriodsNext, IndicatorAssumption DEF RestartSequence, SetLevel
  <2>3. Duration \in 20..44
    BY <2>1, DurationIs
  <2>4. 2 * d > Duration
    <3>1. ~Before(Duration, FALSE) /\ SequenceTime = 2 * d
      BY <2>2 DEF RestartSequence, SequenceOver, Duration, SequenceTime, Periods
    <3>2. QED BY <3>1, <2>3 DEF Before
  <2>5. Begun(blinks, 2 * d - 2)
    BY <2>1, <2>2, <2>3, <2>4 DEF Counted
  <2>6. blinks = pulseCount
    BY <2>1, <2>4, <2>5, CodeCases DEF Begun, Duration, PulseTime
  <2>7. QED BY <2>1, <2>6
<1>2. QED BY <1>1, LedInitInv, LedNextInv, PTL DEF LedSpec, PulsesShown

-----------------------------------------------------------------------------
(* Every behaviour of the device is one of each part (Parts.tla).            *)
LEMMA PartsAreIndependent == PartsSpec => Spec /\ LedSpec /\ DelaySpec /\ HttpSpec
<1>1. PartsInit => Init /\ LedInit /\ DelayInit /\ HttpInit
  BY DEF PartsInit
<1>2. [PartsNext]_partsVars => [Next]_webVars
  BY DEF PartsNext, WebPart, LedPart, DelayPart, HttpPart, partsVars
<1>3. [PartsNext]_partsVars => [LedNext]_ledVars
  BY DEF PartsNext, WebPart, LedPart, DelayPart, HttpPart, partsVars
<1>4. [PartsNext]_partsVars => [DelayNext]_delayVars
  BY DEF PartsNext, WebPart, LedPart, DelayPart, HttpPart, partsVars
<1>5. [PartsNext]_partsVars => [HttpNext]_httpVars
  BY DEF PartsNext, WebPart, LedPart, DelayPart, HttpPart, partsVars
<1>6. QED BY <1>1, <1>2, <1>3, <1>4, <1>5, PTL DEF PartsSpec, Spec, LedSpec, DelaySpec, HttpSpec

(* Type correctness of all four, with the two assumptions of the code that   *)
(* PartsTypeOK holds: room for the terminating zero, pulses that last.       *)
THEOREM PartsTypeCorrect == PartsSpec => []PartsTypeOK
<1>1. WebTypeOK /\ LedTypeOK /\ DelayTypeOK /\ HttpTypeOK => PartsTypeOK
  BY DEF PartsTypeOK
<1>2. QED
  BY <1>1, PartsAreIndependent, WebTypeCorrect, LedTypeCorrect, DelayTypeCorrect,
     HttpTypeCorrect, PTL

(* What the parts promise on their own holds of the device.                  *)
THEOREM PartsKeepPromises ==
  PartsSpec => /\ [](EveryEndpointServed /\ NotLate /\ MemoryReturned /\ AnsweredOnce)
               /\ NeverEarly /\ PulsesShown /\ HandlerAdvances
BY PartsAreIndependent, NoEndpointMissed, DelayNotLate, HttpReturnsMemory, HttpAnswersOnce,
   DelayNeverEarly, LedShowsPulses, HttpHandlerAdvances, PTL
=============================================================================
