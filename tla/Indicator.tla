------------------------------ MODULE Indicator ------------------------------
(***************************************************************************)
(* status/Status.cpp and utility/LedBlinker.cpp: the event loop's task     *)
(* sets the pattern of the LED with three setters, the timer's task reads  *)
(* it every 100 ms in shouldBeOn, without a lock.                          *)
(*                                                                         *)
(* Times are in units of 50 ms, the clock advances by a timer period.  The *)
(* int that holds esp_timer_get_time() rolls over: ClockRange periods.     *)
(* A callback may come late, by more than the millisecond shouldBeOn       *)
(* rounds away: it then sees the phase after a boundary, not the one       *)
(* before it.  The three setters take less than a period.                  *)
(***************************************************************************)
EXTENDS Integers

CONSTANT ClockRange
ASSUME IndicatorAssumption == ClockRange \in Nat /\ ClockRange > 23

WifiState == {"CONNECTING", "PROVISIONING", "CONNECTED", "DISCONNECTED"}
MqttState == {"CONNECTED", "DISCONNECTED"}

VARIABLES
  m_wifiState, m_mqttState,
  setter,             \* the setters updateBlinker has yet to call: 3..0
  onTime, offTime, pulseCount, pauseTime,   \* of LedBlinkerP
  clock,              \* esp_timer_get_time, in periods
  lastSequenceStart,
  led,                \* the level of the pin
  torn,               \* history: a callback read a half-set pattern
  clean,              \* history: since the sequence began the pattern has
                      \* not changed and no callback was late
  blinks              \* history: times the LED went on in this clean sequence

pattern == <<onTime, offTime, pulseCount, pauseTime>>
ledHistory == <<torn, clean, blinks>>
ledVars == <<m_wifiState, m_mqttState, setter, pattern, clock, lastSequenceStart, led, ledHistory>>

Pattern(on, off, count, pause) == [on |-> on, off |-> off, count |-> count, pause |-> pause]

(* The switch of updateBlinker. *)
Shown ==
  CASE m_wifiState = "DISCONNECTED" -> Pattern(2, 2, 5, 15)
    [] m_wifiState = "CONNECTING"   -> Pattern(2, 3, 2, 15)
    [] m_wifiState = "PROVISIONING" -> Pattern(10, 10, 1, 0)
    [] m_mqttState = "DISCONNECTED" -> Pattern(20, 20, 1, 0)
    [] OTHER                        -> Pattern(2, 2, 1, 40)

(* Status::Status: the defaults of LedBlinkerP, the timer runs.              *)
LedInit ==
  /\ m_wifiState = "DISCONNECTED" /\ m_mqttState = "DISCONNECTED"
  /\ setter = 3
  /\ onTime = 2 /\ offTime = 2 /\ pulseCount = 2 /\ pauseTime = 15
  /\ clock \in 0..(ClockRange - 1)
  /\ lastSequenceStart = 0 /\ led = FALSE
  /\ torn = FALSE /\ clean = FALSE /\ blinks = 0

-----------------------------------------------------------------------------
(* The event loop's task *)

SetWifiState(state) ==
  /\ setter = 0
  /\ m_wifiState' = state /\ setter' = 3
  /\ UNCHANGED <<m_mqttState, pattern, clock, lastSequenceStart, led, ledHistory>>

SetMqttState(state) ==
  /\ setter = 0
  /\ m_mqttState' = state /\ setter' = 3
  /\ UNCHANGED <<m_wifiState, pattern, clock, lastSequenceStart, led, ledHistory>>

Count(isClean, n) == clean' = isClean /\ blinks' = IF isClean THEN n ELSE 0

Set(n) ==
  /\ setter = n /\ setter' = n - 1
  /\ torn' = (torn /\ n > 1)
  /\ Count(clean /\ pattern' = pattern, blinks)
  /\ UNCHANGED <<m_wifiState, m_mqttState, clock, lastSequenceStart, led>>

SetPulseTime ==
  /\ onTime' = Shown.on /\ offTime' = Shown.off
  /\ UNCHANGED <<pulseCount, pauseTime>>
  /\ Set(3)

(* Mutant: the case of PROVISIONING lacks its setPulseCount. *)
SetPulseCountMissing ==
  /\ pulseCount' = IF m_wifiState = "PROVISIONING" THEN pulseCount ELSE Shown.count
  /\ UNCHANGED <<onTime, offTime, pauseTime>>
  /\ Set(2)

SetPulseCount ==
  /\ pulseCount' = Shown.count
  /\ UNCHANGED <<onTime, offTime, pauseTime>>
  /\ Set(2)

SetPauseTime ==
  /\ pauseTime' = Shown.pause
  /\ UNCHANGED <<onTime, offTime, pulseCount>>
  /\ Set(1)

-----------------------------------------------------------------------------
(* led_update_callback *)

(* Mutant: the difference of longer numbers, of which only one rolled over.  *)
SequenceTimeSigned == 2 * (clock - lastSequenceStart)

(* currentTime - lastSequenceStart of two ints, in units *)
SequenceTime == 2 * ((clock - lastSequenceStart) % ClockRange)

(* sequenceTime <= testTime *)
Before(testTime, late) == SequenceTime < testTime \/ (SequenceTime = testTime /\ ~late)

PulseTime == onTime + offTime

(* The loop over the pulses: within the on-time of one of them. *)
InPulse(late) ==
  \E pulse \in 0..(pulseCount - 1) :
    /\ pulse > 0 => ~Before(pulse * PulseTime, late)
    /\ Before(pulse * PulseTime + onTime, late)

SequenceOver(late) == ~Before(PulseTime * pulseCount + pauseTime, late)

SetLevel(on) ==
  /\ led' = on
  /\ clock' = (clock + 1) % ClockRange
  /\ torn' = (setter \in 1..2)
  /\ UNCHANGED <<m_wifiState, m_mqttState, setter, pattern>>

Ready == setter \in 1..2 => ~torn

(* lastSequenceStart = 0 means not set, and is what the clock may show when  *)
(* a sequence starts.                                                        *)
FirstCallback ==
  /\ Ready /\ lastSequenceStart = 0
  /\ lastSequenceStart' = clock
  /\ SetLevel(TRUE)
  /\ Count(setter = 0, 1)

Callback(late) ==
  /\ Ready /\ lastSequenceStart # 0 /\ ~SequenceOver(late)
  /\ SetLevel(InPulse(late))
  /\ Count(clean /\ ~late, IF led' /\ ~led THEN blinks + 1 ELSE blinks)
  /\ UNCHANGED lastSequenceStart

RestartSequence(late) ==
  /\ Ready /\ lastSequenceStart # 0 /\ SequenceOver(late)
  /\ SetLevel(FALSE)
  /\ lastSequenceStart' = clock
  /\ Count(setter = 0, 0)

LateCallback == Callback(TRUE) \/ RestartSequence(TRUE)
TimerNext == FirstCallback \/ Callback(FALSE) \/ RestartSequence(FALSE) \/ LateCallback

SetterNext == SetPulseTime \/ SetPulseCount \/ SetPauseTime

StatusNext ==
  \/ \E state \in WifiState : SetWifiState(state)
  \/ \E state \in MqttState : SetMqttState(state)

LedNext == TimerNext \/ SetterNext \/ StatusNext

(* The timer fires, a setter that was called returns. *)
LedFairness == WF_ledVars(TimerNext) /\ WF_ledVars(SetterNext)

LedSpec == LedInit /\ [][LedNext]_ledVars

-----------------------------------------------------------------------------
(* Type invariant.  LedBlinker.cpp:33-34: both assertions of shouldBeOn hold  *)
(* in every pattern a callback may find, the half-set ones included.          *)
LedTypeOK ==
  /\ m_wifiState \in WifiState /\ m_mqttState \in MqttState
  /\ setter \in 0..3
  /\ onTime \in Nat \ {0} /\ pulseCount \in 1..255
  /\ offTime \in Nat /\ pauseTime \in Nat
  /\ clock \in 0..(ClockRange - 1) /\ lastSequenceStart \in 0..(ClockRange - 1)
  /\ led \in BOOLEAN /\ torn \in BOOLEAN /\ clean \in BOOLEAN /\ blinks \in Nat

(* README, Status: the LED goes on as often as the blink code of the status  *)
(* says, in every sequence that began after the code was set and in which no *)
(* callback was late.                                                        *)
PulsesShown ==
  [][RestartSequence(FALSE) /\ clean /\ setter = 0 => blinks = Shown.count]_ledVars

Calm == <>[][~StatusNext /\ ~LateCallback]_ledVars

(* LedBlinker.cpp:39: whatever patterns were half set before, and across the *)
(* roll-over of the clock, the LED keeps going on and off.                   *)
KeepsBlinking == Calm => []<>led /\ []<>~led
=============================================================================
