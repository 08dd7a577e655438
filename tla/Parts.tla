------------------------------- MODULE Parts -------------------------------
(***************************************************************************)
(* The web server, the HTTP handlers, the LED and a Delayer in one device. *)
(* They share no variable and call nothing of one another, so a behaviour  *)
(* moves one of them and the others rest.                                  *)
(***************************************************************************)
EXTENDS WebServer, Indicator, Delayer, HttpRequests

VARIABLE part   \* the component that moves

partsVars == <<part, webVars, ledVars, delayVars, httpVars>>

PartsInit ==
  /\ part \in {"web", "led", "delay", "http"}
  /\ Init /\ LedInit /\ DelayInit /\ HttpInit
  /\ part # "led" => clock = 0
  /\ part # "delay" => millis = 0 /\ m_delay = 0

WebPart == part = "web" /\ Next /\ UNCHANGED <<part, ledVars, delayVars, httpVars>>
LedPart == part = "led" /\ LedNext /\ UNCHANGED <<part, webVars, delayVars, httpVars>>
DelayPart == part = "delay" /\ DelayNext /\ UNCHANGED <<part, webVars, ledVars, httpVars>>
HttpPart == part = "http" /\ HttpNext /\ UNCHANGED <<part, webVars, ledVars, delayVars>>

PartsNext == WebPart \/ LedPart \/ DelayPart \/ HttpPart

PartsSpec ==
  /\ PartsInit /\ [][PartsNext]_partsVars
  /\ WF_ledVars(part = "led" /\ TimerNext) /\ WF_ledVars(part = "led" /\ SetterNext)
  /\ WF_httpVars(part = "http" /\ Handler)

-----------------------------------------------------------------------------
(* Type invariant of all four: fields, the width of the numbers, the places  *)
(* of the tasks.  Two assumptions of the code are part of it: a received body *)
(* and its terminating zero fit the buffer (HttpModule.cpp:50), and every    *)
(* pattern has pulses that last (the assertions of LedBlinker.cpp:33).       *)
PartsTypeOK == WebTypeOK /\ LedTypeOK /\ DelayTypeOK /\ HttpTypeOK

(* KeepsBlinking of Indicator, in the behaviours in which the LED moves. *)
LedKeepsBlinking == part = "led" => KeepsBlinking
=============================================================================
