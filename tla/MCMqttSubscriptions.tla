------------------------ MODULE MCMqttSubscriptions ------------------------
(* MqttSubscriptions with a device topic that stays and a group topic that   *)
(* changes between the elements of Names.                                    *)
EXTENDS MqttSubscriptions

CONSTANTS n1, n2   \* Names

MCSettings == {f \in [Kinds -> Names] : f["device"] = n1}
=============================================================================
