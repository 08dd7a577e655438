--------------------------- MODULE MCConfigBridge ---------------------------
(* ConfigBridge with one property anyone may write and one hidden one, and a *)
(* value that fits into uint8_t and a negative one that does not.            *)
EXTENDS ConfigBridge, TLC

CONSTANTS number, secret

MCValues == {-1, 1}

MCVisibility == number :> "Group" @@ secret :> "Hidden"
=============================================================================
