------------------------------ MODULE MCParts ------------------------------
(* Parts with three modules of the web server, two of them with two handlers. *)
EXTENDS Parts, TLC

CONSTANTS sys, cfg, app   \* HttpModules

MCHandlers == sys :> {1} @@ cfg :> {2, 3} @@ app :> {4, 5}
=============================================================================
