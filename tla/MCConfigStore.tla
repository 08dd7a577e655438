--------------------------- MODULE MCConfigStore ----------------------------
(* ConfigStore with a string property, an int property or both, and values on  *)
(* both sides of every limit.                                                 *)
EXTENDS ConfigStore, TLC

CONSTANTS main, http, broker, number

MCInputs == broker :> {62, 65}
MCInputsAtLimit == broker :> {3, 62, 63, 64, 65} @@ number :> {1}
MCFallback == broker :> 5 @@ number :> 7
MCMinimum == broker :> 0 @@ number :> 2
MCMaximum == broker :> 64 @@ number :> 8
=============================================================================
