---------------------------- MODULE DurableStore ----------------------------
(***************************************************************************)
(* What the configuration store promises: a map that is written key by     *)
(* key, whose values a crash may change or lose, except those that a sync  *)
(* covered after their last write.                                         *)
(***************************************************************************)
CONSTANTS Names, None    \* None: nothing is stored, or nothing is promised

VARIABLES current,       \* what a read finds
          safe           \* what is found after a crash, None if not promised

Kept(name) == current'[name] = current[name] /\ safe'[name] = safe[name]

DurableInit == \A name \in Names : current[name] = None /\ safe[name] = None

(* The value written is the caller's choice. *)
WriteName(name) == safe'[name] = None /\ \A other \in Names \ {name} : Kept(other)

(* The values of some names become safe. *)
Sync ==
  /\ current' = current
  /\ \A name \in Names : safe'[name] \in {safe[name], current[name]}

Crash ==
  \A name \in Names : /\ safe'[name] = safe[name]
                      /\ safe[name] # None => current'[name] = safe[name]

DurableNext == (\E name \in Names : WriteName(name)) \/ Sync \/ Crash

DurableSpec == DurableInit /\ [][DurableNext]_<<current, safe>>
=============================================================================
