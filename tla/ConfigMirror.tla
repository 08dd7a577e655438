---------------------------- MODULE ConfigMirror ----------------------------
(***************************************************************************)
(* What the MQTT bridge promises for configuration properties: the broker  *)
(* holds a copy of each that is brought up to date one item at a time.     *)
(* Every write leaves a debt, which is paid with the value found when it   *)
(* is paid, not the one written; nothing else ever reaches the copy, and   *)
(* only a message that gets lost, or a crash, excuses a copy that is       *)
(* behind.                                                                 *)
(***************************************************************************)
CONSTANT Items

VARIABLES
  source,    \* source[i]: what a read of i finds
  copy,      \* copy[i]: what was last published of i
  owed,      \* items written and not yet read for the copy
  taken,     \* the item and the value on their way to the copy, or <<>>
  followed   \* items whose last value on its way has arrived

MirrorInit == owed = {} /\ taken = <<>> /\ followed = {}

Write(i) ==
  /\ \A other \in Items \ {i} : source'[other] = source[other]
  /\ owed' = owed \union {i}
  /\ UNCHANGED <<copy, taken, followed>>

(* A debt is paid, completely or while another write of the same item waits. *)
Pay(i) == i \in owed /\ owed' \in {owed, owed \ {i}}

Take(i) ==
  /\ taken = <<>> /\ Pay(i)
  /\ taken' = <<i, source[i]>>
  /\ UNCHANGED <<source, copy, followed>>

Miss(i) ==
  /\ Pay(i)
  /\ followed' = followed \ {i}
  /\ UNCHANGED <<source, copy, taken>>

Deliver(i, v) ==
  /\ taken = <<i, v>> /\ taken' = <<>>
  /\ copy' = [copy EXCEPT ![i] = v]
  /\ followed' = followed \union {i}
  /\ UNCHANGED <<source, owed>>

Lose(i, v) ==
  /\ taken = <<i, v>> /\ taken' = <<>>
  /\ followed' = followed \ {i}
  /\ UNCHANGED <<source, copy, owed>>

Crash ==
  /\ owed' = {} /\ taken' = <<>> /\ followed' = {}
  /\ UNCHANGED <<source, copy>>

MirrorNext ==
  \/ \E i \in Items : Write(i) \/ Take(i) \/ Miss(i)
  \/ taken # <<>> /\ (Deliver(taken[1], taken[2]) \/ Lose(taken[1], taken[2]))
  \/ Crash

MirrorSpec == MirrorInit /\ [][MirrorNext]_<<source, copy, owed, taken, followed>>
=============================================================================
