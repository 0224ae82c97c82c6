--------------------------- MODULE TimedRegisters ----------------------------
(***************************************************************************)
(* What a table of epoch-activated settings promises its readers, whatever *)
(* chain stores it: a value is in force for a whole epoch, staging only    *)
(* chooses the value of the next epoch, the turn of an epoch brings every  *)
(* chosen value into force at once, and an administrator may override.     *)
(* The on-chain tables store (active, pending, effective epoch) for each   *)
(* setting and promote lazily; they are shown to implement these registers *)
(* that promote eagerly.                                                   *)
(***************************************************************************)

CONSTANTS
  Names,     \* the settings
  Values,    \* what a setting can hold
  Default    \* what a setting that was never written reads as

VARIABLES
  cur,       \* the values in force in the current epoch
  nxt        \* the values in force from the next epoch on

vars == <<cur, nxt>>

Init ==
  /\ cur = [n \in Names |-> Default]
  /\ nxt = cur

\* A quorum stages a value: readers see it only after the epoch turns.
Stage(n, v) ==
  /\ nxt' = [nxt EXCEPT ![n] = v]
  /\ cur' = cur

\* An administrator overrides a value at once and cancels what was staged.
Override(n, v) ==
  /\ cur' = [cur EXCEPT ![n] = v]
  /\ nxt' = [nxt EXCEPT ![n] = v]

\* The epoch turns: the staged values come into force.
Turn == cur' = nxt /\ nxt' = nxt

Next ==
  \/ \E n \in Names, v \in Values : Stage(n, v) \/ Override(n, v)
  \/ Turn

Spec == Init /\ [][Next]_vars
===============================================================================
