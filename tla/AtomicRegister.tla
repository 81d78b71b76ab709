--------------------------- MODULE AtomicRegister ---------------------------
(***************************************************************************)
(* What vault_io.py promises about one file: a reader finds the value from  *)
(* before a save or the value from after it, never a part of one; a file    *)
(* that does not parse is kept as it is; and when the machine loses power   *)
(* the file goes back to a value it once had.  `value' is what a reader     *)
(* finds, `stable' is what a power loss leaves.                             *)
(*                                                                          *)
(* Spec lets a save store anything.  UpdateSpec promises more, what the     *)
(* docstring of update() calls "one atomic step": each change adds one item *)
(* to the value that is there when the change takes effect.                 *)
(***************************************************************************)
EXTENDS FiniteSets

CONSTANT Items        \* what a file can hold: its content is a set of these

VARIABLES value, stable

Content == [status : {"missing", "whole", "torn"}, items : SUBSET Items]

Init ==
    /\ value \in Content
    /\ stable = value

Put(held) ==
    /\ value.status # "torn"
    /\ value' = [status |-> "whole", items |-> held]
    /\ UNCHANGED stable

Flush ==
    /\ stable' = value
    /\ UNCHANGED value

PowerLoss ==
    /\ value' = stable
    /\ UNCHANGED stable

Next ==
    \/ \E held \in SUBSET Items : Put(held)
    \/ Flush
    \/ PowerLoss

Spec == Init /\ [][Next]_<<value, stable>>

UpdateNext ==
    \/ \E item \in Items : Put(value.items \cup {item})
    \/ Flush
    \/ PowerLoss

UpdateSpec == Init /\ [][UpdateNext]_<<value, stable>>
=============================================================================
