------------------------------ MODULE MCSpinlock ------------------------------
(* Instances of Spinlock for TLC. *)
EXTENDS Spinlock, TLC

\* A lock of each kind, and a second interrupt-safe one to nest in the first.
TwoIrq == 1 :> "raw" @@ 2 :> "spin" @@ 3 :> "irq" @@ 4 :> "irq"
TaskSymmetry == Permutations(Tasks)
=============================================================================
