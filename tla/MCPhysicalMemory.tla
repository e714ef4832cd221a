-------------------------- MODULE MCPhysicalMemory --------------------------
(***************************************************************************)
(* Instances of PhysicalMemory for TLC.                                    *)
(***************************************************************************)
EXTENDS PhysicalMemory
=============================================================================
