--------------------------- MODULE MCVirtualMemory ---------------------------
(* Instances of VirtualMemory for TLC. *)
EXTENDS VirtualMemory

\* User programs ask for read-only pages; the writable ones are those of the
\* page fault handler.
ReadOnly == {{"P"}}
=============================================================================
