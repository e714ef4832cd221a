---------------------------- MODULE MCKernelPaging ----------------------------
(* Instances of KernelPaging for TLC. *)
EXTENDS KernelPaging

\* Two upper levels: pages whose paths part at the root and at the second
\* table, mapped with caching disabled.
Deep == {<<0, 0, 0>>, <<0, 1, 0>>, <<1, 0, 0>>}
Cached == {{"P", "W", "PCD"}}
=============================================================================
