---------------------------- MODULE MCPendingStore ----------------------------
(* Model-checking instance of the approval store.                          *)
EXTENDS PendingStore, TLC

\* Request ids are drawn arbitrarily and only compared for equality.
RequestSymmetry == Permutations(Requests)
=============================================================================
