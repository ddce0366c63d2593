------------------------------ MODULE MCLRUCache ------------------------------
(* LRUCache for TLC: contents of every size from none to too large.          *)
EXTENDS LRUCache, TLC

\* Contents are named by their sizes.
Sizes == [d \in Data |-> d]

Symmetry == Permutations(Keys)
===============================================================================
