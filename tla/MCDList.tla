------------------------------- MODULE MCDList -------------------------------
(* Names for TLC; nodes are interchangeable, and so are keys.               *)
EXTENDS DList, TLC

CONSTANTS n1, n2, n3, n4, k1, k2, k3

Symmetry == Permutations(Nodes) \union Permutations(Keys)
=============================================================================
