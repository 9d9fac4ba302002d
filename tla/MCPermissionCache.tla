------------------------- MODULE MCPermissionCache -------------------------
(***************************************************************************)
(* Instances of PermissionCache for TLC.                                   *)
(***************************************************************************)
EXTENDS PermissionCache, TLC

CONSTANTS agent, plain, checksummed

\* One agent, under two spellings of its address.
OneAgent  == {agent}
Spellings == {plain, checksummed}
SameAgent == [k \in Spellings |-> agent]

Symmetry == Permutations(Gets) \union Permutations(Keys)
=============================================================================
