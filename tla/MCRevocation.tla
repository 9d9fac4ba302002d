---------------------------- MODULE MCRevocation ----------------------------
(***************************************************************************)
(* Instances of Revocation for TLC.                                        *)
(***************************************************************************)
EXTENDS Revocation, TLC

CONSTANTS agent, plain, checksummed

OneAgent    == {agent}
OneSpelling == {checksummed}
Spellings   == {plain, checksummed}
SameAgent   == [k \in Keys |-> agent]

Symmetry == Permutations(Gets) \union Permutations(Revokes)
=============================================================================
