-------------------------- MODULE MCSignedRequests --------------------------
(***************************************************************************)
(* Instances of SignedRequests for TLC.                                    *)
(***************************************************************************)
EXTENDS SignedRequests, TLC

\* Requests under way and agents are interchangeable.
Symmetry == Permutations(Slots) \union Permutations(Agents)
=============================================================================
