---------------------------- MODULE MCAuditQueue ----------------------------
(***************************************************************************)
(* Instances of AuditQueue for TLC.                                        *)
(***************************************************************************)
EXTENDS AuditQueue, TLC

\* Entries, ticks and signals are interchangeable: only their identity matters.
Symmetry == Permutations(Entries) \union Permutations(Ticks) \union Permutations(Signals)
=============================================================================
