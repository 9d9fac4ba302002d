----------------------------- MODULE MCGateway -----------------------------
(***************************************************************************)
(* Instances of Gateway for TLC: the requests of one agent, which one role *)
(* permits.                                                                *)
(***************************************************************************)
EXTENDS Gateway

CONSTANTS alice, developer

OfAlice     == [r \in Requests |-> alice]
ByDeveloper == [r \in Requests |-> {developer}]
Never       == 0 - Staleness
=============================================================================
