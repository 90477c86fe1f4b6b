------------------------- MODULE MCOfficialClients -------------------------
(* OfficialClients for TLC: two Desktops, each with a request. *)
EXTENDS OfficialClients

CONSTANTS c1, c2, r1, r2

MCClientOf == [r \in Requests |-> IF r = r1 THEN c1 ELSE c2]
=============================================================================
