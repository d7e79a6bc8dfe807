---------------------------- MODULE MC_Transfers ----------------------------
(* Two connections, a file in two parts, one sent or fetched whole and a   *)
(* digest's; two faults, each of which costs at most two URLs.             *)
EXTENDS Transfers

MCRequests == {1, 2}
MCParts == {"p1", "p2"}
MCFiles == {"file"}
MCDigestFiles == {"digest"}
=============================================================================
