----------------------------- MODULE MC_Digests -----------------------------
(* Two creates side by side and a third later; two milliseconds with two   *)
(* numbers each, so that numbers run out and ids are repeated; pages of    *)
(* one.                                                                    *)
EXTENDS Digests

MCRequests == {"r1", "r2"}
MCUids == {"u"}
=============================================================================
