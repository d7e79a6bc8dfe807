---------------------------- MODULE MC_Accounts ----------------------------
(* Two requests side by side from one address, two challenges; an error    *)
(* limit of two, so that the limit is reached, passed and reset; three     *)
(* requests to a window of two seconds and a block of three.                 *)
EXTENDS Accounts

MCRequests  == {"r1", "r2"}
MCAddresses == {"ip"}
=============================================================================
