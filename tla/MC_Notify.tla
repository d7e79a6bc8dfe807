------------------------------ MODULE MC_Notify ------------------------------
(* Two clients, two changes and a channel of one: the second change finds  *)
(* it full while the writing goroutine has not got round to the first.     *)
EXTENDS Notify

MCClients == {"c1", "c2"}
=============================================================================
