---------------------------- MODULE MC_SyncLock ----------------------------
(* The sync lock with small constants.  Three tablets: one that holds the  *)
(* lock, one that takes it over and one that only refreshes it.  Four half *)
(* seconds of TTL and a clock of nine instants let a grant expire on each  *)
(* half of a second, be prolonged, and be taken over twice.                *)
EXTENDS SyncLock

MCDevices == {"A5X", "A6X", "Nomad"}
MCTTL     == 4
MCMaxTime == 9
=============================================================================
