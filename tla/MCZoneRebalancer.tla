---------------------------- MODULE MCZoneRebalancer ----------------------------
(* Two GPUs, of which the second has state of its own. *)
EXTENDS ZoneRebalancer
===============================================================================
