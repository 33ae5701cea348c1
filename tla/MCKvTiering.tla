------------------------------ MODULE MCKvTiering ------------------------------
(* Instances of KvTiering for TLC. *)
EXTENDS KvTiering
===============================================================================
