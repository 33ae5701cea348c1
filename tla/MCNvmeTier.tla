------------------------------ MODULE MCNvmeTier ------------------------------
(* Instances of the NVMe tier; the .cfg files choose the sizes. *)
EXTENDS NvmeTier
===============================================================================
