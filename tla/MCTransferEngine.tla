--------------------------- MODULE MCTransferEngine ---------------------------
(* Two experts and two GPUs over one staging slot, which one of the experts *)
(* does not fit; the .cfg file has the sizes.                               *)
EXTENDS TransferEngine
==============================================================================
