----------------------------- MODULE MCPinnedArena -----------------------------
(* One DDR node and one HBM node. *)
EXTENDS PinnedArena, TLC

MCSize == (1 :> 2) @@ (2 :> 1)
KeySymmetry == Permutations(Keys \ Replaced) \cup Permutations(Readers)
===============================================================================
