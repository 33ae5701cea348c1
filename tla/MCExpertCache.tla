----------------------------- MODULE MCExpertCache -----------------------------
(* Instances of the expert cache; the .cfg files choose the sizes. *)
EXTENDS ExpertCache, TLC

KeySymmetry == Permutations(Keys)
===============================================================================
