------------------------------- MODULE MCHitl --------------------------------
(* Two extensions from one server are alike. *)
EXTENDS Hitl, TLC

MCSymmetry == Permutations(Exts)
=============================================================================
