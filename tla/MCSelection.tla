----------------------------- MODULE MCSelection -----------------------------
(* Two runtimes: one with an extension that is off by default, and one that  *)
(* lists only the other extension and has that off.                          *)
EXTENDS Selection, TLC

CONSTANTS e1, e2, r1, r2

MCDefaults == (r1 :> (e1 :> TRUE @@ e2 :> FALSE)) @@ (r2 :> (e1 :> FALSE))

MCSymmetry == Permutations(Threads)
=============================================================================
