------------------------------ MODULE MCImages ------------------------------
(* One extension of each form, with two files each. *)
EXTENDS Images, TLC

CONSTANTS raw, kab, raw1, raw2, kab1, kab2

MCFiles == [e \in {raw, kab} |-> IF e = raw THEN {raw1, raw2} ELSE {kab1, kab2}]

\* Loop devices are alike.
MCSymmetry == Permutations(Loops)
=============================================================================
