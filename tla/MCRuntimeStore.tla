--------------------------- MODULE MCRuntimeStore ----------------------------
(* Small stores: runtimes 1 and 2 share an image, 3 shares none. *)
EXTENDS RuntimeStore, TLC

CONSTANTS base, app, tool

MCImagesOf == (1 :> {base}) @@ (2 :> {base, app}) @@ (3 :> {tool})

\* Every kind of request, or all but additions from a local manifest.
MCWorkloads == {Kinds, Kinds \ {"add"}}

MCUpdates == {{"update"}}

MCSymmetry == Permutations(Threads)
=============================================================================
