---------------------------- MODULE MCRepository ----------------------------
(* A repository with two releases. Release 1 lists its manifest.json in      *)
(* targets.json, and has an empty delegation dA and one that lists an image; *)
(* release 2 has its manifest.json and its OS bundle in dA, which two keys   *)
(* sign. Release 9 is not of this repository: its roles are signed by        *)
(* another key, and only its delegation by the right ones.                   *)
EXTENDS Repository, TLC

CONSTANTS app, tool, os, other, root, dev, content, extra, dA, dB

MCNames == {dA, dB}
MCInline == (1 :> {}) @@ (2 :> {tool}) @@ (9 :> {})
MCDelegationsOf == (1 :> {dA, dB}) @@ (2 :> {dA}) @@ (9 :> {dA})
MCDelegated ==
  [r \in Releases |-> [d \in MCNames |->
     CASE <<r, d>> = <<1, dB>> -> {app} [] <<r, d>> = <<2, dA>> -> {os}
       [] <<r, d>> = <<9, dA>> -> {other} [] OTHER -> {}]]
MCManifested == (1 :> {"targets"}) @@ (2 :> {dA}) @@ (9 :> {dA})
MCBundle == (1 :> NONE) @@ (2 :> os) @@ (9 :> NONE)

MCRoles == {"timestamp", "snapshot", "targets"}
MCAuthorised == [role \in MCRoles |-> {root}]
MCThreshold == [role \in MCRoles |-> 1]
MCSignedBy ==
  [r \in Releases |-> [role \in MCRoles \cup MCNames |->
     CASE role \in MCNames -> IF role = dB THEN <<content>> ELSE <<extra, content>>
       [] role \in MCRoles ->
            CASE r = 1 -> <<root>> [] r = 2 -> <<dev, root, root>> [] r = 9 -> <<dev>>]]
MCContentKeys == [r \in Releases |-> [d \in MCNames |-> {content, extra}]]
MCContentThreshold == [r \in Releases |-> [d \in MCNames |-> IF r = 2 THEN 2 ELSE 1]]
=============================================================================
