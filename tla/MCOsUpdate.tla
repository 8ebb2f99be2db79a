----------------------------- MODULE MCOsUpdate ------------------------------
(* Small devices for OsUpdate. Bundle 1 is the factory's; bundle 2 is a new *)
(* OS; bundle 3 has bundle 2's rootfs and initramfs and another device      *)
(* tree.                                                                    *)
EXTENDS OsUpdate

MCBundleOf == [r \in Runtimes |-> r]
MCRootfsId == [b \in Bundles |-> IF b = 3 THEN 2 ELSE b]
MCInitrdId == MCRootfsId
=============================================================================
