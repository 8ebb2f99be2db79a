------------------------------ MODULE MCEfiBoot ------------------------------
(* A device with the ESPs of slots a and b; a clone of its disk, and a stick *)
(* that only has the same labels. NVRAM starts with entries for the network  *)
(* and for slot a, and with none, a good, an inactive or a stale one for b.  *)
EXTENDS EfiBoot, TLC

CONSTANTS a, b, own, clone, stick, net

Part(dev, disk, label, uuid) == [dev |-> dev, disk |-> disk, label |-> label, uuid |-> uuid]

MCParts ==
  {Part("own1", own, a, 1), Part("own2", own, b, 2),
   Part("clone1", clone, a, 1), Part("clone2", clone, b, 2),
   Part("stick2", stick, b, 4), Part("stick0", stick, net, 5)}

Entry(label, uuid, active) == [label |-> label, uuid |-> uuid, active |-> active]

MCStock ==
  {LET es == (0 :> Entry(net, 5, TRUE)) @@ (1 :> Entry(a, 1, TRUE)) @@ (2 :> e) @@ (3 :> NONE)
   IN  [entries |-> es, order |-> SelectSeq(<<1, 2, 0>>, LAMBDA n : es[n] # NONE)] :
     e \in {NONE, Entry(b, 2, TRUE), Entry(b, 2, FALSE), Entry(b, 4, TRUE)}}
=============================================================================
