----------------------------- MODULE MCBootMedia ----------------------------
(* Four boards: one that runs from a partition, one from dm-verity over two  *)
(* partitions, one with an overlay root on an eMMC, and one without labels.  *)
(* Two other disks: a medium with some of the labels, and one with another.  *)
EXTENDS BootMedia, TLC

CONSTANTS boot, rootA, rootB, hash, store, dm, m1, m2, m3, clone1, clone2, clone3, stick,
          own, other, third

P(dev, disk, label, start) ==
  [dev |-> dev, disk |-> disk, label |-> label, uuid |-> dev, start |-> start]

Labelled ==
  {P(boot, own, "boot-b", 1), P(rootA, own, "root-a", 2), P(rootB, own, "root-b", 3),
   P(hash, own, "hash-a", 4), P(store, own, "var", 5)}

Bare == {P(m1, own, NONE, 1), P(m2, own, NONE, 3), P(m3, own, NONE, 4)}

Below(root, on) ==
  [d \in {dm} \cup {boot, rootA, rootB, hash, store, m1, m2, m3, clone1, clone2, clone3, stick} |->
     IF d = root THEN on ELSE {}]

Board(parts, root, on, layout, runs, anchored) ==
  [parts |-> parts, root |-> root, below |-> Below(root, on), layout |-> layout, runs |-> runs,
   anchored |-> anchored]

Slice(name, offset, size) == [name |-> name, offset |-> offset, size |-> size]

Layout == <<Slice("boot-b", 1, 2), Slice("root-b", NONE, 1), Slice("root-a", NONE, 2)>>

MCBoards ==
  {Board(Labelled, rootA, {}, <<>>, {rootA}, TRUE),
   Board(Labelled, dm, {rootA, hash}, <<>>, {dm, rootA, hash}, FALSE),
   Board(Labelled, NONE, {}, Layout, {}, FALSE),
   Board(Bare, m3, {}, Layout, {m3}, TRUE)}

MCVisitors ==
  {{P(clone1, other, "boot-b", 1), P(clone2, other, "root-a", 2), P(clone3, other, "var", 3)},
   {P(stick, third, "data", 1)}}

T(kind, name, patch) == [kind |-> kind, name |-> name, patch |-> patch]

MCUpdates ==
  {<<T("file", "boot-b", TRUE), T("label", "root-b", FALSE)>>,
   <<T("emmc", "0", TRUE), T("label", "root-b", FALSE)>>,
   <<T("emmc", "0", FALSE), T("label", "boot-b", TRUE)>>,
   <<T("skip", "", FALSE), T("label", "root-a", FALSE)>>,
   <<T("label", "hash-a", FALSE)>>,
   <<T("file", "data", FALSE), T("label", "data", FALSE)>>}

MCSymmetry == Permutations(Updaters)
=============================================================================
