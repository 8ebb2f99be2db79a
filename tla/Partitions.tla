------------------------------ MODULE Partitions -----------------------------
(***************************************************************************)
(* How os_update.rs finds the partition that a label or a PARTUUID names,  *)
(* among those the kernel publishes: several disks may carry the same      *)
(* labels (a board provisioned to two media) or even the same PARTUUIDs (a *)
(* cloned disk). A partition is a record [dev, disk, label, uuid], a set   *)
(* of them is what is attached, and below gives the devices each device is *)
(* stacked on.                                                             *)
(***************************************************************************)
EXTENDS Naturals, FiniteSets

CONSTANTS
  MaxDmDepth,      \* device-mapper layers that are followed
  NONE

\* The only member of S, if there is just one.
Only(S) == IF \E x \in S : S = {x} THEN CHOOSE x \in S : TRUE ELSE NONE

\* devices_where, by PARTUUID and by disk and name
Carrying(parts, uuid) == {p \in parts : p.uuid = uuid}
Named(parts, disk, label) == {p \in parts : p.disk = disk /\ p.label = label}

\* slot_partition_on_booted_disk: the slot's ESP, on the disk of the one that was
\* booted, unless a copy of either is attached.
SlotPartition(parts, booted, label) ==
  Only({p \in parts : \E esp \in parts :
          /\ Carrying(parts, booted) = {esp}
          /\ Named(parts, esp.disk, label) = {p}
          /\ Carrying(parts, p.uuid) = {p}})

Devs(parts) == {p.dev : p \in parts}

\* booted_partition: down from the device of / while it stands on a single one. An
\* overlay or a tmpfs has no device.
BootedPartition(parts, root, below) ==
  LET down[n \in 0..MaxDmDepth] ==
        IF n = 0 THEN root
        ELSE IF down[n - 1] \in Devs(parts) THEN down[n - 1]
        ELSE IF down[n - 1] = NONE THEN NONE
        ELSE Only(below[down[n - 1]])
  IN  Only({p \in parts : p.dev = down[MaxDmDepth - 1]})

\* root_stack: everything / is built from, or NONE when that is too deep to tell.
RootStack(root, below) ==
  LET stack[n \in 0..MaxDmDepth + 1] ==
        IF n = 0 THEN {root} \ {NONE}
        ELSE stack[n - 1] \cup UNION {below[d] : d \in stack[n - 1]}
  IN  IF stack[MaxDmDepth + 1] = stack[MaxDmDepth] THEN stack[MaxDmDepth] ELSE NONE

\* Mutant: what /dev/disk/by-partlabel leads to, which may be any disk that has the label.
ResolveByLink(parts, root, below, label) ==
  LET named == {p \in parts : p.label = label}
  IN  IF named = {} THEN NONE ELSE (CHOOSE p \in named : TRUE).dev

\* resolve_label: the device that may be written for a label, on the booted disk when
\* that is known, and never one the system runs from.
ResolveLabel(parts, root, below, label) ==
  LET booted == BootedPartition(parts, root, below)
      lone   == Only({p \in parts : p.label = label})
      found  == IF booted # NONE THEN Only(Named(parts, booted.disk, label)) ELSE lone
      stack  == RootStack(root, below)
      taken  == IF booted # NONE THEN {booted.dev} ELSE stack
  IN  IF found = NONE \/ taken = NONE THEN NONE
      ELSE IF found.dev \in taken THEN NONE
      ELSE found.dev
=============================================================================
