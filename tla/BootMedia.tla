----------------------------- MODULE BootMedia ------------------------------
(***************************************************************************)
(* How an OS update reaches the boot medium (os_update.rs): every target   *)
(* of the slot is located before a byte is written, then written in turn:  *)
(* a partition by its label, a computed offset of a disk without labels,   *)
(* an eMMC boot partition, a file in the filesystem of a boot partition.   *)
(* Updates may run side by side; a lock for each device serialises those   *)
(* that mount it. Other disks come and go, and so do automatic mounts.     *)
(*                                                                         *)
(*   board    the device: the partitions of its disk, the device of / and  *)
(*            what it stands on, the bundle's layout of the disk           *)
(*   near     the other disks that are attached                            *)
(*   w        each updater: the step it is at, its update, the targets     *)
(*            located for it, the one it is at, the device in hand,        *)
(*            whether it made the mount it uses, whether all went well     *)
(*   lock     the holder of each device's os-update-<maj:min>.lock         *)
(*   mounts   how often updates have mounted each device                   *)
(*   others   the devices others have mounted; they stay mounted           *)
(*   bls      the devices mounted at /tmp/avocado-bls-patch-<slot>         *)
(*   file     each boot partition's file, and the one beside it that is to *)
(*            replace it                                                   *)
(*   entry    each boot partition's loader/entries/avocado.conf            *)
(*   open     the eMMC boot partitions whose force_ro is lifted            *)
(*                                                                         *)
(* Histories: wrote, the last write: as what, and to which device; in w,   *)
(* dirty: the update has written, moved: a disk came or went since it      *)
(* began; unguarded: the devices that were mounted, without the lock, over *)
(* another mount since the last boot; cut: those whose entry was cut off   *)
(* while it was rewritten; left: the eMMC boot partitions whose force_ro   *)
(* was not restored, by a failed write or by an updater that died.         *)
(***************************************************************************)
EXTENDS Partitions, Sequences

CONSTANTS
  Boards, Visitors, EmmcDisks,
  Filesystems,     \* the partitions with a filesystem that boot files are in
  Updates,         \* the targets of an update's artifacts, in its slot
  Old,             \* what made the file that is there at first
  Updaters, MaxUpdates, MaxFaults, MaxCrashes

\* has_bls_entry: the targets whose boot entry is patched at the end (sdboot-ab)
Patched(u) == {u[n].name : n \in {m \in DOMAIN u : u[m].patch /\ u[m].kind \notin {"skip", "file"}}}

\* The labels of the partitions that are mounted.
BootLabels ==
  UNION {Patched(u) \cup {u[n].name : n \in {m \in DOMAIN u : u[m].kind = "file"}} : u \in Updates}

ASSUME BootMediaAssumption ==
  /\ {MaxUpdates, MaxFaults, MaxCrashes} \subseteq Nat /\ NONE \notin Updaters
  /\ Updates \subseteq Seq([kind : {"skip", "emmc", "file", "label"}, name : STRING,
                            patch : BOOLEAN]) \ {<<>>}
  /\ \A p \in (UNION {b.parts : b \in Boards}) \cup (UNION Visitors) :
       p.label \in BootLabels => p.dev \in Filesystems

\* S holds the device of / and, of each of its devices, what that is stacked on.
Carries(S, root, below) == {root} \ {NONE} \subseteq S /\ \A d \in S : below[d] \subseteq S

\* runs is what / is built from, and partitions are stacked on nothing; anchored says that
\* / tells the booted partition where no other disk is attached; the layout of a disk with
\* labels names one of them; other disks are not those of the board.
ASSUME BoardAssumption ==
  /\ MaxDmDepth \in Nat \ {0}
  /\ \A b \in Boards :
       /\ b.below \in [DOMAIN b.below -> SUBSET DOMAIN b.below] /\ b.root \in DOMAIN b.below \cup {NONE}
       /\ Carries(b.runs, b.root, b.below)
       /\ \A S \in SUBSET DOMAIN b.below : Carries(S, b.root, b.below) => b.runs \subseteq S
       /\ \A d \in Devs(b.parts) : d # NONE /\ (d \in b.runs => b.below[d] = {})
       /\ b.anchored => BootedPartition(b.parts, b.root, b.below) # NONE
       /\ b.layout = <<>> \/ (\A p \in b.parts : p.label = NONE)
            \/ \E n \in DOMAIN b.layout, p \in b.parts : p.label = b.layout[n].name
  /\ \A b \in Boards, p \in UNION Visitors :
       p.dev \notin b.runs \cup {NONE} /\ \A q \in b.parts : p.disk # q.disk

VARIABLES board, near, w, lock, mounts, others, bls, file, entry, open, wrote,
          unguarded, cut, left, updates, faults, crashes

media    == <<lock, mounts, others, bls, file, entry, open>>
world    == <<board, near>>
counters == <<updates, faults, crashes>>
lapses   == <<unguarded, cut, left>>
vars == <<world, w, media, wrote, lapses, counters>>

Seen == board.parts \cup (UNION near)

Idle == [pc |-> "idle", update |-> <<>>, targets |-> <<>>, k |-> 0, dev |-> NONE,
         mine |-> FALSE, ok |-> TRUE, dirty |-> FALSE, moved |-> FALSE]

Fault == faults < MaxFaults /\ faults' = faults + 1 /\ UNCHANGED <<updates, crashes>>

-----------------------------------------------------------------------------
(* Targets *)

\* label_absent_in: on every disk that is attached
Absent(label) == \A p \in Seen : p.label # label

\* resolve_partition_in
Resolve(label) ==
  IF Absent(label) THEN NONE ELSE ResolveLabel(Seen, board.root, board.below, label)

\* resolve_partition_offset: the explicit offset, or the end of what comes before.
Offset(name) ==
  LET layout == board.layout
      start[n \in DOMAIN layout] ==
        IF layout[n].offset # NONE THEN layout[n].offset
        ELSE IF n = 1 THEN 0 ELSE start[n - 1] + layout[n - 1].size
      named  == {n \in DOMAIN layout : layout[n].name = name}
  IN  IF named = {} THEN NONE ELSE start[CHOOSE n \in named : \A m \in named : n <= m]

At(kind, at) == [kind |-> kind, at |-> at]

\* locate_target_in, with the disk that by-partlabel/var leads to; NONE: refused.
Target(s, var) ==
  CASE s.kind = "skip" -> At("none", NONE)
    [] s.kind = "emmc" -> IF var = NONE THEN NONE
                          ELSE IF var \in EmmcDisks THEN At("emmc", <<var, s.name>>)
                          ELSE At("none", NONE)
    [] s.kind = "file" -> IF Resolve(s.name) = NONE THEN NONE ELSE At("file", s.name)
    [] s.kind = "label" /\ ~Absent(s.name) ->
         IF Resolve(s.name) = NONE THEN NONE ELSE At("partition", Resolve(s.name))
    [] OTHER -> IF \/ \E n \in DOMAIN board.layout : ~Absent(board.layout[n].name)
                   \/ Offset(s.name) = NONE
                THEN NONE ELSE At("offset", Offset(s.name))

\* root_disk_name: udev keeps one link for a label that several partitions carry.
VarDisks ==
  LET disks == {p.disk : p \in {q \in Seen : q.label = "var"}}
  IN  IF disks = {} THEN {NONE} ELSE disks

Begin(t, u) ==
  /\ w[t].pc \in {"idle", "refused"} /\ updates < MaxUpdates
  /\ w' = [w EXCEPT ![t] = [Idle EXCEPT !.pc = "locate", !.update = u]]
  /\ updates' = updates + 1
  /\ UNCHANGED <<world, media, wrote, lapses, faults, crashes>>

\* The update is refused a target.
Refused(r) == [Idle EXCEPT !.pc = "refused", !.dirty = r.dirty, !.moved = r.moved]

\* Mutant: the partition to patch is looked up when it is patched.
LocateTargetsOnly(t) ==
  /\ w[t].pc = "locate"
  /\ \E var \in VarDisks :
       LET u == w[t].update
           targets == [n \in DOMAIN u |-> Target(u[n], var)]
       IN  w' = IF \E n \in DOMAIN u : targets[n] = NONE
                THEN [w EXCEPT ![t] = Refused(@)]
                ELSE [w EXCEPT ![t].pc = "write", ![t].k = 1, ![t].targets = targets]
  /\ UNCHANGED <<world, media, wrote, lapses, counters>>

\* resolve_slot_targets
Locate(t) ==
  /\ w[t].pc = "locate"
  /\ \E var \in VarDisks :
       LET u == w[t].update
           targets == [n \in DOMAIN u |-> Target(u[n], var)]
       IN  w' = IF \/ \E n \in DOMAIN u : targets[n] = NONE
                   \/ \E l \in Patched(u) : Resolve(l) = NONE
                THEN [w EXCEPT ![t] = Refused(@)]
                ELSE [w EXCEPT ![t].pc = "write", ![t].k = 1, ![t].targets = targets]
  /\ UNCHANGED <<world, media, wrote, lapses, counters>>

-----------------------------------------------------------------------------
(* Writing *)

Current(t) == w[t].targets[w[t].k]

AtTarget(t, kind) == w[t].pc = "write" /\ Current(t).kind = kind

\* The update goes on, or fails, after an artifact.
After(r, ok) ==
  IF ~ok THEN Idle
  ELSE IF r.k < Len(r.update)
       THEN [r EXCEPT !.pc = "write", !.k = @ + 1, !.dev = NONE, !.mine = FALSE]
       ELSE [r EXCEPT !.pc = "patch", !.dev = NONE, !.mine = FALSE]

Passed(t, ok) == w' = [w EXCEPT ![t] = After(w[t], ok)]

Wrote(t, kind, dev, ok) ==
  /\ w' = [w EXCEPT ![t] = After([w[t] EXCEPT !.dirty = TRUE], ok)]
  /\ wrote' = <<kind, dev>>

Skip(t) ==
  /\ AtTarget(t, "none") /\ Passed(t, TRUE)
  /\ UNCHANGED <<world, media, wrote, lapses, counters>>

\* write_to_partition, which fails when the device has gone.
WritePartition(t) ==
  LET dev == Current(t).at IN
  /\ AtTarget(t, "partition")
  /\ \/ dev \in Devs(Seen) /\ Wrote(t, "partition", dev, TRUE) /\ UNCHANGED counters
     \/ dev \in Devs(Seen) /\ Wrote(t, "partition", dev, FALSE) /\ Fault
     \/ dev \notin Devs(Seen) /\ Passed(t, FALSE) /\ UNCHANGED <<wrote, counters>>
  /\ UNCHANGED <<world, media, lapses>>

\* write_to_device_at_offset: into the partition that lies there.
WriteOffset(t) ==
  LET under == {p \in board.parts : p.start <= Current(t).at}
      p     == CHOOSE q \in under : \A r \in under : r.start <= q.start
  IN  /\ AtTarget(t, "offset")
      /\ Wrote(t, "offset", p.dev, TRUE)
      /\ UNCHANGED <<world, media, lapses, counters>>

\* write_to_emmc_boot
Lift(t) ==
  /\ AtTarget(t, "emmc")
  /\ w' = [w EXCEPT ![t].pc = "lifted", ![t].dev = Current(t).at]
  /\ open' = open \cup {Current(t).at}
  /\ UNCHANGED <<world, lock, mounts, others, bls, file, entry, wrote, lapses, counters>>

\* Another updater may have restored force_ro meanwhile.
Program(t) ==
  /\ w[t].pc = "lifted"
  /\ LET ok == w[t].dev \in open IN
     \/ /\ w' = [w EXCEPT ![t].pc = "restore", ![t].ok = ok, ![t].dirty = @ \/ ok]
        /\ wrote' = IF ok THEN <<"emmc", w[t].dev>> ELSE wrote
        /\ UNCHANGED counters
     \/ /\ w' = [w EXCEPT ![t].pc = "restore", ![t].ok = FALSE, ![t].dirty = TRUE]
        /\ Fault /\ UNCHANGED wrote
  /\ UNCHANGED <<world, media, lapses>>

\* Mutant: a failed write returns at once.
RestoreIfWritten(t) ==
  /\ w[t].pc = "restore"
  /\ open' = IF w[t].ok THEN open \ {w[t].dev} ELSE open
  /\ left' = IF w[t].ok THEN left \ {w[t].dev} ELSE left
  /\ Passed(t, w[t].ok)
  /\ UNCHANGED <<world, lock, mounts, others, bls, file, entry, wrote, unguarded, cut, counters>>

\* A failed write of force_ro is ignored.
Restore(t) ==
  /\ w[t].pc = "restore"
  /\ \/ open' = open \ {w[t].dev} /\ left' = left \ {w[t].dev} /\ UNCHANGED counters
     \/ UNCHANGED open /\ left' = left \cup {w[t].dev} /\ Fault
  /\ Passed(t, w[t].ok)
  /\ UNCHANGED <<world, lock, mounts, others, bls, file, entry, wrote, unguarded, cut>>

-----------------------------------------------------------------------------
(* A file in a boot partition *)

FileSteps == {"mount", "attach", "create", "fill", "rename", "close"}

Unlocked(t) == [d \in DOMAIN lock |-> IF lock[d] = t THEN NONE ELSE lock[d]]

Whole(t) == [by |-> t, whole |-> TRUE]
Part(t)  == [by |-> t, whole |-> FALSE]

\* with_mounted_partition: the label is looked up again, and may be refused now.
FindFile(t) ==
  /\ AtTarget(t, "file")
  /\ LET dev == Resolve(Current(t).at) IN
     w' = IF dev = NONE THEN [w EXCEPT ![t] = Refused(@)]
                        ELSE [w EXCEPT ![t].pc = "lock", ![t].dev = dev]
  /\ UNCHANGED <<world, media, wrote, lapses, counters>>

\* Mutant: nothing is locked.
TakeNoLock(t) ==
  /\ w[t].pc = "lock" /\ w' = [w EXCEPT ![t].pc = "mount"]
  /\ UNCHANGED <<world, media, wrote, lapses, counters>>

\* DeviceLock::acquire
TakeLock(t) ==
  /\ w[t].pc = "lock" /\ lock[w[t].dev] = NONE
  /\ lock' = [lock EXCEPT ![w[t].dev] = t]
  /\ w' = [w EXCEPT ![t].pc = "mount"]
  /\ UNCHANGED <<world, mounts, others, bls, file, entry, open, wrote, lapses, counters>>

\* Mutant: the partition is mounted whether or not it is.
MountAgain(t) ==
  /\ w[t].pc = "mount" /\ w' = [w EXCEPT ![t].pc = "attach", ![t].mine = FALSE]
  /\ UNCHANGED <<world, media, wrote, lapses, counters>>

Mounted(dev) == dev \in Filesystems /\ (mounts[dev] > 0 \/ dev \in others \cup bls)

\* existing_rw_mount: a mount that is there is used as it is.
FindMount(t) ==
  /\ w[t].pc = "mount"
  /\ w' = [w EXCEPT ![t].pc = IF Mounted(w[t].dev) THEN "create" ELSE "attach", ![t].mine = FALSE]
  /\ UNCHANGED <<world, media, wrote, lapses, counters>>

MountFs(t) ==
  LET dev == w[t].dev IN
  /\ w[t].pc = "attach" /\ dev \in Devs(Seen)
  /\ w' = [w EXCEPT ![t].pc = "create", ![t].mine = TRUE]
  /\ mounts' = [mounts EXCEPT ![dev] = @ + 1]
  /\ UNCHANGED <<world, lock, others, bls, file, entry, open, wrote, lapses, counters>>

\* Mutant: the lock outlives the error.
MountFailsHolding(t) ==
  /\ w[t].pc = "attach"
  /\ IF w[t].dev \in Devs(Seen) THEN Fault ELSE UNCHANGED counters
  /\ Passed(t, FALSE)
  /\ UNCHANGED <<world, media, wrote, lapses>>

MountFails(t) ==
  /\ w[t].pc = "attach"
  /\ IF w[t].dev \in Devs(Seen) THEN Fault ELSE UNCHANGED counters
  /\ Passed(t, FALSE) /\ lock' = Unlocked(t)
  /\ UNCHANGED <<world, mounts, others, bls, file, entry, open, wrote, lapses>>

\* write_data_into_mount: what a crashed run left beside the file is removed first.
Create(t) ==
  /\ w[t].pc = "create"
  /\ w' = [w EXCEPT ![t].pc = "fill", ![t].dirty = TRUE]
  /\ file' = [file EXCEPT ![w[t].dev].new = Part(t)]
  /\ UNCHANGED <<world, lock, mounts, others, bls, entry, open, wrote, lapses, counters>>

Fill(t) ==
  /\ w[t].pc = "fill"
  /\ w' = [w EXCEPT ![t].pc = "rename"]
  /\ file' = [file EXCEPT ![w[t].dev].new = IF @ = Part(t) THEN Whole(t) ELSE @]
  /\ UNCHANGED <<world, lock, mounts, others, bls, entry, open, wrote, lapses, counters>>

Rename(t) ==
  /\ w[t].pc = "rename"
  /\ w' = [w EXCEPT ![t].pc = "close"]
  /\ file' = [file EXCEPT ![w[t].dev] = [dest |-> @.new, new |-> NONE]]
  /\ wrote' = <<"file", w[t].dev>>
  /\ UNCHANGED <<world, lock, mounts, others, bls, entry, open, lapses, counters>>

\* An error on the way removes the new file.
FileFails(t) ==
  /\ w[t].pc \in {"create", "fill", "rename"}
  /\ Fault
  /\ file' = [file EXCEPT ![w[t].dev].new = NONE]
  /\ w' = [w EXCEPT ![t].pc = "close", ![t].ok = FALSE]
  /\ UNCHANGED <<world, lock, mounts, others, bls, entry, open, wrote, lapses>>

\* The file is read back, and the mount, if it is the updater's own, taken down;
\* umount may fail, which is an error and leaves it.
Close(t) ==
  LET dev == w[t].dev
      ok  == w[t].ok /\ file[dev].dest = Whole(t)
  IN  /\ w[t].pc = "close"
      /\ \/ /\ mounts' = IF w[t].mine THEN [mounts EXCEPT ![dev] = @ - 1] ELSE mounts
            /\ Passed(t, ok) /\ UNCHANGED counters
         \/ w[t].mine /\ Fault /\ Passed(t, FALSE) /\ UNCHANGED mounts
      /\ lock' = Unlocked(t)
      /\ UNCHANGED <<world, others, bls, file, entry, open, wrote, lapses>>

-----------------------------------------------------------------------------
(* The boot entry of the slot (sdboot-ab), without the lock *)

EntrySteps == {"patching", "rewriting", "unpatch"}

\* It is mounted, or about to be.
Claimed(dev) == Mounted(dev) \/ \E t \in Updaters : w[t].pc = "attach" /\ w[t].dev = dev

\* maybe_patch_bls_entries, and the mount of patch_bls_entry_for_slot: the kernel refuses
\* it where that mount point has the filesystem already, and nowhere else.
PatchMount(t) ==
  LET labels == Patched(w[t].update)
      dev    == Resolve(CHOOSE l \in labels : TRUE)
  IN  /\ w[t].pc = "patch"
      /\ \/ /\ labels = {}
            /\ w' = [w EXCEPT ![t] = Idle] /\ UNCHANGED <<bls, unguarded, counters>>
         \/ /\ labels # {} /\ dev = NONE
            /\ w' = [w EXCEPT ![t] = Refused(@)] /\ UNCHANGED <<bls, unguarded, counters>>
         \/ /\ labels # {} /\ dev # NONE
            /\ w' = [w EXCEPT ![t] = Idle] /\ UNCHANGED <<bls, unguarded>>
            /\ IF dev \in bls THEN UNCHANGED counters ELSE Fault
         \/ /\ labels # {} /\ dev \notin bls \cup {NONE}
            /\ w' = [w EXCEPT ![t].pc = "patching", ![t].dev = dev] /\ bls' = bls \cup {dev}
            /\ unguarded' = unguarded \cup {d \in {dev} : Claimed(d)} /\ UNCHANGED counters
      /\ UNCHANGED <<world, lock, mounts, others, file, entry, open, wrote, cut, left>>

\* The entry is read, and opened for writing, which empties it.
OpenEntry(t) ==
  LET dev == w[t].dev IN
  /\ w[t].pc = "patching"
  /\ \/ /\ w' = [w EXCEPT ![t].pc = "rewriting", ![t].dirty = TRUE]
        /\ entry' = [entry EXCEPT ![dev] = Part(t)] /\ wrote' = <<"entry", dev>>
        /\ UNCHANGED counters
     \/ w' = [w EXCEPT ![t].pc = "unpatch", ![t].ok = FALSE] /\ Fault /\ UNCHANGED <<entry, wrote>>
  /\ UNCHANGED <<world, lock, mounts, others, bls, file, open, lapses>>

\* It is rewritten in place, without a sync.
WriteEntry(t) ==
  LET dev == w[t].dev IN
  /\ w[t].pc = "rewriting"
  /\ \/ /\ w' = [w EXCEPT ![t].pc = "unpatch"]
        /\ entry' = [entry EXCEPT ![dev] = Whole(t)] /\ cut' = cut \ {dev} /\ UNCHANGED counters
     \/ /\ w' = [w EXCEPT ![t].pc = "unpatch", ![t].ok = FALSE]
        /\ cut' = cut \cup {dev} /\ Fault /\ UNCHANGED entry
  /\ UNCHANGED <<world, lock, mounts, others, bls, file, open, wrote, unguarded, left>>

\* A umount that fails goes unnoticed.
PatchEnd(t) ==
  /\ w[t].pc = "unpatch" /\ w' = [w EXCEPT ![t] = Idle]
  /\ \/ bls' = bls \ {w[t].dev} /\ UNCHANGED counters
     \/ UNCHANGED bls /\ Fault
  /\ UNCHANGED <<world, lock, mounts, others, file, entry, open, wrote, lapses>>

-----------------------------------------------------------------------------
(* The rest of the system *)

Plug(v) ==
  /\ near' = IF v \in near THEN near \ {v} ELSE near \cup {v}
  /\ w' = [t \in Updaters |-> [w[t] EXCEPT !.moved = @ \/ w[t].pc \notin {"idle", "refused"}]]
  /\ \A d \in Devs(v) : ~Mounted(d)
  /\ UNCHANGED <<board, media, wrote, lapses, counters>>

\* An automatic mount, of a device that has none.
OthersMount(d) ==
  /\ d \in Devs(Seen) /\ ~Mounted(d)
  /\ others' = others \cup {d} /\ unguarded' = unguarded \cup {e \in {d} : Claimed(e)}
  /\ UNCHANGED <<world, w, lock, mounts, bls, file, entry, open, wrote, cut, left, counters>>

\* An updater dies; the kernel drops its lock, its mount and force_ro stay.
Kill(t) ==
  /\ crashes < MaxCrashes /\ crashes' = crashes + 1
  /\ w[t].pc \notin {"idle", "refused"}
  /\ w' = [w EXCEPT ![t] = Idle] /\ lock' = Unlocked(t)
  /\ left' = left \cup {d \in {w[t].dev} : w[t].pc \in {"lifted", "restore"}}
  /\ cut' = cut \cup {d \in {w[t].dev} : w[t].pc = "rewriting"}
  /\ UNCHANGED <<world, mounts, others, bls, file, entry, open, wrote, unguarded, updates, faults>>

\* The devices whose entry is being rewritten, and those where the umount is yet to sync it.
Halfway  == {w[t].dev : t \in {s \in Updaters : w[s].pc = "rewriting"}}
Unsynced == {w[t].dev : t \in {s \in Updaters : w[s].pc = "unpatch" /\ w[s].ok}}

Reboot ==
  /\ crashes < MaxCrashes /\ crashes' = crashes + 1
  /\ \E lost \in SUBSET Unsynced :
       /\ entry' = [d \in Filesystems |-> [entry[d] EXCEPT !.whole = @ /\ d \notin lost]]
       /\ cut' = cut \cup lost \cup Halfway
  /\ w' = [t \in Updaters |-> Idle] /\ lock' = [d \in Filesystems |-> NONE]
  /\ mounts' = [d \in Filesystems |-> 0] /\ others' = {} /\ bls' = {} /\ open' = {}
  /\ unguarded' = {} /\ left' = {}
  /\ UNCHANGED <<world, file, wrote, updates, faults>>

Init ==
  /\ board \in Boards /\ near = {}
  /\ w = [t \in Updaters |-> Idle] /\ lock = [d \in Filesystems |-> NONE]
  /\ mounts = [d \in Filesystems |-> 0] /\ others = {} /\ bls = {} /\ open = {}
  /\ file = [d \in Filesystems |-> [dest |-> Whole(Old), new |-> NONE]]
  /\ entry = [d \in Filesystems |-> Whole(Old)]
  /\ unguarded = {} /\ cut = {} /\ left = {}
  /\ wrote = <<"nothing", NONE>> /\ updates = 0 /\ faults = 0 /\ crashes = 0

Step(t) ==
  Locate(t) \/ Skip(t) \/ WritePartition(t) \/ WriteOffset(t) \/ Lift(t) \/ Program(t)
    \/ Restore(t) \/ FindFile(t) \/ TakeLock(t) \/ FindMount(t) \/ MountFs(t) \/ MountFails(t)
    \/ Create(t) \/ Fill(t) \/ Rename(t) \/ FileFails(t) \/ Close(t) \/ PatchMount(t)
    \/ OpenEntry(t) \/ WriteEntry(t) \/ PatchEnd(t)

Next ==
  \/ \E t \in Updaters, u \in Updates : Begin(t, u)
  \/ \E t \in Updaters : Step(t) \/ Kill(t)
  \/ \E v \in Visitors : Plug(v)
  \/ \E d \in Filesystems : OthersMount(d)
  \/ Reboot

Spec == Init /\ [][Next]_vars

-----------------------------------------------------------------------------
(* Properties *)

Steps == {"idle", "refused", "locate", "write", "lifted", "restore", "lock", "patch"}
           \cup FileSteps \cup EntrySteps

Content == [by : Updaters \cup {Old}, whole : BOOLEAN]

\* A device's lock is held by the updater that is between its mount and its unmount.
TypeOK ==
  /\ board \in Boards /\ near \subseteq Visitors
  /\ \A t \in Updaters :
       /\ w[t].pc \in Steps /\ {w[t].mine, w[t].ok, w[t].dirty, w[t].moved} \subseteq BOOLEAN
       /\ w[t].update \in Updates \cup {<<>>} /\ w[t].k \in 0..Len(w[t].update)
       /\ w[t].pc \in FileSteps => w[t].dev \in Filesystems /\ lock[w[t].dev] = t
  /\ lock \in [Filesystems -> Updaters \cup {NONE}]
  /\ \A d \in Filesystems : lock[d] # NONE => w[lock[d]].pc \in FileSteps /\ w[lock[d]].dev = d
  /\ mounts \in [Filesystems -> Nat] /\ others \cup bls \subseteq Filesystems
  /\ file \in [Filesystems -> [dest : Content, new : Content \cup {NONE}]]
  /\ entry \in [Filesystems -> Content] /\ unguarded \cup cut \subseteq Filesystems
  /\ updates \in 0..MaxUpdates /\ faults \in 0..MaxFaults /\ crashes \in 0..MaxCrashes

\* The read-write mounts of a device, whoever made them.
Mounts(d) == mounts[d] + (IF d \in bls THEN 1 ELSE 0) + (IF d \in others THEN 1 ELSE 0)

\* "Two concurrent read-write mounts of the same FAT filesystem corrupt it": with_mounted_partition
\* never adds one to its own, be it of another update, of a dead one, or left by a failed umount,
\* nor to anyone else's. There are two only where one was added without the lock and without
\* asking: by the patch of the boot entry, over any other, or by an automatic mount between
\* an updater's look at the mounts and its own mount.
OneMount == \A d \in Filesystems : mounts[d] <= 1 /\ (Mounts(d) <= 1 \/ d \in unguarded)

\* "A boot entry is the one file on the device that must never be observed half-written":
\* whatever crashes, fails or runs beside it, a file target is one that was written whole. The
\* entry of sdboot-ab, which is rewritten in place, is not whole while that goes on, and after
\* that was cut off: by an error, a dead updater, or a reboot before its umount.
FileWhole ==
  \A d \in Filesystems :
    /\ file[d].dest.whole
    /\ ~entry[d].whole => d \in cut \cup Halfway

\* Whichever disks come and go between the lookup of a target and its write, what / is
\* built from is never written by a label, no other disk is where / tells the booted one,
\* and a disk that has labels is never written by an offset. (The eMMC boot partitions
\* are those of the disk that by-partlabel/var names.)
RightDisk ==
  /\ wrote[1] \in {"partition", "file", "entry"} =>
       wrote[2] \notin board.runs /\ (board.anchored => wrote[2] \in Devs(board.parts))
  /\ wrote[1] = "offset" => \A p \in board.parts : p.label = NONE

\* A target is refused before the first byte of the update is written, if no disk came
\* or went since it began (resolve_slot_targets).
RefusedFirst == \A t \in Updaters : w[t].pc = "refused" /\ w[t].dirty => w[t].moved

\* An eMMC boot partition is writable only while an updater is at it, or since one was killed
\* there, or could not restore its force_ro, until the next write or boot does.
Relocked ==
  \A d \in open :
    d \in left \/ \E t \in Updaters : w[t].pc \in {"lifted", "restore"} /\ w[t].dev = d
=============================================================================
