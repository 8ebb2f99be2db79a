--------------------------- MODULE BootMediaProofs --------------------------
(***************************************************************************)
(* What holds of BootMedia for any boards, disks and bundles and any       *)
(* number of updaters, faults and crashes: the types; that a partition is  *)
(* mounted once and its file never half-written; that a target is refused  *)
(* before the first byte; that eMMC boot partitions are locked again; and  *)
(* that what / is built from is never written.                             *)
(***************************************************************************)
EXTENDS BootMedia, FiniteSetTheorems, TLAPS

\* An updater's record has its fields, whatever is in them.
Shaped(r) ==
  r = [pc |-> r.pc, update |-> r.update, targets |-> r.targets, k |-> r.k, dev |-> r.dev,
       mine |-> r.mine, ok |-> r.ok, dirty |-> r.dirty, moved |-> r.moved]

Typed(r) ==
  /\ Shaped(r) /\ r.pc \in Steps
  /\ r.mine \in BOOLEAN /\ r.ok \in BOOLEAN /\ r.dirty \in BOOLEAN /\ r.moved \in BOOLEAN
  /\ r.update \in Updates \cup {<<>>} /\ r.k \in 0..Len(r.update)

Lifted(r) == r.pc \in {"lifted", "restore"}

\* An updater at a file holds the device's lock, and knows its mount and its file.
Holds(t) ==
  /\ w[t].pc = "lock" => w[t].dev \in Filesystems
  /\ w[t].pc \in FileSteps =>
       /\ w[t].dev \in Filesystems /\ lock[w[t].dev] = t
       /\ w[t].pc = "attach" => mounts[w[t].dev] = 0
       /\ w[t].pc \notin {"mount", "attach"} /\ w[t].mine => mounts[w[t].dev] = 1
       /\ w[t].pc = "fill" => file[w[t].dev].new = Part(t)
       /\ w[t].pc = "rename" => file[w[t].dev].new = Whole(t)

\* An updater past the lookup has its targets, and can still find them unless disks
\* have moved. One before it has written nothing.
Aims(t) ==
  /\ w[t].pc = "locate" => w[t].update \in Updates /\ ~w[t].dirty
  /\ w[t].pc \notin {"idle", "refused", "locate"} =>
       /\ w[t].update \in Updates /\ w[t].k \in 1..Len(w[t].update)
       /\ \A n \in 1..Len(w[t].update) : w[t].targets[n].kind = "file" =>
            /\ w[t].targets[n].at \in BootLabels
            /\ w[t].moved \/ Resolve(w[t].targets[n].at) # NONE
       /\ \A l \in Patched(w[t].update) : w[t].moved \/ Resolve(l) # NONE
  /\ w[t].pc = "refused" /\ w[t].dirty => w[t].moved
  /\ w[t].pc \in EntrySteps => w[t].dev \in Filesystems

World ==
  /\ board \in Boards /\ near \subseteq Visitors
  /\ others \subseteq Filesystems /\ bls \subseteq Filesystems
  /\ unguarded \subseteq Filesystems /\ cut \subseteq Filesystems
  /\ updates \in 0..MaxUpdates /\ faults \in 0..MaxFaults /\ crashes \in 0..MaxCrashes

Media ==
  /\ lock \in [Filesystems -> Updaters \cup {NONE}]
  /\ mounts \in [Filesystems -> {0, 1}]
  /\ file \in [Filesystems -> [dest : Content, new : Content \cup {NONE}]]
  /\ \A d \in Filesystems : file[d].dest.whole
  /\ entry \in [Filesystems -> Content]

Locked ==
  \A d \in Filesystems : lock[d] # NONE => w[lock[d]].pc \in FileSteps /\ w[lock[d]].dev = d

\* An entry that is not whole is being rewritten, or was cut off.
Entries ==
  \A d \in Filesystems :
    ~entry[d].whole => d \in cut \/ \E t \in Updaters : w[t].pc = "rewriting" /\ w[t].dev = d

\* A device is mounted once, and not at all while an updater is about to mount it.
Guarded ==
  \A d \in Filesystems \ unguarded :
    Mounts(d) <= 1 /\ \A t \in Updaters : w[t].pc = "attach" /\ w[t].dev = d => ~Mounted(d)

IInv ==
  /\ w = [t \in Updaters |-> w[t]] /\ \A t \in Updaters : Typed(w[t])
  /\ World /\ Media /\ Locked
  /\ \A t \in Updaters : Holds(t) /\ Aims(t)
  /\ Relocked /\ Entries /\ Guarded

\* An updater at rest.
LEMMA IdleTyped ==
  /\ Typed(Idle) /\ Idle.pc = "idle" /\ Idle.update = <<>> /\ Idle.k = 0
  /\ ~Idle.dirty /\ ~Idle.moved
<1>1. /\ Idle.pc = "idle" /\ Idle.update = <<>> /\ Idle.k = 0
      /\ Idle.mine = FALSE /\ Idle.ok = TRUE /\ Idle.dirty = FALSE /\ Idle.moved = FALSE
  BY DEF Idle
<1>2. Shaped(Idle)
  BY DEF Shaped, Idle
<1>3. Idle.k \in 0..Len(Idle.update)
  BY <1>1
<1> QED BY <1>1, <1>2, <1>3 DEF Typed, Steps

\* A device that no update has begun on satisfies the invariant.
LEMMA InitIInv == Init => IInv
<1> SUFFICES ASSUME Init PROVE IInv
  OBVIOUS
<1>1. \A t \in Updaters : w[t] = Idle
  BY DEF Init
<1>2. \A t \in Updaters : Typed(w[t]) /\ Holds(t) /\ Aims(t)
  BY <1>1, IdleTyped DEF Holds, Aims, FileSteps, EntrySteps
<1>3. World
  <2>1. MaxUpdates \in Nat /\ MaxFaults \in Nat /\ MaxCrashes \in Nat
    BY BootMediaAssumption
  <2>2. /\ board \in Boards /\ near = {} /\ others = {} /\ bls = {} /\ unguarded = {} /\ cut = {}
        /\ updates = 0 /\ faults = 0 /\ crashes = 0
    BY DEF Init
  <2>3. board \in Boards /\ near \subseteq Visitors /\ others \subseteq Filesystems /\ bls \subseteq Filesystems
    BY <2>2
  <2>4. unguarded \subseteq Filesystems /\ cut \subseteq Filesystems
    BY <2>2
  <2>5. updates \in 0..MaxUpdates /\ faults \in 0..MaxFaults /\ crashes \in 0..MaxCrashes
    BY <2>1, <2>2
  <2> QED BY <2>3, <2>4, <2>5 DEF World
<1>6. Locked /\ Relocked
  BY DEF Init, Locked, Relocked
<1>7. Entries
  BY DEF Init, Entries, Whole
<1>8. Guarded
  <2>1. \A d \in Filesystems : mounts[d] = 0 /\ d \notin bls /\ d \notin others
    BY DEF Init
  <2>2. \A d \in Filesystems : Mounts(d) = 0 /\ ~Mounted(d)
    BY <2>1 DEF Mounts, Mounted
  <2> QED BY <2>2 DEF Guarded
<1>4. Media
  BY DEF Init, Media, Content, Whole
<1>5. w = [t \in Updaters |-> w[t]]
  BY DEF Init
<1> QED BY <1>2, <1>3, <1>4, <1>5, <1>6, <1>7, <1>8 DEF IInv

-----------------------------------------------------------------------------
(* Lookups *)

\* What a lookup finds carries the label.
LEMMA ResolveLabelFinds ==
  ASSUME NEW parts, NEW root, NEW below, NEW label,
         ResolveLabel(parts, root, below, label) # NONE
  PROVE  \E p \in parts : p.label = label /\ p.dev = ResolveLabel(parts, root, below, label)
<1> DEFINE booted == BootedPartition(parts, root, below)
           lone   == Only({p \in parts : p.label = label})
           found  == IF booted # NONE THEN Only(Named(parts, booted.disk, label)) ELSE lone
<1>1. found # NONE /\ ResolveLabel(parts, root, below, label) = found.dev
  BY DEF ResolveLabel
<1>2. \A S : Only(S) # NONE => Only(S) \in S
  BY DEF Only
<1>3. found \in {p \in parts : p.label = label}
  BY <1>1, <1>2 DEF Named
<1> QED BY <1>1, <1>3

\* A boot partition that a lookup finds has a filesystem.
LEMMA ResolveFinds ==
  ASSUME World, NEW label \in BootLabels, Resolve(label) # NONE
  PROVE  Resolve(label) \in Filesystems
<1>1. Resolve(label) = ResolveLabel(Seen, board.root, board.below, label)
  BY DEF Resolve
<1>2. PICK p \in Seen : p.label = label /\ p.dev = Resolve(label)
  BY <1>1, ResolveLabelFinds
<1>3. p \in (UNION {b.parts : b \in Boards}) \cup (UNION Visitors)
  BY DEF Seen, World
<1> QED BY <1>2, <1>3, BootMediaAssumption

\* Where no disk comes or goes, a lookup finds what it found.
LEMMA ResolveStays ==
  ASSUME UNCHANGED world, NEW label PROVE Resolve(label)' = Resolve(label)
  BY DEF world, Resolve, Absent, Seen

\* The targets of a bundle are among the boot labels.
LEMMA LabelsOf ==
  ASSUME NEW u \in Updates
  PROVE  /\ Patched(u) \subseteq BootLabels
         /\ \A n \in DOMAIN u : u[n].kind = "file" => u[n].name \in BootLabels
         /\ \A n \in DOMAIN u : u[n].kind \in {"skip", "emmc", "file", "label"}
         /\ Len(u) \in Nat /\ Len(u) >= 1 /\ DOMAIN u = 1..Len(u)
<1>2. \A n \in 1..Len(u) : u[n].kind \in {"skip", "emmc", "file", "label"}
  <2> DEFINE Targets == [kind : {"skip", "emmc", "file", "label"}, name : STRING, patch : BOOLEAN]
  <2>1. u \in Seq(Targets)
    BY BootMediaAssumption
  <2> SUFFICES ASSUME NEW n \in 1..Len(u) PROVE u[n].kind \in {"skip", "emmc", "file", "label"}
    OBVIOUS
  <2>2. u[n] \in Targets
    <3> HIDE DEF Targets
    <3> QED BY <2>1
  <2> QED BY <2>2
<1>1. Len(u) \in Nat /\ Len(u) >= 1 /\ DOMAIN u = 1..Len(u)
  BY BootMediaAssumption
<1> QED BY <1>1, <1>2 DEF BootLabels

-----------------------------------------------------------------------------
(* A step of one updater *)

\* It disturbs nobody else if it leaves alone what others have locked.
LEMMA UpdaterStep ==
  ASSUME IInv, NEW t \in Updaters, NEW r, Typed(r), w' = [w EXCEPT ![t] = r],
         UNCHANGED world, World', Media',
         \A d \in Filesystems : lock[d] \notin {t, NONE} =>
           lock'[d] = lock[d] /\ mounts'[d] = mounts[d] /\ file'[d] = file[d],
         \A d \in Filesystems : lock'[d] # lock[d] => lock'[d] \in {t, NONE},
         \A d \in Filesystems : lock'[d] = t => r.pc \in FileSteps /\ r.dev = d,
         Holds(t)', Aims(t)',
         Relocked', Entries', Guarded'
  PROVE  IInv'
<1>1. /\ w' = [u \in Updaters |-> w'[u]] /\ w'[t] = r
      /\ \A u \in Updaters \ {t} : w'[u] = w[u]
  BY DEF IInv
<1>2. \A u \in Updaters : Typed(w[u])'
  BY <1>1 DEF IInv
<1>3. ASSUME NEW u \in Updaters \ {t} PROVE Holds(u)'
  <2>1. Holds(u) /\ w'[u] = w[u] /\ u # NONE
    BY <1>1, BootMediaAssumption DEF IInv
  <2> QED BY <2>1 DEF Holds
<1>4. ASSUME NEW u \in Updaters \ {t} PROVE Aims(u)'
  <2>1. Aims(u) /\ w'[u] = w[u]
    BY <1>1 DEF IInv
  <2>2. \A l : Resolve(l)' = Resolve(l)
    BY ResolveStays
  <2> QED BY <2>1, <2>2 DEF Aims
<1>5. Locked'
  <2> SUFFICES ASSUME NEW d \in Filesystems, lock'[d] # NONE
               PROVE  w'[lock'[d]].pc \in FileSteps /\ w'[lock'[d]].dev = d
    BY DEF Locked
  <2>1. CASE lock'[d] = t
    BY <1>1, <2>1
  <2>2. CASE lock'[d] # t
    <3>1. lock'[d] = lock[d]
      BY <2>2
    <3>2. lock[d] \in Updaters \ {t}
      BY <2>2, <3>1 DEF IInv, Media
    <3> QED BY <1>1, <3>1, <3>2 DEF IInv, Locked
  <2> QED BY <2>1, <2>2
<1> QED BY <1>1, <1>2, <1>3, <1>4, <1>5 DEF IInv

\* It leaves no eMMC boot partition writable that nobody is at.
LEMMA StepIInv ==
  ASSUME IInv, NEW t \in Updaters, NEW r, Typed(r), w' = [w EXCEPT ![t] = r],
         UNCHANGED world, World', Media',
         \A d \in Filesystems : lock[d] \notin {t, NONE} =>
           lock'[d] = lock[d] /\ mounts'[d] = mounts[d] /\ file'[d] = file[d],
         \A d \in Filesystems : lock'[d] # lock[d] => lock'[d] \in {t, NONE},
         \A d \in Filesystems : lock'[d] = t => r.pc \in FileSteps /\ r.dev = d,
         Holds(t)', Aims(t)', Entries', Guarded',
         left' = left,
         \A d \in open' : (Lifted(r) /\ r.dev = d) \/ (d \in open /\ ~(Lifted(w[t]) /\ w[t].dev = d))
  PROVE  IInv'
<1>1. w'[t] = r /\ \A u \in Updaters \ {t} : w'[u] = w[u]
  BY DEF IInv
<1>2. Relocked'
  <2> SUFFICES ASSUME NEW d \in open', d \notin left'
               PROVE  \E u \in Updaters : Lifted(w'[u]) /\ w'[u].dev = d
    BY DEF Relocked, Lifted
  <2>1. CASE Lifted(r) /\ r.dev = d
    BY <1>1, <2>1
  <2>2. CASE d \in open /\ ~(Lifted(w[t]) /\ w[t].dev = d)
    <3>1. PICK u \in Updaters : Lifted(w[u]) /\ w[u].dev = d
      BY <2>2 DEF IInv, Relocked, Lifted
    <3>2. u # t
      BY <2>2, <3>1
    <3> QED BY <1>1, <3>1, <3>2
  <2> QED BY <2>1, <2>2
<1> QED BY <1>2, UpdaterStep

\* It leaves the entries as they were, if it was not rewriting one.
LEMMA EntriesKept ==
  ASSUME IInv, NEW t \in Updaters, NEW r, w' = [w EXCEPT ![t] = r], w[t].pc # "rewriting",
         UNCHANGED <<entry, cut>>
  PROVE  Entries'
<1> SUFFICES ASSUME NEW d \in Filesystems, ~entry[d].whole, d \notin cut
             PROVE  \E u \in Updaters : w'[u].pc = "rewriting" /\ w'[u].dev = d
  BY DEF Entries
<1>1. PICK u \in Updaters : w[u].pc = "rewriting" /\ w[u].dev = d
  BY DEF IInv, Entries
<1>2. w'[u] = w[u]
  BY <1>1 DEF IInv
<1> QED BY <1>1, <1>2

\* It mounts nothing, and is not about to.
LEMMA GuardedKept ==
  ASSUME IInv, NEW t \in Updaters, NEW r, w' = [w EXCEPT ![t] = r], r.pc # "attach",
         mounts' \in [Filesystems -> {0, 1}], \A d \in Filesystems : mounts'[d] <= mounts[d],
         bls' \subseteq bls, others' \subseteq others, unguarded' = unguarded
  PROVE  Guarded'
<1>1. w'[t] = r /\ \A u \in Updaters \ {t} : w'[u] = w[u]
  BY DEF IInv
<1>2. mounts \in [Filesystems -> {0, 1}]
  BY DEF IInv, Media
<1>3. ASSUME NEW d \in Filesystems \ unguarded PROVE Mounts(d)' <= 1
  <2>1. Mounts(d) <= 1
    BY DEF IInv, Guarded
  <2>2. mounts[d] \in {0, 1} /\ mounts'[d] \in {0, 1} /\ mounts'[d] <= mounts[d]
    BY <1>2
  <2> QED BY <2>1, <2>2 DEF Mounts
<1>4. ASSUME NEW d \in Filesystems \ unguarded, NEW u \in Updaters, w'[u].pc = "attach", w'[u].dev = d
      PROVE  ~Mounted(d)'
  <2>1. ~Mounted(d)
    BY <1>1, <1>4 DEF IInv, Guarded
  <2>2. mounts[d] \in {0, 1} /\ mounts'[d] \in {0, 1} /\ mounts'[d] <= mounts[d]
    BY <1>2
  <2> QED BY <2>1, <2>2 DEF Mounted
<1> QED BY <1>3, <1>4 DEF Guarded

\* Away from files and eMMC boot partitions, before and after.
LEMMA AsideIInv ==
  ASSUME IInv, NEW t \in Updaters, NEW r, Typed(r), w' = [w EXCEPT ![t] = r],
         UNCHANGED <<world, lock, mounts, file, open, left>>, World', entry' \in [Filesystems -> Content],
         w[t].pc \notin FileSteps, r.pc \notin FileSteps, ~Lifted(w[t]), Holds(t)', Aims(t)',
         Entries', Guarded'
  PROVE  IInv'
<1>1. \A d \in Filesystems : lock[d] # t
  BY BootMediaAssumption DEF IInv, Locked
<1>2. Media'
  BY DEF IInv, Media
<1> QED BY <1>1, <1>2, StepIInv

\* And away from boot entries.
LEMMA PlainIInv ==
  ASSUME IInv, NEW t \in Updaters, NEW r, Typed(r), w' = [w EXCEPT ![t] = r],
         UNCHANGED <<world, media, lapses>>, World',
         w[t].pc \notin FileSteps \cup EntrySteps, r.pc \notin FileSteps, ~Lifted(w[t]),
         Holds(t)', Aims(t)'
  PROVE  IInv'
<1>1. UNCHANGED <<world, lock, mounts, others, bls, file, entry, open, unguarded, cut, left>>
  BY DEF media, lapses
<1>2. w[t].pc # "rewriting" /\ w[t].pc \notin FileSteps /\ r.pc # "attach"
  BY DEF FileSteps, EntrySteps
<1>3. entry' \in [Filesystems -> Content] /\ mounts' \in [Filesystems -> {0, 1}]
      /\ \A d \in Filesystems : mounts'[d] <= mounts[d]
  BY <1>1 DEF IInv, Media
<1>4. Entries' /\ Guarded'
  BY <1>1, <1>2, <1>3, EntriesKept, GuardedKept
<1> QED BY <1>1, <1>2, <1>3, <1>4, AsideIInv

\* An updater that has come to rest.
LEMMA RestAims ==
  ASSUME IInv, NEW t \in Updaters, w' = [w EXCEPT ![t] = Idle]
  PROVE  Holds(t)' /\ Aims(t)'
<1>1. w'[t].pc = "idle"
  BY IdleTyped DEF IInv
<1> QED BY <1>1 DEF Holds, Aims, FileSteps, EntrySteps

\* An artifact is done with, or has failed.
LEMMA AfterAims ==
  ASSUME IInv, NEW t \in Updaters, w[t].pc \notin {"idle", "refused", "locate"}, UNCHANGED world,
         NEW ok \in BOOLEAN, NEW dirty \in BOOLEAN,
         w' = [w EXCEPT ![t] = After([w[t] EXCEPT !.dirty = dirty], ok)]
  PROVE  /\ Typed(After([w[t] EXCEPT !.dirty = dirty], ok))
         /\ After([w[t] EXCEPT !.dirty = dirty], ok).pc \in {"idle", "write", "patch"}
         /\ Holds(t)' /\ Aims(t)'
<1> DEFINE q == [w[t] EXCEPT !.dirty = dirty]
           r == After(q, ok)
<1>1. w'[t] = r
  BY DEF IInv
<1>2. CASE ~ok
  <2>1. r = Idle
    BY <1>2 DEF After
  <2>2. w'[t].pc = "idle"
    BY <1>1, <2>1, IdleTyped
  <2>3. Typed(r) /\ r.pc \in {"idle", "write", "patch"}
    BY <2>1, IdleTyped
  <2> HIDE DEF r, q
  <2>4. Holds(t)' /\ Aims(t)'
    BY <2>2 DEF Holds, Aims, FileSteps, EntrySteps
  <2> QED BY <2>3, <2>4 DEF r, q
<1>3. CASE ok
  <2>1. /\ Typed(w[t]) /\ w[t].update \in Updates /\ w[t].k \in 1..Len(w[t].update)
        /\ Len(w[t].update) \in Nat
    BY LabelsOf DEF IInv, Aims
  <2>2. /\ r = [pc |-> r.pc, update |-> w[t].update, targets |-> w[t].targets, k |-> r.k, dev |-> NONE,
                mine |-> FALSE, ok |-> w[t].ok, dirty |-> dirty, moved |-> w[t].moved]
        /\ r.pc \in {"write", "patch"}
        /\ r.k \in 1..Len(w[t].update)
    <3>1. q = [pc |-> w[t].pc, update |-> w[t].update, targets |-> w[t].targets, k |-> w[t].k,
               dev |-> w[t].dev, mine |-> w[t].mine, ok |-> w[t].ok, dirty |-> dirty,
               moved |-> w[t].moved]
      BY <2>1 DEF Typed, Shaped
    <3> HIDE DEF q
    <3>2. CASE q.k < Len(q.update)
      <4>1. r = [q EXCEPT !.pc = "write", !.k = @ + 1, !.dev = NONE, !.mine = FALSE]
        BY <1>3, <3>2 DEF After
      <4>2. q.k + 1 \in 1..Len(w[t].update) /\ q.k = w[t].k
        BY <2>1, <3>1, <3>2
      <4>3. r = [pc |-> "write", update |-> w[t].update, targets |-> w[t].targets, k |-> q.k + 1,
                 dev |-> NONE, mine |-> FALSE, ok |-> w[t].ok, dirty |-> dirty,
                 moved |-> w[t].moved]
        BY <3>1, <4>1
      <4> HIDE DEF r
      <4> QED BY <4>2, <4>3
    <3>3. CASE ~(q.k < Len(q.update))
      <4>1. r = [q EXCEPT !.pc = "patch", !.dev = NONE, !.mine = FALSE]
        BY <1>3, <3>3 DEF After
      <4>2. r = [pc |-> "patch", update |-> w[t].update, targets |-> w[t].targets, k |-> w[t].k,
                 dev |-> NONE, mine |-> FALSE, ok |-> w[t].ok, dirty |-> dirty,
                 moved |-> w[t].moved]
        BY <3>1, <4>1
      <4> HIDE DEF r
      <4> QED BY <2>1, <4>2
    <3> QED BY <3>2, <3>3
  <2> HIDE DEF r
  <2>3. Typed(r)
    <3>1. r.pc \in Steps /\ r.update = w[t].update /\ r.k \in 0..Len(r.update) /\ Shaped(r)
      BY <2>1, <2>2 DEF Shaped, Steps
    <3>2. r.mine = FALSE /\ r.ok = w[t].ok /\ r.dirty = dirty /\ r.moved = w[t].moved
      BY <2>2
    <3> QED BY <2>1, <3>1, <3>2 DEF Typed
  <2>4. \A l : Resolve(l)' = Resolve(l)
    BY ResolveStays
  <2>5. Aims(t)
    BY DEF IInv
  <2>6. Holds(t)'
    BY <1>1, <2>2 DEF Holds, FileSteps
  <2>7. Aims(t)'
    BY <1>1, <2>1, <2>2, <2>4, <2>5 DEF Aims, EntrySteps
  <2> QED BY <2>2, <2>3, <2>6, <2>7 DEF r
<1> QED BY <1>2, <1>3

-----------------------------------------------------------------------------
(* Targets *)

LEMMA BeginIInv ==
  ASSUME IInv, NEW t \in Updaters, NEW u \in Updates, Begin(t, u) PROVE IInv'
<1> DEFINE r == [Idle EXCEPT !.pc = "locate", !.update = u]
<1>1. Len(u) \in Nat
  BY LabelsOf
<1>0. Shaped(Idle)
  BY IdleTyped DEF Typed
<1>6. r = [Idle EXCEPT !.pc = "locate", !.update = u]
  OBVIOUS
<1>3. w' = [w EXCEPT ![t] = r] /\ w[t].pc \in {"idle", "refused"}
  BY DEF Begin
<1> HIDE DEF r
<1>2. r = [pc |-> "locate", update |-> u, targets |-> Idle.targets, k |-> Idle.k, dev |-> Idle.dev,
           mine |-> Idle.mine, ok |-> Idle.ok, dirty |-> Idle.dirty, moved |-> Idle.moved]
  BY <1>0, <1>6 DEF Shaped
<1>4. Typed(r) /\ r.pc = "locate"
  BY <1>1, <1>2, IdleTyped DEF Typed, Shaped, Steps
<1>5. Holds(t)' /\ Aims(t)'
  <2>1. w'[t] = r
    BY <1>3 DEF IInv
  <2>2. w'[t].pc = "locate" /\ w'[t].update = u
    BY <1>2, <2>1
  <2>7. ~w'[t].dirty
    BY <1>2, <2>1, IdleTyped
  <2>3. Holds(t)'
    BY <2>2 DEF Holds, FileSteps
  <2>4. w'[t].pc \in {"idle", "refused", "locate"} /\ w'[t].pc # "refused" /\ w'[t].pc \notin EntrySteps
    BY <2>2 DEF EntrySteps
  <2>6. Aims(t)'
    BY <2>2, <2>4, <2>7, Zenon DEF Aims
  <2> QED BY <2>3, <2>6
<1>7. World' /\ UNCHANGED <<world, media, lapses>>
  BY BootMediaAssumption DEF Begin, IInv, World, world, media, lapses
<1> QED BY <1>3, <1>4, <1>5, <1>7, PlainIInv DEF FileSteps, EntrySteps, Lifted

\* An updater that is refused a target.
LEMMA RefusedIInv ==
  ASSUME IInv, NEW t \in Updaters, w[t].pc \notin FileSteps \cup EntrySteps, ~Lifted(w[t]),
         w[t].dirty => w[t].moved, w' = [w EXCEPT ![t] = Refused(w[t])],
         UNCHANGED <<world, media, wrote, lapses, counters>>
  PROVE  IInv'
<1> DEFINE r == Refused(w[t])
<1>0. Shaped(Idle)
  BY IdleTyped DEF Typed
<1>6. r = [Idle EXCEPT !.pc = "refused", !.dirty = w[t].dirty, !.moved = w[t].moved]
  BY DEF Refused
<1>2. Typed(w[t]) /\ w'[t] = r
  BY DEF IInv
<1> HIDE DEF r
<1>1. r = [pc |-> "refused", update |-> Idle.update, targets |-> Idle.targets, k |-> Idle.k, dev |-> Idle.dev,
           mine |-> Idle.mine, ok |-> Idle.ok, dirty |-> w[t].dirty, moved |-> w[t].moved]
  BY <1>0, <1>6 DEF Shaped
<1>3. Typed(r) /\ r.pc = "refused"
  BY <1>1, <1>2, IdleTyped DEF Typed, Shaped, Steps
<1>4. Holds(t)' /\ Aims(t)'
  BY <1>1, <1>2 DEF Holds, Aims, FileSteps, EntrySteps
<1>5. World'
  BY DEF IInv, World, world, media, lapses, counters
<1> QED BY <1>3, <1>4, <1>5, PlainIInv DEF FileSteps, r

LEMMA LocateIInv ==
  ASSUME IInv, NEW t \in Updaters, Locate(t) PROVE IInv'
<1>1. PICK var \in VarDisks :
        LET u == w[t].update
            targets == [n \in DOMAIN u |-> Target(u[n], var)]
        IN  w' = IF \/ \E n \in DOMAIN u : targets[n] = NONE
                    \/ \E l \in Patched(u) : Resolve(l) = NONE
                 THEN [w EXCEPT ![t] = Refused(@)]
                 ELSE [w EXCEPT ![t].pc = "write", ![t].k = 1, ![t].targets = targets]
  BY DEF Locate
<1> DEFINE u == w[t].update
           targets == [n \in DOMAIN u |-> Target(u[n], var)]
           r == [w[t] EXCEPT !.pc = "write", !.k = 1, !.targets = targets]
<1>2. w[t].pc = "locate" /\ UNCHANGED <<world, media, wrote, lapses, counters>>
  BY DEF Locate
<1>3. u \in Updates /\ ~w[t].dirty /\ Typed(w[t])
  BY <1>2 DEF IInv, Aims
<1>4. CASE \/ \E n \in DOMAIN u : targets[n] = NONE
           \/ \E l \in Patched(u) : Resolve(l) = NONE
  <2>1. w' = [w EXCEPT ![t] = Refused(w[t])]
    BY <1>1, <1>4 DEF IInv
  <2> QED BY <1>2, <1>3, <2>1, RefusedIInv DEF FileSteps, EntrySteps, Lifted
<1>5. CASE /\ \A n \in DOMAIN u : targets[n] # NONE
           /\ \A l \in Patched(u) : Resolve(l) # NONE
  <2>1. w' = [w EXCEPT ![t] = r]
    BY <1>1, <1>5 DEF IInv
  <2> HIDE DEF targets
  <2>6. w'[t] = r
    BY <2>1 DEF IInv
  <2>11. r = [w[t] EXCEPT !.pc = "write", !.k = 1, !.targets = targets]
    OBVIOUS
  <2> HIDE DEF r
  <2>2. r = [pc |-> "write", update |-> w[t].update, targets |-> targets, k |-> 1, dev |-> w[t].dev,
             mine |-> w[t].mine, ok |-> w[t].ok, dirty |-> w[t].dirty, moved |-> w[t].moved]
    <3>1. Shaped(w[t])
      BY <1>3 DEF Typed
    <3> QED BY <2>11, <3>1 DEF Shaped
  <2>3. Len(u) \in Nat /\ Len(u) >= 1 /\ DOMAIN u = 1..Len(u)
        /\ \A n \in DOMAIN u : u[n].kind = "file" => u[n].name \in BootLabels
    BY <1>3, LabelsOf
  <2>4. \A n \in 1..Len(u) : targets[n].kind = "file" =>
          targets[n].at \in BootLabels /\ Resolve(targets[n].at) # NONE
    <3> SUFFICES ASSUME NEW n \in 1..Len(u), targets[n].kind = "file"
                 PROVE  targets[n].at \in BootLabels /\ Resolve(targets[n].at) # NONE
      OBVIOUS
    <3>1. targets[n] = Target(u[n], var) /\ targets[n] # NONE
      BY <1>5, <2>3 DEF targets
    <3>4. u[n].kind \in {"skip", "emmc", "file", "label"}
      BY <1>3, <2>3, LabelsOf
    <3>5. CASE u[n].kind = "skip"
      BY <3>1, <3>5 DEF Target, At
    <3>6. CASE u[n].kind = "emmc"
      BY <3>1, <3>6 DEF Target, At
    <3>7. CASE u[n].kind = "label"
      BY <3>1, <3>7 DEF Target, At
    <3>8. CASE u[n].kind = "file"
      BY <3>1, <3>8, <2>3 DEF Target, At
    <3> QED BY <3>4, <3>5, <3>6, <3>7, <3>8
  <2>5. \A l : Resolve(l)' = Resolve(l)
    BY <1>2, ResolveStays
  <2>7. Typed(r) /\ r.pc = "write"
    BY <1>3, <2>2, <2>3 DEF Typed, Shaped, Steps
  <2>8. Holds(t)'
    BY <2>6, <2>7 DEF Holds, FileSteps
  <2>9. Aims(t)'
    BY <1>3, <1>5, <2>2, <2>3, <2>4, <2>5, <2>6 DEF Aims, EntrySteps
  <2>10. World'
    BY <1>2 DEF IInv, World, world, media, lapses, counters
  <2> QED BY <1>2, <2>1, <2>7, <2>8, <2>9, <2>10, PlainIInv DEF FileSteps, EntrySteps, Lifted
<1> QED BY <1>4, <1>5

-----------------------------------------------------------------------------
(* Writing *)

\* An artifact that is not a file is done with, or has failed.
LEMMA PassedIInv ==
  ASSUME IInv, NEW t \in Updaters, w[t].pc = "write", NEW ok \in BOOLEAN, NEW dirty \in BOOLEAN,
         w' = [w EXCEPT ![t] = After([w[t] EXCEPT !.dirty = dirty], ok)],
         UNCHANGED <<world, media, lapses>>, UNCHANGED <<updates, crashes>>, faults' \in 0..MaxFaults
  PROVE  IInv'
<1> DEFINE r == After([w[t] EXCEPT !.dirty = dirty], ok)
<1>1. Typed(r) /\ r.pc \in {"idle", "write", "patch"} /\ Holds(t)' /\ Aims(t)'
  BY AfterAims
<1>2. World'
  BY DEF IInv, World, world, media, lapses
<1> HIDE DEF r
<1> QED BY <1>1, <1>2, PlainIInv DEF FileSteps, EntrySteps, Lifted, r

\* It leaves the record as it is, but for what it says of itself.
LEMMA SameDirty ==
  ASSUME IInv, NEW t \in Updaters
  PROVE  [w[t] EXCEPT !.dirty = w[t].dirty] = w[t] /\ w[t].dirty \in BOOLEAN
<1>1. Shaped(w[t]) /\ w[t].dirty \in BOOLEAN
  BY DEF IInv, Typed
<1> DEFINE q == w[t]
<1>2. q = [pc |-> q.pc, update |-> q.update, targets |-> q.targets, k |-> q.k, dev |-> q.dev,
           mine |-> q.mine, ok |-> q.ok, dirty |-> q.dirty, moved |-> q.moved]
  BY <1>1 DEF Shaped
<1> HIDE DEF q
<1>3. [q EXCEPT !.dirty = q.dirty] = q
  BY <1>2
<1> QED BY <1>1, <1>3 DEF q

\* A fault counts.
LEMMA FaultType ==
  ASSUME World, Fault PROVE faults' \in 0..MaxFaults /\ UNCHANGED <<updates, crashes>>
<1>1. MaxFaults \in Nat
  BY BootMediaAssumption
<1> QED BY <1>1 DEF World, Fault

LEMMA SkipIInv == ASSUME IInv, NEW t \in Updaters, Skip(t) PROVE IInv'
<1>1. w[t].pc = "write" /\ w' = [w EXCEPT ![t] = After(w[t], TRUE)]
  BY DEF Skip, AtTarget, Passed
<1>2. w' = [w EXCEPT ![t] = After([w[t] EXCEPT !.dirty = w[t].dirty], TRUE)] /\ w[t].dirty \in BOOLEAN
  BY <1>1, SameDirty
<1>3. UNCHANGED <<world, media, lapses>> /\ UNCHANGED <<updates, crashes>> /\ faults' \in 0..MaxFaults
  BY DEF Skip, counters, IInv, World
<1> QED BY <1>1, <1>2, <1>3, PassedIInv

LEMMA WritePartitionIInv == ASSUME IInv, NEW t \in Updaters, WritePartition(t) PROVE IInv'
<1> DEFINE dev == Current(t).at
<1>1. w[t].pc = "write" /\ UNCHANGED <<world, media, lapses>>
  BY DEF WritePartition, AtTarget
<1>2. UNCHANGED counters \/ Fault => UNCHANGED <<updates, crashes>> /\ faults' \in 0..MaxFaults
  BY FaultType DEF counters, IInv, World
<1>3. CASE Wrote(t, "partition", dev, TRUE) /\ UNCHANGED counters
  BY <1>1, <1>2, <1>3, PassedIInv DEF Wrote
<1>4. CASE Wrote(t, "partition", dev, FALSE) /\ Fault
  BY <1>1, <1>2, <1>4, PassedIInv DEF Wrote
<1>5. CASE Passed(t, FALSE) /\ UNCHANGED counters
  BY <1>1, <1>2, <1>5, SameDirty, PassedIInv DEF Passed
<1> QED BY <1>3, <1>4, <1>5 DEF WritePartition

LEMMA WriteOffsetIInv == ASSUME IInv, NEW t \in Updaters, WriteOffset(t) PROVE IInv'
<1>1. w[t].pc = "write" /\ UNCHANGED <<world, media, lapses>>
      /\ w' = [w EXCEPT ![t] = After([w[t] EXCEPT !.dirty = TRUE], TRUE)]
  BY DEF WriteOffset, AtTarget, Wrote
<1>2. UNCHANGED <<updates, crashes>> /\ faults' \in 0..MaxFaults
  BY DEF WriteOffset, counters, IInv, World
<1> QED BY <1>1, <1>2, PassedIInv

\* What an updater aims at stays while it is at work.
LEMMA AimsKept ==
  ASSUME IInv, NEW t \in Updaters, UNCHANGED world,
         w[t].pc \notin {"idle", "refused", "locate"},
         w'[t].pc \notin {"idle", "refused", "locate"},
         w'[t].pc \in EntrySteps => w'[t].dev \in Filesystems,
         w'[t].update = w[t].update, w'[t].targets = w[t].targets, w'[t].k = w[t].k,
         w'[t].moved = w[t].moved
  PROVE  Aims(t)'
<1>1. \A l : Resolve(l)' = Resolve(l)
  BY ResolveStays
<1>2. Aims(t)
  BY DEF IInv
<1> QED BY <1>1, <1>2 DEF Aims

\* The fields of a record that a step leaves alone.
LEMMA Altered ==
  ASSUME NEW q, Typed(q), NEW pc \in Steps, NEW dev, NEW mine \in BOOLEAN, NEW ok \in BOOLEAN,
         NEW dirty \in BOOLEAN, NEW r,
         r = [pc |-> pc, update |-> q.update, targets |-> q.targets, k |-> q.k, dev |-> dev,
              mine |-> mine, ok |-> ok, dirty |-> dirty, moved |-> q.moved]
  PROVE  /\ Typed(r) /\ r.pc = pc /\ r.dev = dev /\ r.mine = mine
         /\ r.update = q.update /\ r.targets = q.targets /\ r.k = q.k /\ r.moved = q.moved
<1>1. /\ r.pc = pc /\ r.dev = dev /\ r.mine = mine /\ r.ok = ok /\ r.dirty = dirty
      /\ r.update = q.update /\ r.targets = q.targets /\ r.k = q.k /\ r.moved = q.moved
  OBVIOUS
<1>2. Shaped(r)
  BY <1>1 DEF Shaped
<1>3. q.update \in Updates \cup {<<>>} /\ q.k \in 0..Len(q.update) /\ q.moved \in BOOLEAN
  BY DEF Typed
<1> QED BY <1>1, <1>2, <1>3 DEF Typed

LEMMA LiftIInv == ASSUME IInv, NEW t \in Updaters, Lift(t) PROVE IInv'
<1> DEFINE q == w[t]
           at == Current(t).at
           r == [q EXCEPT !.pc = "lifted", !.dev = at]
<1>1. /\ q.pc = "write" /\ w' = [w EXCEPT ![t] = r] /\ open' = open \cup {at}
      /\ UNCHANGED <<world, lock, mounts, others, bls, file, entry, wrote, lapses, counters>>
  BY DEF Lift, AtTarget
<1>2. Typed(q) /\ w'[t] = r
  BY <1>1 DEF IInv
<1>3. r = [q EXCEPT !.pc = "lifted", !.dev = at]
  OBVIOUS
<1> HIDE DEF r, q, at
<1>4. r = [pc |-> "lifted", update |-> q.update, targets |-> q.targets, k |-> q.k, dev |-> at,
           mine |-> q.mine, ok |-> q.ok, dirty |-> q.dirty, moved |-> q.moved]
  <2>1. Shaped(q)
    BY <1>2 DEF Typed
  <2> QED BY <1>3, <2>1 DEF Shaped
<1>5. /\ Typed(r) /\ r.pc = "lifted" /\ r.dev = at
      /\ r.update = q.update /\ r.targets = q.targets /\ r.k = q.k /\ r.moved = q.moved
  <2>1. "lifted" \in Steps /\ q.mine \in BOOLEAN /\ q.ok \in BOOLEAN /\ q.dirty \in BOOLEAN
    BY <1>2 DEF Typed, Steps
  <2> QED BY <1>2, <1>4, <2>1, Altered
<1>6. Holds(t)' /\ Aims(t)'
  <2>1. Holds(t)'
    BY <1>2, <1>5 DEF Holds, FileSteps
  <2>2. Aims(t)'
    BY <1>1, <1>2, <1>5, AimsKept DEF q, EntrySteps
  <2> QED BY <2>1, <2>2
<1>7. World' /\ Media' /\ UNCHANGED world
  BY <1>1 DEF IInv, World, Media, world, lapses, counters
<1>10. Entries' /\ Guarded'
  <2>1. UNCHANGED <<mounts, others, bls, entry, unguarded, cut>>
    BY <1>1 DEF lapses
  <2>2. w[t].pc # "rewriting" /\ r.pc # "attach" /\ w' = [w EXCEPT ![t] = r]
    BY <1>1, <1>5 DEF q
  <2>3. mounts' \in [Filesystems -> {0, 1}] /\ \A d \in Filesystems : mounts'[d] <= mounts[d]
    BY <2>1 DEF IInv, Media
  <2> QED BY <2>1, <2>2, <2>3, EntriesKept, GuardedKept
<1>8. \A d \in Filesystems : lock[d] # t
  BY <1>1, BootMediaAssumption DEF IInv, Locked, FileSteps, q
<1>9. \A d \in open' :
        (Lifted(r) /\ r.dev = d) \/ (d \in open /\ ~(Lifted(w[t]) /\ w[t].dev = d))
  BY <1>1, <1>5 DEF Lifted, q
<1>11. left' = left
  BY <1>1 DEF lapses
<1> QED BY <1>1, <1>5, <1>6, <1>7, <1>8, <1>9, <1>10, <1>11, StepIInv

LEMMA ProgramIInv == ASSUME IInv, NEW t \in Updaters, Program(t) PROVE IInv'
<1> DEFINE q == w[t]
<1>1. /\ q.pc = "lifted" /\ UNCHANGED <<world, media, lapses>>
      /\ UNCHANGED counters \/ Fault
      /\ \E ok \in BOOLEAN, dirty \in BOOLEAN :
           w' = [w EXCEPT ![t] = [q EXCEPT !.pc = "restore", !.ok = ok, !.dirty = dirty]]
  <2>1. w[t].dirty \in BOOLEAN
    BY DEF IInv, Typed
  <2>2. /\ (w[t].dev \in open) \in BOOLEAN
        /\ (w[t].dirty \/ (w[t].dev \in open)) \in BOOLEAN
    OBVIOUS
  <2>3. w[t].pc = "lifted" /\ UNCHANGED <<world, media, lapses>> /\ (UNCHANGED counters \/ Fault)
    BY DEF Program
  <2>4. \/ w' = [w EXCEPT ![t] = [w[t] EXCEPT !.pc = "restore", !.ok = (w[t].dev \in open),
                                             !.dirty = (w[t].dirty \/ (w[t].dev \in open))]]
        \/ w' = [w EXCEPT ![t] = [w[t] EXCEPT !.pc = "restore", !.ok = FALSE, !.dirty = TRUE]]
    BY DEF Program, IInv
  <2> QED BY <2>2, <2>3, <2>4
<1>2. PICK ok \in BOOLEAN, dirty \in BOOLEAN :
        w' = [w EXCEPT ![t] = [q EXCEPT !.pc = "restore", !.ok = ok, !.dirty = dirty]]
  BY <1>1
<1> DEFINE r == [q EXCEPT !.pc = "restore", !.ok = ok, !.dirty = dirty]
<1>3. Typed(q) /\ w'[t] = r /\ w' = [w EXCEPT ![t] = r]
  BY <1>2 DEF IInv
<1>4. r = [q EXCEPT !.pc = "restore", !.ok = ok, !.dirty = dirty]
  OBVIOUS
<1> HIDE DEF r, q
<1>5. r = [pc |-> "restore", update |-> q.update, targets |-> q.targets, k |-> q.k, dev |-> q.dev,
           mine |-> q.mine, ok |-> ok, dirty |-> dirty, moved |-> q.moved]
  <2>1. Shaped(q)
    BY <1>3 DEF Typed
  <2> QED BY <1>4, <2>1 DEF Shaped
<1>6. /\ Typed(r) /\ r.pc = "restore" /\ r.dev = q.dev
      /\ r.update = q.update /\ r.targets = q.targets /\ r.k = q.k /\ r.moved = q.moved
  <2>1. "restore" \in Steps /\ q.mine \in BOOLEAN
    BY <1>3 DEF Typed, Steps
  <2> QED BY <1>3, <1>5, <2>1, Altered
<1>7. Holds(t)' /\ Aims(t)'
  <2>1. Holds(t)'
    BY <1>3, <1>6 DEF Holds, FileSteps
  <2>2. Aims(t)'
    BY <1>1, <1>3, <1>6, AimsKept DEF q, EntrySteps
  <2> QED BY <2>1, <2>2
<1>8. World' /\ Media' /\ UNCHANGED world /\ left' = left /\ UNCHANGED <<lock, mounts, file, open>>
  <2>1. UNCHANGED <<updates, crashes>> /\ faults' \in 0..MaxFaults
    BY <1>1, FaultType DEF counters, IInv, World
  <2> QED BY <1>1, <2>1 DEF IInv, World, Media, world, media, lapses
<1>11. Entries' /\ Guarded'
  <2>1. UNCHANGED <<mounts, others, bls, entry, unguarded, cut>>
    BY <1>1 DEF media, lapses
  <2>2. w[t].pc # "rewriting" /\ r.pc # "attach" /\ w' = [w EXCEPT ![t] = r]
    BY <1>1, <1>3, <1>6 DEF q
  <2>3. mounts' \in [Filesystems -> {0, 1}] /\ \A d \in Filesystems : mounts'[d] <= mounts[d]
    BY <2>1 DEF IInv, Media
  <2> QED BY <2>1, <2>2, <2>3, EntriesKept, GuardedKept
<1>9. \A d \in Filesystems : lock[d] # t
  <2>1. w[t].pc \notin FileSteps /\ t # NONE
    BY <1>1, BootMediaAssumption DEF FileSteps, q
  <2> QED BY <2>1 DEF IInv, Locked
<1>10. \A d \in open' :
        (Lifted(r) /\ r.dev = d) \/ (d \in open /\ ~(Lifted(w[t]) /\ w[t].dev = d))
  BY <1>6, <1>8 DEF Lifted, q
<1> QED BY <1>3, <1>6, <1>7, <1>8, <1>9, <1>10, <1>11, StepIInv

LEMMA RestoreIInv == ASSUME IInv, NEW t \in Updaters, Restore(t) PROVE IInv'
<1> DEFINE r == After(w[t], w[t].ok)
<1>1. /\ w[t].pc = "restore" /\ w' = [w EXCEPT ![t] = r]
      /\ \/ open' = open \ {w[t].dev} /\ left' = left \ {w[t].dev} /\ UNCHANGED counters
         \/ open' = open /\ left' = left \cup {w[t].dev} /\ Fault
      /\ UNCHANGED <<world, lock, mounts, others, bls, file, entry, wrote, unguarded, cut>>
  BY DEF Restore, Passed
<1>2. [w[t] EXCEPT !.dirty = w[t].dirty] = w[t] /\ w[t].dirty \in BOOLEAN /\ w[t].ok \in BOOLEAN
  BY SameDirty DEF IInv, Typed
<1>3. UNCHANGED world
  BY <1>1
<1>4. Typed(r) /\ r.pc \in {"idle", "write", "patch"} /\ Holds(t)' /\ Aims(t)'
  BY <1>1, <1>2, <1>3, AfterAims
<1> HIDE DEF r
<1>5. World' /\ Media'
  <2>1. UNCHANGED <<updates, crashes>> /\ faults' \in 0..MaxFaults
    BY <1>1, FaultType DEF counters, IInv, World
  <2> QED BY <1>1, <2>1 DEF IInv, World, Media, world
<1>6. \A d \in Filesystems : lock[d] # t
  <2>1. w[t].pc \notin FileSteps /\ t # NONE
    BY <1>1, BootMediaAssumption DEF FileSteps
  <2> QED BY <2>1 DEF IInv, Locked
<1>7. \A u \in Updaters : w'[u] = IF u = t THEN r ELSE w[u]
  BY <1>1 DEF IInv
<1>8. Relocked'
  <2> SUFFICES ASSUME NEW d \in open', d \notin left'
               PROVE  \E u \in Updaters : w'[u].pc \in {"lifted", "restore"} /\ w'[u].dev = d
    BY DEF Relocked
  <2>1. d \in open /\ d \notin left /\ d # w[t].dev
    BY <1>1
  <2>2. PICK u \in Updaters : w[u].pc \in {"lifted", "restore"} /\ w[u].dev = d
    BY <2>1 DEF IInv, Relocked
  <2> QED BY <1>7, <2>1, <2>2
<1>9. Entries' /\ Guarded'
  <2>1. w[t].pc # "rewriting" /\ r.pc # "attach"
    BY <1>1, <1>4
  <2>2. mounts' \in [Filesystems -> {0, 1}] /\ \A d \in Filesystems : mounts'[d] <= mounts[d]
    BY <1>1 DEF IInv, Media
  <2> QED BY <1>1, <2>1, <2>2, EntriesKept, GuardedKept
<1>10. \A d \in Filesystems : lock'[d] = lock[d] /\ mounts'[d] = mounts[d] /\ file'[d] = file[d]
  BY <1>1
<1> QED BY <1>1, <1>3, <1>4, <1>5, <1>6, <1>8, <1>9, <1>10, UpdaterStep

-----------------------------------------------------------------------------
(* A file in a boot partition *)

\* Where nothing but the updaters, the mounts, the locks and the files change.
LEMMA SameWorld ==
  ASSUME IInv, UNCHANGED <<world, others, bls, unguarded, cut>>, UNCHANGED counters \/ Fault
  PROVE  World'
<1>1. UNCHANGED <<updates, crashes>> /\ faults' \in 0..MaxFaults
  BY FaultType DEF counters, IInv, World
<1> QED BY <1>1 DEF IInv, World, world

LEMMA FindFileIInv == ASSUME IInv, NEW t \in Updaters, FindFile(t) PROVE IInv'
<1> DEFINE q == w[t]
           dev == Resolve(Current(t).at)
           r == [q EXCEPT !.pc = "lock", !.dev = dev]
<1>1. /\ w[t].pc = "write" /\ Current(t).kind = "file"
      /\ UNCHANGED <<world, media, wrote, lapses, counters>>
      /\ dev = NONE => w' = [w EXCEPT ![t] = Refused(w[t])]
      /\ dev # NONE => w' = [w EXCEPT ![t] = r]
  BY DEF FindFile, AtTarget, IInv
<1>2. Current(t).at \in BootLabels /\ (w[t].moved \/ dev # NONE)
  BY <1>1 DEF IInv, Aims, Current
<1>3. CASE dev = NONE
  BY <1>1, <1>2, <1>3, RefusedIInv DEF FileSteps, EntrySteps, Lifted
<1>4. CASE dev # NONE
  <2>0. World
    BY DEF IInv
  <2>1. dev \in Filesystems
    <3>1. PICK l \in BootLabels : l = Current(t).at
      BY <1>2
    <3>2. Resolve(l) # NONE => Resolve(l) \in Filesystems
      BY <2>0, ResolveFinds
    <3> QED BY <1>4, <3>1, <3>2
  <2>2. Typed(q) /\ w'[t] = r /\ w' = [w EXCEPT ![t] = r]
    BY <1>1, <1>4 DEF IInv
  <2>3. r = [q EXCEPT !.pc = "lock", !.dev = dev]
    OBVIOUS
  <2> HIDE DEF r, q, dev
  <2>4. r = [pc |-> "lock", update |-> q.update, targets |-> q.targets, k |-> q.k, dev |-> dev,
             mine |-> q.mine, ok |-> q.ok, dirty |-> q.dirty, moved |-> q.moved]
    BY <2>2, <2>3 DEF Typed, Shaped
  <2>5. "lock" \in Steps /\ q.mine \in BOOLEAN /\ q.ok \in BOOLEAN /\ q.dirty \in BOOLEAN
    BY <2>2 DEF Typed, Steps
  <2>6. /\ Typed(r) /\ r.pc = "lock" /\ r.dev = dev
        /\ r.update = q.update /\ r.targets = q.targets /\ r.k = q.k /\ r.moved = q.moved
    BY <2>2, <2>4, <2>5, Altered
  <2>7. Holds(t)'
    BY <2>1, <2>2, <2>6 DEF Holds, FileSteps
  <2>8. UNCHANGED world
    BY <1>1
  <2>9. Aims(t)'
    BY <1>1, <2>2, <2>6, <2>8, AimsKept DEF q, EntrySteps
  <2>10. World'
    BY <1>1, SameWorld DEF media, lapses
  <2> QED BY <1>1, <2>2, <2>6, <2>7, <2>9, <2>10, PlainIInv DEF FileSteps, EntrySteps, Lifted
<1> QED BY <1>3, <1>4

\* A step of an updater with a device's lock, on that device.
LEMMA FileStepIInv ==
  ASSUME IInv, NEW t \in Updaters, NEW r, w' = [w EXCEPT ![t] = r],
         w[t].pc \in FileSteps \/ (w[t].pc = "lock" /\ lock[w[t].dev] = NONE),
         Typed(r), r.pc \in FileSteps, r.dev = w[t].dev, r.update = w[t].update,
         r.targets = w[t].targets, r.k = w[t].k, r.moved = w[t].moved,
         UNCHANGED <<world, others, bls, entry, open, lapses>>, UNCHANGED counters \/ Fault,
         \A d \in Filesystems \ {w[t].dev} :
           lock'[d] = lock[d] /\ mounts'[d] = mounts[d] /\ file'[d] = file[d],
         lock'[w[t].dev] = t, Media', Holds(t)', Guarded'
  PROVE  IInv'
<1> DEFINE dev == w[t].dev
<1>1. World' /\ UNCHANGED world /\ left' = left /\ open' = open
  BY SameWorld DEF lapses
<1>2. dev \in Filesystems /\ lock[dev] \in {t, NONE}
  BY DEF IInv, Holds
<1>3. \A d \in Filesystems : lock[d] = t => d = dev
  BY BootMediaAssumption DEF IInv, Locked
<1>4. w'[t] = r
  BY DEF IInv
<1>5. Aims(t)'
  BY <1>1, <1>4, AimsKept DEF FileSteps, EntrySteps
<1>6. ~Lifted(w[t])
  BY DEF Lifted, FileSteps
<1>10. Entries'
  BY EntriesKept DEF FileSteps, lapses
<1>7. \A d \in Filesystems : lock'[d] = t => d = dev
  BY <1>3
<1>8. \A d \in Filesystems : lock[d] \notin {t, NONE} =>
        lock'[d] = lock[d] /\ mounts'[d] = mounts[d] /\ file'[d] = file[d]
  BY <1>2
<1>9. \A d \in Filesystems : lock'[d] # lock[d] => lock'[d] \in {t, NONE}
  BY <1>2
<1> QED BY <1>1, <1>5, <1>6, <1>7, <1>8, <1>9, <1>10, StepIInv

\* One that leaves the mounts alone, and is not about to mount.
LEMMA FileOnlyIInv ==
  ASSUME IInv, NEW t \in Updaters, NEW r, w' = [w EXCEPT ![t] = r],
         w[t].pc \in FileSteps \/ (w[t].pc = "lock" /\ lock[w[t].dev] = NONE),
         Typed(r), r.pc \in FileSteps \ {"attach"}, r.dev = w[t].dev, r.update = w[t].update,
         r.targets = w[t].targets, r.k = w[t].k, r.moved = w[t].moved,
         UNCHANGED <<world, mounts, others, bls, entry, open, lapses>>, UNCHANGED counters \/ Fault,
         \A d \in Filesystems \ {w[t].dev} : lock'[d] = lock[d] /\ file'[d] = file[d],
         lock'[w[t].dev] = t, Media', Holds(t)'
  PROVE  IInv'
<1>1. mounts' \in [Filesystems -> {0, 1}] /\ \A d \in Filesystems : mounts'[d] <= mounts[d]
  BY DEF IInv, Media
<1>2. Guarded'
  BY <1>1, GuardedKept DEF lapses
<1> QED BY <1>2, FileStepIInv

LEMMA TakeLockIInv == ASSUME IInv, NEW t \in Updaters, TakeLock(t) PROVE IInv'
<1> DEFINE q == w[t]
           r == [q EXCEPT !.pc = "mount"]
<1>1. /\ w[t].pc = "lock" /\ lock[w[t].dev] = NONE /\ lock' = [lock EXCEPT ![w[t].dev] = t]
      /\ w' = [w EXCEPT ![t] = r]
      /\ UNCHANGED <<world, mounts, others, bls, file, entry, open, wrote, lapses, counters>>
  BY DEF TakeLock
<1>2. Typed(q) /\ w'[t] = r
  BY <1>1 DEF IInv
<1>3. r = [q EXCEPT !.pc = "mount"]
  OBVIOUS
<1> HIDE DEF r, q
<1>4. r = [pc |-> "mount", update |-> q.update, targets |-> q.targets, k |-> q.k, dev |-> q.dev,
           mine |-> q.mine, ok |-> q.ok, dirty |-> q.dirty, moved |-> q.moved]
  BY <1>2, <1>3 DEF Typed, Shaped
<1>5. "mount" \in Steps /\ q.mine \in BOOLEAN /\ q.ok \in BOOLEAN /\ q.dirty \in BOOLEAN
  BY <1>2 DEF Typed, Steps, FileSteps
<1>6. /\ Typed(r) /\ r.pc = "mount" /\ r.dev = q.dev
      /\ r.update = q.update /\ r.targets = q.targets /\ r.k = q.k /\ r.moved = q.moved
  BY <1>2, <1>4, <1>5, Altered
<1>7. w[t].dev \in Filesystems /\ lock \in [Filesystems -> Updaters \cup {NONE}]
  BY <1>1 DEF IInv, Holds, Media
<1>8. /\ lock'[w[t].dev] = t /\ lock' \in [Filesystems -> Updaters \cup {NONE}]
      /\ \A d \in Filesystems \ {w[t].dev} : lock'[d] = lock[d]
  BY <1>1, <1>7
<1>9. Media'
  BY <1>1, <1>8 DEF IInv, Media
<1>10. Holds(t)'
  BY <1>2, <1>6, <1>7, <1>8 DEF Holds, FileSteps, q
<1>11. r.pc \in FileSteps \ {"attach"}
  BY <1>6 DEF FileSteps
<1> QED BY <1>1, <1>6, <1>8, <1>9, <1>10, <1>11, FileOnlyIInv DEF q

LEMMA FindMountIInv == ASSUME IInv, NEW t \in Updaters, FindMount(t) PROVE IInv'
<1> DEFINE q == w[t]
           pc == IF Mounted(w[t].dev) THEN "create" ELSE "attach"
           r == [q EXCEPT !.pc = pc, !.mine = FALSE]
<1>1. /\ w[t].pc = "mount" /\ w' = [w EXCEPT ![t] = r]
      /\ UNCHANGED <<world, lock, mounts, others, bls, file, entry, open, lapses, counters>>
  BY DEF FindMount, media, IInv
<1>2. Typed(q) /\ w'[t] = r /\ \A u \in Updaters \ {t} : w'[u] = w[u]
  BY <1>1 DEF IInv
<1>3. r = [q EXCEPT !.pc = pc, !.mine = FALSE]
  OBVIOUS
<1>4. pc \in {"create", "attach"} /\ (pc = "attach" => ~Mounted(w[t].dev))
  OBVIOUS
<1> HIDE DEF r, q, pc
<1>5. r = [pc |-> pc, update |-> q.update, targets |-> q.targets, k |-> q.k, dev |-> q.dev,
           mine |-> FALSE, ok |-> q.ok, dirty |-> q.dirty, moved |-> q.moved]
  BY <1>2, <1>3 DEF Typed, Shaped
<1>6. pc \in Steps /\ q.ok \in BOOLEAN /\ q.dirty \in BOOLEAN
  BY <1>2, <1>4 DEF Typed, Steps, FileSteps
<1>7. /\ Typed(r) /\ r.pc = pc /\ r.dev = q.dev /\ r.mine = FALSE
      /\ r.update = q.update /\ r.targets = q.targets /\ r.k = q.k /\ r.moved = q.moved
  <2>1. /\ r.pc = pc /\ r.dev = q.dev /\ r.mine = FALSE /\ r.ok = q.ok /\ r.dirty = q.dirty
        /\ r.update = q.update /\ r.targets = q.targets /\ r.k = q.k /\ r.moved = q.moved
    BY <1>5
  <2> QED BY <1>2, <1>5, <1>6, <2>1 DEF Typed, Shaped
<1>8. w[t].dev \in Filesystems /\ lock[w[t].dev] = t /\ mounts \in [Filesystems -> {0, 1}]
  BY <1>1 DEF IInv, Holds, Media, FileSteps
<1>9. pc = "attach" => mounts[w[t].dev] = 0
  BY <1>4, <1>8 DEF Mounted
<1>10. Media'
  BY <1>1 DEF IInv, Media
<1>11. Holds(t)'
  BY <1>1, <1>2, <1>4, <1>7, <1>8, <1>9 DEF Holds, FileSteps, q
<1>12. Guarded'
  <2>1. \A d : Mounts(d)' = Mounts(d) /\ Mounted(d)' = Mounted(d)
    BY <1>1 DEF Mounts, Mounted
  <2>2. unguarded' = unguarded
    BY <1>1 DEF lapses
  <2> QED BY <1>2, <1>4, <1>7, <2>1, <2>2 DEF IInv, Guarded, q
<1>13. r.pc \in FileSteps /\ w[t].pc \in FileSteps
  BY <1>1, <1>4, <1>7 DEF FileSteps
<1> QED BY <1>1, <1>7, <1>8, <1>10, <1>11, <1>12, <1>13, FileStepIInv DEF q

LEMMA MountFsIInv == ASSUME IInv, NEW t \in Updaters, MountFs(t) PROVE IInv'
<1> DEFINE q == w[t]
           r == [q EXCEPT !.pc = "create", !.mine = TRUE]
<1>1. /\ w[t].pc = "attach" /\ w' = [w EXCEPT ![t] = r]
      /\ mounts' = [mounts EXCEPT ![w[t].dev] = mounts[w[t].dev] + 1]
      /\ UNCHANGED <<world, lock, others, bls, file, entry, open, lapses, counters>>
  BY DEF MountFs
<1>2. Typed(q) /\ w'[t] = r /\ \A u \in Updaters \ {t} : w'[u] = w[u]
  BY <1>1 DEF IInv
<1>3. r = [q EXCEPT !.pc = "create", !.mine = TRUE]
  OBVIOUS
<1> HIDE DEF r, q
<1>4. r = [pc |-> "create", update |-> q.update, targets |-> q.targets, k |-> q.k, dev |-> q.dev,
           mine |-> TRUE, ok |-> q.ok, dirty |-> q.dirty, moved |-> q.moved]
  BY <1>2, <1>3 DEF Typed, Shaped
<1>5. "create" \in Steps /\ q.ok \in BOOLEAN /\ q.dirty \in BOOLEAN
  BY <1>2 DEF Typed, Steps, FileSteps
<1>6. /\ Typed(r) /\ r.pc = "create" /\ r.dev = q.dev /\ r.mine = TRUE
      /\ r.update = q.update /\ r.targets = q.targets /\ r.k = q.k /\ r.moved = q.moved
  <2>1. /\ r.pc = "create" /\ r.dev = q.dev /\ r.mine = TRUE /\ r.ok = q.ok /\ r.dirty = q.dirty
        /\ r.update = q.update /\ r.targets = q.targets /\ r.k = q.k /\ r.moved = q.moved
    BY <1>4
  <2> QED BY <1>2, <1>4, <1>5, <2>1 DEF Typed, Shaped
<1>7. w[t].dev \in Filesystems /\ lock[w[t].dev] = t /\ mounts \in [Filesystems -> {0, 1}]
      /\ mounts[w[t].dev] = 0
  BY <1>1 DEF IInv, Holds, Media, FileSteps
<1>8. /\ mounts' \in [Filesystems -> {0, 1}] /\ mounts'[w[t].dev] = 1
      /\ \A d \in Filesystems \ {w[t].dev} : mounts'[d] = mounts[d]
  <2>1. mounts' = [mounts EXCEPT ![w[t].dev] = 1]
    BY <1>1, <1>7
  <2> QED BY <1>7, <2>1
<1>9. Media'
  BY <1>1, <1>8 DEF IInv, Media
<1>10. Holds(t)'
  BY <1>1, <1>2, <1>6, <1>7, <1>8 DEF Holds, FileSteps, q
<1>11. \A u \in Updaters \ {t} : ~(w[u].pc = "attach" /\ w[u].dev = w[t].dev)
  BY <1>7 DEF IInv, Holds, FileSteps
<1>12. unguarded' = unguarded /\ UNCHANGED <<others, bls>>
  BY <1>1 DEF lapses
<1>13. ASSUME NEW d \in Filesystems \ unguarded
       PROVE  Mounts(d)' <= 1 /\ \A u \in Updaters : w'[u].pc = "attach" /\ w'[u].dev = d => ~Mounted(d)'
  <2>1. CASE d = w[t].dev
    <3>1. ~Mounted(d)
      BY <1>1, <2>1 DEF IInv, Guarded
    <3>2. d \notin others /\ d \notin bls
      BY <3>1 DEF Mounted
    <3>3. Mounts(d)' = 1
      BY <1>8, <1>12, <2>1, <3>2 DEF Mounts
    <3> QED BY <1>2, <1>6, <1>11, <2>1, <3>3
  <2>2. CASE d # w[t].dev
    <3>1. Mounts(d)' = Mounts(d) /\ Mounted(d)' = Mounted(d)
      BY <1>8, <1>12, <2>2 DEF Mounts, Mounted
    <3> QED BY <1>2, <1>6, <3>1 DEF IInv, Guarded
  <2> QED BY <2>1, <2>2
<1>14. Guarded'
  BY <1>12, <1>13 DEF Guarded
<1>15. r.pc \in FileSteps /\ w[t].pc \in FileSteps
  BY <1>1, <1>6 DEF FileSteps
<1> QED BY <1>1, <1>6, <1>7, <1>8, <1>9, <1>10, <1>14, <1>15, FileStepIInv DEF q

\* Letting go of the lock, with the artifact done with or failed.
LEMMA ReleaseIInv ==
  ASSUME IInv, NEW t \in Updaters, w[t].pc \in FileSteps, NEW ok \in BOOLEAN, Passed(t, ok),
         lock' = Unlocked(t), UNCHANGED <<world, others, bls, file, entry, open, lapses>>,
         UNCHANGED counters \/ Fault, mounts' \in [Filesystems -> {0, 1}], mounts'[w[t].dev] <= mounts[w[t].dev],
         \A d \in Filesystems \ {w[t].dev} : mounts'[d] = mounts[d]
  PROVE  IInv'
<1> DEFINE r == After(w[t], ok)
<1>1. w' = [w EXCEPT ![t] = r]
  BY DEF Passed
<1>2. [w[t] EXCEPT !.dirty = w[t].dirty] = w[t] /\ w[t].dirty \in BOOLEAN
  BY SameDirty
<1>3. UNCHANGED world /\ World' /\ left' = left /\ open' = open
  BY SameWorld DEF lapses
<1>4. w[t].pc \notin {"idle", "refused", "locate", "rewriting"} /\ ~Lifted(w[t])
  BY DEF FileSteps, Lifted
<1>5. Typed(r) /\ r.pc # "attach" /\ Holds(t)' /\ Aims(t)'
  BY <1>1, <1>2, <1>3, <1>4, AfterAims
<1> HIDE DEF r
<1>6. lock \in [Filesystems -> Updaters \cup {NONE}] /\ t # NONE
  BY BootMediaAssumption DEF IInv, Media
<1>7. /\ lock' \in [Filesystems -> Updaters \cup {NONE}]
      /\ \A d \in Filesystems : lock'[d] = IF lock[d] = t THEN NONE ELSE lock[d]
  BY <1>6 DEF Unlocked
<1>8. Media'
  BY <1>7 DEF IInv, Media
<1>9. \A d \in Filesystems : lock[d] \notin {t, NONE} => d # w[t].dev
  BY DEF IInv, Holds
<1>10. \A d \in Filesystems : lock[d] \notin {t, NONE} =>
         lock'[d] = lock[d] /\ mounts'[d] = mounts[d] /\ file'[d] = file[d]
  BY <1>7, <1>9
<1>11. \A d \in Filesystems : lock'[d] # lock[d] => lock'[d] \in {t, NONE}
  BY <1>7
<1>12. \A d \in Filesystems : lock'[d] # t
  BY <1>6, <1>7
<1>13. Entries' /\ Guarded'
  <2>1. UNCHANGED <<others, bls, entry, unguarded, cut>>
    BY DEF lapses
  <2>2. \A d \in Filesystems : mounts'[d] <= mounts[d]
    <3>1. mounts \in [Filesystems -> {0, 1}]
      BY DEF IInv, Media
    <3> QED BY <3>1
  <2> QED BY <1>1, <1>4, <1>5, <2>1, <2>2, EntriesKept, GuardedKept
<1> QED BY <1>1, <1>3, <1>4, <1>5, <1>8, <1>10, <1>11, <1>12, <1>13, StepIInv

LEMMA MountFailsIInv == ASSUME IInv, NEW t \in Updaters, MountFails(t) PROVE IInv'
<1>1. /\ w[t].pc = "attach" /\ Passed(t, FALSE) /\ lock' = Unlocked(t)
      /\ UNCHANGED <<world, mounts, others, bls, file, entry, open, wrote, lapses>>
      /\ UNCHANGED counters \/ Fault
  BY DEF MountFails
<1>2. w[t].pc \in FileSteps
  BY <1>1 DEF FileSteps
<1>3. mounts' \in [Filesystems -> {0, 1}] /\ mounts' = mounts /\ mounts'[w[t].dev] <= mounts[w[t].dev]
  BY <1>1, <1>2 DEF IInv, Media, Holds
<1> QED BY <1>1, <1>2, <1>3, ReleaseIInv

LEMMA CloseIInv == ASSUME IInv, NEW t \in Updaters, Close(t) PROVE IInv'
<1> DEFINE ok == w[t].ok /\ file[w[t].dev].dest = Whole(t)
<1>1. /\ w[t].pc = "close" /\ lock' = Unlocked(t)
      /\ UNCHANGED <<world, others, bls, file, entry, open, wrote, lapses>>
      /\ UNCHANGED counters \/ Fault
      /\ Passed(t, ok) \/ Passed(t, FALSE)
      /\ mounts' = (IF w[t].mine THEN [mounts EXCEPT ![w[t].dev] = @ - 1] ELSE mounts)
           \/ mounts' = mounts
  BY DEF Close
<1>2. w[t].pc \in FileSteps
  BY <1>1 DEF FileSteps
<1>3. mounts \in [Filesystems -> {0, 1}] /\ w[t].dev \in Filesystems
      /\ (w[t].mine => mounts[w[t].dev] = 1)
  BY <1>1, <1>2 DEF IInv, Holds, Media
<1>4. /\ mounts' \in [Filesystems -> {0, 1}] /\ mounts'[w[t].dev] <= mounts[w[t].dev]
      /\ \A d \in Filesystems \ {w[t].dev} : mounts'[d] = mounts[d]
  <2>1. CASE mounts' = mounts
    BY <1>3, <2>1
  <2>2. CASE w[t].mine /\ mounts' = [mounts EXCEPT ![w[t].dev] = @ - 1]
    <3>2. mounts[w[t].dev] - 1 = 0 /\ mounts' = [mounts EXCEPT ![w[t].dev] = mounts[w[t].dev] - 1]
      BY <1>3, <2>2
    <3>1. mounts' = [mounts EXCEPT ![w[t].dev] = 0]
      BY <3>2
    <3> QED BY <1>3, <3>1
  <2> QED BY <1>1, <2>1, <2>2
<1>5. \E b \in BOOLEAN : Passed(t, b)
  <2>1. ok \in BOOLEAN
    BY DEF IInv, Typed
  <2> HIDE DEF ok
  <2> QED BY <1>1, <2>1
<1> QED BY <1>1, <1>2, <1>4, <1>5, ReleaseIInv

\* A step that leaves a field of the record as it is.
LEMMA SameOk ==
  ASSUME NEW q, Shaped(q), NEW pc, NEW dirty
  PROVE  [q EXCEPT !.pc = pc, !.ok = q.ok, !.dirty = dirty] = [q EXCEPT !.pc = pc, !.dirty = dirty]
<1> DEFINE r1 == [q EXCEPT !.pc = pc, !.dirty = dirty]
           r2 == [q EXCEPT !.pc = pc, !.ok = q.ok, !.dirty = dirty]
<1>1. r1 = [q EXCEPT !.pc = pc, !.dirty = dirty] /\ r2 = [q EXCEPT !.pc = pc, !.ok = q.ok, !.dirty = dirty]
  OBVIOUS
<1> HIDE DEF r1, r2
<1>2. r1 = r2
  BY <1>1 DEF Shaped
<1> QED BY <1>2 DEF r1, r2

LEMMA SameOkDirty ==
  ASSUME NEW q, Shaped(q), NEW pc
  PROVE  [q EXCEPT !.pc = pc, !.ok = q.ok, !.dirty = q.dirty] = [q EXCEPT !.pc = pc]
<1> DEFINE r1 == [q EXCEPT !.pc = pc]
           r2 == [q EXCEPT !.pc = pc, !.ok = q.ok, !.dirty = q.dirty]
<1>1. r1 = [q EXCEPT !.pc = pc] /\ r2 = [q EXCEPT !.pc = pc, !.ok = q.ok, !.dirty = q.dirty]
  OBVIOUS
<1> HIDE DEF r1, r2
<1>2. r1 = r2
  BY <1>1 DEF Shaped
<1> QED BY <1>2 DEF r1, r2

LEMMA SameDirtyNotOk ==
  ASSUME NEW q, Shaped(q), NEW pc
  PROVE  [q EXCEPT !.pc = pc, !.ok = FALSE, !.dirty = q.dirty] = [q EXCEPT !.pc = pc, !.ok = FALSE]
<1> DEFINE r1 == [q EXCEPT !.pc = pc, !.ok = FALSE]
           r2 == [q EXCEPT !.pc = pc, !.ok = FALSE, !.dirty = q.dirty]
<1>1. r1 = [q EXCEPT !.pc = pc, !.ok = FALSE] /\ r2 = [q EXCEPT !.pc = pc, !.ok = FALSE, !.dirty = q.dirty]
  OBVIOUS
<1> HIDE DEF r1, r2
<1>2. r1 = r2
  BY <1>1 DEF Shaped
<1> QED BY <1>2 DEF r1, r2

\* A step that leaves the lock and the mounts alone, and the file whole.
LEMMA WriteFileIInv ==
  ASSUME IInv, NEW t \in Updaters, w[t].pc \in {"create", "fill", "rename"},
         NEW pc \in {"fill", "rename", "close"}, NEW ok \in BOOLEAN, NEW dirty \in BOOLEAN,
         w' = [w EXCEPT ![t] = [w[t] EXCEPT !.pc = pc, !.ok = ok, !.dirty = dirty]],
         NEW new \in Content \cup {NONE}, NEW dest \in Content, dest.whole,
         pc = "fill" => new = Part(t), pc = "rename" => new = Whole(t),
         file' = [file EXCEPT ![w[t].dev] = [dest |-> dest, new |-> new]],
         UNCHANGED <<world, lock, mounts, others, bls, entry, open, lapses>>, UNCHANGED counters \/ Fault
  PROVE  IInv'
<1> DEFINE q == w[t]
           r == [q EXCEPT !.pc = pc, !.ok = ok, !.dirty = dirty]
<1>1. w' = [w EXCEPT ![t] = r]
  OBVIOUS
<1>2. Typed(q) /\ w'[t] = r
  BY <1>1 DEF IInv
<1>3. r = [q EXCEPT !.pc = pc, !.ok = ok, !.dirty = dirty]
  OBVIOUS
<1> HIDE DEF r, q
<1>4. r = [pc |-> pc, update |-> q.update, targets |-> q.targets, k |-> q.k, dev |-> q.dev,
           mine |-> q.mine, ok |-> ok, dirty |-> dirty, moved |-> q.moved]
  <2>1. Shaped(q)
    BY <1>2 DEF Typed
  <2> QED BY <1>3, <2>1 DEF Shaped
<1>5. pc \in Steps /\ q.mine \in BOOLEAN
  BY <1>2 DEF Typed, Steps, FileSteps
<1>6. /\ Typed(r) /\ r.pc = pc /\ r.dev = q.dev /\ r.mine = q.mine
      /\ r.update = q.update /\ r.targets = q.targets /\ r.k = q.k /\ r.moved = q.moved
  BY <1>2, <1>4, <1>5, Altered
<1>7. /\ w[t].dev \in Filesystems /\ lock[w[t].dev] = t /\ (w[t].mine => mounts[w[t].dev] = 1)
      /\ w[t].pc \in FileSteps
  BY DEF IInv, Holds, FileSteps
<1>8. /\ file' \in [Filesystems -> [dest : Content, new : Content \cup {NONE}]]
      /\ \A d \in Filesystems : file'[d].dest.whole
      /\ \A d \in Filesystems \ {w[t].dev} : file'[d] = file[d]
      /\ file'[w[t].dev].new = new
  BY <1>7 DEF IInv, Media
<1>9. Media'
  BY <1>8 DEF IInv, Media
<1>10. Holds(t)'
  BY <1>2, <1>6, <1>7, <1>8 DEF Holds, FileSteps, q
<1>11. r.pc \in FileSteps \ {"attach"}
  BY <1>6 DEF FileSteps
<1> QED BY <1>1, <1>6, <1>7, <1>8, <1>9, <1>10, <1>11, FileOnlyIInv DEF q

\* What is beside the file, where a step names it alone.
LEMMA Beside ==
  ASSUME IInv, NEW t \in Updaters, w[t].pc \in FileSteps, NEW new, NEW f,
         f = [file EXCEPT ![w[t].dev].new = new]
  PROVE  /\ f = [file EXCEPT ![w[t].dev] = [dest |-> file[w[t].dev].dest, new |-> new]]
         /\ file[w[t].dev].dest \in Content /\ file[w[t].dev].dest.whole
<1> DEFINE dev == w[t].dev
           old == file[dev]
           then == [old EXCEPT !.new = new]
<1>1. dev \in Filesystems /\ file \in [Filesystems -> [dest : Content, new : Content \cup {NONE}]]
  BY DEF IInv, Holds, Media
<1>2. old \in [dest : Content, new : Content \cup {NONE}] /\ old.dest.whole
  BY <1>1 DEF IInv, Media
<1>3. f = [file EXCEPT ![dev] = then]
  OBVIOUS
<1>4. then = [old EXCEPT !.new = new]
  OBVIOUS
<1> HIDE DEF then
<1>5. then = [dest |-> old.dest, new |-> new]
  <2> HIDE DEF old
  <2> QED BY <1>2, <1>4
<1> QED BY <1>2, <1>3, <1>5

LEMMA CreateIInv == ASSUME IInv, NEW t \in Updaters, Create(t) PROVE IInv'
<1> DEFINE new == Part(t)
<1>1. /\ w[t].pc = "create" /\ w[t].pc \in FileSteps
      /\ file' = [file EXCEPT ![w[t].dev].new = new]
      /\ w' = [w EXCEPT ![t] = [w[t] EXCEPT !.pc = "fill", !.dirty = TRUE]]
      /\ UNCHANGED <<world, lock, mounts, others, bls, entry, open, lapses>> /\ UNCHANGED counters
  BY DEF Create, FileSteps, IInv
<1>2. w[t].ok \in BOOLEAN /\ Shaped(w[t])
  BY DEF IInv, Typed
<1>3. new \in Content \cup {NONE}
  BY DEF Part, Content
<1>4. w' = [w EXCEPT ![t] = [w[t] EXCEPT !.pc = "fill", !.ok = w[t].ok, !.dirty = TRUE]]
  BY <1>1, <1>2, SameOk
<1> HIDE DEF new
<1>5. /\ file' = [file EXCEPT ![w[t].dev] = [dest |-> file[w[t].dev].dest, new |-> new]]
      /\ file[w[t].dev].dest \in Content /\ file[w[t].dev].dest.whole
  BY <1>1, Beside
<1> QED BY <1>1, <1>2, <1>3, <1>4, <1>5, WriteFileIInv DEF new

LEMMA FillIInv == ASSUME IInv, NEW t \in Updaters, Fill(t) PROVE IInv'
<1> DEFINE new == Whole(t)
<1>1. /\ w[t].pc = "fill" /\ w[t].pc \in FileSteps
      /\ file' = [file EXCEPT ![w[t].dev].new = IF @ = Part(t) THEN Whole(t) ELSE @]
      /\ w' = [w EXCEPT ![t] = [w[t] EXCEPT !.pc = "rename"]]
      /\ UNCHANGED <<world, lock, mounts, others, bls, entry, open, lapses>> /\ UNCHANGED counters
  BY DEF Fill, FileSteps, IInv
<1>2. w[t].ok \in BOOLEAN /\ w[t].dirty \in BOOLEAN /\ Shaped(w[t])
  BY DEF IInv, Typed
<1>3. new \in Content \cup {NONE}
  BY DEF Whole, Content
<1>4. w' = [w EXCEPT ![t] = [w[t] EXCEPT !.pc = "rename", !.ok = w[t].ok, !.dirty = w[t].dirty]]
  BY <1>1, <1>2, SameOkDirty
<1>6. file' = [file EXCEPT ![w[t].dev].new = new]
  <2>1. file[w[t].dev].new = Part(t)
    BY <1>1 DEF IInv, Holds
  <2>2. file' = [file EXCEPT ![w[t].dev].new = IF file[w[t].dev].new = Part(t) THEN new ELSE file[w[t].dev].new]
    BY <1>1
  <2> QED BY <2>1, <2>2
<1> HIDE DEF new
<1>5. /\ file' = [file EXCEPT ![w[t].dev] = [dest |-> file[w[t].dev].dest, new |-> new]]
      /\ file[w[t].dev].dest \in Content /\ file[w[t].dev].dest.whole
  BY <1>1, <1>6, Beside
<1> QED BY <1>1, <1>2, <1>3, <1>4, <1>5, WriteFileIInv DEF new

\* The step that leaves nothing beside the file.
LEMMA CleanIInv ==
  ASSUME IInv, NEW t \in Updaters, w[t].pc \in {"create", "fill", "rename"},
         NEW ok \in BOOLEAN, NEW dirty \in BOOLEAN,
         w' = [w EXCEPT ![t] = [w[t] EXCEPT !.pc = "close", !.ok = ok, !.dirty = dirty]],
         NEW dest \in Content, dest.whole,
         file' = [file EXCEPT ![w[t].dev] = [dest |-> dest, new |-> NONE]],
         UNCHANGED <<world, lock, mounts, others, bls, entry, open, lapses>>, UNCHANGED counters \/ Fault
  PROVE  IInv'
<1> DEFINE pc == "close"
           new == NONE
<1>1. pc \in {"fill", "rename", "close"} /\ new \in Content \cup {NONE}
  OBVIOUS
<1>2. (pc = "fill" => new = Part(t)) /\ (pc = "rename" => new = Whole(t))
  OBVIOUS
<1>3. w' = [w EXCEPT ![t] = [w[t] EXCEPT !.pc = pc, !.ok = ok, !.dirty = dirty]]
  OBVIOUS
<1>4. file' = [file EXCEPT ![w[t].dev] = [dest |-> dest, new |-> new]]
  OBVIOUS
<1> HIDE DEF pc, new
<1> QED BY <1>1, <1>2, <1>3, <1>4, WriteFileIInv

LEMMA RenameIInv == ASSUME IInv, NEW t \in Updaters, Rename(t) PROVE IInv'
<1> DEFINE dest == Whole(t)
<1>1. /\ w[t].pc = "rename" /\ w[t].pc \in FileSteps
      /\ file' = [file EXCEPT ![w[t].dev] = [dest |-> file[w[t].dev].new, new |-> NONE]]
      /\ w' = [w EXCEPT ![t] = [w[t] EXCEPT !.pc = "close"]]
      /\ UNCHANGED <<world, lock, mounts, others, bls, entry, open, lapses>> /\ UNCHANGED counters
  BY DEF Rename, FileSteps, IInv
<1>2. w[t].ok \in BOOLEAN /\ w[t].dirty \in BOOLEAN /\ Shaped(w[t])
  BY DEF IInv, Typed
<1>3. dest \in Content /\ dest.whole /\ NONE \in Content \cup {NONE}
  BY DEF Whole, Content
<1>4. w' = [w EXCEPT ![t] = [w[t] EXCEPT !.pc = "close", !.ok = w[t].ok, !.dirty = w[t].dirty]]
  BY <1>1, <1>2, SameOkDirty
<1>5. file' = [file EXCEPT ![w[t].dev] = [dest |-> dest, new |-> NONE]]
  <2>1. file[w[t].dev].new = dest
    BY <1>1 DEF IInv, Holds
  <2> QED BY <1>1, <2>1
<1> HIDE DEF dest
<1> QED BY <1>1, <1>2, <1>3, <1>4, <1>5, CleanIInv

LEMMA FileFailsIInv == ASSUME IInv, NEW t \in Updaters, FileFails(t) PROVE IInv'
<1>1. /\ w[t].pc \in {"create", "fill", "rename"} /\ w[t].pc \in FileSteps
      /\ file' = [file EXCEPT ![w[t].dev].new = NONE]
      /\ w' = [w EXCEPT ![t] = [w[t] EXCEPT !.pc = "close", !.ok = FALSE]]
      /\ UNCHANGED <<world, lock, mounts, others, bls, entry, open, lapses>> /\ Fault
  BY DEF FileFails, FileSteps, IInv
<1>2. w[t].dirty \in BOOLEAN /\ Shaped(w[t])
  BY DEF IInv, Typed
<1>4. w' = [w EXCEPT ![t] = [w[t] EXCEPT !.pc = "close", !.ok = FALSE, !.dirty = w[t].dirty]]
  BY <1>1, <1>2, SameDirtyNotOk
<1>3. FALSE \in BOOLEAN
  OBVIOUS
<1>5. /\ file' = [file EXCEPT ![w[t].dev] = [dest |-> file[w[t].dev].dest, new |-> NONE]]
      /\ file[w[t].dev].dest \in Content /\ file[w[t].dev].dest.whole
  BY <1>1, Beside
<1> QED BY <1>1, <1>2, <1>3, <1>4, <1>5, CleanIInv

-----------------------------------------------------------------------------
(* The boot entry of the slot *)

\* An updater comes to rest, away from files and eMMC boot partitions.
LEMMA RestIInv ==
  ASSUME IInv, NEW t \in Updaters, w' = [w EXCEPT ![t] = Idle], w[t].pc \notin FileSteps \cup {"rewriting"},
         ~Lifted(w[t]), UNCHANGED <<world, lock, mounts, others, file, entry, open, lapses>>,
         bls' \subseteq bls, World'
  PROVE  IInv'
<1> DEFINE r == Idle
<1>1. Typed(r) /\ r.pc = "idle"
  BY IdleTyped
<1>2. w' = [w EXCEPT ![t] = r]
  OBVIOUS
<1>3. Holds(t)' /\ Aims(t)'
  BY RestAims
<1> HIDE DEF r
<1>4. r.pc \notin FileSteps /\ r.pc # "attach"
  BY <1>1 DEF FileSteps
<1>5. UNCHANGED <<world, lock, mounts, file, open, left>> /\ UNCHANGED <<others, entry, unguarded, cut>>
  BY DEF lapses
<1>6. /\ entry' \in [Filesystems -> Content] /\ mounts' \in [Filesystems -> {0, 1}]
      /\ \A d \in Filesystems : mounts'[d] <= mounts[d]
  BY <1>5 DEF IInv, Media
<1>7. Entries' /\ Guarded'
  BY <1>2, <1>4, <1>5, <1>6, EntriesKept, GuardedKept
<1> QED BY <1>1, <1>2, <1>3, <1>4, <1>5, <1>6, <1>7, AsideIInv

\* A mount that asks nobody is recorded where it comes upon another, or before one.
LEMMA ClaimKept ==
  ASSUME IInv, NEW dev \in Filesystems, mounts' = mounts,
         \/ dev \notin bls /\ bls' = bls \cup {dev} /\ others' = others
         \/ dev \notin others /\ others' = others \cup {dev} /\ bls' = bls,
         unguarded' = unguarded \cup {d \in {dev} : Claimed(d)},
         \A u \in Updaters : w'[u].pc = "attach" => w[u].pc = "attach" /\ w'[u].dev = w[u].dev
  PROVE  Guarded'
<1> SUFFICES ASSUME NEW d \in Filesystems, d \notin unguarded'
             PROVE  Mounts(d)' <= 1 /\ \A u \in Updaters : w'[u].pc = "attach" /\ w'[u].dev = d => ~Mounted(d)'
  BY DEF Guarded
<1>1. CASE d = dev
  <2>1. ~Mounted(d) /\ \A u \in Updaters : ~(w[u].pc = "attach" /\ w[u].dev = d)
    BY <1>1 DEF Claimed
  <2>2. mounts[d] = 0 /\ d \notin bls /\ d \notin others
    BY <2>1 DEF Mounted, IInv, Media
  <2>3. Mounts(d)' = 1
    BY <1>1, <2>2 DEF Mounts
  <2> QED BY <2>1, <2>3
<1>2. CASE d # dev
  <2>1. (d \in bls' <=> d \in bls) /\ (d \in others' <=> d \in others) /\ d \notin unguarded
    BY <1>2
  <2>2. Mounts(d)' = Mounts(d) /\ (Mounted(d)' <=> Mounted(d))
    BY <2>1 DEF Mounts, Mounted
  <2> QED BY <2>1, <2>2 DEF IInv, Guarded
<1> QED BY <1>1, <1>2

LEMMA PatchMountIInv == ASSUME IInv, NEW t \in Updaters, PatchMount(t) PROVE IInv'
<1> DEFINE q == w[t]
           l == CHOOSE l \in Patched(w[t].update) : TRUE
           dev == Resolve(l)
           r == [q EXCEPT !.pc = "patching", !.dev = dev]
<1>1. /\ w[t].pc = "patch"
      /\ UNCHANGED <<world, lock, mounts, others, file, entry, open, wrote, cut, left>>
      /\ \/ /\ w' = [w EXCEPT ![t] = Idle] /\ UNCHANGED <<bls, unguarded>>
            /\ UNCHANGED counters \/ Fault
         \/ /\ Patched(w[t].update) # {} /\ dev = NONE
            /\ w' = [w EXCEPT ![t] = Refused(w[t])] /\ UNCHANGED <<bls, unguarded, counters>>
         \/ /\ Patched(w[t].update) # {} /\ dev # NONE /\ dev \notin bls
            /\ w' = [w EXCEPT ![t] = r] /\ bls' = bls \cup {dev}
            /\ unguarded' = unguarded \cup {d \in {dev} : Claimed(d)} /\ UNCHANGED counters
  BY DEF PatchMount, IInv
<1>2. w[t].update \in Updates /\ \A p \in Patched(w[t].update) : w[t].moved \/ Resolve(p) # NONE
  BY <1>1 DEF IInv, Aims
<1>3. Patched(w[t].update) # {} => l \in Patched(w[t].update) /\ l \in BootLabels
  BY <1>2, LabelsOf
<1>4. w[t].pc \notin FileSteps /\ w[t].pc \notin EntrySteps /\ w[t].pc # "rewriting" /\ ~Lifted(w[t])
  BY <1>1 DEF FileSteps, EntrySteps, Lifted
<1>5. UNCHANGED <<world, lock, mounts, file, open, left>> /\ UNCHANGED world
  BY <1>1
<1>6. CASE w' = [w EXCEPT ![t] = Idle] /\ UNCHANGED <<bls, unguarded>> /\ (UNCHANGED counters \/ Fault)
  <2>1. UNCHANGED <<world, others, bls, unguarded, cut>>
    BY <1>1, <1>6
  <2>2. World'
    BY <1>6, <2>1, SameWorld
  <2>3. UNCHANGED <<world, lock, mounts, others, file, entry, open, lapses>> /\ bls' \subseteq bls
    BY <1>1, <1>6 DEF lapses
  <2> QED BY <1>4, <1>6, <2>2, <2>3, RestIInv
<1>7. CASE /\ Patched(w[t].update) # {} /\ dev = NONE
           /\ w' = [w EXCEPT ![t] = Refused(w[t])] /\ UNCHANGED <<bls, unguarded, counters>>
  <2>1. w[t].dirty => w[t].moved
    BY <1>2, <1>3, <1>7
  <2>2. UNCHANGED <<world, media, wrote, lapses, counters>>
    BY <1>1, <1>7 DEF media, lapses
  <2> QED BY <1>4, <1>7, <2>1, <2>2, RefusedIInv
<1>8. CASE /\ Patched(w[t].update) # {} /\ dev # NONE /\ dev \notin bls
           /\ w' = [w EXCEPT ![t] = r] /\ bls' = bls \cup {dev}
           /\ unguarded' = unguarded \cup {d \in {dev} : Claimed(d)} /\ UNCHANGED counters
  <2>1. dev \in Filesystems
    <3>1. PICK p \in BootLabels : p = l
      BY <1>3, <1>8
    <3>2. World
      BY DEF IInv
    <3>3. Resolve(p) # NONE => Resolve(p) \in Filesystems
      BY <3>2, ResolveFinds
    <3> QED BY <1>8, <3>1, <3>3
  <2>2. /\ Typed(q) /\ w'[t] = r /\ w' = [w EXCEPT ![t] = r] /\ bls' = bls \cup {dev} /\ dev \notin bls
        /\ unguarded' = unguarded \cup {d \in {dev} : Claimed(d)} /\ UNCHANGED counters
        /\ \A u \in Updaters \ {t} : w'[u] = w[u]
    BY <1>8 DEF IInv
  <2>3. r = [q EXCEPT !.pc = "patching", !.dev = dev]
    OBVIOUS
  <2> HIDE DEF r, q, dev, l
  <2>4. r = [pc |-> "patching", update |-> q.update, targets |-> q.targets, k |-> q.k, dev |-> dev,
             mine |-> q.mine, ok |-> q.ok, dirty |-> q.dirty, moved |-> q.moved]
    BY <2>2, <2>3 DEF Typed, Shaped
  <2>5. "patching" \in Steps /\ q.mine \in BOOLEAN /\ q.ok \in BOOLEAN /\ q.dirty \in BOOLEAN
    BY <2>2 DEF Typed, Steps, EntrySteps
  <2>6. /\ Typed(r) /\ r.pc = "patching" /\ r.dev = dev
        /\ r.update = q.update /\ r.targets = q.targets /\ r.k = q.k /\ r.moved = q.moved
    BY <2>2, <2>4, <2>5, Altered
  <2>7. Holds(t)'
    BY <2>1, <2>2, <2>6 DEF Holds, FileSteps
  <2>8. \A p : Resolve(p)' = Resolve(p)
    BY <1>5, ResolveStays
  <2>9. Aims(t)'
    <3>1. Aims(t) /\ q.pc = "patch"
      BY <1>1 DEF IInv, q
    <3> QED BY <2>1, <2>2, <2>6, <2>8, <3>1 DEF Aims, q
  <2>10. World'
    BY <1>1, <2>1, <2>2 DEF IInv, World, world, counters
  <2>11. r.pc \notin FileSteps
    BY <2>6 DEF FileSteps
  <2>12. /\ entry' \in [Filesystems -> Content] /\ mounts' = mounts /\ others' = others
         /\ UNCHANGED <<entry, cut>>
    BY <1>1 DEF IInv, Media
  <2>13. \A u \in Updaters : w'[u].pc = "attach" => w[u].pc = "attach" /\ w'[u].dev = w[u].dev
    BY <2>2, <2>6
  <2>14. Guarded'
    BY <2>1, <2>2, <2>12, <2>13, ClaimKept
  <2>15. Entries'
    BY <1>4, <2>2, <2>12, EntriesKept
  <2> QED BY <1>4, <1>5, <2>2, <2>6, <2>7, <2>9, <2>10, <2>11, <2>12, <2>14, <2>15, AsideIInv
<1> QED BY <1>1, <1>6, <1>7, <1>8

\* The entry is opened, read or written: the updater stays at it, and nothing else changes.
LEMMA EntryStepIInv ==
  ASSUME IInv, NEW t \in Updaters, w[t].pc \in EntrySteps, NEW pc \in {"rewriting", "unpatch"},
         NEW ok \in BOOLEAN, NEW dirty \in BOOLEAN,
         w' = [w EXCEPT ![t] = [w[t] EXCEPT !.pc = pc, !.ok = ok, !.dirty = dirty]],
         UNCHANGED <<world, lock, mounts, others, bls, file, open, unguarded, left>>,
         UNCHANGED counters \/ Fault,
         entry' \in [Filesystems -> Content], cut' \subseteq Filesystems,
         \A d \in Filesystems : ~entry'[d].whole =>
           \/ d \in cut' \/ (pc = "rewriting" /\ w[t].dev = d)
           \/ \E u \in Updaters \ {t} : w[u].pc = "rewriting" /\ w[u].dev = d
  PROVE  IInv'
<1> DEFINE q == w[t]
           r == [q EXCEPT !.pc = pc, !.ok = ok, !.dirty = dirty]
<1>1. w' = [w EXCEPT ![t] = r]
  OBVIOUS
<1>2. Typed(q) /\ w'[t] = r /\ \A u \in Updaters \ {t} : w'[u] = w[u]
  BY <1>1 DEF IInv
<1>3. r = [q EXCEPT !.pc = pc, !.ok = ok, !.dirty = dirty]
  OBVIOUS
<1> HIDE DEF r, q
<1>4. r = [pc |-> pc, update |-> q.update, targets |-> q.targets, k |-> q.k, dev |-> q.dev,
           mine |-> q.mine, ok |-> ok, dirty |-> dirty, moved |-> q.moved]
  BY <1>2, <1>3 DEF Typed, Shaped
<1>5. pc \in Steps /\ q.mine \in BOOLEAN
  BY <1>2 DEF Typed, Steps, EntrySteps
<1>6. /\ Typed(r) /\ r.pc = pc /\ r.dev = q.dev /\ r.mine = q.mine
      /\ r.update = q.update /\ r.targets = q.targets /\ r.k = q.k /\ r.moved = q.moved
  BY <1>2, <1>4, <1>5, Altered
<1>7. w[t].pc \notin {"idle", "refused", "locate"} /\ w[t].pc \notin FileSteps /\ ~Lifted(w[t])
      /\ r.pc \notin FileSteps /\ r.pc # "attach"
  BY <1>6 DEF EntrySteps, FileSteps, Lifted
<1>8. w[t].dev \in Filesystems
  BY DEF IInv, Aims
<1>9. Holds(t)'
  BY <1>2, <1>6 DEF Holds, FileSteps
<1>10. Aims(t)'
  BY <1>2, <1>6, <1>7, <1>8, AimsKept DEF q
<1>11. World'
  <2>1. UNCHANGED <<updates, crashes>> /\ faults' \in 0..MaxFaults
    BY FaultType DEF counters, IInv, World
  <2> QED BY <2>1 DEF IInv, World, world
<1>12. Entries'
  <2> SUFFICES ASSUME NEW d \in Filesystems, ~entry'[d].whole, d \notin cut'
               PROVE  \E u \in Updaters : w'[u].pc = "rewriting" /\ w'[u].dev = d
    BY DEF Entries
  <2>1. CASE pc = "rewriting" /\ w[t].dev = d
    BY <1>2, <1>6, <2>1 DEF q
  <2>2. CASE \E u \in Updaters \ {t} : w[u].pc = "rewriting" /\ w[u].dev = d
    <3>1. PICK u \in Updaters \ {t} : w[u].pc = "rewriting" /\ w[u].dev = d
      BY <2>2
    <3> QED BY <1>2, <3>1
  <2> QED BY <2>1, <2>2
<1>13. Guarded'
  <2>1. mounts' \in [Filesystems -> {0, 1}] /\ \A d \in Filesystems : mounts'[d] <= mounts[d]
    BY DEF IInv, Media
  <2> QED BY <1>1, <1>7, <2>1, GuardedKept
<1> QED BY <1>1, <1>6, <1>7, <1>9, <1>10, <1>11, <1>12, <1>13, AsideIInv

\* An entry is what it is set to, and the others are what they were.
LEMMA EntrySet ==
  ASSUME IInv, NEW dev \in Filesystems, NEW what \in Content, entry' = [entry EXCEPT ![dev] = what]
  PROVE  /\ entry' \in [Filesystems -> Content] /\ entry'[dev] = what
         /\ \A d \in Filesystems \ {dev} : entry'[d] = entry[d]
<1>1. entry \in [Filesystems -> Content]
  BY DEF IInv, Media
<1> QED BY <1>1

LEMMA OpenEntryIInv == ASSUME IInv, NEW t \in Updaters, OpenEntry(t) PROVE IInv'
<1> DEFINE dev == w[t].dev
           q == w[t]
<1>1. w[t].pc = "patching" /\ w[t].pc \in EntrySteps
      /\ UNCHANGED <<world, lock, mounts, others, bls, file, open, unguarded, cut, left>>
  BY DEF OpenEntry, EntrySteps, lapses
<1>2. dev \in Filesystems /\ Shaped(q) /\ q.ok \in BOOLEAN /\ q.dirty \in BOOLEAN
  BY <1>1 DEF IInv, Aims, Typed
<1>3. entry \in [Filesystems -> Content] /\ cut' = cut /\ cut' \subseteq Filesystems
  BY <1>1 DEF IInv, Media, World
<1>4. \A d \in Filesystems : ~entry[d].whole =>
        d \in cut \/ \E u \in Updaters \ {t} : w[u].pc = "rewriting" /\ w[u].dev = d
  BY <1>1 DEF IInv, Entries
<1>5. CASE /\ w' = [w EXCEPT ![t] = [q EXCEPT !.pc = "rewriting", !.dirty = TRUE]]
           /\ entry' = [entry EXCEPT ![dev] = Part(t)] /\ UNCHANGED counters
  <2>1. Part(t) \in Content
    BY DEF Part, Content
  <2>2. entry' \in [Filesystems -> Content] /\ \A d \in Filesystems \ {dev} : entry'[d] = entry[d]
    <3> HIDE DEF dev, q
    <3> QED BY <1>2, <1>5, <2>1, EntrySet
  <2>3. w' = [w EXCEPT ![t] = [q EXCEPT !.pc = "rewriting", !.ok = q.ok, !.dirty = TRUE]]
    BY <1>2, <1>5, SameOk
  <2>4. \A d \in Filesystems : ~entry'[d].whole =>
          \/ d \in cut' \/ dev = d
          \/ \E u \in Updaters \ {t} : w[u].pc = "rewriting" /\ w[u].dev = d
    <3> HIDE DEF dev, q
    <3> QED BY <1>3, <1>4, <2>2
  <2> DEFINE pc == "rewriting"
             ok == q.ok
             dirty == TRUE
  <2>5. pc \in {"rewriting", "unpatch"} /\ ok \in BOOLEAN /\ dirty \in BOOLEAN
    BY <1>2
  <2>6. w' = [w EXCEPT ![t] = [w[t] EXCEPT !.pc = pc, !.ok = ok, !.dirty = dirty]]
    BY <2>3
  <2>7. \A d \in Filesystems : ~entry'[d].whole =>
          \/ d \in cut' \/ (pc = "rewriting" /\ w[t].dev = d)
          \/ \E u \in Updaters \ {t} : w[u].pc = "rewriting" /\ w[u].dev = d
    BY <2>4
  <2>8. UNCHANGED counters \/ Fault
    BY <1>5
  <2> HIDE DEF pc, ok, dirty, dev, q
  <2> QED BY <1>1, <1>3, <2>2, <2>5, <2>6, <2>7, <2>8, EntryStepIInv
<1>6. CASE /\ w' = [w EXCEPT ![t] = [q EXCEPT !.pc = "unpatch", !.ok = FALSE]]
           /\ Fault /\ UNCHANGED entry
  <2>1. w' = [w EXCEPT ![t] = [q EXCEPT !.pc = "unpatch", !.ok = FALSE, !.dirty = q.dirty]]
    BY <1>2, <1>6, SameDirtyNotOk
  <2>2. \A d \in Filesystems : ~entry'[d].whole =>
          d \in cut' \/ \E u \in Updaters \ {t} : w[u].pc = "rewriting" /\ w[u].dev = d
    BY <1>3, <1>4, <1>6
  <2> DEFINE pc == "unpatch"
             ok == FALSE
             dirty == q.dirty
  <2>5. pc \in {"rewriting", "unpatch"} /\ ok \in BOOLEAN /\ dirty \in BOOLEAN
    BY <1>2
  <2>6. w' = [w EXCEPT ![t] = [w[t] EXCEPT !.pc = pc, !.ok = ok, !.dirty = dirty]]
    BY <2>1
  <2>7. \A d \in Filesystems : ~entry'[d].whole =>
          \/ d \in cut' \/ (pc = "rewriting" /\ w[t].dev = d)
          \/ \E u \in Updaters \ {t} : w[u].pc = "rewriting" /\ w[u].dev = d
    BY <2>2
  <2>8. UNCHANGED counters \/ Fault
    BY <1>6
  <2>9. entry' \in [Filesystems -> Content] /\ cut' \subseteq Filesystems
    BY <1>3, <1>6
  <2> HIDE DEF pc, ok, dirty, dev, q
  <2> QED BY <1>1, <2>5, <2>6, <2>7, <2>8, <2>9, EntryStepIInv
<1> QED BY <1>5, <1>6 DEF OpenEntry, IInv

LEMMA WriteEntryIInv == ASSUME IInv, NEW t \in Updaters, WriteEntry(t) PROVE IInv'
<1> DEFINE dev == w[t].dev
           q == w[t]
<1>1. w[t].pc = "rewriting" /\ w[t].pc \in EntrySteps
      /\ UNCHANGED <<world, lock, mounts, others, bls, file, open, unguarded, left>>
  BY DEF WriteEntry, EntrySteps
<1>2. dev \in Filesystems /\ Shaped(q) /\ q.ok \in BOOLEAN /\ q.dirty \in BOOLEAN
  BY <1>1 DEF IInv, Aims, Typed
<1>3. entry \in [Filesystems -> Content] /\ cut \subseteq Filesystems
  BY DEF IInv, Media, World
<1>4. \A d \in Filesystems \ {dev} : ~entry[d].whole =>
        d \in cut \/ \E u \in Updaters \ {t} : w[u].pc = "rewriting" /\ w[u].dev = d
  BY DEF IInv, Entries
<1>5. CASE /\ w' = [w EXCEPT ![t] = [q EXCEPT !.pc = "unpatch"]]
           /\ entry' = [entry EXCEPT ![dev] = Whole(t)] /\ cut' = cut \ {dev} /\ UNCHANGED counters
  <2>1. Whole(t) \in Content /\ Whole(t).whole
    BY DEF Whole, Content
  <2>2. /\ entry' \in [Filesystems -> Content] /\ entry'[dev] = Whole(t)
        /\ \A d \in Filesystems \ {dev} : entry'[d] = entry[d]
    <3> HIDE DEF dev, q
    <3> QED BY <1>2, <1>5, <2>1, EntrySet
  <2>3. w' = [w EXCEPT ![t] = [q EXCEPT !.pc = "unpatch", !.ok = q.ok, !.dirty = q.dirty]]
    BY <1>2, <1>5, SameOkDirty
  <2>4. /\ cut' \subseteq Filesystems
        /\ \A d \in Filesystems : ~entry'[d].whole =>
             d \in cut' \/ \E u \in Updaters \ {t} : w[u].pc = "rewriting" /\ w[u].dev = d
    <3> HIDE DEF dev, q
    <3> QED BY <1>3, <1>4, <1>5, <2>1, <2>2
  <2> DEFINE pc == "unpatch"
             ok == q.ok
             dirty == q.dirty
  <2>5. pc \in {"rewriting", "unpatch"} /\ ok \in BOOLEAN /\ dirty \in BOOLEAN
    BY <1>2
  <2>6. w' = [w EXCEPT ![t] = [w[t] EXCEPT !.pc = pc, !.ok = ok, !.dirty = dirty]]
    BY <2>3
  <2>7. \A d \in Filesystems : ~entry'[d].whole =>
          \/ d \in cut' \/ (pc = "rewriting" /\ w[t].dev = d)
          \/ \E u \in Updaters \ {t} : w[u].pc = "rewriting" /\ w[u].dev = d
    BY <2>4
  <2>8. UNCHANGED counters \/ Fault
    BY <1>5
  <2> HIDE DEF pc, ok, dirty, dev, q
  <2> QED BY <1>1, <2>2, <2>4, <2>5, <2>6, <2>7, <2>8, EntryStepIInv
<1>6. CASE /\ w' = [w EXCEPT ![t] = [q EXCEPT !.pc = "unpatch", !.ok = FALSE]]
           /\ cut' = cut \cup {dev} /\ Fault /\ UNCHANGED entry
  <2>1. w' = [w EXCEPT ![t] = [q EXCEPT !.pc = "unpatch", !.ok = FALSE, !.dirty = q.dirty]]
    BY <1>2, <1>6, SameDirtyNotOk
  <2>2. /\ cut' \subseteq Filesystems
        /\ \A d \in Filesystems : ~entry'[d].whole =>
             d \in cut' \/ \E u \in Updaters \ {t} : w[u].pc = "rewriting" /\ w[u].dev = d
    <3> HIDE DEF dev, q
    <3> QED BY <1>2, <1>3, <1>4, <1>6
  <2> QED BY <1>1, <1>2, <1>3, <1>6, <2>1, <2>2, EntryStepIInv
<1> QED BY <1>5, <1>6 DEF WriteEntry, IInv

LEMMA PatchEndIInv == ASSUME IInv, NEW t \in Updaters, PatchEnd(t) PROVE IInv'
<1>1. /\ w[t].pc = "unpatch" /\ w' = [w EXCEPT ![t] = Idle]
      /\ bls' \subseteq bls /\ (UNCHANGED counters \/ Fault)
      /\ UNCHANGED <<world, lock, mounts, others, file, entry, open, lapses>>
  BY DEF PatchEnd
<1>2. w[t].pc \notin FileSteps \cup {"rewriting"} /\ ~Lifted(w[t])
  BY <1>1 DEF FileSteps, Lifted
<1>3. World'
  <2>1. UNCHANGED <<updates, crashes>> /\ faults' \in 0..MaxFaults
    BY <1>1, FaultType DEF counters, IInv, World
  <2> QED BY <1>1, <2>1 DEF IInv, World, world, lapses
<1> QED BY <1>1, <1>2, <1>3, RestIInv

-----------------------------------------------------------------------------
(* The rest of the system *)

LEMMA PlugIInv == ASSUME IInv, NEW v \in Visitors, Plug(v) PROVE IInv'
<1> DEFINE after(t) == [w[t] EXCEPT !.moved = w[t].moved \/ w[t].pc \notin {"idle", "refused"}]
<1>1. /\ w' = [t \in Updaters |-> after(t)]
      /\ UNCHANGED <<board, media, wrote, lapses, counters>>
      /\ near' = near \ {v} \/ near' = near \cup {v}
  BY DEF Plug, IInv
<1>2. ASSUME NEW t \in Updaters
      PROVE  /\ w'[t] = after(t) /\ after(t).moved \in BOOLEAN
             /\ after(t) = [pc |-> w[t].pc, update |-> w[t].update, targets |-> w[t].targets,
                            k |-> w[t].k, dev |-> w[t].dev, mine |-> w[t].mine, ok |-> w[t].ok,
                            dirty |-> w[t].dirty, moved |-> after(t).moved]
             /\ w[t].pc \notin {"idle", "refused"} => after(t).moved
             /\ w[t].moved => after(t).moved
  <2> DEFINE moved == w[t].moved \/ w[t].pc \notin {"idle", "refused"}
             q == w[t]
             r == [q EXCEPT !.moved = moved]
  <2>1. w'[t] = r /\ r = after(t) /\ r = [q EXCEPT !.moved = moved]
    BY <1>1
  <2>2. moved \in BOOLEAN
    BY DEF IInv, Typed
  <2>3. Shaped(q)
    BY DEF IInv, Typed
  <2>4. w[t].pc \notin {"idle", "refused"} => moved
    OBVIOUS
  <2>6. w[t].moved => moved
    OBVIOUS
  <2> HIDE DEF r, moved, q
  <2>5. r = [pc |-> q.pc, update |-> q.update, targets |-> q.targets, k |-> q.k, dev |-> q.dev,
             mine |-> q.mine, ok |-> q.ok, dirty |-> q.dirty, moved |-> moved]
    BY <2>1, <2>3 DEF Shaped
  <2>7. r.moved = moved
    BY <2>5
  <2> HIDE DEF after
  <2> QED BY <2>1, <2>2, <2>4, <2>5, <2>6, <2>7 DEF q
<1>3. w' = [t \in Updaters |-> w'[t]]
  BY <1>1
<1> HIDE DEF after
<1>4. ASSUME NEW t \in Updaters
      PROVE  /\ Typed(w[t])' /\ w'[t].pc = w[t].pc /\ w'[t].update = w[t].update
             /\ w'[t].targets = w[t].targets /\ w'[t].k = w[t].k /\ w'[t].dev = w[t].dev
             /\ w'[t].mine = w[t].mine /\ w'[t].dirty = w[t].dirty
             /\ w[t].pc \notin {"idle", "refused"} => w'[t].moved
             /\ w[t].moved => w'[t].moved
  <2> DEFINE r == w'[t]
             q == w[t]
  <2>1. /\ r = [pc |-> q.pc, update |-> q.update, targets |-> q.targets, k |-> q.k, dev |-> q.dev,
                mine |-> q.mine, ok |-> q.ok, dirty |-> q.dirty, moved |-> r.moved]
        /\ r.moved \in BOOLEAN /\ (q.pc \notin {"idle", "refused"} => r.moved)
        /\ (q.moved => r.moved)
    BY <1>2
  <2>2. Typed(q)
    BY DEF IInv
  <2> HIDE DEF r, q
  <2>3. /\ r.pc = q.pc /\ r.update = q.update /\ r.targets = q.targets /\ r.k = q.k
        /\ r.dev = q.dev /\ r.mine = q.mine /\ r.ok = q.ok /\ r.dirty = q.dirty
    BY <2>1
  <2>4. Typed(r)
    BY <2>1, <2>2, <2>3 DEF Typed, Shaped
  <2> QED BY <2>1, <2>3, <2>4 DEF r, q, Typed, Shaped
<1>5. World'
  BY <1>1 DEF IInv, World, media, lapses, counters
<1>6. Media' /\ UNCHANGED <<lock, mounts, others, bls, file, entry, open, unguarded, cut, left>>
  BY <1>1 DEF IInv, Media, media, lapses
<1>12. Entries'
  BY <1>4, <1>6 DEF IInv, Entries
<1>13. Guarded'
  <2>1. \A d : Mounts(d)' = Mounts(d) /\ Mounted(d)' = Mounted(d)
    BY <1>6 DEF Mounts, Mounted
  <2> QED BY <1>4, <1>6, <2>1 DEF IInv, Guarded
<1>7. Locked'
  BY <1>4, <1>6 DEF IInv, Locked, Media
<1>8. \A t \in Updaters : Holds(t)'
  BY <1>4, <1>6 DEF IInv, Holds
<1>9. ASSUME NEW t \in Updaters PROVE Aims(t)'
  <2>1. Aims(t)
    BY DEF IInv
  <2> QED BY <1>4, <2>1 DEF Aims
<1>10. Relocked'
  BY <1>4, <1>6 DEF IInv, Relocked
<1>11. \A t \in Updaters : Typed(w[t])'
  BY <1>4
<1> QED BY <1>3, <1>5, <1>6, <1>7, <1>8, <1>9, <1>10, <1>11, <1>12, <1>13 DEF IInv

\* Where the updaters, their media and the disks are as they were.
LEMMA QuietIInv ==
  ASSUME IInv, UNCHANGED <<world, w, lock, mounts, file, entry, open, cut, left>>, World', Guarded'
  PROVE  IInv'
<1>1. \A l : Resolve(l)' = Resolve(l)
  BY ResolveStays DEF world
<1>2. \A t \in Updaters : Aims(t)'
  BY <1>1 DEF IInv, Aims
<1>3. \A t \in Updaters : Holds(t)' /\ Typed(w[t])'
  BY DEF IInv, Holds
<1>4. Media' /\ Locked' /\ Relocked' /\ Entries'
  BY DEF IInv, Media, Locked, Relocked, Entries
<1> QED BY <1>2, <1>3, <1>4 DEF IInv

LEMMA OthersMountIInv == ASSUME IInv, NEW d \in Filesystems, OthersMount(d) PROVE IInv'
<1>1. World' /\ UNCHANGED <<world, w, lock, mounts, file, entry, open, cut, left>>
  BY DEF OthersMount, IInv, World, world, counters
<1>2. /\ d \notin others /\ others' = others \cup {d} /\ bls' = bls /\ mounts' = mounts /\ w' = w
      /\ unguarded' = unguarded \cup {e \in {d} : Claimed(e)}
  BY DEF OthersMount, Mounted
<1>3. Guarded'
  BY <1>2, ClaimKept
<1> QED BY <1>1, <1>3, QuietIInv

LEMMA StutterIInv == ASSUME IInv, UNCHANGED vars PROVE IInv'
<1>1. World' /\ UNCHANGED <<world, w, lock, mounts, file, entry, open, cut, left>>
  BY DEF vars, media, counters, lapses, IInv, World, world
<1>2. UNCHANGED <<w, mounts, others, bls, unguarded>>
  BY DEF vars, media, lapses
<1>3. \A d : Mounts(d)' = Mounts(d) /\ Mounted(d)' = Mounted(d)
  BY <1>2 DEF Mounts, Mounted
<1>4. Guarded'
  BY <1>2, <1>3 DEF IInv, Guarded
<1> QED BY <1>1, <1>4, QuietIInv

\* A death or a boot counts.
LEMMA CrashType ==
  ASSUME World, crashes < MaxCrashes, crashes' = crashes + 1, UNCHANGED <<updates, faults>>
  PROVE  /\ updates' \in 0..MaxUpdates /\ faults' \in 0..MaxFaults /\ crashes' \in 0..MaxCrashes
<1>1. MaxCrashes \in Nat
  BY BootMediaAssumption
<1> QED BY <1>1 DEF World

LEMMA KillIInv == ASSUME IInv, NEW t \in Updaters, Kill(t) PROVE IInv'
<1> DEFINE r == Idle
<1>1. /\ w' = [w EXCEPT ![t] = r] /\ lock' = Unlocked(t)
      /\ left' = left \cup {d \in {w[t].dev} : w[t].pc \in {"lifted", "restore"}}
      /\ cut' = cut \cup {d \in {w[t].dev} : w[t].pc = "rewriting"}
      /\ crashes < MaxCrashes /\ crashes' = crashes + 1
      /\ UNCHANGED <<world, mounts, others, bls, file, entry, open, wrote, unguarded, updates, faults>>
  BY DEF Kill
<1>2. Typed(r) /\ r.pc = "idle"
  BY IdleTyped
<1>3. Holds(t)' /\ Aims(t)'
  BY <1>1, RestAims
<1> HIDE DEF r
<1>4. World'
  <2>1. updates' \in 0..MaxUpdates /\ faults' \in 0..MaxFaults /\ crashes' \in 0..MaxCrashes
    BY <1>1, CrashType DEF IInv
  <2>2. w[t].pc = "rewriting" => w[t].dev \in Filesystems
    BY DEF IInv, Aims, EntrySteps
  <2>3. cut' \subseteq Filesystems
    BY <1>1, <2>2 DEF IInv, World
  <2> QED BY <1>1, <2>1, <2>3 DEF IInv, World, world
<1>5. lock \in [Filesystems -> Updaters \cup {NONE}] /\ t # NONE
  BY BootMediaAssumption DEF IInv, Media
<1>6. /\ lock' \in [Filesystems -> Updaters \cup {NONE}]
      /\ \A d \in Filesystems : lock'[d] = IF lock[d] = t THEN NONE ELSE lock[d]
  BY <1>1, <1>5 DEF Unlocked
<1>7. Media'
  BY <1>1, <1>6 DEF IInv, Media
<1>8. \A d \in Filesystems : lock[d] \notin {t, NONE} =>
        lock'[d] = lock[d] /\ mounts'[d] = mounts[d] /\ file'[d] = file[d]
  BY <1>1, <1>6
<1>9. \A d \in Filesystems : lock'[d] # lock[d] => lock'[d] \in {t, NONE}
  BY <1>6
<1>10. \A d \in Filesystems : lock'[d] # t
  BY <1>5, <1>6
<1>11. \A u \in Updaters : w'[u] = IF u = t THEN r ELSE w[u]
  BY <1>1 DEF IInv
<1>12. Relocked'
  <2> SUFFICES ASSUME NEW d \in open, d \notin left'
               PROVE  \E u \in Updaters : w'[u].pc \in {"lifted", "restore"} /\ w'[u].dev = d
    BY <1>1 DEF Relocked
  <2>1. PICK u \in Updaters : w[u].pc \in {"lifted", "restore"} /\ w[u].dev = d
    BY <1>1 DEF IInv, Relocked
  <2>2. u # t
    BY <1>1, <2>1
  <2> QED BY <1>11, <2>1, <2>2
<1>13. Entries'
  <2> SUFFICES ASSUME NEW d \in Filesystems, ~entry[d].whole, d \notin cut'
               PROVE  \E u \in Updaters : w'[u].pc = "rewriting" /\ w'[u].dev = d
    BY <1>1 DEF Entries
  <2>1. PICK u \in Updaters : w[u].pc = "rewriting" /\ w[u].dev = d
    BY <1>1 DEF IInv, Entries
  <2>2. u # t
    BY <1>1, <2>1
  <2> QED BY <1>11, <2>1, <2>2
<1>14. Guarded'
  <2>1. mounts' \in [Filesystems -> {0, 1}] /\ \A d \in Filesystems : mounts'[d] <= mounts[d]
    BY <1>1 DEF IInv, Media
  <2>2. r.pc # "attach"
    BY <1>2
  <2> QED BY <1>1, <2>1, <2>2, GuardedKept
<1>15. UNCHANGED world
  BY <1>1
<1> QED BY <1>1, <1>2, <1>3, <1>4, <1>7, <1>8, <1>9, <1>10, <1>12, <1>13, <1>14, <1>15, UpdaterStep

LEMMA RebootIInv == ASSUME IInv, Reboot PROVE IInv'
<1>1. \A t \in Updaters : w'[t] = Idle
  BY DEF Reboot
<1>2. \A t \in Updaters : Typed(w[t])' /\ Holds(t)' /\ Aims(t)'
  BY <1>1, IdleTyped DEF Holds, Aims, FileSteps, EntrySteps
<1>3. PICK lost \in SUBSET Unsynced :
        /\ entry' = [d \in Filesystems |-> [entry[d] EXCEPT !.whole = @ /\ d \notin lost]]
        /\ cut' = cut \cup lost \cup Halfway
  BY DEF Reboot
<1>4. Unsynced \subseteq Filesystems /\ Halfway \subseteq Filesystems
  BY DEF Unsynced, Halfway, IInv, Aims, EntrySteps
<1>5. World'
  <2>1. updates' \in 0..MaxUpdates /\ faults' \in 0..MaxFaults /\ crashes' \in 0..MaxCrashes
    BY CrashType DEF IInv, Reboot
  <2>2. UNCHANGED world /\ others' = {} /\ bls' = {} /\ unguarded' = {}
    BY DEF Reboot
  <2>3. cut' \subseteq Filesystems
    BY <1>3, <1>4 DEF IInv, World
  <2> QED BY <2>1, <2>2, <2>3 DEF IInv, World, world
<1>6. ASSUME NEW d \in Filesystems
      PROVE  entry'[d] \in Content /\ (~entry'[d].whole => d \in lost \/ ~entry[d].whole)
  <2> DEFINE old == entry[d]
  <2>1. old \in Content
    BY DEF IInv, Media
  <2>2. entry'[d] = [old EXCEPT !.whole = old.whole /\ d \notin lost]
    BY <1>3
  <2> HIDE DEF old
  <2>3. entry'[d] \in Content /\ (~entry'[d].whole => d \in lost \/ ~old.whole)
    BY <2>1, <2>2 DEF Content
  <2> QED BY <2>3 DEF old
<1>7. Media'
  <2>1. entry' \in [Filesystems -> Content]
    BY <1>3, <1>6
  <2>2. mounts' = [d \in Filesystems |-> 0] /\ lock' = [d \in Filesystems |-> NONE] /\ file' = file
    BY DEF Reboot
  <2> QED BY <2>1, <2>2 DEF IInv, Media
<1>8. Entries'
  <2> SUFFICES ASSUME NEW d \in Filesystems, ~entry'[d].whole PROVE d \in cut'
    BY DEF Entries
  <2>1. d \in lost \/ ~entry[d].whole
    BY <1>6
  <2>2. ~entry[d].whole => d \in cut \cup Halfway
    BY DEF IInv, Entries, Halfway
  <2> QED BY <1>3, <2>1, <2>2
<1>9. Guarded'
  <2>1. mounts' = [d \in Filesystems |-> 0] /\ bls' = {} /\ others' = {}
    BY DEF Reboot
  <2>2. \A d \in Filesystems : Mounts(d)' <= 1
    BY <2>1 DEF Mounts
  <2>3. \A t \in Updaters : w'[t].pc # "attach"
    BY <1>1, IdleTyped
  <2> QED BY <2>2, <2>3 DEF Guarded
<1>10. Locked' /\ Relocked'
  BY DEF Reboot, Locked, Relocked
<1>11. w' = [t \in Updaters |-> w'[t]]
  BY DEF Reboot
<1> QED BY <1>2, <1>5, <1>7, <1>8, <1>9, <1>10, <1>11 DEF IInv

-----------------------------------------------------------------------------
(* What / stands on *)

\* Induction up to N, over the members of a set.
LEMMA UpTo ==
  ASSUME NEW N \in Nat, NEW S, 0 \in S, \A n \in 0..N : n \in S /\ n < N => n + 1 \in S
  PROVE  0..N \subseteq S
<1> DEFINE T == {0..n : n \in (0..N) \ S}
<1>1. IsWellFoundedOn(StrictSubsetOrdering(0..N), SUBSET (0..N))
  <2>1. IsFiniteSet(0..N)
    BY FS_Interval
  <2>2. FiniteSubsetsOf(0..N) = SUBSET (0..N)
    BY <2>1, FS_FiniteSubsetsOfFinite
  <2>3. IsWellFoundedOn(StrictSubsetOrdering(0..N), FiniteSubsetsOf(0..N))
    BY FS_StrictSubsetOrderingWellFounded
  <2> QED BY <2>2, <2>3
<1>2. SUFFICES ASSUME T # {} PROVE FALSE
  OBVIOUS
<1>3. T \subseteq SUBSET (0..N)
  OBVIOUS
<1>4. PICK x \in T : \A y \in T : ~(<<y, x>> \in StrictSubsetOrdering(0..N))
  <2> HIDE DEF T
  <2> QED BY <1>1, <1>2, <1>3, WFMin
<1>5. PICK n \in (0..N) \ S : x = 0..n
  BY <1>4
<1>6. n # 0 /\ n - 1 \in (0..N) \ S
  <2>1. n \in 1..N /\ n - 1 \in 0..N /\ n - 1 < N /\ (n - 1) + 1 = n
    BY <1>5
  <2> QED BY <1>5, <2>1
<1>7. 0..(n - 1) \in T
  BY <1>6
<1>8. 0..(n - 1) \subseteq 0..n /\ n \in 0..n /\ n \notin 0..(n - 1)
  BY <1>5
<1>9. <<0..(n - 1), 0..n>> \in StrictSubsetOrdering(0..N)
  BY <1>3, <1>4, <1>5, <1>7, <1>8 DEF StrictSubsetOrdering
<1> QED BY <1>4, <1>5, <1>7, <1>9

\* The device that d stands on alone; a partition stands for itself.
Under(d, parts, below) ==
  IF d \in Devs(parts) THEN d ELSE IF d = NONE THEN NONE ELSE Only(below[d])

\* f goes down from the device of /, n times.
Descends(f, n, parts, root, below) ==
  f = [m \in 0..n |-> IF m = 0 THEN root ELSE Under(f[m - 1], parts, below)]

LEMMA DescentExists ==
  ASSUME NEW parts, NEW root, NEW below, NEW N \in Nat
  PROVE  \E f : Descends(f, N, parts, root, below)
<1> DEFINE S == {n \in 0..N : \E f : Descends(f, n, parts, root, below)}
<1>1. 0 \in S
  <2> DEFINE f == [m \in 0..0 |-> root]
  <2>1. f = [m \in 0..0 |-> IF m = 0 THEN root ELSE Under(f[m - 1], parts, below)]
    OBVIOUS
  <2>2. Descends(f, 0, parts, root, below)
    BY <2>1 DEF Descends
  <2> HIDE DEF f
  <2>3. \E g : Descends(g, 0, parts, root, below)
    BY <2>2
  <2>4. 0 \in 0..N
    OBVIOUS
  <2> QED BY <2>3, <2>4
<1>2. ASSUME NEW n \in 0..N, n \in S, n < N PROVE n + 1 \in S
  <2>1. PICK f : f = [m \in 0..n |-> IF m = 0 THEN root ELSE Under(f[m - 1], parts, below)]
    BY <1>2 DEF Descends
  <2> DEFINE g == [m \in 0..(n + 1) |-> IF m = n + 1 THEN Under(f[n], parts, below) ELSE f[m]]
  <2>2. g = [m \in 0..(n + 1) |-> IF m = 0 THEN root ELSE Under(g[m - 1], parts, below)]
    <3> SUFFICES ASSUME NEW m \in 0..(n + 1)
                 PROVE  g[m] = IF m = 0 THEN root ELSE Under(g[m - 1], parts, below)
      OBVIOUS
    <3>1. CASE m = n + 1
      BY <3>1
    <3>2. CASE m = 0
      BY <2>1, <3>2
    <3>3. CASE m \in 1..n
      <4>1. g[m] = f[m] /\ m - 1 \in 0..n /\ g[m - 1] = f[m - 1] /\ m \in 0..n /\ m # 0
        BY <3>3
      <4>2. f[m] = Under(f[m - 1], parts, below)
        BY <2>1, <4>1
      <4> QED BY <4>1, <4>2
    <3> QED BY <3>1, <3>2, <3>3
  <2>3. Descends(g, n + 1, parts, root, below)
    BY <2>2 DEF Descends
  <2> QED BY <1>2, <2>3
<1>3. N \in S
  <2> HIDE DEF S
  <2> QED BY <1>1, <1>2, UpTo
<1> QED BY <1>3

\* booted_partition is the partition at the end of the descent, if one is.
LEMMA BootedByDescent ==
  ASSUME NEW parts, NEW root, NEW below
  PROVE  \E f : /\ Descends(f, MaxDmDepth, parts, root, below)
                /\ BootedPartition(parts, root, below) = Only({p \in parts : p.dev = f[MaxDmDepth - 1]})
<1>1. \E f : f = [n \in 0..MaxDmDepth |->
                    IF n = 0 THEN root
                    ELSE IF f[n - 1] \in Devs(parts) THEN f[n - 1]
                    ELSE IF f[n - 1] = NONE THEN NONE ELSE Only(below[f[n - 1]])]
  <2>1. MaxDmDepth \in Nat
    BY BoardAssumption
  <2>2. PICK f : Descends(f, MaxDmDepth, parts, root, below)
    BY <2>1, DescentExists
  <2> QED BY <2>2 DEF Descends, Under
<1> DEFINE down == CHOOSE f : f = [n \in 0..MaxDmDepth |->
                    IF n = 0 THEN root
                    ELSE IF f[n - 1] \in Devs(parts) THEN f[n - 1]
                    ELSE IF f[n - 1] = NONE THEN NONE ELSE Only(below[f[n - 1]])]
<1>2. down = [n \in 0..MaxDmDepth |->
                    IF n = 0 THEN root
                    ELSE IF down[n - 1] \in Devs(parts) THEN down[n - 1]
                    ELSE IF down[n - 1] = NONE THEN NONE ELSE Only(below[down[n - 1]])]
  BY <1>1
<1>3. Descends(down, MaxDmDepth, parts, root, below)
  BY <1>2 DEF Descends, Under
<1>4. BootedPartition(parts, root, below) = Only({p \in parts : p.dev = down[MaxDmDepth - 1]})
  BY DEF BootedPartition
<1> HIDE DEF down
<1> QED BY <1>3, <1>4

\* One layer more.
Widens(f, n, root, below) ==
  f = [m \in 0..n |-> IF m = 0 THEN {root} \ {NONE} ELSE f[m - 1] \cup UNION {below[d] : d \in f[m - 1]}]

LEMMA WideningExists ==
  ASSUME NEW root, NEW below, NEW N \in Nat
  PROVE  \E f : Widens(f, N, root, below)
<1> DEFINE S == {n \in 0..N : \E f : Widens(f, n, root, below)}
           More(X) == X \cup UNION {below[d] : d \in X}
<1>1. 0 \in S
  <2> DEFINE f == [m \in 0..0 |-> {root} \ {NONE}]
  <2>1. f = [m \in 0..0 |-> IF m = 0 THEN {root} \ {NONE} ELSE More(f[m - 1])]
    OBVIOUS
  <2>2. Widens(f, 0, root, below)
    BY <2>1 DEF Widens
  <2> HIDE DEF f
  <2>3. \E g : Widens(g, 0, root, below)
    BY <2>2
  <2>4. 0 \in 0..N
    OBVIOUS
  <2> QED BY <2>3, <2>4
<1>2. ASSUME NEW n \in 0..N, n \in S, n < N PROVE n + 1 \in S
  <2>1. PICK f : f = [m \in 0..n |-> IF m = 0 THEN {root} \ {NONE} ELSE More(f[m - 1])]
    BY <1>2 DEF Widens
  <2> HIDE DEF More
  <2> DEFINE g == [m \in 0..(n + 1) |-> IF m = n + 1 THEN More(f[n]) ELSE f[m]]
  <2>2. g = [m \in 0..(n + 1) |-> IF m = 0 THEN {root} \ {NONE} ELSE More(g[m - 1])]
    <3> SUFFICES ASSUME NEW m \in 0..(n + 1)
                 PROVE  g[m] = IF m = 0 THEN {root} \ {NONE} ELSE More(g[m - 1])
      OBVIOUS
    <3>1. CASE m = n + 1
      BY <3>1
    <3>2. CASE m = 0
      BY <2>1, <3>2
    <3>3. CASE m \in 1..n
      <4>1. g[m] = f[m] /\ m - 1 \in 0..n /\ g[m - 1] = f[m - 1] /\ m \in 0..n /\ m # 0
        BY <3>3
      <4>2. f[m] = More(f[m - 1])
        BY <2>1, <4>1
      <4> QED BY <4>1, <4>2
    <3> QED BY <3>1, <3>2, <3>3
  <2>3. Widens(g, n + 1, root, below)
    BY <2>2 DEF Widens, More
  <2> QED BY <1>2, <2>3
<1>3. N \in S
  <2> HIDE DEF S
  <2> QED BY <1>1, <1>2, UpTo
<1> QED BY <1>3

\* root_stack, where it can tell, holds the device of / and all that its devices stand on.
LEMMA StackCarries ==
  ASSUME NEW root, NEW below, RootStack(root, below) # NONE
  PROVE  Carries(RootStack(root, below), root, below)
<1> DEFINE N == MaxDmDepth
           stack == CHOOSE f : f = [n \in 0..N + 1 |->
                      IF n = 0 THEN {root} \ {NONE} ELSE f[n - 1] \cup UNION {below[d] : d \in f[n - 1]}]
<1>1. N \in Nat /\ N + 1 \in Nat
  BY BoardAssumption
<1>2. stack = [n \in 0..N + 1 |->
                 IF n = 0 THEN {root} \ {NONE} ELSE stack[n - 1] \cup UNION {below[d] : d \in stack[n - 1]}]
  <2>1. PICK f : Widens(f, N + 1, root, below)
    BY <1>1, WideningExists
  <2>2. \E g : g = [n \in 0..N + 1 |->
                      IF n = 0 THEN {root} \ {NONE} ELSE g[n - 1] \cup UNION {below[d] : d \in g[n - 1]}]
    BY <2>1 DEF Widens
  <2> QED BY <2>2
<1>3. stack[N + 1] = stack[N] /\ RootStack(root, below) = stack[N]
  BY DEF RootStack
<1> HIDE DEF stack, N
<1>4. stack[N + 1] = stack[N] \cup UNION {below[d] : d \in stack[N]}
  <2>1. N + 1 \in 0..N + 1 /\ N + 1 # 0 /\ (N + 1) - 1 = N
    BY <1>1
  <2> QED BY <1>2, <2>1
<1>5. \A d \in stack[N] : below[d] \subseteq stack[N]
  BY <1>3, <1>4
<1>6. {root} \ {NONE} \subseteq stack[N]
  <2> DEFINE S == {n \in 0..N : {root} \ {NONE} \subseteq stack[n]}
  <2>1. 0 \in S
    BY <1>1, <1>2
  <2>2. ASSUME NEW n \in 0..N, n \in S, n < N PROVE n + 1 \in S
    <3>1. n + 1 \in 0..N + 1 /\ n + 1 \in 0..N /\ n + 1 # 0 /\ (n + 1) - 1 = n
      BY <1>1, <2>2
    <3>2. stack[n + 1] = stack[n] \cup UNION {below[d] : d \in stack[n]}
      BY <1>2, <3>1
    <3> QED BY <2>2, <3>1, <3>2
  <2> HIDE DEF S
  <2>3. 0..N \subseteq S
    BY <1>1, <2>1, <2>2, UpTo
  <2>4. N \in S
    BY <1>1, <2>3
  <2> QED BY <2>4 DEF S
<1> QED BY <1>3, <1>5, <1>6 DEF Carries

\* A step of a descent.
LEMMA DescentStep ==
  ASSUME NEW parts, NEW root, NEW below, NEW N \in Nat, NEW f, Descends(f, N, parts, root, below)
  PROVE  /\ f[0] = root
         /\ \A n \in 0..N : n < N => n + 1 \in 0..N /\ f[n + 1] = Under(f[n], parts, below)
<1>1. f = [m \in 0..N |-> IF m = 0 THEN root ELSE Under(f[m - 1], parts, below)]
  BY DEF Descends
<1>2. 0 \in 0..N
  OBVIOUS
<1>3. ASSUME NEW n \in 0..N, n < N PROVE n + 1 \in 0..N /\ f[n + 1] = Under(f[n], parts, below)
  <2>1. n + 1 \in 0..N /\ n + 1 # 0 /\ (n + 1) - 1 = n
    BY <1>3
  <2> QED BY <1>1, <2>1
<1> QED BY <1>1, <1>2, <1>3

\* There is one descent.
LEMMA DescentUnique ==
  ASSUME NEW parts, NEW root, NEW below, NEW N \in Nat,
         NEW f, Descends(f, N, parts, root, below), NEW g, Descends(g, N, parts, root, below)
  PROVE  f = g
<1> DEFINE S == {n \in 0..N : f[n] = g[n]}
<1>1. 0 \in S
  BY DescentStep
<1>2. ASSUME NEW n \in 0..N, n \in S, n < N PROVE n + 1 \in S
  <2>1. n + 1 \in 0..N /\ f[n + 1] = Under(f[n], parts, below) /\ g[n + 1] = Under(g[n], parts, below)
    BY <1>2, DescentStep
  <2> QED BY <1>2, <2>1
<1> HIDE DEF S
<1>3. 0..N \subseteq S
  BY <1>1, <1>2, UpTo
<1>4. \A n \in 0..N : f[n] = g[n]
  BY <1>3 DEF S
<1>5. f = [n \in 0..N |-> f[n]] /\ g = [n \in 0..N |-> g[n]]
  BY DEF Descends
<1> QED BY <1>4, <1>5

\* It stays where it can go no further.
LEMMA DescentRests ==
  ASSUME NEW parts, NEW root, NEW below, NEW N \in Nat, NEW f, Descends(f, N, parts, root, below),
         NEW n \in 0..N, Under(f[n], parts, below) = f[n]
  PROVE  \A m \in 0..N : n <= m => f[m] = f[n]
<1> DEFINE S == {m \in 0..N : n <= m => f[m] = f[n]}
<1>1. 0 \in S
  OBVIOUS
<1>2. ASSUME NEW m \in 0..N, m \in S, m < N PROVE m + 1 \in S
  <2>1. m + 1 \in 0..N /\ f[m + 1] = Under(f[m], parts, below)
    BY <1>2, DescentStep
  <2>2. CASE n <= m
    BY <1>2, <2>1, <2>2
  <2>3. CASE ~(n <= m)
    <3>1. n <= m + 1 => m + 1 = n
      BY <2>3
    <3> QED BY <2>1, <3>1
  <2> QED BY <2>2, <2>3
<1> HIDE DEF S
<1>3. 0..N \subseteq S
  BY <1>1, <1>2, UpTo
<1> QED BY <1>3 DEF S

\* It never leaves what / is built from.
LEMMA DescentRuns ==
  ASSUME NEW parts, NEW root, NEW below, NEW N \in Nat, NEW f, Descends(f, N, parts, root, below),
         NEW runs, Carries(runs, root, below)
  PROVE  \A n \in 0..N : f[n] \in runs \cup {NONE}
<1> DEFINE S == {n \in 0..N : f[n] \in runs \cup {NONE}}
<1>1. 0 \in S
  <2>1. f[0] = root
    BY DescentStep
  <2>2. root \in runs \cup {NONE}
    BY DEF Carries
  <2> QED BY <2>1, <2>2
<1>2. ASSUME NEW n \in 0..N, n \in S, n < N PROVE n + 1 \in S
  <2>1. n + 1 \in 0..N /\ f[n + 1] = Under(f[n], parts, below)
    BY <1>2, DescentStep
  <2>2. f[n] # NONE => below[f[n]] \subseteq runs
    BY <1>2 DEF Carries
  <2>3. f[n] # NONE => Only(below[f[n]]) \in below[f[n]] \cup {NONE}
    BY DEF Only
  <2>4. Under(f[n], parts, below) \in runs \cup {NONE}
    BY <1>2, <2>2, <2>3 DEF Under
  <2> QED BY <2>1, <2>4
<1> HIDE DEF S
<1>3. 0..N \subseteq S
  BY <1>1, <1>2, UpTo
<1> QED BY <1>3 DEF S

\* What / is built from is among the devices of its board, and no more than it takes.
LEMMA RunsLeast ==
  ASSUME NEW b \in Boards, NEW S, Carries(S, b.root, b.below) PROVE b.runs \subseteq S
<1> DEFINE D == DOMAIN b.below
<1>1. b.below \in [D -> SUBSET D] /\ b.root \in D \cup {NONE}
  BY BoardAssumption
<1>2. \A d \in D : b.below[d] \subseteq D
  BY <1>1
<1>3. Carries(S \cap D, b.root, b.below)
  BY <1>1, <1>2 DEF Carries
<1>4. S \cap D \in SUBSET D
  OBVIOUS
<1> HIDE DEF D
<1>5. \A T \in SUBSET D : Carries(T, b.root, b.below) => b.runs \subseteq T
  BY BoardAssumption DEF D
<1> QED BY <1>3, <1>4, <1>5

-----------------------------------------------------------------------------
(* Where a label leads, whatever is attached *)

\* The attached partitions: those of the board, and others that / does not run from.
Attached(parts, b) ==
  b.parts \subseteq parts /\
  \A p \in parts \ b.parts : p.dev \notin b.runs \cup {NONE} /\ \A q \in b.parts : p.disk # q.disk

LEMMA SeenAttached == ASSUME World PROVE board \in Boards /\ Attached(Seen, board)
<1>1. board \in Boards /\ near \subseteq Visitors
  BY DEF World
<1>2. \A p \in UNION Visitors : p.dev \notin board.runs \cup {NONE} /\ \A q \in board.parts : p.disk # q.disk
  BY <1>1, BoardAssumption
<1> QED BY <1>1, <1>2 DEF Attached, Seen

\* The only member of a set.
LEMMA OnlyOne == ASSUME NEW S, Only(S) # NONE PROVE S = {Only(S)}
<1>1. PICK x \in S : S = {x}
  BY DEF Only
<1>2. Only(S) \in S
  BY <1>1 DEF Only
<1> QED BY <1>1, <1>2


\* A partition that / stands on alone is the only one that it runs from.
LEMMA BootedOnBoard ==
  ASSUME NEW b \in Boards, NEW parts, Attached(parts, b),
         BootedPartition(parts, b.root, b.below) # NONE
  PROVE  /\ BootedPartition(parts, b.root, b.below) \in b.parts
         /\ b.runs \cap Devs(b.parts) \subseteq {BootedPartition(parts, b.root, b.below).dev}
<1> DEFINE booted == BootedPartition(parts, b.root, b.below)
           N == MaxDmDepth
<1>1. N \in Nat /\ N - 1 \in 0..N
  BY BoardAssumption
<1>2. PICK f : Descends(f, N, parts, b.root, b.below) /\ booted = Only({p \in parts : p.dev = f[N - 1]})
  BY BootedByDescent
<1>3. Carries(b.runs, b.root, b.below) /\ \A d \in Devs(b.parts) : d # NONE /\ (d \in b.runs => b.below[d] = {})
  BY BoardAssumption
<1>4. \A n \in 0..N : f[n] \in b.runs \cup {NONE}
  BY <1>1, <1>2, <1>3, DescentRuns
<1>5. booted \in parts /\ booted.dev = f[N - 1]
  <2>1. {p \in parts : p.dev = f[N - 1]} = {booted}
    BY <1>2, OnlyOne
  <2> HIDE DEF booted
  <2> QED BY <2>1
<1>6. booted \in b.parts
  BY <1>1, <1>4, <1>5 DEF Attached
<1> HIDE DEF booted
<1>7. \A d \in Devs(parts) : d \in b.runs => d \in Devs(b.parts)
  BY DEF Attached, Devs
<1>8. NONE \notin Devs(parts)
  BY <1>3 DEF Attached, Devs
<1>9. f[N - 1] # NONE /\ f[N - 1] \in Devs(parts)
  BY <1>3, <1>5, <1>6 DEF Devs
<1>10. \A n \in 0..N : n <= N - 1 /\ Under(f[n], parts, b.below) = f[n] => f[N - 1] = f[n]
  <2> HIDE DEF N
  <2> QED BY <1>1, <1>2, DescentRests
<1>11. \A n \in 0..N : n <= N - 1 => f[n] # NONE
  <2>1. Under(NONE, parts, b.below) = NONE
    BY <1>8 DEF Under
  <2> HIDE DEF N
  <2> QED BY <1>9, <1>10, <2>1
<1>12. \A n \in 0..N : n <= N - 1 /\ f[n] \in Devs(parts) => f[n] = f[N - 1]
  <2>1. \A d \in Devs(parts) : Under(d, parts, b.below) = d
    BY DEF Under
  <2> HIDE DEF N
  <2> QED BY <1>10, <2>1
<1> DEFINE R == {f[n] : n \in {m \in 0..N : m <= N - 1}}
<1>13. Carries(R, b.root, b.below)
  <2>1. 0 \in 0..N /\ 0 <= N - 1 /\ f[0] = b.root
    <3>1. 0 \in 0..N /\ 0 <= N - 1
      BY BoardAssumption
    <3>2. Descends(f, N, parts, b.root, b.below)
      BY <1>2
    <3> HIDE DEF N
    <3>3. f[0] = b.root
      BY <3>1, <3>2 DEF Descends
    <3> QED BY <3>1, <3>3
  <2>2. ASSUME NEW n \in 0..N, n <= N - 1 PROVE b.below[f[n]] \subseteq R
    <3>1. f[n] \in b.runs
      BY <1>4, <1>11, <2>2
    <3>2. CASE f[n] \in Devs(parts)
      BY <1>3, <1>7, <3>1, <3>2
    <3>3. CASE f[n] \notin Devs(parts)
      <4>1. n # N - 1
        BY <1>9, <3>3
      <4>2. n + 1 \in 0..N /\ n + 1 <= N - 1 /\ n < N
        <5> HIDE DEF N
        <5> QED BY <1>1, <2>2, <4>1
      <4>3. f[n + 1] = Under(f[n], parts, b.below)
        <5> HIDE DEF N
        <5> QED BY <1>1, <1>2, <4>2, DescentStep
      <4>4. f[n + 1] = Only(b.below[f[n]]) /\ f[n + 1] # NONE
        BY <1>11, <2>2, <3>3, <4>2, <4>3 DEF Under
      <4>5. b.below[f[n]] = {f[n + 1]}
        BY <4>4, OnlyOne
      <4> QED BY <4>2, <4>5
    <3> QED BY <3>2, <3>3
  <2> QED BY <2>1, <2>2 DEF Carries
<1>14. b.runs \subseteq R
  BY <1>13, RunsLeast
<1>15. Devs(b.parts) \subseteq Devs(parts)
  BY DEF Attached, Devs
<1> QED BY <1>5, <1>6, <1>12, <1>14, <1>15 DEF booted

\* No other disk that is attached takes the booted partition from /.
LEMMA AnchorHolds ==
  ASSUME NEW b \in Boards, b.anchored, NEW parts, Attached(parts, b)
  PROVE  BootedPartition(parts, b.root, b.below) # NONE
<1> DEFINE N == MaxDmDepth
<1>1. N \in Nat /\ N - 1 \in 0..N
  BY BoardAssumption
<1>2. PICK f : /\ Descends(f, N, b.parts, b.root, b.below)
               /\ BootedPartition(b.parts, b.root, b.below) = Only({p \in b.parts : p.dev = f[N - 1]})
  BY BootedByDescent
<1>3. PICK g : /\ Descends(g, N, parts, b.root, b.below)
               /\ BootedPartition(parts, b.root, b.below) = Only({p \in parts : p.dev = g[N - 1]})
  BY BootedByDescent
<1>4. Carries(b.runs, b.root, b.below)
  BY BoardAssumption
<1>5. \A n \in 0..N : f[n] \in b.runs \cup {NONE}
  BY <1>1, <1>2, <1>4, DescentRuns
<1>6. \A d \in b.runs \cup {NONE} : {p \in parts : p.dev = d} = {p \in b.parts : p.dev = d}
  BY DEF Attached
<1>7. \A d \in b.runs \cup {NONE} : Under(d, parts, b.below) = Under(d, b.parts, b.below)
  BY <1>6 DEF Under, Devs
<1>8. \A m \in 0..N : m # 0 => m - 1 \in 0..N
  BY <1>1
<1>9. Descends(f, N, parts, b.root, b.below)
  <2> HIDE DEF N
  <2>1. f = [m \in 0..N |-> IF m = 0 THEN b.root ELSE Under(f[m - 1], b.parts, b.below)]
    BY <1>2 DEF Descends
  <2>2. \A m \in 0..N : m # 0 => Under(f[m - 1], parts, b.below) = Under(f[m - 1], b.parts, b.below)
    BY <1>5, <1>7, <1>8
  <2>3. f = [m \in 0..N |-> IF m = 0 THEN b.root ELSE Under(f[m - 1], parts, b.below)]
    BY <2>1, <2>2
  <2> QED BY <2>3 DEF Descends
<1>10. f = g
  <2> HIDE DEF N
  <2> QED BY <1>1, <1>3, <1>9, DescentUnique
<1>11. BootedPartition(b.parts, b.root, b.below) # NONE
  BY BoardAssumption
<1>12. {p \in parts : p.dev = g[N - 1]} = {p \in b.parts : p.dev = f[N - 1]}
  BY <1>1, <1>5, <1>6, <1>10
<1> QED BY <1>2, <1>3, <1>11, <1>12

\* A device that / is not built from, on the board's own disk where / tells it.
Safe(d) == d \notin board.runs /\ (board.anchored => d \in Devs(board.parts))

\* A lookup leads to such a device alone (resolve_label).
LEMMA ResolveSafe ==
  ASSUME World, NEW label, Resolve(label) # NONE
  PROVE  Safe(Resolve(label))
<1> DEFINE b == board
           booted == BootedPartition(Seen, b.root, b.below)
           lone   == Only({p \in Seen : p.label = label})
           found  == IF booted # NONE THEN Only(Named(Seen, booted.disk, label)) ELSE lone
           stack  == RootStack(b.root, b.below)
           taken  == IF booted # NONE THEN {booted.dev} ELSE stack
<1>1. b \in Boards /\ Attached(Seen, b)
  BY SeenAttached
<1>2. found # NONE /\ taken # NONE /\ found.dev \notin taken /\ Resolve(label) = found.dev
  <2>1. Resolve(label) = IF found = NONE \/ taken = NONE THEN NONE
                         ELSE IF found.dev \in taken THEN NONE ELSE found.dev
    BY DEF Resolve, ResolveLabel
  <2> HIDE DEF found, taken
  <2> QED BY <2>1
<1>3. CASE booted # NONE
  <2>1. booted \in b.parts /\ b.runs \cap Devs(b.parts) \subseteq {booted.dev}
    BY <1>1, <1>3, BootedOnBoard
  <2>2. found \in Named(Seen, booted.disk, label) /\ found.dev # booted.dev
    <3>1. found = Only(Named(Seen, booted.disk, label)) /\ taken = {booted.dev}
      BY <1>3
    <3> HIDE DEF found, taken, booted
    <3> QED BY <1>2, <3>1, OnlyOne
  <2> HIDE DEF found, taken, booted
  <2>3. found \in b.parts
    BY <1>1, <2>1, <2>2 DEF Named, Attached
  <2> QED BY <1>2, <2>1, <2>2, <2>3 DEF Safe, Devs
<1>4. CASE booted = NONE
  <2>1. ~b.anchored
    BY <1>1, <1>4, AnchorHolds
  <2>2. taken = stack
    BY <1>4
  <2>3. Carries(stack, b.root, b.below)
    BY <1>2, <2>2, StackCarries
  <2>4. b.runs \subseteq stack
    BY <1>1, <2>3, RunsLeast
  <2> QED BY <1>2, <2>1, <2>2, <2>4 DEF Safe
<1> QED BY <1>3, <1>4


-----------------------------------------------------------------------------
(* Where the updaters are headed *)

\* The targets that were located for an update.
Located(r) ==
  \A n \in 1..Len(r.update) :
    /\ r.targets[n].kind = "partition" => Safe(r.targets[n].at)
    /\ r.targets[n].kind = "offset" => \A p \in board.parts : p.label = NONE

\* They are safe to write from the lookup on, and so is the device in hand.
Sure(r) ==
  /\ r.pc \notin {"idle", "refused", "locate"} => Located(r)
  /\ r.pc \in {"lock"} \cup FileSteps \cup EntrySteps => Safe(r.dev)

SafeInv == RightDisk /\ \A t \in Updaters : Sure(w[t])

LEMMA SureStep ==
  ASSUME IInv, SafeInv, NEW t \in Updaters, NEW r, w' = [w EXCEPT ![t] = r], Sure(r),
         UNCHANGED board, RightDisk'
  PROVE  SafeInv'
<1>1. w'[t] = r /\ \A u \in Updaters \ {t} : w'[u] = w[u]
  BY DEF IInv
<1>2. ASSUME NEW u \in Updaters, Sure(w'[u]) PROVE Sure(w[u])'
  BY <1>2 DEF Sure, Located, Safe
<1>3. \A u \in Updaters : Sure(w'[u])
  BY <1>1 DEF SafeInv
<1> QED BY <1>2, <1>3 DEF SafeInv

\* Nothing was written.
LEMMA SameWrites == ASSUME SafeInv, UNCHANGED <<board, wrote>> PROVE RightDisk'
  BY DEF SafeInv, RightDisk

\* A write to what is safe.
LEMMA SafeWrite ==
  ASSUME NEW kind, NEW dev, wrote' = <<kind, dev>>, UNCHANGED board,
         kind \in {"partition", "file", "entry"} => Safe(dev),
         kind = "offset" => \A p \in board.parts : p.label = NONE
  PROVE  RightDisk'
<1>1. wrote'[1] = kind /\ wrote'[2] = dev
  OBVIOUS
<1> QED BY <1>1 DEF RightDisk, Safe

\* An updater that is about to look its targets up, or is at rest, has none.
LEMMA RestSure ==
  ASSUME NEW r, r.pc \in {"idle", "refused", "locate"} PROVE Sure(r)
  BY DEF Sure, FileSteps, EntrySteps

\* It keeps its targets, and its device until it has another.
LEMMA SureKept ==
  ASSUME NEW q, Sure(q), q.pc \notin {"idle", "refused", "locate"}, NEW r,
         r.update = q.update, r.targets = q.targets,
         r.pc \in {"lock"} \cup FileSteps \cup EntrySteps => Safe(r.dev)
  PROVE  Sure(r)
  BY DEF Sure, Located

LEMMA AfterSure ==
  ASSUME IInv, SafeInv, NEW t \in Updaters, w[t].pc \notin {"idle", "refused", "locate"},
         NEW ok \in BOOLEAN, NEW dirty
  PROVE  Sure(After([w[t] EXCEPT !.dirty = dirty], ok))
<1> DEFINE q == [w[t] EXCEPT !.dirty = dirty]
           r == After(q, ok)
<1>1. CASE ~ok
  <2>1. r = Idle
    BY <1>1 DEF After
  <2>2. r.pc = "idle"
    BY <2>1, IdleTyped
  <2> HIDE DEF r
  <2>3. Sure(r)
    BY <2>2, RestSure
  <2> QED BY <2>3 DEF r
<1>2. CASE ok
  <2>1. Shaped(w[t]) /\ Sure(w[t])
    BY DEF IInv, Typed, SafeInv
  <2>2. q = [pc |-> w[t].pc, update |-> w[t].update, targets |-> w[t].targets, k |-> w[t].k,
             dev |-> w[t].dev, mine |-> w[t].mine, ok |-> w[t].ok, dirty |-> dirty,
             moved |-> w[t].moved]
    BY <2>1 DEF Shaped
  <2>3. \/ r = [q EXCEPT !.pc = "write", !.k = @ + 1, !.dev = NONE, !.mine = FALSE]
        \/ r = [q EXCEPT !.pc = "patch", !.dev = NONE, !.mine = FALSE]
    BY <1>2 DEF After
  <2> HIDE DEF q, r
  <2>4. r.pc \in {"write", "patch"} /\ r.update = w[t].update /\ r.targets = w[t].targets
    BY <2>2, <2>3
  <2>5. r.pc \notin {"lock"} \cup FileSteps \cup EntrySteps
    BY <2>4 DEF FileSteps, EntrySteps
  <2>6. Sure(r)
    BY <2>1, <2>4, <2>5, SureKept
  <2> QED BY <2>6 DEF q, r
<1> QED BY <1>1, <1>2

\* An artifact is done with, or has failed.
LEMMA PassedSafe ==
  ASSUME IInv, SafeInv, NEW t \in Updaters, w[t].pc \notin {"idle", "refused", "locate"},
         NEW ok \in BOOLEAN, NEW dirty,
         w' = [w EXCEPT ![t] = After([w[t] EXCEPT !.dirty = dirty], ok)],
         UNCHANGED board, RightDisk'
  PROVE  SafeInv'
<1> DEFINE r == After([w[t] EXCEPT !.dirty = dirty], ok)
<1>1. Sure(r) /\ w' = [w EXCEPT ![t] = r]
  BY AfterSure
<1> HIDE DEF r
<1> QED BY <1>1, SureStep

\* Without a word of having written.
LEMMA SimplyPassed ==
  ASSUME IInv, SafeInv, NEW t \in Updaters, w[t].pc \notin {"idle", "refused", "locate"},
         NEW ok \in BOOLEAN, Passed(t, ok), UNCHANGED <<world, wrote>>
  PROVE  SafeInv'
<1>1. w' = [w EXCEPT ![t] = After([w[t] EXCEPT !.dirty = w[t].dirty], ok)]
  BY SameDirty DEF Passed
<1>2. UNCHANGED board /\ RightDisk'
  BY SameWrites DEF world
<1> QED BY <1>1, <1>2, PassedSafe

\* An updater that has come to rest or has been refused, with nothing written.
LEMMA RestSafe ==
  ASSUME IInv, SafeInv, NEW t \in Updaters, NEW r, w' = [w EXCEPT ![t] = r],
         r.pc \in {"idle", "refused", "locate"}, UNCHANGED board, RightDisk'
  PROVE  SafeInv'
<1>1. Sure(r)
  BY RestSure
<1> QED BY <1>1, SureStep

\* An updater that goes on with its targets, and with its device or a safe one.
LEMMA OnSafe ==
  ASSUME IInv, SafeInv, NEW t \in Updaters, w[t].pc \notin {"idle", "refused", "locate"},
         NEW pc, NEW dev, NEW mine, NEW ok, NEW dirty, NEW r,
         r = [pc |-> pc, update |-> w[t].update, targets |-> w[t].targets, k |-> w[t].k,
              dev |-> dev, mine |-> mine, ok |-> ok, dirty |-> dirty, moved |-> w[t].moved],
         w' = [w EXCEPT ![t] = r],
         pc \in {"lock"} \cup FileSteps \cup EntrySteps =>
           Safe(dev) \/ (w[t].pc \in {"lock"} \cup FileSteps \cup EntrySteps /\ dev = w[t].dev),
         UNCHANGED board, RightDisk'
  PROVE  SafeInv'
<1>1. r.pc = pc /\ r.dev = dev /\ r.update = w[t].update /\ r.targets = w[t].targets
  OBVIOUS
<1>2. Sure(w[t])
  BY DEF SafeInv
<1>3. r.pc \in {"lock"} \cup FileSteps \cup EntrySteps => Safe(r.dev)
  BY <1>1, <1>2 DEF Sure
<1>4. Sure(r)
  BY <1>1, <1>2, <1>3, SureKept
<1> QED BY <1>4, SureStep


\* A begun update has looked nothing up.
LEMMA BeginSafe ==
  ASSUME IInv, SafeInv, NEW t \in Updaters, NEW u \in Updates, Begin(t, u) PROVE SafeInv'
<1> DEFINE r == [Idle EXCEPT !.pc = "locate", !.update = u]
<1>1. w' = [w EXCEPT ![t] = r] /\ UNCHANGED <<board, wrote>>
  BY DEF Begin, world
<1>2. r.pc = "locate"
  BY DEF Idle
<1> HIDE DEF r
<1>3. RightDisk'
  BY <1>1, SameWrites
<1> QED BY <1>1, <1>2, <1>3, RestSafe

LEMMA RefusedSafe ==
  ASSUME IInv, SafeInv, NEW t \in Updaters, w' = [w EXCEPT ![t] = Refused(w[t])],
         UNCHANGED <<board, wrote>>
  PROVE  SafeInv'
<1> DEFINE r == Refused(w[t])
<1>1. r.pc = "refused" /\ w' = [w EXCEPT ![t] = r]
  BY DEF Refused, Idle
<1> HIDE DEF r
<1>2. RightDisk'
  BY SameWrites
<1> QED BY <1>1, <1>2, RestSafe

LEMMA IdleSafe ==
  ASSUME IInv, SafeInv, NEW t \in Updaters, w' = [w EXCEPT ![t] = Idle], UNCHANGED board, RightDisk'
  PROVE  SafeInv'
<1> DEFINE r == Idle
<1>1. r.pc = "idle" /\ w' = [w EXCEPT ![t] = r]
  BY IdleTyped
<1> HIDE DEF r
<1> QED BY <1>1, RestSafe

\* A disk that has labels is given no offsets: the layout names one of them.
LEMMA OffsetsBare ==
  ASSUME World, NEW name, Offset(name) # NONE,
         \A n \in DOMAIN board.layout : Absent(board.layout[n].name)
  PROVE  \A p \in board.parts : p.label = NONE
<1>1. board.layout # <<>>
  <2>1. {n \in DOMAIN board.layout : board.layout[n].name = name} # {}
    BY DEF Offset
  <2> QED BY <2>1
<1>2. \A n \in DOMAIN board.layout, p \in board.parts : p.label # board.layout[n].name
  BY DEF Absent, Seen
<1>3. board \in Boards
  BY DEF World
<1> QED BY <1>1, <1>2, <1>3, BoardAssumption

\* What a label leads to is safe to write (locate_target_in).
LEMMA TargetSafe ==
  ASSUME World, NEW s, s.kind \in {"skip", "emmc", "file", "label"}, NEW var, Target(s, var) # NONE
  PROVE  /\ Target(s, var).kind = "partition" => Safe(Target(s, var).at)
         /\ Target(s, var).kind = "offset" => \A p \in board.parts : p.label = NONE
<1>1. CASE s.kind \in {"skip", "emmc", "file"}
  BY <1>1 DEF Target, At
<1>2. CASE s.kind = "label" /\ ~Absent(s.name)
  <2>1. Resolve(s.name) # NONE /\ Target(s, var) = At("partition", Resolve(s.name))
    BY <1>2 DEF Target
  <2>2. Safe(Resolve(s.name))
    BY <2>1, ResolveSafe
  <2> QED BY <2>1, <2>2 DEF At
<1>3. CASE s.kind = "label" /\ Absent(s.name)
  <2>1. /\ Target(s, var) = At("offset", Offset(s.name)) /\ Offset(s.name) # NONE
        /\ \A n \in DOMAIN board.layout : Absent(board.layout[n].name)
    BY <1>3 DEF Target
  <2>2. \A p \in board.parts : p.label = NONE
    BY <2>1, OffsetsBare
  <2> QED BY <2>1, <2>2 DEF At
<1> QED BY <1>1, <1>2, <1>3

LEMMA LocateSafe ==
  ASSUME IInv, SafeInv, NEW t \in Updaters, Locate(t) PROVE SafeInv'
<1>1. PICK var \in VarDisks :
        LET u == w[t].update
            targets == [n \in DOMAIN u |-> Target(u[n], var)]
        IN  w' = IF \/ \E n \in DOMAIN u : targets[n] = NONE
                    \/ \E l \in Patched(u) : Resolve(l) = NONE
                 THEN [w EXCEPT ![t] = Refused(@)]
                 ELSE [w EXCEPT ![t].pc = "write", ![t].k = 1, ![t].targets = targets]
  BY DEF Locate
<1> DEFINE u == w[t].update
           targets == [n \in DOMAIN u |-> Target(u[n], var)]
           r == [w[t] EXCEPT !.pc = "write", !.k = 1, !.targets = targets]
<1>2. w[t].pc = "locate" /\ UNCHANGED <<board, wrote>>
  BY DEF Locate, world
<1>3. u \in Updates /\ Shaped(w[t]) /\ World
  BY <1>2 DEF IInv, Aims, Typed
<1>4. CASE w' = [w EXCEPT ![t] = Refused(@)]
  <2>1. w' = [w EXCEPT ![t] = Refused(w[t])]
    BY <1>4 DEF IInv
  <2> QED BY <1>2, <2>1, RefusedSafe
<1>5. CASE /\ \A n \in DOMAIN u : targets[n] # NONE
           /\ w' = [w EXCEPT ![t].pc = "write", ![t].k = 1, ![t].targets = targets]
  <2>1. w' = [w EXCEPT ![t] = r]
    BY <1>5 DEF IInv
  <2>2. DOMAIN u = 1..Len(u) /\ \A n \in DOMAIN u : u[n].kind \in {"skip", "emmc", "file", "label"}
    BY <1>3, LabelsOf
  <2>3. \A n \in 1..Len(u) :
          /\ targets[n].kind = "partition" => Safe(targets[n].at)
          /\ targets[n].kind = "offset" => \A p \in board.parts : p.label = NONE
    <3> SUFFICES ASSUME NEW n \in 1..Len(u)
                 PROVE  /\ targets[n].kind = "partition" => Safe(targets[n].at)
                        /\ targets[n].kind = "offset" => \A p \in board.parts : p.label = NONE
      OBVIOUS
    <3>1. targets[n] = Target(u[n], var) /\ Target(u[n], var) # NONE
      BY <1>5, <2>2
    <3>2. u[n].kind \in {"skip", "emmc", "file", "label"}
      BY <2>2
    <3> HIDE DEF targets, u
    <3> QED BY <1>3, <3>1, <3>2, TargetSafe
  <2>4. r = [w[t] EXCEPT !.pc = "write", !.k = 1, !.targets = targets]
    OBVIOUS
  <2> HIDE DEF r, targets
  <2>5. r.pc = "write" /\ r.update = u /\ r.targets = targets
    BY <1>3, <2>4 DEF Shaped
  <2>6. Sure(r)
    BY <2>3, <2>5 DEF Sure, Located, FileSteps, EntrySteps
  <2>7. RightDisk'
    BY <1>2, SameWrites
  <2> QED BY <1>2, <2>1, <2>6, <2>7, SureStep
<1> QED BY <1>1, <1>4, <1>5

LEMMA SkipSafe == ASSUME IInv, SafeInv, NEW t \in Updaters, Skip(t) PROVE SafeInv'
<1>1. w[t].pc = "write" /\ Passed(t, TRUE) /\ UNCHANGED <<world, wrote>>
  BY DEF Skip, AtTarget
<1> QED BY <1>1, SimplyPassed

\* The target that an updater is at.
LEMMA CurrentSafe ==
  ASSUME IInv, SafeInv, NEW t \in Updaters, w[t].pc = "write"
  PROVE  /\ Current(t).kind = "partition" => Safe(Current(t).at)
         /\ Current(t).kind = "offset" => \A p \in board.parts : p.label = NONE
<1>1. w[t].k \in 1..Len(w[t].update)
  BY DEF IInv, Aims
<1> QED BY <1>1 DEF SafeInv, Sure, Located, Current

LEMMA WritePartitionSafe ==
  ASSUME IInv, SafeInv, NEW t \in Updaters, WritePartition(t) PROVE SafeInv'
<1> DEFINE dev == Current(t).at
<1>1. w[t].pc = "write" /\ Current(t).kind = "partition" /\ UNCHANGED world /\ UNCHANGED board
  BY DEF WritePartition, AtTarget, world
<1>2. Safe(dev)
  BY <1>1, CurrentSafe
<1>3. ASSUME NEW ok \in BOOLEAN, Wrote(t, "partition", dev, ok) PROVE SafeInv'
  <2>1. w' = [w EXCEPT ![t] = After([w[t] EXCEPT !.dirty = TRUE], ok)] /\ wrote' = <<"partition", dev>>
    BY <1>3 DEF Wrote
  <2>2. RightDisk'
    BY <1>1, <1>2, <2>1, SafeWrite
  <2> QED BY <1>1, <2>1, <2>2, PassedSafe
<1>4. CASE Passed(t, FALSE) /\ UNCHANGED wrote
  BY <1>1, <1>4, SimplyPassed
<1> QED BY <1>3, <1>4 DEF WritePartition

LEMMA WriteOffsetSafe ==
  ASSUME IInv, SafeInv, NEW t \in Updaters, WriteOffset(t) PROVE SafeInv'
<1>1. /\ w[t].pc = "write" /\ Current(t).kind = "offset" /\ UNCHANGED board
      /\ w' = [w EXCEPT ![t] = After([w[t] EXCEPT !.dirty = TRUE], TRUE)]
      /\ \E dev : wrote' = <<"offset", dev>>
  BY DEF WriteOffset, AtTarget, world, Wrote
<1>2. \A p \in board.parts : p.label = NONE
  BY <1>1, CurrentSafe
<1>3. RightDisk'
  BY <1>1, <1>2, SafeWrite
<1> QED BY <1>1, <1>3, PassedSafe


-----------------------------------------------------------------------------
(* The steps of an updater that keeps its targets *)

LEMMA LiftSafe == ASSUME IInv, SafeInv, NEW t \in Updaters, Lift(t) PROVE SafeInv'
<1> DEFINE q == w[t]
           at == Current(t).at
           r == [q EXCEPT !.pc = "lifted", !.dev = at]
<1>1. /\ w[t].pc = "write" /\ w' = [w EXCEPT ![t] = r] /\ UNCHANGED <<board, wrote>>
      /\ r = [q EXCEPT !.pc = "lifted", !.dev = at]
  BY DEF Lift, AtTarget, world
<1>2. Shaped(q)
  BY DEF IInv, Typed
<1> HIDE DEF r, q, at
<1>3. r = [pc |-> "lifted", update |-> q.update, targets |-> q.targets, k |-> q.k, dev |-> at,
           mine |-> q.mine, ok |-> q.ok, dirty |-> q.dirty, moved |-> q.moved]
  BY <1>1, <1>2 DEF Shaped
<1>4. RightDisk' /\ "lifted" \notin {"lock"} \cup FileSteps \cup EntrySteps
  BY <1>1, SameWrites DEF FileSteps, EntrySteps
<1> QED BY <1>1, <1>3, <1>4, OnSafe DEF q

LEMMA ProgramSafe == ASSUME IInv, SafeInv, NEW t \in Updaters, Program(t) PROVE SafeInv'
<1> DEFINE q == w[t]
<1>1. /\ w[t].pc = "lifted" /\ UNCHANGED board
      /\ (\E dev : wrote' = <<"emmc", dev>>) \/ UNCHANGED wrote
      /\ \E ok, dirty : w' = [w EXCEPT ![t] = [q EXCEPT !.pc = "restore", !.ok = ok, !.dirty = dirty]]
  <2>1. w[t].pc = "lifted" /\ UNCHANGED board /\ ((\E dev : wrote' = <<"emmc", dev>>) \/ UNCHANGED wrote)
    BY DEF Program, world
  <2>2. \/ w' = [w EXCEPT ![t] = [w[t] EXCEPT !.pc = "restore", !.ok = (w[t].dev \in open),
                                             !.dirty = (w[t].dirty \/ (w[t].dev \in open))]]
        \/ w' = [w EXCEPT ![t] = [w[t] EXCEPT !.pc = "restore", !.ok = FALSE, !.dirty = TRUE]]
    BY DEF Program, IInv
  <2> QED BY <2>1, <2>2
<1>2. PICK ok, dirty : w' = [w EXCEPT ![t] = [q EXCEPT !.pc = "restore", !.ok = ok, !.dirty = dirty]]
  BY <1>1
<1> DEFINE r == [q EXCEPT !.pc = "restore", !.ok = ok, !.dirty = dirty]
<1>3. Shaped(q) /\ w' = [w EXCEPT ![t] = r] /\ r = [q EXCEPT !.pc = "restore", !.ok = ok, !.dirty = dirty]
  BY <1>2 DEF IInv, Typed
<1> HIDE DEF r, q
<1>4. r = [pc |-> "restore", update |-> q.update, targets |-> q.targets, k |-> q.k, dev |-> q.dev,
           mine |-> q.mine, ok |-> ok, dirty |-> dirty, moved |-> q.moved]
  BY <1>3 DEF Shaped
<1>5. RightDisk'
  BY <1>1, SameWrites, SafeWrite
<1>6. "restore" \notin {"lock"} \cup FileSteps \cup EntrySteps
  BY DEF FileSteps, EntrySteps
<1> QED BY <1>1, <1>3, <1>4, <1>5, <1>6, OnSafe DEF q

LEMMA RestoreSafe == ASSUME IInv, SafeInv, NEW t \in Updaters, Restore(t) PROVE SafeInv'
<1>1. w[t].pc = "restore" /\ Passed(t, w[t].ok) /\ UNCHANGED <<world, wrote>>
  BY DEF Restore
<1>2. w[t].ok \in BOOLEAN
  BY DEF IInv, Typed
<1> QED BY <1>1, <1>2, SimplyPassed

\* The label of a boot partition is looked up again before it is locked.
LEMMA FindFileSafe == ASSUME IInv, SafeInv, NEW t \in Updaters, FindFile(t) PROVE SafeInv'
<1> DEFINE q == w[t]
           dev == Resolve(Current(t).at)
           r == [q EXCEPT !.pc = "lock", !.dev = dev]
<1>1. /\ w[t].pc = "write" /\ UNCHANGED <<board, wrote>>
      /\ dev = NONE => w' = [w EXCEPT ![t] = Refused(w[t])]
      /\ dev # NONE => w' = [w EXCEPT ![t] = r]
      /\ r = [q EXCEPT !.pc = "lock", !.dev = dev]
  BY DEF FindFile, AtTarget, IInv, world
<1>2. World /\ Shaped(q)
  BY DEF IInv, Typed
<1>3. CASE dev = NONE
  BY <1>1, <1>3, RefusedSafe
<1>4. CASE dev # NONE
  <2>1. Safe(dev)
    BY <1>2, <1>4, ResolveSafe
  <2> HIDE DEF r, q, dev
  <2>2. r = [pc |-> "lock", update |-> q.update, targets |-> q.targets, k |-> q.k, dev |-> dev,
             mine |-> q.mine, ok |-> q.ok, dirty |-> q.dirty, moved |-> q.moved]
    BY <1>1, <1>2 DEF Shaped
  <2>3. RightDisk'
    BY <1>1, SameWrites
  <2>4. w[t].pc \notin {"idle", "refused", "locate"} /\ UNCHANGED board /\ w' = [w EXCEPT ![t] = r]
    BY <1>1, <1>4
  <2> QED BY <2>1, <2>2, <2>3, <2>4, OnSafe DEF q
<1> QED BY <1>3, <1>4

LEMMA TakeLockSafe == ASSUME IInv, SafeInv, NEW t \in Updaters, TakeLock(t) PROVE SafeInv'
<1> DEFINE q == w[t]
           r == [q EXCEPT !.pc = "mount"]
<1>1. /\ w[t].pc \in {"lock"} \cup FileSteps /\ w' = [w EXCEPT ![t] = r] /\ UNCHANGED <<board, wrote>>
      /\ r = [q EXCEPT !.pc = "mount"]
  BY DEF TakeLock, FileSteps, world
<1>2. Shaped(q)
  BY DEF IInv, Typed
<1> HIDE DEF r, q
<1>3. r = [pc |-> "mount", update |-> q.update, targets |-> q.targets, k |-> q.k, dev |-> q.dev,
           mine |-> q.mine, ok |-> q.ok, dirty |-> q.dirty, moved |-> q.moved]
  BY <1>1, <1>2 DEF Shaped
<1>4. RightDisk'
  BY <1>1, SameWrites
<1>5. w[t].pc \notin {"idle", "refused", "locate"}
  BY <1>1 DEF FileSteps
<1> QED BY <1>1, <1>3, <1>4, <1>5, OnSafe DEF q

LEMMA FindMountSafe == ASSUME IInv, SafeInv, NEW t \in Updaters, FindMount(t) PROVE SafeInv'
<1> DEFINE q == w[t]
           pc == IF Mounted(w[t].dev) THEN "create" ELSE "attach"
           r == [q EXCEPT !.pc = pc, !.mine = FALSE]
<1>1. /\ w[t].pc \in {"lock"} \cup FileSteps /\ w' = [w EXCEPT ![t] = r] /\ UNCHANGED <<board, wrote>>
      /\ r = [q EXCEPT !.pc = pc, !.mine = FALSE]
  BY DEF FindMount, FileSteps, world
<1>2. Shaped(q)
  BY DEF IInv, Typed
<1> HIDE DEF r, q, pc
<1>3. r = [pc |-> pc, update |-> q.update, targets |-> q.targets, k |-> q.k, dev |-> q.dev,
           mine |-> FALSE, ok |-> q.ok, dirty |-> q.dirty, moved |-> q.moved]
  BY <1>1, <1>2 DEF Shaped
<1>4. RightDisk'
  BY <1>1, SameWrites
<1>5. w[t].pc \notin {"idle", "refused", "locate"}
  BY <1>1 DEF FileSteps
<1> QED BY <1>1, <1>3, <1>4, <1>5, OnSafe DEF q

LEMMA MountFsSafe == ASSUME IInv, SafeInv, NEW t \in Updaters, MountFs(t) PROVE SafeInv'
<1> DEFINE q == w[t]
           r == [q EXCEPT !.pc = "create", !.mine = TRUE]
<1>1. /\ w[t].pc \in {"lock"} \cup FileSteps /\ w' = [w EXCEPT ![t] = r] /\ UNCHANGED <<board, wrote>>
      /\ r = [q EXCEPT !.pc = "create", !.mine = TRUE]
  BY DEF MountFs, FileSteps, world
<1>2. Shaped(q)
  BY DEF IInv, Typed
<1> HIDE DEF r, q
<1>3. r = [pc |-> "create", update |-> q.update, targets |-> q.targets, k |-> q.k, dev |-> q.dev,
           mine |-> TRUE, ok |-> q.ok, dirty |-> q.dirty, moved |-> q.moved]
  BY <1>1, <1>2 DEF Shaped
<1>4. RightDisk'
  BY <1>1, SameWrites
<1>5. w[t].pc \notin {"idle", "refused", "locate"}
  BY <1>1 DEF FileSteps
<1> QED BY <1>1, <1>3, <1>4, <1>5, OnSafe DEF q

LEMMA CreateSafe == ASSUME IInv, SafeInv, NEW t \in Updaters, Create(t) PROVE SafeInv'
<1> DEFINE q == w[t]
           r == [q EXCEPT !.pc = "fill", !.dirty = TRUE]
<1>1. /\ w[t].pc \in {"lock"} \cup FileSteps /\ w' = [w EXCEPT ![t] = r] /\ UNCHANGED <<board, wrote>>
      /\ r = [q EXCEPT !.pc = "fill", !.dirty = TRUE]
  BY DEF Create, FileSteps, world
<1>2. Shaped(q)
  BY DEF IInv, Typed
<1> HIDE DEF r, q
<1>3. r = [pc |-> "fill", update |-> q.update, targets |-> q.targets, k |-> q.k, dev |-> q.dev,
           mine |-> q.mine, ok |-> q.ok, dirty |-> TRUE, moved |-> q.moved]
  BY <1>1, <1>2 DEF Shaped
<1>4. RightDisk'
  BY <1>1, SameWrites
<1>5. w[t].pc \notin {"idle", "refused", "locate"}
  BY <1>1 DEF FileSteps
<1> QED BY <1>1, <1>3, <1>4, <1>5, OnSafe DEF q

LEMMA FillSafe == ASSUME IInv, SafeInv, NEW t \in Updaters, Fill(t) PROVE SafeInv'
<1> DEFINE q == w[t]
           r == [q EXCEPT !.pc = "rename"]
<1>1. /\ w[t].pc \in {"lock"} \cup FileSteps /\ w' = [w EXCEPT ![t] = r] /\ UNCHANGED <<board, wrote>>
      /\ r = [q EXCEPT !.pc = "rename"]
  BY DEF Fill, FileSteps, world
<1>2. Shaped(q)
  BY DEF IInv, Typed
<1> HIDE DEF r, q
<1>3. r = [pc |-> "rename", update |-> q.update, targets |-> q.targets, k |-> q.k, dev |-> q.dev,
           mine |-> q.mine, ok |-> q.ok, dirty |-> q.dirty, moved |-> q.moved]
  BY <1>1, <1>2 DEF Shaped
<1>4. RightDisk'
  BY <1>1, SameWrites
<1>5. w[t].pc \notin {"idle", "refused", "locate"}
  BY <1>1 DEF FileSteps
<1> QED BY <1>1, <1>3, <1>4, <1>5, OnSafe DEF q

LEMMA FileFailsSafe == ASSUME IInv, SafeInv, NEW t \in Updaters, FileFails(t) PROVE SafeInv'
<1> DEFINE q == w[t]
           r == [q EXCEPT !.pc = "close", !.ok = FALSE]
<1>1. /\ w[t].pc \in {"lock"} \cup FileSteps /\ w' = [w EXCEPT ![t] = r] /\ UNCHANGED <<board, wrote>>
      /\ r = [q EXCEPT !.pc = "close", !.ok = FALSE]
  BY DEF FileFails, FileSteps, world
<1>2. Shaped(q)
  BY DEF IInv, Typed
<1> HIDE DEF r, q
<1>3. r = [pc |-> "close", update |-> q.update, targets |-> q.targets, k |-> q.k, dev |-> q.dev,
           mine |-> q.mine, ok |-> FALSE, dirty |-> q.dirty, moved |-> q.moved]
  BY <1>1, <1>2 DEF Shaped
<1>4. RightDisk'
  BY <1>1, SameWrites
<1>5. w[t].pc \notin {"idle", "refused", "locate"}
  BY <1>1 DEF FileSteps
<1> QED BY <1>1, <1>3, <1>4, <1>5, OnSafe DEF q

LEMMA RenameSafe == ASSUME IInv, SafeInv, NEW t \in Updaters, Rename(t) PROVE SafeInv'
<1> DEFINE q == w[t]
           r == [q EXCEPT !.pc = "close"]
<1>1. /\ w[t].pc = "rename" /\ w' = [w EXCEPT ![t] = r] /\ UNCHANGED board
      /\ wrote' = <<"file", w[t].dev>> /\ r = [q EXCEPT !.pc = "close"]
  BY DEF Rename, world
<1>2. Shaped(q) /\ Safe(w[t].dev)
  BY <1>1 DEF IInv, Typed, SafeInv, Sure, FileSteps
<1> HIDE DEF r, q
<1>3. r = [pc |-> "close", update |-> q.update, targets |-> q.targets, k |-> q.k, dev |-> q.dev,
           mine |-> q.mine, ok |-> q.ok, dirty |-> q.dirty, moved |-> q.moved]
  BY <1>1, <1>2 DEF Shaped
<1>4. RightDisk'
  BY <1>1, <1>2, SafeWrite
<1> QED BY <1>1, <1>2, <1>3, <1>4, OnSafe DEF q

LEMMA MountFailsSafe == ASSUME IInv, SafeInv, NEW t \in Updaters, MountFails(t) PROVE SafeInv'
<1>1. w[t].pc = "attach" /\ Passed(t, FALSE) /\ UNCHANGED <<world, wrote>>
  BY DEF MountFails
<1> QED BY <1>1, SimplyPassed

LEMMA CloseSafe == ASSUME IInv, SafeInv, NEW t \in Updaters, Close(t) PROVE SafeInv'
<1> DEFINE ok == w[t].ok /\ file[w[t].dev].dest = Whole(t)
<1>1. w[t].pc = "close" /\ (Passed(t, ok) \/ Passed(t, FALSE)) /\ UNCHANGED <<world, wrote>>
  BY DEF Close
<1>2. ok \in BOOLEAN
  BY DEF IInv, Typed
<1> HIDE DEF ok
<1> QED BY <1>1, <1>2, SimplyPassed

LEMMA PatchMountSafe == ASSUME IInv, SafeInv, NEW t \in Updaters, PatchMount(t) PROVE SafeInv'
<1> DEFINE q == w[t]
           dev == Resolve(CHOOSE l \in Patched(w[t].update) : TRUE)
           r == [q EXCEPT !.pc = "patching", !.dev = dev]
<1>1. /\ w[t].pc = "patch" /\ UNCHANGED <<board, wrote>>
      /\ \/ w' = [w EXCEPT ![t] = Idle]
         \/ w' = [w EXCEPT ![t] = Refused(w[t])]
         \/ dev # NONE /\ w' = [w EXCEPT ![t] = r]
      /\ r = [q EXCEPT !.pc = "patching", !.dev = dev]
  BY DEF PatchMount, IInv, world
<1>2. World /\ Shaped(q) /\ RightDisk'
  BY <1>1, SameWrites DEF IInv, Typed
<1>3. CASE w' = [w EXCEPT ![t] = Idle]
  BY <1>1, <1>2, <1>3, IdleSafe
<1>4. CASE w' = [w EXCEPT ![t] = Refused(w[t])]
  BY <1>1, <1>4, RefusedSafe
<1>5. CASE dev # NONE /\ w' = [w EXCEPT ![t] = r]
  <2>1. Safe(dev)
    BY <1>2, <1>5, ResolveSafe
  <2> HIDE DEF r, q, dev
  <2>2. r = [pc |-> "patching", update |-> q.update, targets |-> q.targets, k |-> q.k, dev |-> dev,
             mine |-> q.mine, ok |-> q.ok, dirty |-> q.dirty, moved |-> q.moved]
    BY <1>1, <1>2 DEF Shaped
  <2>3. w[t].pc \notin {"idle", "refused", "locate"} /\ UNCHANGED board /\ w' = [w EXCEPT ![t] = r]
    BY <1>1, <1>5
  <2> QED BY <1>2, <2>1, <2>2, <2>3, OnSafe DEF q
<1> QED BY <1>1, <1>3, <1>4, <1>5

LEMMA OpenEntrySafe == ASSUME IInv, SafeInv, NEW t \in Updaters, OpenEntry(t) PROVE SafeInv'
<1> DEFINE q == w[t]
<1>1. /\ w[t].pc = "patching" /\ w[t].pc \in EntrySteps /\ UNCHANGED board
      /\ wrote' = <<"entry", w[t].dev>> \/ wrote' = wrote
      /\ \E pc, ok, dirty : w' = [w EXCEPT ![t] = [q EXCEPT !.pc = pc, !.ok = ok, !.dirty = dirty]]
  <2>1. /\ w[t].pc = "patching" /\ UNCHANGED board /\ Shaped(q)
        /\ wrote' = <<"entry", w[t].dev>> \/ wrote' = wrote
    BY DEF OpenEntry, world, IInv, Typed
  <2>2. \/ w' = [w EXCEPT ![t] = [q EXCEPT !.pc = "rewriting", !.dirty = TRUE]]
        \/ w' = [w EXCEPT ![t] = [q EXCEPT !.pc = "unpatch", !.ok = FALSE]]
    BY DEF OpenEntry, IInv
  <2>3. \/ w' = [w EXCEPT ![t] = [q EXCEPT !.pc = "rewriting", !.ok = q.ok, !.dirty = TRUE]]
        \/ w' = [w EXCEPT ![t] = [q EXCEPT !.pc = "unpatch", !.ok = FALSE, !.dirty = q.dirty]]
    BY <2>1, <2>2, SameOk, SameDirtyNotOk
  <2> HIDE DEF q
  <2> QED BY <2>1, <2>3 DEF EntrySteps
<1>2. PICK pc, ok, dirty : w' = [w EXCEPT ![t] = [q EXCEPT !.pc = pc, !.ok = ok, !.dirty = dirty]]
  BY <1>1
<1> DEFINE r == [q EXCEPT !.pc = pc, !.ok = ok, !.dirty = dirty]
<1>3. /\ Shaped(q) /\ w' = [w EXCEPT ![t] = r] /\ r = [q EXCEPT !.pc = pc, !.ok = ok, !.dirty = dirty]
      /\ Safe(w[t].dev)
  BY <1>1, <1>2 DEF IInv, Typed, SafeInv, Sure
<1> HIDE DEF r, q
<1>4. r = [pc |-> pc, update |-> q.update, targets |-> q.targets, k |-> q.k, dev |-> q.dev,
           mine |-> q.mine, ok |-> ok, dirty |-> dirty, moved |-> q.moved]
  BY <1>3 DEF Shaped
<1>5. RightDisk'
  BY <1>1, <1>3, SameWrites, SafeWrite
<1> QED BY <1>1, <1>3, <1>4, <1>5, OnSafe DEF q

LEMMA WriteEntrySafe == ASSUME IInv, SafeInv, NEW t \in Updaters, WriteEntry(t) PROVE SafeInv'
<1> DEFINE q == w[t]
<1>1. /\ w[t].pc = "rewriting" /\ w[t].pc \in EntrySteps /\ UNCHANGED <<board, wrote>>
      /\ \E ok : w' = [w EXCEPT ![t] = [q EXCEPT !.pc = "unpatch", !.ok = ok, !.dirty = q.dirty]]
  <2>1. w[t].pc = "rewriting" /\ UNCHANGED <<board, wrote>> /\ Shaped(q)
    BY DEF WriteEntry, world, IInv, Typed
  <2>2. \/ w' = [w EXCEPT ![t] = [q EXCEPT !.pc = "unpatch"]]
        \/ w' = [w EXCEPT ![t] = [q EXCEPT !.pc = "unpatch", !.ok = FALSE]]
    BY DEF WriteEntry, IInv
  <2>3. \/ w' = [w EXCEPT ![t] = [q EXCEPT !.pc = "unpatch", !.ok = q.ok, !.dirty = q.dirty]]
        \/ w' = [w EXCEPT ![t] = [q EXCEPT !.pc = "unpatch", !.ok = FALSE, !.dirty = q.dirty]]
    BY <2>1, <2>2, SameOkDirty, SameDirtyNotOk
  <2> HIDE DEF q
  <2> QED BY <2>1, <2>3 DEF EntrySteps
<1>2. PICK ok : w' = [w EXCEPT ![t] = [q EXCEPT !.pc = "unpatch", !.ok = ok, !.dirty = q.dirty]]
  BY <1>1
<1> DEFINE r == [q EXCEPT !.pc = "unpatch", !.ok = ok, !.dirty = q.dirty]
<1>3. /\ Shaped(q) /\ w' = [w EXCEPT ![t] = r]
      /\ r = [q EXCEPT !.pc = "unpatch", !.ok = ok, !.dirty = q.dirty]
  BY <1>2 DEF IInv, Typed
<1> HIDE DEF r, q
<1>4. r = [pc |-> "unpatch", update |-> q.update, targets |-> q.targets, k |-> q.k, dev |-> q.dev,
           mine |-> q.mine, ok |-> ok, dirty |-> q.dirty, moved |-> q.moved]
  BY <1>3 DEF Shaped
<1>5. RightDisk'
  BY <1>1, SameWrites
<1> QED BY <1>1, <1>3, <1>4, <1>5, OnSafe DEF q

LEMMA PatchEndSafe == ASSUME IInv, SafeInv, NEW t \in Updaters, PatchEnd(t) PROVE SafeInv'
<1>1. w' = [w EXCEPT ![t] = Idle] /\ UNCHANGED <<board, wrote>>
  BY DEF PatchEnd, world
<1> QED BY <1>1, SameWrites, IdleSafe

-----------------------------------------------------------------------------
(* Around the updaters *)

\* A disk that comes or goes changes nothing that an updater has looked up.
LEMMA PlugSafe == ASSUME IInv, SafeInv, NEW v \in Visitors, Plug(v) PROVE SafeInv'
<1>1. UNCHANGED <<board, wrote>>
  BY DEF Plug
<1>2. RightDisk'
  BY <1>1, SameWrites
<1>3. ASSUME NEW t \in Updaters PROVE Sure(w[t])'
  <2> DEFINE q == w[t]
             moved == w[t].moved \/ w[t].pc \notin {"idle", "refused"}
             r == [q EXCEPT !.moved = moved]
  <2>1. w'[t] = r /\ r = [q EXCEPT !.moved = moved]
    BY DEF Plug, IInv
  <2>2. Shaped(q) /\ Sure(q)
    BY DEF IInv, Typed, SafeInv
  <2> HIDE DEF r, moved, q
  <2>3. r = [pc |-> q.pc, update |-> q.update, targets |-> q.targets, k |-> q.k, dev |-> q.dev,
             mine |-> q.mine, ok |-> q.ok, dirty |-> q.dirty, moved |-> moved]
    BY <2>1, <2>2 DEF Shaped
  <2>4. r.pc = q.pc /\ r.update = q.update /\ r.targets = q.targets /\ r.dev = q.dev
    BY <2>3
  <2>5. Sure(r)
    BY <2>2, <2>4 DEF Sure, Located
  <2> QED BY <1>1, <2>1, <2>5 DEF Sure, Located, Safe
<1> QED BY <1>2, <1>3 DEF SafeInv

LEMMA QuietSafe == ASSUME SafeInv, UNCHANGED <<board, w, wrote>> PROVE SafeInv'
  BY DEF SafeInv, RightDisk, Sure, Located, Safe

LEMMA KillSafe == ASSUME IInv, SafeInv, NEW t \in Updaters, Kill(t) PROVE SafeInv'
<1>1. w' = [w EXCEPT ![t] = Idle] /\ UNCHANGED <<board, wrote>>
  BY DEF Kill, world
<1> QED BY <1>1, SameWrites, IdleSafe

LEMMA RebootSafe == ASSUME SafeInv, Reboot PROVE SafeInv'
<1>1. UNCHANGED <<board, wrote>> /\ \A t \in Updaters : w'[t].pc = "idle"
  BY IdleTyped DEF Reboot, world
<1>2. \A t \in Updaters : Sure(w[t])'
  BY <1>1 DEF Sure, FileSteps, EntrySteps
<1> QED BY <1>1, <1>2, SameWrites DEF SafeInv

-----------------------------------------------------------------------------
(* The invariant, and what follows from it *)

\* The updaters' own steps.
LEMMA UpdaterIInv == ASSUME IInv, NEW t \in Updaters, Step(t) PROVE IInv'
  BY LocateIInv, SkipIInv, WritePartitionIInv, WriteOffsetIInv, LiftIInv, ProgramIInv, RestoreIInv,
     FindFileIInv, TakeLockIInv, FindMountIInv, MountFsIInv, MountFailsIInv, CreateIInv, FillIInv,
     RenameIInv, FileFailsIInv, CloseIInv, PatchMountIInv, OpenEntryIInv, WriteEntryIInv,
     PatchEndIInv DEF Step

LEMMA NextIInv == IInv /\ [Next]_vars => IInv'
<1> SUFFICES ASSUME IInv, [Next]_vars PROVE IInv'
  OBVIOUS
<1>1. CASE \E t \in Updaters, u \in Updates : Begin(t, u)
  BY <1>1, BeginIInv
<1>2. CASE \E t \in Updaters : Step(t) \/ Kill(t)
  BY <1>2, UpdaterIInv, KillIInv
<1>3. CASE \E v \in Visitors : Plug(v)
  BY <1>3, PlugIInv
<1>4. CASE \E d \in Filesystems : OthersMount(d)
  BY <1>4, OthersMountIInv
<1>5. CASE Reboot
  BY <1>5, RebootIInv
<1>6. CASE UNCHANGED vars
  BY <1>6, StutterIInv
<1> QED BY <1>1, <1>2, <1>3, <1>4, <1>5, <1>6 DEF Next

\* In every reachable state, whatever the boards, disks and bundles: an updater at a
\* file holds its device's lock, and knows whether the mount and the new file are its
\* own (with_mounted_partition, write_data_into_mount).
THEOREM BootMediaInvariant == Spec => []IInv
  BY InitIInv, NextIInv, PTL DEF Spec

\* Every variable keeps its type, and a device's lock is held by the updater that is
\* between its mount and its unmount (DeviceLock).
THEOREM BootMediaTyping == Spec => []TypeOK
<1>1. IInv => TypeOK
  <2> SUFFICES ASSUME IInv PROVE TypeOK
    OBVIOUS
  <2>1. \A t \in Updaters : /\ w[t].pc \in Steps /\ w[t].update \in Updates \cup {<<>>}
                            /\ w[t].k \in 0..Len(w[t].update)
    BY DEF IInv, Typed
  <2>2. \A t \in Updaters : {w[t].mine, w[t].ok, w[t].dirty, w[t].moved} \subseteq BOOLEAN
    BY DEF IInv, Typed
  <2>3. \A t \in Updaters : w[t].pc \in FileSteps => w[t].dev \in Filesystems /\ lock[w[t].dev] = t
    BY DEF IInv, Holds
  <2>4. /\ lock \in [Filesystems -> Updaters \cup {NONE}] /\ mounts \in [Filesystems -> Nat]
        /\ file \in [Filesystems -> [dest : Content, new : Content \cup {NONE}]]
        /\ entry \in [Filesystems -> Content]
    BY DEF IInv, Media
  <2>5. Locked /\ World
    BY DEF IInv
  <2> QED BY <2>1, <2>2, <2>3, <2>4, <2>5 DEF TypeOK, Locked, World
<1> QED BY <1>1, BootMediaInvariant, PTL

\* However many updates, crashes and failed umounts there are, the updates' own code
\* (with_mounted_partition) mounts a boot partition once at a time, and adds no mount to
\* another: a device that is mounted twice, whoever did so, was mounted by the patch of its
\* boot entry, or by an automatic mount, on top of a mount or just before one.
THEOREM MountedOnce == Spec => []OneMount
<1>1. IInv => OneMount
  <2> SUFFICES ASSUME IInv, NEW d \in Filesystems PROVE mounts[d] <= 1 /\ (Mounts(d) <= 1 \/ d \in unguarded)
    BY DEF OneMount
  <2>1. mounts[d] \in {0, 1}
    BY DEF IInv, Media
  <2>2. d \notin unguarded => Mounts(d) <= 1
    BY DEF IInv, Guarded
  <2> QED BY <2>1, <2>2
<1> QED BY <1>1, BootMediaInvariant, PTL

\* A file target of a boot partition is never seen half-written, whoever writes, fails or
\* dies; its boot entry is only while patch_bls_entry_for_slot rewrites it in place, and
\* after that was cut off.
THEOREM FileStaysWhole == Spec => []FileWhole
<1>1. IInv => FileWhole
  <2> SUFFICES ASSUME IInv, NEW d \in Filesystems
               PROVE  file[d].dest.whole /\ (~entry[d].whole => d \in cut \cup Halfway)
    BY DEF FileWhole
  <2>1. file[d].dest.whole
    BY DEF IInv, Media
  <2>2. ASSUME ~entry[d].whole, d \notin cut PROVE d \in Halfway
    <3>1. PICK t \in Updaters : w[t].pc = "rewriting" /\ w[t].dev = d
      BY <2>2 DEF IInv, Entries
    <3> QED BY <3>1 DEF Halfway
  <2> QED BY <2>1, <2>2
<1> QED BY <1>1, BootMediaInvariant, PTL

\* A target that cannot be located is found out before the first byte is written,
\* unless a disk came or went meanwhile.
THEOREM RefusedUnwritten == Spec => []RefusedFirst
<1>1. IInv => RefusedFirst
  BY DEF IInv, Aims, RefusedFirst
<1> QED BY <1>1, BootMediaInvariant, PTL

\* An eMMC boot partition is writable only while an updater is at it, or since one was
\* killed there or could not restore its force_ro.
THEOREM ForceRoRestored == Spec => []Relocked
<1>1. IInv => Relocked
  BY DEF IInv
<1> QED BY <1>1, BootMediaInvariant, PTL

\* No update has begun, and nothing was written.
LEMMA InitSafe == Init => SafeInv
<1> SUFFICES ASSUME Init PROVE SafeInv
  OBVIOUS
<1>1. \A t \in Updaters : w[t].pc = "idle"
  BY IdleTyped DEF Init
<1>2. RightDisk
  BY DEF Init, RightDisk
<1> QED BY <1>1, <1>2, RestSure DEF SafeInv

LEMMA NextSafe == IInv /\ SafeInv /\ [Next]_vars => SafeInv'
<1> SUFFICES ASSUME IInv, SafeInv, [Next]_vars PROVE SafeInv'
  OBVIOUS
<1>1. CASE \E t \in Updaters, u \in Updates : Begin(t, u)
  BY <1>1, BeginSafe
<1>2. CASE \E t \in Updaters : Step(t) \/ Kill(t)
  BY <1>2, LocateSafe, SkipSafe, WritePartitionSafe, WriteOffsetSafe, LiftSafe, ProgramSafe,
     RestoreSafe, FindFileSafe, TakeLockSafe, FindMountSafe, MountFsSafe, MountFailsSafe, CreateSafe,
     FillSafe, RenameSafe, FileFailsSafe, CloseSafe, PatchMountSafe, OpenEntrySafe, WriteEntrySafe,
     PatchEndSafe, KillSafe DEF Step
<1>3. CASE \E v \in Visitors : Plug(v)
  BY <1>3, PlugSafe
<1>4. CASE \E d \in Filesystems : OthersMount(d)
  <2>1. UNCHANGED <<board, w, wrote>>
    BY <1>4 DEF OthersMount, world
  <2> QED BY <2>1, QuietSafe
<1>5. CASE Reboot
  BY <1>5, RebootSafe
<1>6. CASE UNCHANGED vars
  <2>1. UNCHANGED <<board, w, wrote>>
    BY <1>6 DEF vars, world
  <2> QED BY <2>1, QuietSafe
<1> QED BY <1>1, <1>2, <1>3, <1>4, <1>5, <1>6 DEF Next

\* Whatever disks come and go between the lookup of a target and its write: a label
\* never leads to a device that / is built from, nor, where / tells the booted
\* partition, to another disk, and a disk that has labels is never written by an offset
\* (resolve_label, locate_target_in).
THEOREM OnlyTheRightDisk == Spec => []RightDisk
<1>1. Init => IInv /\ SafeInv
  BY InitIInv, InitSafe
<1>2. IInv /\ SafeInv /\ [Next]_vars => (IInv /\ SafeInv)'
  BY NextIInv, NextSafe
<1>3. IInv /\ SafeInv => RightDisk
  BY DEF SafeInv
<1> QED BY <1>1, <1>2, <1>3, PTL DEF Spec
=============================================================================
