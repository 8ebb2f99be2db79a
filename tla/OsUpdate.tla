------------------------------- MODULE OsUpdate -------------------------------
(***************************************************************************)
(* The A/B operating system update of avocadoctl on one device: applying a *)
(* bundle to the inactive slot (os_update.rs), the pending-update marker,  *)
(* the reboot, and the verification, commit or rollback that the next      *)
(* merge of the extensions performs (commands/ext.rs).                     *)
(*                                                                         *)
(*   slot      what the boot and rootfs partitions of each slot hold       *)
(*   pointer   the permanent boot choice: U-Boot variable, nvbootctrl      *)
(*             slot, or the head of the EFI BootOrder                      *)
(*   oneshot   the EFI BootNext variable                                   *)
(*   running   what the firmware booted; phase is "off", "boot" until the  *)
(*             boot-time merge is over, then "up"                          *)
(*   marker    pending-update.json, replaced by rename, removed by unlink  *)
(*   staged    the runtimes whose directory is on disk                     *)
(*   active    the runtime the `active` link names                         *)
(*   lock      the holder of .update.lock                                  *)
(*   apl, mrg  what each thread does, applying an update and merging: one  *)
(*             that has activated a runtime goes on to refresh             *)
(*                                                                         *)
(* Two history variables serve the properties: proven, the slots whose     *)
(* present content a boot has verified or the factory installed, and       *)
(* lapses, what has happened to this device that the code does not guard   *)
(* against:                                                                *)
(*   rewroteTarget     an apply began on the slot the next boot would take *)
(*   rewroteRunning    an apply began on the slot that is running          *)
(*   flippedUnmarked   the activation failed after its flip and the marker *)
(*                     was removed all the same                            *)
(*   acceptedUnbooted  a merge verified a marker while another slot than   *)
(*                     the marker's was running                            *)
(*   rollbackLost      the rollback had no actions or failed, and the      *)
(*                     marker was removed all the same                     *)
(*   rollbackUntold    the rollback moved the boot target, but its marker  *)
(*                     could not be removed: it returns an error, and the  *)
(*                     merge does not reboot                               *)
(*   markerKept        a merge that had decided a marker could not remove  *)
(*                     it, which it ignores                                *)
(* A property that excuses one of them says so.                            *)
(***************************************************************************)
EXTENDS Naturals, FiniteSets

CONSTANTS
  Slots,            \* the two A/B slots
  Runtimes,         \* numbered in build order, so a newer one is larger
  Bundles,          \* OS bundles, numbered by the version a loader sorts by
  BundleOf,         \* the OS bundle each runtime's manifest names
  RootfsId,         \* AVOCADO_OS_BUILD_ID in each bundle's rootfs
  InitrdId,         \* the build id in each bundle's initramfs
  HasVerify,        \* bundles with a "verify" section
  HasRollback,      \* bundles with rollback actions
  Loaders,          \* the boot loaders considered, among LoaderKinds
  Updaters,         \* update passes: they take .update.lock
  Activators,       \* runtime activations: they take no lock
  Refreshers,       \* merges, at boot or on request
  FactorySlot, FactoryBundle, FactoryRuntime,
  InInitrd,         \* the boot-time merge runs in the initrd
  Serialised,       \* one request or refresh at a time
  QuietReboot,      \* none is served once the reboot command has been run
  LateActionFails,  \* an activate action listed after the flip can fail
  RebootMayFail,    \* the reboot command can fail
  MaxRequests, MaxRefreshes, MaxCrashes, MaxFaults,
  NONE, Torn, Blank

LoaderKinds == {"uboot", "tegra", "efi", "sorting"}
Appliers == Updaters \cup Activators
Mergers == Appliers \cup Refreshers
Parts == {"boot", "rootfs"}
Content == Bundles \cup {Torn, Blank}

VARIABLES loader, slot, pointer, oneshot, running, phase,
          marker, staged, active, lock, apl, mrg, rebooting,
          proven, lapses, requests, refreshes, crashes, faults

medium   == <<slot, pointer, oneshot>>
store    == <<marker, staged, active>>
machine  == <<loader, running, phase, rebooting>>
counters == <<requests, refreshes, crashes, faults>>
history  == <<proven, lapses>>
vars == <<medium, store, machine, lock, apl, mrg, history, counters>>

-----------------------------------------------------------------------------
(* Data *)

Marker == [bundle : Bundles, prev : Slots, new : Slots, runtime : Runtimes \cup {NONE}]

Running == [slot : Slots, boot : Bundles, rootfs : Content]

Applier == [pc : {"idle", "decide", "detect", "mark", "write", "writing",
                  "readMark", "setRuntime"},
            runtime : Runtimes \cup {NONE},
            prev : Slots \cup {NONE}, new : Slots \cup {NONE},
            todo : SUBSET Parts, part : Parts \cup {NONE},
            mixed : BOOLEAN, copy : Marker \cup {NONE}]

Merger == [pc : {"idle", "refresh", "commit", "promote", "rollback", "unmark", "clear", "reboot",
                 "rest"},
           pending : Marker \cup {NONE}, moved : BOOLEAN]

ASSUME ConstantsAssumption ==
  /\ \E a, b \in Slots : a # b /\ Slots = {a, b}
  /\ Runtimes \subseteq Nat /\ Bundles \subseteq Nat
  /\ BundleOf \in [Runtimes -> Bundles]
  /\ HasVerify \subseteq Bundles /\ HasRollback \subseteq Bundles
  /\ Loaders \subseteq LoaderKinds
  /\ FactorySlot \in Slots /\ FactoryBundle \in Bundles /\ FactoryRuntime \in Runtimes
  /\ {InInitrd, Serialised, QuietReboot, LateActionFails, RebootMayFail} \subseteq BOOLEAN
  /\ {MaxRequests, MaxRefreshes, MaxCrashes, MaxFaults} \subseteq Nat
  /\ NONE \notin Slots /\ NONE \notin Runtimes /\ NONE \notin Appliers
  /\ NONE \notin Marker /\ NONE \notin Running
  /\ Torn \notin Bundles /\ Blank \notin Bundles

IdleApplier == [pc |-> "idle", runtime |-> NONE, prev |-> NONE, new |-> NONE,
                todo |-> {}, part |-> NONE, mixed |-> FALSE, copy |-> NONE]

IdleMerger == [pc |-> "idle", pending |-> NONE, moved |-> FALSE]

Other(s) == CHOOSE t \in Slots : t # s

AllIdle == /\ \A p \in Appliers : apl[p].pc = "idle"
           /\ \A m \in Mergers : mrg[m].pc = "idle"

\* A request is accepted: the device is up, and, when the daemon serves one
\* request at a time, no other one is in progress.
Accepts == /\ phase = "up"
           /\ Serialised => AllIdle
           /\ QuietReboot => ~rebooting

Fault == faults < MaxFaults /\ faults' = faults + 1

-----------------------------------------------------------------------------
(* The boot loader *)

SdbootAb == loader \in {"efi", "sorting"}

\* A sorting loader takes the newest boot image it finds in any slot.
Newest == {s \in Slots : /\ slot[s].boot \in Bundles
                         /\ \A t \in Slots : slot[t].boot \in Bundles
                                               => slot[t].boot <= slot[s].boot}

\* The slots the next boot may pick.
Targets == CASE loader = "sorting" -> Newest
             [] loader = "efi" /\ oneshot # NONE -> {oneshot}
             [] OTHER -> {pointer}

\* Mutant: every loader reports the slot of the next boot.
DetectedSlotOfNextBoot == pointer

\* detect_current_slot: U-Boot's variable names the slot of the next boot,
\* LoaderDevicePartUUID and nvbootctrl the slot of this one.
DetectedSlot == IF loader = "uboot" THEN pointer ELSE running.slot

\* The actions that make s the slot of the next boot. BootNext for EFI; on a
\* sorting loader the write of the boot image has already done it.
Flip(s) == /\ pointer' = IF loader \in {"uboot", "tegra"} THEN s ELSE pointer
           /\ oneshot' = IF loader = "efi" THEN s ELSE oneshot

\* Mutant: the rollback templates are rendered with the new slot.
UnflipSwapped(prev, new) ==
  /\ Flip(new)
  /\ slot' = IF loader = "sorting" THEN [slot EXCEPT ![prev].boot = Blank] ELSE slot

\* The rollback actions: back to prev, which a sorting loader is told by
\* removing the boot image of new.
Unflip(prev, new) ==
  /\ Flip(prev)
  /\ slot' = IF loader = "sorting" THEN [slot EXCEPT ![new].boot = Blank] ELSE slot

-----------------------------------------------------------------------------
(* Comparisons with the running system *)

\* The running rootfs carries the build id of bundle b.
RunsRootfs(b) == running.rootfs \in Bundles /\ RootfsId[running.rootfs] = RootfsId[b]

RunsInitrd(b) == InitrdId[running.boot] = InitrdId[b]

\* os_bundle_satisfied: rootfs, initramfs and the hash the active runtime records.
Satisfied(r) == /\ RunsRootfs(BundleOf[r])
                /\ RunsInitrd(BundleOf[r])
                /\ active \in staged
                /\ BundleOf[active] = BundleOf[r]

\* Mutant: a verification that does not match is only reported.
VerifiedLeniently(b) == TRUE

\* The check of the merge. Only in the initrd is the initramfs compared too.
Verified(b) == b \in HasVerify => /\ RunsRootfs(b)
                                  /\ phase = "boot" /\ InInitrd => RunsInitrd(b)

-----------------------------------------------------------------------------
(* Applying an update: perform_update from finish_update on, or a runtime  *)
(* activation that needs another OS.                                       *)

Release(p) == lock' = IF lock = p THEN NONE ELSE lock

\* p ends in an error: an update pass removes the runtime it had staged.
Fails(p) ==
  /\ apl' = [apl EXCEPT ![p] = IdleApplier]
  /\ staged' = IF p \in Updaters THEN staged \ {apl[p].runtime} ELSE staged
  /\ Release(p)

\* activate_runtime, after which the request goes on with a refresh.
ActivateRuntime(p) ==
  IF apl[p].runtime \in staged
    THEN /\ active' = apl[p].runtime
         /\ apl' = [apl EXCEPT ![p] = IdleApplier]
         /\ mrg' = [mrg EXCEPT ![p].pc = "refresh"]
         /\ Release(p)
         /\ UNCHANGED staged
    ELSE Fails(p) /\ UNCHANGED <<active, mrg>>

\* An update pass takes the lock and stages runtime r, unless r is active and
\* current; an activation names a staged runtime that is not the active one.
Request(p, r) ==
  /\ Accepts /\ requests < MaxRequests
  /\ apl[p].pc = "idle" /\ mrg[p].pc = "idle"
  /\ IF p \in Updaters
       THEN /\ lock = NONE /\ lock' = p
            /\ ~(active = r /\ Satisfied(r))
            /\ staged' = staged \cup {r}
       ELSE /\ r \in staged /\ r # active
            /\ UNCHANGED <<lock, staged>>
  /\ apl' = [apl EXCEPT ![p].pc = "decide", ![p].runtime = r]
  /\ requests' = requests + 1
  /\ UNCHANGED <<medium, marker, active, machine, mrg, history, refreshes, crashes, faults>>

\* The OS is already right: activate the runtime at once. Otherwise apply it.
Decide(p) ==
  /\ apl[p].pc = "decide"
  /\ IF Satisfied(apl[p].runtime)
       THEN ActivateRuntime(p)
       ELSE /\ apl' = [apl EXCEPT ![p].pc = "detect"]
            /\ UNCHANGED <<active, staged, lock, mrg>>
  /\ UNCHANGED <<medium, marker, machine, history, counters>>

\* The apply's own skip, which an activation does not look at, then the
\* choice of the slot.
Detect(p) ==
  LET new == Other(DetectedSlot)
      skip == BundleOf[apl[p].runtime] \in HasVerify /\ Satisfied(apl[p].runtime) IN
  /\ apl[p].pc = "detect"
  /\ \/ /\ skip /\ p \in Updaters
        /\ ActivateRuntime(p)
        /\ UNCHANGED lapses
     \/ /\ skip /\ p \notin Updaters
        /\ apl' = [apl EXCEPT ![p].pc = "readMark"]
        /\ UNCHANGED <<active, staged, lock, mrg, lapses>>
     \/ /\ ~skip
        /\ apl' = [apl EXCEPT ![p].pc = "mark", ![p].prev = DetectedSlot,
                              ![p].new = new, ![p].todo = Parts]
        /\ lapses' = lapses \cup (IF new \in Targets THEN {"rewroteTarget"} ELSE {})
                           \cup (IF new = running.slot THEN {"rewroteRunning"} ELSE {})
        /\ UNCHANGED <<active, staged, lock, mrg>>
  /\ UNCHANGED <<medium, marker, machine, proven, counters>>

\* The marker goes to disk before any artifact.
Mark(p) ==
  /\ apl[p].pc = "mark"
  /\ marker' = [bundle |-> BundleOf[apl[p].runtime], prev |-> apl[p].prev,
                new |-> apl[p].new, runtime |-> NONE]
  /\ apl' = [apl EXCEPT ![p].pc = "write"]
  /\ UNCHANGED <<medium, staged, active, machine, lock, mrg, history, counters>>

\* Two processes writing the same partition leave a mixture behind.
Clashes(p, q, x) == /\ q # p /\ apl[q].pc = "writing"
                    /\ apl[q].new = apl[p].new /\ apl[q].part = x

\* The file: boot image of a sorting loader is renamed into place; anything
\* else is written over the partition.
Atomic(x) == loader = "sorting" /\ x = "boot"

BeginWrite(p, x) ==
  LET s == apl[p].new IN
  /\ apl[p].pc = "write" /\ x \in apl[p].todo
  /\ apl' = [q \in Appliers |->
               IF q = p THEN [apl[p] EXCEPT !.pc = "writing", !.part = x,
                                !.mixed = ~Atomic(x) /\ \E o \in Appliers : Clashes(p, o, x)]
               ELSE IF Clashes(p, q, x) /\ ~Atomic(x) THEN [apl[q] EXCEPT !.mixed = TRUE]
               ELSE apl[q]]
  /\ IF Atomic(x)
       THEN UNCHANGED <<slot, proven>>
       ELSE /\ slot' = [slot EXCEPT ![s][x] = Torn]
            /\ proven' = [proven EXCEPT ![s] = FALSE]
  /\ UNCHANGED <<pointer, oneshot, store, machine, lock, mrg, lapses, counters>>

EndWrite(p) ==
  LET s == apl[p].new
      x == apl[p].part IN
  /\ apl[p].pc = "writing"
  /\ slot' = [slot EXCEPT ![s][x] = IF apl[p].mixed THEN Torn
                                    ELSE BundleOf[apl[p].runtime]]
  /\ proven' = [proven EXCEPT ![s] = FALSE]
  /\ apl' = [apl EXCEPT ![p].pc = "write", ![p].todo = @ \ {x},
                        ![p].part = NONE, ![p].mixed = FALSE]
  /\ UNCHANGED <<pointer, oneshot, store, machine, lock, mrg, lapses, counters>>

\* A refused target, a bad digest, a full or failing medium, a marker that
\* cannot be written: the request ends there and the marker stays as it is.
ApplyFails(p) ==
  /\ apl[p].pc \in {"detect", "mark", "write", "writing", "setRuntime"}
  /\ Fault
  /\ Fails(p)
  /\ UNCHANGED <<medium, marker, active, machine, mrg, history, requests, refreshes, crashes>>

\* Mutant: an archive that lacks an artifact is good enough to activate.
ActivateIncomplete(p) ==
  /\ apl[p].pc = "write" /\ apl[p].todo # Parts
  /\ Flip(apl[p].new)
  /\ apl' = [apl EXCEPT ![p].pc = "readMark"]
  /\ UNCHANGED <<slot, store, machine, lock, mrg, history, counters>>

\* The flip, once every artifact is written.
Activate(p) ==
  /\ apl[p].pc = "write" /\ apl[p].todo = {}
  /\ Flip(apl[p].new)
  /\ apl' = [apl EXCEPT ![p].pc = "readMark"]
  /\ UNCHANGED <<slot, store, machine, lock, mrg, history, counters>>

\* Mutant: a failed activation clears the marker whatever the strategy.
ActivateFailsClearing(p) ==
  /\ apl[p].pc = "write" /\ apl[p].todo = {}
  /\ Fault
  /\ marker' = NONE
  /\ Fails(p)
  /\ UNCHANGED <<medium, active, machine, mrg, history, requests, refreshes, crashes>>

\* A failed activation clears the marker except for sdboot-ab, and ignores it
\* when the unlink fails too. It may fail after the flip when the bundle lists a
\* later action.
ActivateFails(p) ==
  /\ apl[p].pc = "write" /\ apl[p].todo = {}
  /\ Fault
  /\ marker' \in IF SdbootAb THEN {marker} ELSE {marker, NONE}
  /\ \/ UNCHANGED <<pointer, oneshot, lapses>>
     \/ /\ LateActionFails
        /\ Flip(apl[p].new)
        /\ lapses' = IF marker' = NONE THEN lapses \cup {"flippedUnmarked"} ELSE lapses
  /\ Fails(p)
  /\ UNCHANGED <<slot, active, machine, mrg, proven, requests, refreshes, crashes>>

\* set_pending_runtime_id reads the marker ...
ReadMark(p) ==
  /\ apl[p].pc = "readMark"
  /\ IF marker = NONE
       THEN Fails(p)
       ELSE /\ apl' = [apl EXCEPT ![p].pc = "setRuntime", ![p].copy = marker]
            /\ UNCHANGED <<staged, lock>>
  /\ UNCHANGED <<medium, marker, active, machine, mrg, history, counters>>

\* ... and writes it back with the runtime's id; the caller then reboots.
SetRuntime(p) ==
  /\ apl[p].pc = "setRuntime"
  /\ marker' = [apl[p].copy EXCEPT !.runtime = apl[p].runtime]
  /\ apl' = [apl EXCEPT ![p] = IdleApplier]
  /\ Release(p)
  /\ \/ rebooting' = TRUE /\ UNCHANGED faults
     \/ RebootMayFail /\ Fault /\ UNCHANGED rebooting
  /\ UNCHANGED <<medium, staged, active, loader, running, phase, mrg, history,
                 requests, refreshes, crashes>>

-----------------------------------------------------------------------------
(* Merging: merge_extensions_internal, at boot and in every later refresh  *)

\* Read the marker and check the running system against it.
Examine(m) ==
  /\ mrg' = [mrg EXCEPT ![m].pending = marker,
                        ![m].pc = CASE marker = NONE -> "rest"
                                    [] marker # NONE /\ Verified(marker.bundle) -> "commit"
                                    [] OTHER -> "rollback"]
  /\ lapses' = lapses \cup
       (IF marker # NONE /\ Verified(marker.bundle) /\ marker.new # running.slot
          THEN {"acceptedUnbooted"} ELSE {})

MergeStart(m) ==
  /\ m \in Refreshers /\ mrg[m].pc = "idle"
  /\ \/ phase = "boot" /\ AllIdle /\ ~rebooting /\ UNCHANGED refreshes
     \/ Accepts /\ refreshes < MaxRefreshes /\ refreshes' = refreshes + 1
  /\ Examine(m)
  /\ UNCHANGED <<medium, store, machine, lock, apl, proven, requests, crashes, faults>>

\* The refresh that follows an activation. It merges nothing if the active link
\* dangles, or if the unmerge before it fails.
Refresh(m) ==
  /\ mrg[m].pc = "refresh"
  /\ \/ active \in staged /\ Examine(m) /\ UNCHANGED faults
     \/ /\ \/ active \notin staged /\ UNCHANGED faults
           \/ Fault
        /\ mrg' = [mrg EXCEPT ![m] = IdleMerger]
        /\ UNCHANGED lapses
  /\ UNCHANGED <<medium, store, machine, lock, apl, proven, requests, refreshes, crashes>>

\* The bundle's commit actions, best effort. For EFI: new heads BootOrder.
Commit(m) ==
  LET new == mrg[m].pending.new IN
  /\ mrg[m].pc = "commit"
  /\ mrg' = [mrg EXCEPT ![m].pc = "promote"]
  /\ \/ pointer' = (IF loader = "efi" THEN new ELSE pointer) /\ UNCHANGED faults
     \/ Fault /\ UNCHANGED pointer
  /\ proven' = [proven EXCEPT ![running.slot] =
                   \/ @
                   \/ /\ slot[running.slot].boot = running.boot
                      /\ slot[running.slot].rootfs = running.rootfs]
  /\ UNCHANGED <<slot, oneshot, store, machine, lock, apl, lapses,
                 requests, refreshes, crashes>>

\* Mutant: a marker without a runtime is promoted like any other.
PromoteAnything(m) ==
  /\ mrg[m].pc = "promote"
  /\ active' = mrg[m].pending.runtime
  /\ mrg' = [mrg EXCEPT ![m].pc = "clear"]
  /\ UNCHANGED <<medium, marker, staged, machine, lock, apl, history, counters>>

\* The pending runtime becomes the active one if its manifest is on disk.
Promote(m) ==
  LET r == mrg[m].pending.runtime IN
  /\ mrg[m].pc = "promote"
  /\ active' = IF r \in staged THEN r ELSE active
  /\ mrg' = [mrg EXCEPT ![m].pc = "clear"]
  /\ UNCHANGED <<medium, marker, staged, machine, lock, apl, history, counters>>

\* The bundle's rollback actions, if it has any and they succeed.
Rollback(m) ==
  LET pm == mrg[m].pending IN
  /\ mrg[m].pc = "rollback"
  /\ \/ /\ pm.bundle \in HasRollback
        /\ Unflip(pm.prev, pm.new)
        /\ proven' = IF loader = "sorting" THEN [proven EXCEPT ![pm.new] = FALSE] ELSE proven
        /\ mrg' = [mrg EXCEPT ![m].pc = "unmark", ![m].moved = TRUE]
        /\ UNCHANGED <<lapses, faults>>
     \/ /\ \/ pm.bundle \notin HasRollback /\ UNCHANGED faults
           \/ pm.bundle \in HasRollback /\ Fault
        /\ lapses' = lapses \cup {"rollbackLost"}
        /\ mrg' = [mrg EXCEPT ![m].pc = "unmark"]
        /\ UNCHANGED <<medium, proven>>
  /\ UNCHANGED <<store, machine, lock, apl, requests, refreshes, crashes>>

\* rollback_os_update removes the marker whether its actions worked or not. When
\* the unlink fails it returns that error, and what the actions did is not told.
Unmark(m) ==
  /\ mrg[m].pc = "unmark"
  /\ \/ /\ marker' = NONE
        /\ mrg' = [mrg EXCEPT ![m].pc = "clear"]
        /\ UNCHANGED <<lapses, faults>>
     \/ /\ marker # NONE /\ Fault
        /\ mrg' = [mrg EXCEPT ![m].pc = "clear", ![m].moved = FALSE]
        /\ lapses' = lapses \cup (IF mrg[m].moved THEN {"rollbackUntold"} ELSE {})
        /\ UNCHANGED marker
  /\ UNCHANGED <<medium, staged, active, machine, lock, apl, proven,
                 requests, refreshes, crashes>>

\* What follows the decision: the reboot after a rollback that is told to have
\* moved the boot target, else the rest of the merge.
Decided(m) ==
  mrg' = [mrg EXCEPT ![m] = IF mrg[m].moved THEN [mrg[m] EXCEPT !.pc = "reboot"]
                                            ELSE [mrg[m] EXCEPT !.pc = "rest", !.pending = NONE]]

\* Mutant: the marker outlives a verification that passed.
ClearNothing(m) ==
  /\ mrg[m].pc = "clear"
  /\ Decided(m)
  /\ UNCHANGED <<medium, store, machine, lock, apl, history, counters>>

\* The merge removes the marker itself, in any case, and goes on when it cannot.
Clear(m) ==
  /\ mrg[m].pc = "clear"
  /\ Decided(m)
  /\ \/ marker' = NONE /\ UNCHANGED <<lapses, faults>>
     \/ /\ marker # NONE /\ Fault
        /\ lapses' = lapses \cup {"markerKept"}
        /\ UNCHANGED marker
  /\ UNCHANGED <<medium, staged, active, machine, lock, apl, proven,
                 requests, refreshes, crashes>>

\* The boot goes on into the rootfs, if there is one to go on into.
LeaveMerge(m) ==
  /\ mrg' = [mrg EXCEPT ![m] = IdleMerger]
  /\ phase' = IF phase # "boot" THEN phase
              ELSE IF running.rootfs \in Bundles THEN "up" ELSE "stuck"

\* The merge reboots into the slot it rolled back to instead of merging.
RebootBack(m) ==
  /\ mrg[m].pc = "reboot"
  /\ \/ /\ rebooting' = TRUE
        /\ mrg' = [mrg EXCEPT ![m] = IdleMerger]
        /\ UNCHANGED <<phase, faults>>
     \/ /\ RebootMayFail /\ Fault
        /\ LeaveMerge(m)
        /\ UNCHANGED rebooting
  /\ UNCHANGED <<medium, store, loader, running, lock, apl, history,
                 requests, refreshes, crashes>>

\* The newest other staged runtime whose OS is the running one.
Fallbacks == {r \in staged \ {active} : RunsRootfs(BundleOf[r])}

\* The rest of the merge: when the active runtime expects another rootfs,
\* fall back to a compatible runtime. A dangling link refuses the merge.
Rest(m) ==
  /\ mrg[m].pc = "rest"
  /\ IF /\ active \in staged
        /\ running.rootfs \in Bundles
        /\ ~RunsRootfs(BundleOf[active])
        /\ Fallbacks # {}
       THEN \E r \in Fallbacks : (\A q \in Fallbacks : q <= r) /\ active' = r
       ELSE UNCHANGED active
  /\ LeaveMerge(m)
  /\ UNCHANGED <<medium, marker, staged, loader, running, rebooting, lock, apl,
                 history, counters>>

-----------------------------------------------------------------------------
(* The machine *)

PowerOff ==
  /\ phase' = "off" /\ running' = NONE /\ rebooting' = FALSE
  /\ lock' = NONE
  /\ apl' = [p \in Appliers |-> IdleApplier]
  /\ mrg' = [m \in Mergers |-> IdleMerger]
  /\ UNCHANGED <<loader, medium, store, history>>

\* The shutdown the reboot command started ends whatever is in progress.
Reboot == rebooting /\ PowerOff /\ UNCHANGED counters

\* A power failure, or the power cycle of a device that does not boot.
Crash == /\ phase # "off" /\ crashes < MaxCrashes
         /\ crashes' = crashes + 1
         /\ PowerOff
         /\ UNCHANGED <<requests, refreshes, faults>>

\* The firmware boots one of its targets and forgets BootNext.
Boot ==
  /\ phase = "off"
  /\ oneshot' = NONE
  /\ \/ \E s \in Targets :
          /\ slot[s].boot \in Bundles
          /\ (slot[s].rootfs \in Bundles \/ InInitrd)
          /\ running' = [slot |-> s, boot |-> slot[s].boot, rootfs |-> slot[s].rootfs]
          /\ phase' = "boot"
     \/ /\ \/ Targets = {}
           \/ \E s \in Targets : \/ slot[s].boot \notin Bundles
                               \/ (slot[s].rootfs \notin Bundles /\ ~InInitrd)
        /\ running' = NONE
        /\ phase' = "stuck"
  /\ UNCHANGED <<loader, rebooting, slot, pointer, store, lock, apl, mrg, history, counters>>

-----------------------------------------------------------------------------
Init ==
  /\ loader \in Loaders
  /\ slot = [s \in Slots |-> IF s = FactorySlot
                              THEN [boot |-> FactoryBundle, rootfs |-> FactoryBundle]
                              ELSE [boot |-> Blank, rootfs |-> Blank]]
  /\ pointer = FactorySlot /\ oneshot = NONE
  /\ running = NONE /\ phase = "off" /\ rebooting = FALSE
  /\ marker = NONE /\ staged = {FactoryRuntime} /\ active = FactoryRuntime
  /\ lock = NONE
  /\ apl = [p \in Appliers |-> IdleApplier]
  /\ mrg = [m \in Mergers |-> IdleMerger]
  /\ proven = [s \in Slots |-> s = FactorySlot] /\ lapses = {}
  /\ requests = 0 /\ refreshes = 0 /\ crashes = 0 /\ faults = 0

ApplyStep(p) == \/ Decide(p) \/ Detect(p) \/ Mark(p)
                \/ \E x \in Parts : BeginWrite(p, x)
                \/ EndWrite(p) \/ Activate(p) \/ ReadMark(p) \/ SetRuntime(p)

MergeStep(m) == \/ Refresh(m) \/ Commit(m) \/ Promote(m) \/ Rollback(m) \/ Unmark(m)
                \/ Clear(m) \/ RebootBack(m) \/ Rest(m)

Next == \/ \E p \in Appliers : \/ \E r \in Runtimes : Request(p, r)
                                \/ ApplyStep(p)
                                \/ ApplyFails(p) \/ ActivateFails(p)
        \/ \E m \in Mergers : MergeStart(m) \/ MergeStep(m)
        \/ Reboot \/ Crash \/ Boot

Spec == Init /\ [][Next]_vars

\* Threads run, the device boots what it is told to boot, and every boot runs a
\* merge, in the units that avocadoctl.socket is ordered before. Requests,
\* refreshes, faults and power failures are nobody's duty.
Fairness == /\ WF_vars(Boot) /\ WF_vars(Reboot)
            /\ \A p \in Appliers : WF_vars(ApplyStep(p))
            /\ \A m \in Mergers : WF_vars(phase = "boot" /\ MergeStart(m))
                                   /\ WF_vars(MergeStep(m))

FairSpec == Spec /\ Fairness

-----------------------------------------------------------------------------
(* Properties *)

\* The types of the variables.
TypeOK ==
  /\ loader \in Loaders
  /\ slot \in [Slots -> [boot : Content, rootfs : Content]]
  /\ pointer \in Slots /\ oneshot \in Slots \cup {NONE}
  /\ running \in Running \cup {NONE}
  /\ phase \in {"off", "boot", "up", "stuck"} /\ rebooting \in BOOLEAN
  /\ marker \in Marker \cup {NONE}
  /\ staged \subseteq Runtimes /\ active \in Runtimes
  /\ lock \in Updaters \cup {NONE}
  /\ apl \in [Appliers -> Applier] /\ mrg \in [Mergers -> Merger]
  /\ proven \in [Slots -> BOOLEAN]
  /\ requests \in Nat /\ refreshes \in Nat /\ crashes \in Nat /\ faults \in Nat

\* A slot the next boot may pick, and that no boot has verified, has a marker
\* naming it, so that the next boot has something to verify and to roll back
\* from (the order of marker, artifacts and activation in apply_os_update, and
\* the strategies under which a failed activation keeps the marker). Every
\* lapse excuses it.
UnprovenTargetIsMarked ==
  \A s \in Targets : \/ proven[s]
                     \/ marker # NONE /\ marker.new = s
                     \/ lapses # {}

Whole(s) == slot[s].boot \in Bundles /\ slot[s].rootfs \in Bundles

\* Whenever the power goes, the next boot reaches a whole system, or an initrd
\* whose merge finds the marker of the slot it is in and can roll back. The
\* code keeps a half-written slot out of the loader's reach by activating last
\* and by writing the inactive slot. Three lapses excuse it: a rewritten
\* target, a marker accepted on another slot, a lost rollback.
NextBootRecovers ==
  \/ lapses \cap {"rewroteTarget", "acceptedUnbooted", "rollbackLost"} # {}
  \/ /\ Targets # {}
     /\ \A s \in Targets : \/ Whole(s)
                           \/ /\ slot[s].boot \in Bundles /\ InInitrd
                              /\ marker # NONE /\ marker.new = s

\* A runtime becomes active only while the rootfs it names is running, be it by
\* the request, the promotion after the reboot or the fallback of a merge; a
\* bundle that asks for no verification is the exception. No lapse excuses it.
ActivationMatchesOs ==
  [][active' # active => \/ RunsRootfs(BundleOf[active'])
                         \/ BundleOf[active'] \notin HasVerify]_vars

\* A step may change the running slot only by rolling that slot back.
OnlyRolledBack ==
  running # NONE /\ slot'[running.slot] # slot[running.slot]
    => \E m \in Mergers : mrg[m].pc = "rollback" /\ mrg[m].pending.new = running.slot

\* No apply, of however many at once, writes the slot that is running; only the
\* rollback of that very slot does (determine_inactive_slot, and the targets
\* the streaming apply resolves for it).
RunningSlotUntouched == [][OnlyRolledBack]_vars

\* A marker that a reboot has been ordered for is decided: some later boot
\* commits it or rolls it back and removes it, whatever crashes intervene. One
\* lapse excuses it, markerKept: the merge decides the marker but the unlink
\* fails (ext.rs:536 ignores it), and no boot is owed that would try again.
AppliedIsDecided ==
  (marker # NONE /\ rebooting) ~> \/ marker = NONE \/ phase = "stuck"
                                  \/ "markerKept" \in lapses


\* A rollback whose actions worked ends on the slot it rolls back to, although
\* its marker is gone before the machine reboots. Three lapses excuse it:
\* rewroteTarget, an apply that rewrote the target of the next boot;
\* acceptedUnbooted, a marker whose commit put the wrong slot at the head of
\* BootOrder, where a crash that spends BootNext falls back to; and
\* rollbackUntold, for then the device stays up on the slot that failed, until
\* something else restarts it, which ext.rs:538-542 means to rule out.
RollbackLands ==
  \A s \in Slots : (\E m \in Mergers : mrg[m].moved /\ mrg[m].pending.prev = s)
                     ~> \/ phase = "up" /\ running.slot = s
                        \/ lapses \cap {"rewroteTarget", "acceptedUnbooted", "rollbackUntold"} # {}
=============================================================================
