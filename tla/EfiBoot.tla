------------------------------- MODULE EfiBoot -------------------------------
(***************************************************************************)
(* The EFI boot variables of a device, as the slot actions of an OS update *)
(* edit them through efibootmgr (apply_efibootmgr_action in os_update.rs): *)
(* an activation or a rollback points BootNext at a slot's entry, a commit *)
(* moves it to the head of BootOrder.                                      *)
(*                                                                         *)
(*   entries   each number of a boot entry: its label, the partition it    *)
(*             boots from, whether it is active; NONE for a free number    *)
(*   order     BootOrder                                                   *)
(*   next      BootNext, or NONE                                           *)
(*   lock      the holder of efi-nvram.lock: an action, or the repair      *)
(*   act       each thread's action: the step it is at, the slot, whether  *)
(*             it sets BootOrder (a commit), whether it has the lock, the  *)
(*             partition it found, and what it kept of its last listing    *)
(*   fix       the boot oneshot that repairs the entries of the slots: the *)
(*             step it is at, the entries to delete, the slots to add      *)
(*   running   the slot that runs                                          *)
(*                                                                         *)
(* The repair (meta-avocado) and efibootmgr are not in this repository.    *)
(* The repair is what the comments here say of it: it lists, and deletes   *)
(* and creates entries from that listing, under the lock, which it may     *)
(* hold for ever. efibootmgr refuses an entry that is not there.           *)
(*                                                                         *)
(* Histories: proven, the slots that a commit has begun for; lapsed, that  *)
(* an action went on without the lock.                                     *)
(***************************************************************************)
EXTENDS Partitions, Sequences

CONSTANTS
  Slots, FactorySlot,
  Nums,            \* the numbers of boot entries
  Disk, Parts,     \* the booted disk, the partitions of all disks
  Stock,           \* the entries and the BootOrder a device may start with
  Threads,
  MaxActions, MaxBoots, MaxWipes, MaxFaults

OtherDisks == {p.disk : p \in Parts} \ {Disk}

Esp(s) == (CHOOSE p \in Parts : p.disk = Disk /\ p.label = s).uuid

Uuids == {p.uuid : p \in Parts}
Entries == [label : {p.label : p \in Parts}, uuid : Uuids, active : BOOLEAN]

\* As provisioned, BootOrder names no entry twice and none that is not there; and what
\* boots another slot comes after a good entry of the factory's.
Provisioned(e, o) ==
  /\ e \in [Nums -> Entries \cup {NONE}] /\ o \in Seq(Nums)
  /\ \A m, n \in DOMAIN o : o[m] = o[n] => m = n
  /\ \A n \in DOMAIN o : e[o[n]] # NONE
  /\ \A n \in DOMAIN o :
       e[o[n]].label \in Slots \ {FactorySlot} /\ e[o[n]].active =>
         \E m \in 1..(n - 1) :
           e[o[m]] = [label |-> FactorySlot, uuid |-> Esp(FactorySlot), active |-> TRUE]

ASSUME EfiAssumption ==
  /\ Nums \subseteq Nat /\ FactorySlot \in Slots
  /\ Disk # NONE /\ NONE \notin Threads \cup Slots \cup Nums \cup Entries
  /\ \A s \in Slots : \E p \in Parts : p.disk = Disk /\ p.label = s
  /\ "fix" \notin Threads \cup {NONE}
  /\ \A e \in Stock : Provisioned(e.entries, e.order)
  /\ {MaxActions, MaxBoots, MaxWipes, MaxFaults} \subseteq Nat

VARIABLES entries, order, next, lock, act, fix, running, proven, lapsed,
          actions, boots, wipes, faults

nvram    == <<entries, order, next>>
history  == <<proven, lapsed>>
counters == <<actions, boots, wipes, faults>>
vars == <<nvram, lock, act, fix, running, history, counters>>

Idle == [pc |-> "idle", slot |-> NONE, commit |-> FALSE, locked |-> FALSE, part |-> NONE,
         num |-> NONE, order |-> <<>>, active |-> FALSE]

Resting == [pc |-> "ready", delete |-> {}, add |-> {}]

Present == {n \in Nums : entries[n] # NONE}

Go(t, step) == act' = [act EXCEPT ![t].pc = step]

Release(who) == lock' = IF lock = who THEN NONE ELSE lock

\* The action is over: the lock is dropped.
End(t) == act' = [act EXCEPT ![t] = Idle] /\ Release(t)

Fault == faults < MaxFaults /\ faults' = faults + 1 /\ UNCHANGED <<actions, boots, wipes>>

Least(S) == CHOOSE n \in S : \A m \in S : n <= m

\* The entry a listing gives first, of those that match.
First(matches) == IF matches = {} THEN NONE ELSE Least(matches)

\* Mutant: an entry counts by its label, whatever partition it names.
MatchLabel(label, uuid) == First({n \in Present : entries[n].label = label})

\* parse_efi_boot_num: the first entry with the label, for the partition when that is
\* known.
Match(label, uuid) ==
  First({n \in Present : entries[n].label = label /\ uuid \in {NONE, entries[n].uuid}})

\* The sequence s, which has no element twice, without n.
Without(s, n) ==
  LET k == CHOOSE k \in DOMAIN s : s[k] = n
  IN  IF \E m \in DOMAIN s : s[m] = n
      THEN [m \in 1..(Len(s) - 1) |-> IF m < k THEN s[m] ELSE s[m + 1]]
      ELSE s

\* Mutant: the entry is put first and kept in its old place.
PromotedTwice(old, num) == <<num>> \o old

\* promoted_boot_order
Promoted(old, num) == <<num>> \o Without(old, num)

-----------------------------------------------------------------------------
(* An action *)

Begin(t, s, commit) ==
  /\ act[t].pc = "idle" /\ actions < MaxActions
  /\ commit => s = running
  /\ act' = [act EXCEPT ![t] = [Idle EXCEPT !.pc = "lock", !.slot = s, !.commit = commit]]
  /\ proven' = IF commit THEN proven \cup {s} ELSE proven
  /\ actions' = actions + 1
  /\ UNCHANGED <<nvram, lock, fix, running, lapsed, boots, wipes, faults>>

TakeLock(t) ==
  /\ act[t].pc = "lock" /\ lock = NONE /\ lock' = t
  /\ act' = [act EXCEPT ![t].pc = "locate", ![t].locked = TRUE]
  /\ UNCHANGED <<nvram, fix, running, history, counters>>

\* Mutant: a lock that is held is waited for, however long.
WaitForever(t) ==
  /\ act[t].pc = "lock" /\ lock = NONE
  /\ Fault /\ lapsed' = TRUE
  /\ Go(t, "locate")
  /\ UNCHANGED <<nvram, lock, fix, running, proven>>

\* The holder has kept the lock for EFI_NVRAM_LOCK_TIMEOUT, or the file cannot be
\* opened: the action goes on without it.
GoWithout(t) ==
  /\ act[t].pc = "lock"
  /\ IF lock # NONE THEN UNCHANGED counters ELSE Fault
  /\ lapsed' = TRUE
  /\ Go(t, "locate")
  /\ UNCHANGED <<nvram, lock, fix, running, proven>>

\* locate_partition, with any of the other disks attached: it fails beside a copy of
\* the booted disk, and when LoaderDevicePartUUID or sysfs cannot be read.
Locate(t) ==
  /\ act[t].pc = "locate"
  /\ \/ \E near \in SUBSET OtherDisks :
          LET part == SlotPartition({p \in Parts : p.disk \in near \cup {Disk}},
                                    Esp(running), act[t].slot) IN
          act' = [act EXCEPT ![t].pc = "list",
                    ![t].part = IF part = NONE THEN NONE ELSE part.uuid]
        /\ UNCHANGED counters
     \/ Go(t, "list") /\ Fault
  /\ UNCHANGED <<nvram, lock, fix, running, history>>

\* What is kept of a listing, and the step that follows.
Listing(t, step) ==
  LET num == Match(act[t].slot, act[t].part) IN
  act' = [act EXCEPT ![t].pc = step, ![t].num = num, ![t].order = order,
            ![t].active = num # NONE /\ entries[num].active]

List(t) ==
  /\ act[t].pc = "list"
  /\ IF Match(act[t].slot, act[t].part) # NONE THEN Listing(t, "write") /\ UNCHANGED lock
     ELSE IF act[t].part # NONE THEN Listing(t, "create") /\ UNCHANGED lock
     ELSE End(t)
  /\ UNCHANGED <<nvram, fix, running, history, counters>>

NewEntry(n, label, uuid) ==
  entries' = [entries EXCEPT ![n] = [label |-> label, uuid |-> uuid, active |-> TRUE]]

\* Mutant: efibootmgr -c, which puts the new entry at the head of BootOrder.
CreateFirst(t) ==
  /\ act[t].pc = "create" /\ Present # Nums
  /\ NewEntry(Least(Nums \ Present), act[t].slot, act[t].part)
  /\ order' = Promoted(order, Least(Nums \ Present))
  /\ Go(t, "relist")
  /\ UNCHANGED <<next, lock, fix, running, history, counters>>

\* create_efi_boot_entry: efibootmgr -C leaves BootOrder alone.
Create(t) ==
  /\ act[t].pc = "create" /\ Present # Nums
  /\ NewEntry(Least(Nums \ Present), act[t].slot, act[t].part)
  /\ Go(t, "relist")
  /\ UNCHANGED <<order, next, lock, fix, running, history, counters>>

Relist(t) ==
  /\ act[t].pc = "relist"
  /\ IF Match(act[t].slot, act[t].part) # NONE THEN Listing(t, "write") /\ UNCHANGED lock
                                              ELSE End(t)
  /\ UNCHANGED <<nvram, fix, running, history, counters>>

\* The entries that the call of the step "write" names.
Refers(a) == {a.num} \cup IF a.commit THEN {a.order[n] : n \in DOMAIN a.order} ELSE {}

SetNext(t) ==
  /\ act[t].pc = "write" /\ ~act[t].commit /\ act[t].num \in Present
  /\ next' = act[t].num
  /\ End(t)
  /\ UNCHANGED <<entries, order, fix, running, history, counters>>

\* Mutant: an inactive entry is only reordered.
SetOrderOnly(t) ==
  LET promoted == Promoted(act[t].order, act[t].num) IN
  /\ act[t].pc = "write" /\ act[t].commit
  /\ IF promoted = act[t].order THEN UNCHANGED order
     ELSE order' = promoted /\ Refers(act[t]) \subseteq Present
  /\ End(t)
  /\ UNCHANGED <<entries, next, fix, running, history, counters>>

SetOrder(t) ==
  LET promoted == Promoted(act[t].order, act[t].num) IN
  /\ act[t].pc = "write" /\ act[t].commit
  /\ IF promoted = act[t].order THEN UNCHANGED order
     ELSE order' = promoted /\ Refers(act[t]) \subseteq Present
  /\ IF act[t].active THEN End(t) ELSE Go(t, "activate") /\ UNCHANGED lock
  /\ UNCHANGED <<entries, next, fix, running, history, counters>>

\* BootOrder passes over an inactive entry.
Activate(t) ==
  /\ act[t].pc = "activate" /\ act[t].num \in Present
  /\ entries' = [entries EXCEPT ![act[t].num].active = TRUE]
  /\ End(t)
  /\ UNCHANGED <<order, next, fix, running, history, counters>>

\* efibootmgr fails: for an entry that is gone, for want of a free number, or for
\* some other reason.
Fails(t) ==
  /\ act[t].pc \in {"list", "create", "relist", "write", "activate"}
  /\ IF \/ act[t].pc = "create" /\ Present = Nums
        \/ act[t].pc = "activate" /\ act[t].num \notin Present
        \/ act[t].pc = "write" /\ ~Refers(act[t]) \subseteq Present
       THEN UNCHANGED counters ELSE Fault
  /\ End(t)
  /\ UNCHANGED <<nvram, fix, running, history>>

-----------------------------------------------------------------------------
(* The repair and the firmware *)

Stale(n) == entries[n].label \in Slots /\ entries[n].uuid # Esp(entries[n].label)

FixBegin ==
  /\ fix.pc = "ready" /\ lock = NONE /\ lock' = "fix"
  /\ fix' = [fix EXCEPT !.pc = "list"]
  /\ UNCHANGED <<nvram, act, running, history, counters>>

FixList ==
  /\ fix.pc = "list"
  /\ fix' = [pc |-> "edit", delete |-> {n \in Present : Stale(n)},
              add |-> {s \in Slots : ~\E n \in Present : entries[n].label = s /\ ~Stale(n)}]
  /\ UNCHANGED <<nvram, lock, act, running, history, counters>>

FixDelete(n) ==
  /\ fix.pc = "edit" /\ n \in fix.delete
  /\ fix' = [fix EXCEPT !.delete = @ \ {n}]
  /\ entries' = [entries EXCEPT ![n] = NONE]
  /\ order' = Without(order, n)
  /\ UNCHANGED <<next, lock, act, running, history, counters>>

FixAdd(s) ==
  /\ fix.pc = "edit" /\ fix.delete = {} /\ s \in fix.add
  /\ fix' = [fix EXCEPT !.add = @ \ {s}]
  /\ IF Present = Nums THEN UNCHANGED entries
                       ELSE NewEntry(Least(Nums \ Present), s, Esp(s))
  /\ UNCHANGED <<order, next, lock, act, running, history, counters>>

FixEnd ==
  /\ fix.pc = "edit" /\ fix.delete = {} /\ fix.add = {}
  /\ fix' = [fix EXCEPT !.pc = "over"] /\ Release("fix")
  /\ UNCHANGED <<nvram, act, running, history, counters>>

\* The first of the entries S that BootOrder names.
FirstInOrder(S) ==
  LET at == {m \in DOMAIN order : order[m] \in S}
  IN  IF at = {} THEN NONE ELSE order[Least(at)]

\* The firmware boots what BootNext names, else the first active entry of BootOrder,
\* else either slot, by the removable path.
Boots(s) ==
  LET good == {n \in Present : entries[n].label \in Slots /\ ~Stale(n)}
      head == FirstInOrder({n \in good : entries[n].active})
  IN  IF next \in good THEN s = entries[next].label
      ELSE head # NONE => s = entries[head].label

\* The device restarts, whatever is going on. Firmware may have lost its variables.
Reboot(s, wiped) ==
  /\ boots < MaxBoots /\ boots' = boots + 1
  /\ IF wiped THEN wipes < MaxWipes /\ wipes' = wipes + 1 ELSE Boots(s) /\ UNCHANGED wipes
  /\ running' = s /\ next' = NONE
  /\ IF wiped THEN entries' = [n \in Nums |-> NONE] /\ order' = <<>>
              ELSE UNCHANGED <<entries, order>>
  /\ act' = [t \in Threads |-> Idle] /\ lock' = NONE /\ fix' = Resting
  /\ UNCHANGED <<history, actions, faults>>

Init ==
  /\ \E device \in Stock : entries = device.entries /\ order = device.order
  /\ next = NONE
  /\ lock = NONE /\ act = [t \in Threads |-> Idle] /\ fix = Resting
  /\ running = FactorySlot
  /\ proven = {FactorySlot} /\ lapsed = FALSE
  /\ actions = 0 /\ boots = 0 /\ wipes = 0 /\ faults = 0

ActStep(t) ==
  TakeLock(t) \/ GoWithout(t) \/ Locate(t) \/ List(t) \/ Create(t) \/ Relist(t)
    \/ SetNext(t) \/ SetOrder(t) \/ Activate(t) \/ Fails(t)

Repair ==
  FixBegin \/ FixList \/ FixEnd
    \/ (\E n \in Nums : FixDelete(n)) \/ (\E s \in Slots : FixAdd(s))

Next ==
  \/ \E t \in Threads, s \in Slots, commit \in BOOLEAN : Begin(t, s, commit)
  \/ \E t \in Threads : ActStep(t)
  \/ Repair
  \/ \E s \in Slots, wiped \in BOOLEAN : Reboot(s, wiped)

Spec == Init /\ [][Next]_vars

\* A thread that has begun an action goes on. Nothing is asked of the repair.
FairSpec == Spec /\ \A t \in Threads : WF_vars(ActStep(t))

-----------------------------------------------------------------------------
(* Properties *)

\* BootOrder names no entry twice, and an action knows what it relies on.
TypeOK ==
  /\ entries \in [Nums -> Entries \cup {NONE}]
  /\ order \in Seq(Nums) /\ \A m, n \in DOMAIN order : order[m] = order[n] => m = n
  /\ next \in Nums \cup {NONE}
  /\ lock \in Threads \cup {"fix", NONE}
  /\ act \in [Threads -> [pc : {"idle", "lock", "locate", "list", "create", "relist", "write",
                               "activate"},
                         slot : Slots \cup {NONE}, commit : BOOLEAN, locked : BOOLEAN,
                         part : Uuids \cup {NONE}, num : Nums \cup {NONE}, order : Seq(Nums),
                         active : BOOLEAN]]
  /\ fix \in [pc : {"ready", "list", "edit", "over"}, delete : SUBSET Nums, add : SUBSET Slots]
  /\ running \in Slots
  /\ proven \subseteq Slots /\ lapsed \in BOOLEAN
  /\ actions \in 0..MaxActions /\ boots \in 0..MaxBoots
  /\ wipes \in 0..MaxWipes /\ faults \in 0..MaxFaults

\* Whatever the repair, other actions and other disks do meanwhile, BootNext ends up
\* at an entry of the slot: with the lock, at one of its label; where the partition
\* was found, with the lock or without it, at one that boots the slot's own ESP.
HitsItsSlot ==
  [][\A t \in Threads :
       SetNext(t) => LET e == entries[next'] IN
         /\ act[t].locked => e.label = act[t].slot
         /\ act[t].part # NONE => e.label = act[t].slot /\ e.uuid = Esp(act[t].slot)]_vars

\* What the firmware boots by itself, if it is a slot: the first active entry.
Default ==
  LET head == FirstInOrder({n \in Present : entries[n].active})
  IN  IF head = NONE THEN NONE ELSE entries[head].label

\* A commit that had the lock, as all did, leaves its slot the default, and every entry
\* of BootOrder in it, "so the firmware still has the old slot and its own entries to
\* fall back to" (promoted_boot_order).
CommitLasts ==
  [][\A t \in Threads :
       ~lapsed /\ act[t].commit /\ (SetOrder(t) \/ Activate(t)) /\ act'[t].pc = "idle"
         => /\ Default' = act[t].slot
            /\ \A n \in DOMAIN order : \E m \in DOMAIN order' : order'[m] = order[n]]_vars

\* No slot is the permanent default that no commit was begun for, whoever creates
\* entries (create_efi_boot_entry).
DefaultIsProven == lapsed \/ Default \notin Slots \ proven

\* "A wedged holder must not block a rollback" (apply_efibootmgr_action).
ActionEnds == \A t \in Threads : act[t].pc # "idle" ~> act[t].pc = "idle"
=============================================================================
