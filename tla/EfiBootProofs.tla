---------------------------- MODULE EfiBootProofs ---------------------------
(***************************************************************************)
(* What holds of EfiBoot for any slots, partitions, entries, threads and   *)
(* disks, and any number of actions, reboots, wipes and faults: the types, *)
(* that no slot is the permanent default before a commit was begun for it, *)
(* that BootNext ends up at an entry of the slot it was set for, and that  *)
(* a commit leaves its slot the default and loses no entry of BootOrder.   *)
(*                                                                         *)
(* The default is read off BootOrder, and every writer may have read its   *)
(* listing long ago. While no action has gone on without the lock, only    *)
(* its holder is beyond taking it (LocksHeld), so what a commit kept is    *)
(* what is there when it writes (Fresh). The default itself is not kept by *)
(* a deletion of the repair, which may uncover the entry behind it. What   *)
(* is kept is that an active entry of a slot nobody committed is always    *)
(* behind one that the repair does not delete (Guarded).                   *)
(*                                                                         *)
(* With or without the lock, an entry found for a known partition is that  *)
(* slot's own when it is used: the repair deletes none that boots the ESP  *)
(* of its label, and an entry's label and partition never change (Found).  *)
(***************************************************************************)
EXTENDS EfiBoot, WellFoundedInduction, TLAPS

\* The steps of an action.
Pcs == {"idle", "lock", "locate", "list", "create", "relist", "write", "activate"}

\* What a thread keeps of its action.
Action == [pc : Pcs, slot : Slots \cup {NONE}, commit : BOOLEAN, locked : BOOLEAN,
           part : Uuids \cup {NONE}, num : Nums \cup {NONE}, order : Seq(Nums), active : BOOLEAN]

\* The sequence s has no element twice.
Once(s) == \A m, n \in DOMAIN s : s[m] = s[n] => m = n

\* The entry n is there, for the slot s.
Own(n, s) == n \in Present /\ entries[n].label = s

\* What Stale says, of an entry itself.
Stray(e) == e.label \in Slots /\ e.uuid # Esp(e.label)

\* The thread t is past the lock.
Behind(t) == act[t].pc \notin {"idle", "lock"}

\* The repair edits under the lock, and so does an action that took it; unless one went
\* on without it, all did.
LocksHeld ==
  /\ fix.pc \in {"list", "edit"} => lock = "fix"
  /\ \A t \in Threads : act[t].locked => Behind(t) /\ lock = t
  /\ lapsed \/ \A t \in Threads : Behind(t) => act[t].locked

\* BootOrder names no entry that is not there: the repair removes what it deletes, and
\* efibootmgr refuses the rest.
OrderKnown == \A m \in DOMAIN order : order[m] \in Present

\* The repair deletes nothing that boots the ESP of its own label.
OnlyStale == \A n \in fix.delete : n \in Present /\ Stale(n)

\* An action is for a slot, the partition it found is that slot's ESP, and a commit is
\* for one that is proven.
Aims(t) ==
  /\ act[t].pc # "idle" => act[t].slot \in Slots
  /\ act[t].part # NONE => act[t].part = Esp(act[t].slot)
  /\ act[t].pc = "create" => act[t].part # NONE
  /\ act[t].pc = "activate" => act[t].commit
  /\ act[t].commit => act[t].slot \in proven
  /\ Once(act[t].order)

\* What an action is about to name is still what it looked for: under the lock, an
\* entry with the label of the slot; with a known partition, one for that partition
\* too.
Found(t) ==
  act[t].pc \in {"write", "activate"} =>
    /\ act[t].num \in Nums
    /\ act[t].locked \/ act[t].part # NONE => Own(act[t].num, act[t].slot)
    /\ act[t].part # NONE => entries[act[t].num].uuid = act[t].part

\* While all took the lock, what a commit kept of its listing is still so, and before
\* it activates its entry that entry is first.
Fresh(t) ==
  ~lapsed =>
    /\ act[t].pc = "write" => /\ act[t].order = order
                              /\ act[t].active = entries[act[t].num].active
    /\ act[t].pc = "activate" => order # <<>> /\ order[1] = act[t].num

\* Every active entry of a slot without a commit has another before it that is active,
\* not stale and of no such slot.
Guarded ==
  lapsed \/
    \A n \in DOMAIN order :
      entries[order[n]].active /\ entries[order[n]].label \in Slots \ proven =>
        \E m \in 1..(n - 1) : /\ entries[order[m]].active /\ ~Stale(order[m])
                              /\ entries[order[m]].label \notin Slots \ proven

\* The inductive invariant.
IInv ==
  /\ TypeOK /\ LocksHeld /\ OrderKnown /\ OnlyStale /\ Guarded
  /\ \A t \in Threads : Aims(t) /\ Found(t) /\ Fresh(t)

-----------------------------------------------------------------------------
(* Choices *)

\* A set of numbers that is not empty has a least element, as the numbers are well
\* founded.
LEMMA LeastOf == ASSUME NEW S \in SUBSET Nat, S # {}
                 PROVE  Least(S) \in S /\ \A m \in S : Least(S) <= m
<1>1. \E n \in S : \A m \in S : ~(<<m, n>> \in OpToRel(<, Nat))
  BY WFMin, NatLessThanWellFounded
<1>2. PICK n \in S : \A m \in S : ~(<<m, n>> \in OpToRel(<, Nat))
  BY <1>1
<1>3. ASSUME NEW m \in S PROVE n <= m
  <2>1. ~(m < n)
    <3>1. <<m, n>> \in Nat \X Nat /\ <<m, n>>[1] = m /\ <<m, n>>[2] = n
      OBVIOUS
    <3>2. m < n => <<m, n>> \in OpToRel(<, Nat)
      BY <3>1 DEF OpToRel
    <3> QED BY <1>2, <3>2
  <2> QED BY <2>1
<1>4. \E k \in S : \A m \in S : k <= m
  BY <1>3
<1> QED BY <1>4 DEF Least

\* efibootmgr takes a number that no entry has.
LEMMA FreeNumber == ASSUME TypeOK, Present # Nums
                    PROVE  Least(Nums \ Present) \in Nums \ Present
<1>1. Nums \ Present \in SUBSET Nat /\ Nums \ Present # {}
  BY EfiAssumption DEF Present
<1> QED BY <1>1, LeastOf

\* parse_efi_boot_num finds an entry of the label and the partition,
LEMMA MatchFinds ==
  ASSUME NEW label, NEW uuid, Match(label, uuid) # NONE
  PROVE  /\ Match(label, uuid) \in Nums /\ Own(Match(label, uuid), label)
         /\ uuid \in {NONE, entries[Match(label, uuid)].uuid}
<1> DEFINE S == {n \in Present : entries[n].label = label /\ uuid \in {NONE, entries[n].uuid}}
<1>1. Match(label, uuid) = Least(S) /\ S # {}
  BY DEF Match, First
<1>2. S \in SUBSET Nat
  BY EfiAssumption DEF Present
<1>3. Least(S) \in S
  BY <1>1, <1>2, LeastOf
<1> QED BY <1>1, <1>3 DEF Own, Present

\* or none.
LEMMA MatchType == ASSUME NEW label, NEW uuid
                   PROVE  Match(label, uuid) \in Nums \cup {NONE}
  BY MatchFinds

\* Every slot has an ESP on the booted disk.
LEMMA EspType == ASSUME NEW s \in Slots
                 PROVE  Esp(s) \in Uuids /\ s \in {p.label : p \in Parts}
  BY EfiAssumption DEF Esp, Uuids

\* Where locate_partition finds a partition, whatever disks are attached, it is the ESP
\* of the slot on the booted disk.
LEMMA LocatedEsp ==
  ASSUME NEW s \in Slots, NEW slot \in Slots, NEW near,
         SlotPartition({p \in Parts : p.disk \in near \cup {Disk}}, Esp(s), slot) # NONE
  PROVE  SlotPartition({p \in Parts : p.disk \in near \cup {Disk}}, Esp(s), slot).uuid = Esp(slot)
<1> DEFINE parts == {p \in Parts : p.disk \in near \cup {Disk}}
           own(x) == CHOOSE p \in Parts : p.disk = Disk /\ p.label = x
           S == {p \in parts : \E esp \in parts :
                  /\ Carrying(parts, Esp(s)) = {esp}
                  /\ Named(parts, esp.disk, slot) = {p}
                  /\ Carrying(parts, p.uuid) = {p}}
<1>1. \A x \in Slots : own(x) \in parts /\ own(x).disk = Disk /\ own(x).label = x
                       /\ own(x).uuid = Esp(x)
  BY EfiAssumption DEF Esp
<1> HIDE DEF own
<1>2. SlotPartition(parts, Esp(s), slot) \in S
  BY DEF SlotPartition, Only
<1>3. PICK esp \in parts : /\ Carrying(parts, Esp(s)) = {esp}
                           /\ Named(parts, esp.disk, slot) = {SlotPartition(parts, Esp(s), slot)}
  BY <1>2
<1> HIDE DEF parts
<1>4. esp = own(s)
  BY <1>1, <1>3 DEF Carrying
<1>5. own(slot) \in Named(parts, esp.disk, slot)
  BY <1>1, <1>4 DEF Named
<1>6. SlotPartition(parts, Esp(s), slot) = own(slot)
  BY <1>3, <1>5
<1> QED BY <1>1, <1>6 DEF parts

-----------------------------------------------------------------------------
(* BootOrder *)

\* A sequence without one of its elements, position by position.
LEMMA WithoutIndex ==
  ASSUME NEW S, NEW s \in Seq(S), Once(s), NEW k \in DOMAIN s
  PROVE  /\ Without(s, s[k]) = [m \in 1..(Len(s) - 1) |-> IF m < k THEN s[m] ELSE s[m + 1]]
         /\ Without(s, s[k]) \in Seq(S) /\ DOMAIN Without(s, s[k]) = 1..(Len(s) - 1)
         /\ Len(Without(s, s[k])) = Len(s) - 1 /\ Len(s) \in Nat \ {0} /\ k \in 1..Len(s)
<1>1. (CHOOSE j \in DOMAIN s : s[j] = s[k]) = k
  BY DEF Once
<1>2. Without(s, s[k]) = [m \in 1..(Len(s) - 1) |-> IF m < k THEN s[m] ELSE s[m + 1]]
  BY <1>1 DEF Without
<1>3. Len(s) \in Nat \ {0} /\ DOMAIN s = 1..Len(s) /\ k \in 1..Len(s)
  OBVIOUS
<1>4. \A m \in 1..(Len(s) - 1) : (IF m < k THEN s[m] ELSE s[m + 1]) \in S
  BY <1>3
<1>5. Without(s, s[k]) \in [1..(Len(s) - 1) -> S]
  BY <1>2, <1>4
<1>6. Len(s) - 1 \in Nat
  BY <1>3
<1> QED BY <1>2, <1>3, <1>5, <1>6

\* It has the others, none twice, and each of them has before it what it had, but for
\* the element that is gone.
LEMMA WithoutFacts ==
  ASSUME NEW S, NEW s \in Seq(S), Once(s), NEW n
  PROVE  /\ Without(s, n) \in Seq(S) /\ Once(Without(s, n))
         /\ \A i \in DOMAIN s : s[i] # n => \E j \in DOMAIN Without(s, n) : Without(s, n)[j] = s[i]
         /\ \A j \in DOMAIN Without(s, n) :
              \E i \in DOMAIN s :
                /\ s[i] = Without(s, n)[j] /\ s[i] # n
                /\ \A m \in 1..(i - 1) : s[m] # n => \E h \in 1..(j - 1) : Without(s, n)[h] = s[m]
<1>0. Len(s) \in Nat /\ DOMAIN s = 1..Len(s)
  OBVIOUS
<1>1. CASE ~\E k \in DOMAIN s : s[k] = n
  <2>1. Without(s, n) = s
    BY <1>1 DEF Without
  <2> QED BY <1>0, <1>1, <2>1
<1>2. CASE \E k \in DOMAIN s : s[k] = n
  <2>1. PICK k \in DOMAIN s : s[k] = n
    BY <1>2
  <2> DEFINE w == Without(s, n)
  <2>2. /\ w = [m \in 1..(Len(s) - 1) |-> IF m < k THEN s[m] ELSE s[m + 1]]
        /\ w \in Seq(S) /\ DOMAIN w = 1..(Len(s) - 1)
    BY <2>1, WithoutIndex
  <2> HIDE DEF w
  <2>3. /\ k \in 1..Len(s)
        /\ \A m \in DOMAIN w : w[m] = IF m < k THEN s[m] ELSE s[m + 1]
    BY <1>0, <2>2
  <2>4. \A i, j \in 1..Len(s) : s[i] = s[j] => i = j
    BY <1>0 DEF Once
  <2>5. Once(w)
    BY <1>0, <2>2, <2>3, <2>4 DEF Once
  <2>6. ASSUME NEW i \in DOMAIN s, s[i] # n PROVE \E j \in DOMAIN w : w[j] = s[i]
    <3>1. CASE i < k
      BY <1>0, <2>2, <2>3, <3>1
    <3>2. CASE ~(i < k)
      <4>1. i - 1 \in DOMAIN w /\ ~(i - 1 < k) /\ i - 1 + 1 = i
        BY <1>0, <2>1, <2>2, <2>3, <2>6, <3>2
      <4> QED BY <2>3, <4>1
    <3> QED BY <3>1, <3>2
  <2>7. ASSUME NEW j \in DOMAIN w
        PROVE  \E i \in DOMAIN s :
                 /\ s[i] = w[j] /\ s[i] # n
                 /\ \A m \in 1..(i - 1) : s[m] # n => \E h \in 1..(j - 1) : w[h] = s[m]
    <3> DEFINE i == IF j < k THEN j ELSE j + 1
    <3>1. i \in DOMAIN s /\ s[i] = w[j] /\ s[i] # n
      BY <1>0, <2>1, <2>2, <2>3, <2>4
    <3>2. ASSUME NEW m \in 1..(i - 1), s[m] # n PROVE \E h \in 1..(j - 1) : w[h] = s[m]
      <4>1. CASE m < k
        <5>1. m \in 1..(j - 1) /\ m \in DOMAIN w
          BY <1>0, <2>2, <2>3, <3>1, <4>1
        <5> QED BY <2>3, <4>1, <5>1
      <4>2. CASE ~(m < k)
        <5>1. m # k
          BY <2>1, <3>2
        <5>2. m - 1 \in 1..(j - 1) /\ m - 1 \in DOMAIN w /\ ~(m - 1 < k) /\ m - 1 + 1 = m
          BY <1>0, <2>2, <2>3, <3>1, <4>2, <5>1
        <5> QED BY <2>3, <5>2
      <4> QED BY <4>1, <4>2
    <3> HIDE DEF i
    <3> QED BY <3>1, <3>2
  <2> QED BY <2>2, <2>5, <2>6, <2>7 DEF w
<1> QED BY <1>1, <1>2

\* promoted_boot_order puts the entry first, keeps every other, none twice, and each of
\* the others has before it what it had.
LEMMA PromotedFacts ==
  ASSUME NEW S, NEW s \in Seq(S), Once(s), NEW n \in S
  PROVE  /\ Promoted(s, n) \in Seq(S) /\ Once(Promoted(s, n))
         /\ Promoted(s, n) # <<>> /\ Promoted(s, n)[1] = n /\ 1 \in DOMAIN Promoted(s, n)
         /\ \A i \in DOMAIN s : \E j \in DOMAIN Promoted(s, n) : Promoted(s, n)[j] = s[i]
         /\ \A j \in DOMAIN Promoted(s, n) : Promoted(s, n)[j] # n =>
              \E i \in DOMAIN s :
                /\ s[i] = Promoted(s, n)[j]
                /\ \A m \in 1..(i - 1) : \E h \in 1..(j - 1) : Promoted(s, n)[h] = s[m]
<1> DEFINE w == Without(s, n)
           p == Promoted(s, n)
<1>1. /\ w \in Seq(S) /\ Once(w)
      /\ \A i \in DOMAIN s : s[i] # n => \E j \in DOMAIN w : w[j] = s[i]
      /\ \A j \in DOMAIN w :
           \E i \in DOMAIN s :
             /\ s[i] = w[j] /\ s[i] # n
             /\ \A m \in 1..(i - 1) : s[m] # n => \E h \in 1..(j - 1) : w[h] = s[m]
  BY WithoutFacts
<1>2. p = <<n>> \o w
  BY DEF Promoted
<1> HIDE DEF w, p
<1>3. Len(w) \in Nat /\ DOMAIN w = 1..Len(w) /\ Len(s) \in Nat /\ DOMAIN s = 1..Len(s)
  BY <1>1
<1>4. /\ p \in Seq(S) /\ Len(p) = Len(w) + 1 /\ DOMAIN p = 1..Len(w) + 1 /\ p[1] = n
      /\ \A j \in DOMAIN w : p[j + 1] = w[j]
  <2>1. <<n>> \in Seq(S) /\ Len(<<n>>) = 1 /\ <<n>>[1] = n
    OBVIOUS
  <2>2. p \in Seq(S) /\ Len(p) = Len(w) + 1
    BY <1>1, <1>2, <2>1
  <2>3. DOMAIN p = 1..Len(w) + 1
    BY <2>2
  <2>4. \A j \in 1..Len(w) + 1 : p[j] = IF j <= 1 THEN <<n>>[j] ELSE w[j - 1]
    BY <1>1, <1>2, <1>3, <2>1
  <2>5. ASSUME NEW j \in DOMAIN w PROVE p[j + 1] = w[j]
    BY <1>3, <2>4
  <2>6. p[1] = n
    BY <1>3, <2>1, <2>4
  <2> QED BY <2>2, <2>3, <2>5, <2>6
<1>5. \A j \in DOMAIN p : j # 1 => j - 1 \in DOMAIN w /\ p[j] = w[j - 1] /\ p[j] # n
  <2> SUFFICES ASSUME NEW j \in DOMAIN p, j # 1
               PROVE  j - 1 \in DOMAIN w /\ p[j] = w[j - 1] /\ p[j] # n
    OBVIOUS
  <2>1. j - 1 \in DOMAIN w /\ j - 1 + 1 = j
    BY <1>3, <1>4
  <2>2. p[j] = w[j - 1]
    BY <1>4, <2>1
  <2> QED BY <1>1, <2>1, <2>2
<1>6. Once(p)
  <2>1. ASSUME NEW i \in DOMAIN p, NEW j \in DOMAIN p, p[i] = p[j] PROVE i = j
    <3>1. CASE i = 1 \/ j = 1
      BY <1>4, <1>5, <2>1, <3>1
    <3>2. CASE i # 1 /\ j # 1
      <4>1. i - 1 = j - 1
        BY <1>1, <1>5, <2>1, <3>2 DEF Once
      <4> QED BY <1>3, <1>4, <4>1
    <3> QED BY <3>1, <3>2
  <2> QED BY <2>1 DEF Once
<1>7. ASSUME NEW i \in DOMAIN s PROVE \E j \in DOMAIN p : p[j] = s[i]
  <2>1. CASE s[i] = n
    BY <1>3, <1>4, <2>1
  <2>2. CASE s[i] # n
    <3>1. PICK j \in DOMAIN w : w[j] = s[i]
      BY <1>1, <2>2
    <3>2. j + 1 \in DOMAIN p
      BY <1>3, <1>4, <3>1
    <3> QED BY <1>4, <3>1, <3>2
  <2> QED BY <2>1, <2>2
<1>8. ASSUME NEW j \in DOMAIN p, p[j] # n
      PROVE  \E i \in DOMAIN s :
               s[i] = p[j] /\ \A m \in 1..(i - 1) : \E h \in 1..(j - 1) : p[h] = s[m]
  <2>1. j # 1 /\ j - 1 \in DOMAIN w /\ p[j] = w[j - 1]
    BY <1>4, <1>5, <1>8
  <2>2. PICK i \in DOMAIN s :
          /\ s[i] = w[j - 1]
          /\ \A m \in 1..(i - 1) : s[m] # n => \E h \in 1..(j - 1 - 1) : w[h] = s[m]
    BY <1>1, <2>1
  <2>3. ASSUME NEW m \in 1..(i - 1) PROVE \E h \in 1..(j - 1) : p[h] = s[m]
    <3>1. CASE s[m] = n
      <4>1. 1 \in 1..(j - 1)
        BY <1>3, <1>4, <2>1
      <4> QED BY <1>4, <3>1, <4>1
    <3>2. CASE s[m] # n
      <4>1. PICK h \in 1..(j - 1 - 1) : w[h] = s[m]
        BY <2>2, <3>2
      <4>2. h + 1 \in 1..(j - 1) /\ h \in DOMAIN w
        BY <1>3, <1>4, <2>1
      <4> QED BY <1>4, <4>1, <4>2
    <3> QED BY <3>1, <3>2
  <2> QED BY <2>1, <2>2, <2>3
<1>9. 1 \in DOMAIN p /\ p # <<>>
  BY <1>3, <1>4
<1> QED BY <1>4, <1>6, <1>7, <1>8, <1>9 DEF p

-----------------------------------------------------------------------------
(* Initially, and what the steps share *)

\* A thread at rest,
LEMMA IdleAction == Idle \in Action
<1>1. <<>> \in Seq(Nums)
  OBVIOUS
<1> QED BY <1>1 DEF Idle, Action, Pcs

\* of which there is nothing to show.
LEMMA Rest ==
  ASSUME NEW t \in Threads, act[t] = Idle
  PROVE  Aims(t) /\ Found(t) /\ Fresh(t) /\ ~act[t].locked /\ ~Behind(t)
  BY DEF Idle, Aims, Found, Fresh, Once, Behind

\* The invariant holds as the device is provisioned.
LEMMA InitIInv == Init => IInv
<1> SUFFICES ASSUME Init PROVE IInv
  OBVIOUS
<1> USE DEF Init
<1>1. PICK device \in Stock : entries = device.entries /\ order = device.order
  OBVIOUS
<1>2. Provisioned(entries, order)
  BY <1>1, EfiAssumption
<1>3. \A t \in Threads : Aims(t) /\ Found(t) /\ Fresh(t) /\ ~act[t].locked /\ ~Behind(t)
  BY Rest
<1>4. LocksHeld
  BY <1>3 DEF LocksHeld, Resting
<1>5. OrderKnown
  BY <1>2 DEF Provisioned, OrderKnown, Present
<1>6. OnlyStale
  BY DEF OnlyStale, Resting
<1>7. Guarded
  <2>1. ASSUME NEW n \in DOMAIN order, entries[order[n]].active,
               entries[order[n]].label \in Slots \ proven
        PROVE  \E m \in 1..(n - 1) : /\ entries[order[m]].active /\ ~Stale(order[m])
                                     /\ entries[order[m]].label \notin Slots \ proven
    <3>1. PICK m \in 1..(n - 1) :
            entries[order[m]] = [label |-> FactorySlot, uuid |-> Esp(FactorySlot), active |-> TRUE]
      BY <1>2, <2>1 DEF Provisioned
    <3>2. /\ entries[order[m]].label = FactorySlot /\ entries[order[m]].uuid = Esp(FactorySlot)
          /\ entries[order[m]].active
      BY <3>1
    <3> QED BY <3>2 DEF Stale
  <2> QED BY <2>1 DEF Guarded
<1>8. TypeOK
  <2>1. act \in [Threads -> Action]
    BY IdleAction
  <2>2. fix \in [pc : {"ready", "list", "edit", "over"}, delete : SUBSET Nums, add : SUBSET Slots]
    BY DEF Resting
  <2>3. /\ actions \in 0..MaxActions /\ boots \in 0..MaxBoots
        /\ wipes \in 0..MaxWipes /\ faults \in 0..MaxFaults
    BY EfiAssumption
  <2> QED BY <1>2, <2>1, <2>2, <2>3, EfiAssumption DEF Provisioned, TypeOK, Action, Pcs
<1> QED BY <1>3, <1>4, <1>5, <1>6, <1>7, <1>8 DEF IInv

\* The types of the actions.
LEMMA ActTypes == ASSUME TypeOK
                  PROVE  act \in [Threads -> Action] /\ \A t \in Threads : act[t] \in Action
  BY DEF TypeOK, Action, Pcs

\* The types hold after a step of one action.
LEMMA Types ==
  ASSUME TypeOK, NEW t \in Threads, NEW r \in Action, act' = [act EXCEPT ![t] = r],
         lock' \in Threads \cup {"fix", NONE}, entries' \in [Nums -> Entries \cup {NONE}],
         order' \in Seq(Nums), Once(order'), next' \in Nums \cup {NONE},
         proven' \subseteq Slots, lapsed' \in BOOLEAN,
         actions' \in 0..MaxActions, faults' \in 0..MaxFaults,
         UNCHANGED <<fix, running, boots, wipes>>
  PROVE  /\ TypeOK' /\ act'[t] = r
         /\ \A u \in Threads : u # t => act'[u] = act[u]
<1>1. act' \in [Threads -> Action]
  BY ActTypes
<1> QED BY <1>1 DEF TypeOK, Once, Action, Pcs

\* A step that may be a fault counts it, and nothing else.
LEMMA Faulty == ASSUME TypeOK, Fault \/ UNCHANGED counters
                PROVE  faults' \in 0..MaxFaults /\ actions' = actions
                       /\ UNCHANGED <<boots, wipes>>
  BY EfiAssumption DEF TypeOK, Fault, counters

\* Where entries are only added and BootOrder stays, what was known of the entries is
\* still known: only the threads that moved are to be looked at.
LEMMA Grows ==
  ASSUME IInv, TypeOK', LocksHeld', OnlyStale', order' = order,
         \A n \in Present : n \in Present' /\ entries'[n] = entries[n],
         proven \subseteq proven', lapsed => lapsed',
         \A u \in Threads : act'[u] = act[u] \/ (Aims(u)' /\ Found(u)' /\ Fresh(u)')
  PROVE  IInv'
<1>1. \A m \in DOMAIN order : order[m] \in Present /\ order[m] \in Present'
                              /\ entries'[order[m]] = entries[order[m]]
  BY DEF IInv, OrderKnown
<1>2. OrderKnown'
  BY <1>1 DEF OrderKnown
<1>3. Guarded'
  <2>1. ASSUME ~lapsed', NEW n \in DOMAIN order, entries[order[n]].active,
               entries[order[n]].label \in Slots \ proven'
        PROVE  \E m \in 1..(n - 1) : /\ entries'[order[m]].active /\ ~Stale(order[m])'
                                     /\ entries'[order[m]].label \notin Slots \ proven'
    <3>1. PICK m \in 1..(n - 1) : /\ entries[order[m]].active /\ ~Stale(order[m])
                                  /\ entries[order[m]].label \notin Slots \ proven
      BY <2>1 DEF IInv, Guarded
    <3>2. m \in DOMAIN order
      BY DEF IInv, TypeOK
    <3> QED BY <1>1, <3>1, <3>2 DEF Stale
  <2> QED BY <1>1, <2>1 DEF Guarded
<1>4. ASSUME NEW u \in Threads, act'[u] = act[u] PROVE Aims(u)' /\ Found(u)' /\ Fresh(u)'
  <2>1. Aims(u)'
    BY <1>4 DEF IInv, Aims
  <2>2. Found(u)'
    BY <1>4 DEF IInv, Found, Own
  <2>3. Fresh(u)'
    <3>1. ~lapsed /\ act[u].pc = "write" => entries'[act[u].num] = entries[act[u].num]
      BY DEF IInv, LocksHeld, Behind, Found, Own
    <3> QED BY <1>4, <3>1 DEF IInv, Fresh
  <2> QED BY <2>1, <2>2, <2>3
<1> QED BY <1>2, <1>3, <1>4 DEF IInv

\* The lock is kept by an action that goes on, and dropped by one that ends.
LEMMA LockKept ==
  ASSUME IInv, NEW t \in Threads, \A u \in Threads : u # t => act'[u] = act[u], fix' = fix,
         \/ lock' = lock /\ act'[t].locked = act[t].locked /\ (Behind(t)' <=> Behind(t))
         \/ Release(t) /\ ~act'[t].locked /\ ~Behind(t)',
         lapsed' = lapsed
  PROVE  LocksHeld'
<1>1. fix.pc \in {"list", "edit"} => lock' = "fix"
  BY EfiAssumption DEF IInv, LocksHeld, Release
<1>2. ASSUME NEW u \in Threads PROVE act'[u].locked => Behind(u)' /\ lock' = u
  BY <1>2 DEF IInv, LocksHeld, Release, Behind
<1>3. ASSUME NEW u \in Threads, ~lapsed, Behind(u)' PROVE act'[u].locked
  BY <1>3 DEF IInv, LocksHeld, Release, Behind
<1> QED BY <1>1, <1>2, <1>3 DEF LocksHeld

-----------------------------------------------------------------------------
(* The steps of an action that write no variable *)

\* A step that leaves the variables alone.
LEMMA MoveKnown ==
  ASSUME IInv, NEW t \in Threads, NEW r \in Action, act' = [act EXCEPT ![t] = r],
         UNCHANGED <<nvram, fix, running, boots, wipes>>,
         lock' \in Threads \cup {"fix", NONE}, proven \subseteq proven', proven' \subseteq Slots,
         lapsed' \in BOOLEAN, lapsed => lapsed',
         actions' \in 0..MaxActions, faults' \in 0..MaxFaults,
         LocksHeld', Aims(t)', Found(t)', Fresh(t)'
  PROVE  IInv'
<1>1. TypeOK' /\ \A u \in Threads : u # t => act'[u] = act[u]
  BY Types DEF IInv, TypeOK, nvram, Once
<1>2. OnlyStale'
  BY DEF IInv, OnlyStale, Present, Stale, nvram
<1>3. \A n \in Present : n \in Present' /\ entries'[n] = entries[n]
  BY DEF nvram, Present
<1> QED BY <1>1, <1>2, <1>3, Grows DEF nvram

\* What such a step makes of the actions.
LEMMA NewAct ==
  ASSUME TypeOK, NEW t \in Threads, NEW r, act' = [act EXCEPT ![t] = r]
  PROVE  act'[t] = r /\ \A u \in Threads : u # t => act'[u] = act[u]
  BY DEF TypeOK

\* An action begins; a commit makes its slot proven.
LEMMA BeginKnown ==
  ASSUME IInv, NEW t \in Threads, NEW s \in Slots, NEW commit \in BOOLEAN, Begin(t, s, commit)
  PROVE  IInv'
<1> DEFINE r == [Idle EXCEPT !.pc = "lock", !.slot = s, !.commit = commit]
<1>1. r \in Action
  BY IdleAction DEF Action, Pcs
<1>2. /\ r.pc = "lock" /\ r.slot = s /\ r.commit = commit /\ r.part = NONE /\ r.locked = FALSE
      /\ r.order = <<>>
  BY DEF Idle
<1>3. /\ act' = [act EXCEPT ![t] = r] /\ act[t].pc = "idle"
      /\ proven' = IF commit THEN proven \cup {s} ELSE proven
      /\ actions < MaxActions /\ actions' = actions + 1
      /\ UNCHANGED <<nvram, lock, fix, running, lapsed, boots, wipes, faults>>
  BY DEF Begin
<1> HIDE DEF r
<1>4. act'[t] = r /\ \A u \in Threads : u # t => act'[u] = act[u]
  BY <1>3, NewAct DEF IInv
<1>5. LocksHeld'
  <2>1. act[t].locked = FALSE /\ ~Behind(t) /\ ~Behind(t)'
    BY <1>2, <1>3, <1>4, ActTypes DEF IInv, LocksHeld, Behind, Action
  <2> QED BY <1>2, <1>3, <1>4, <2>1, LockKept
<1>6. Aims(t)' /\ Found(t)' /\ Fresh(t)'
  BY <1>2, <1>3, <1>4 DEF Aims, Found, Fresh, Once
<1>7. actions' \in 0..MaxActions
  BY <1>3, EfiAssumption DEF IInv, TypeOK
<1> QED BY <1>1, <1>3, <1>5, <1>6, <1>7, MoveKnown DEF IInv, TypeOK

\* It takes the lock,
LEMMA TakeLockKnown ==
  ASSUME IInv, NEW t \in Threads, TakeLock(t)
  PROVE  IInv'
<1> DEFINE r == [act[t] EXCEPT !.pc = "locate", !.locked = TRUE]
<1>1. r \in Action /\ r.pc = "locate" /\ r.slot = act[t].slot /\ r.commit = act[t].commit
      /\ r.part = act[t].part /\ r.locked /\ r.order = act[t].order
  BY ActTypes DEF Action, Pcs, IInv
<1>2. /\ act' = [act EXCEPT ![t] = r] /\ act[t].pc = "lock" /\ lock = NONE /\ lock' = t
      /\ UNCHANGED <<nvram, fix, running, history, counters>>
  BY DEF TakeLock
<1> HIDE DEF r
<1>3. act'[t] = r /\ \A u \in Threads : u # t => act'[u] = act[u]
  BY <1>2, NewAct DEF IInv
<1>4. LocksHeld'
  BY <1>1, <1>2, <1>3, EfiAssumption DEF IInv, LocksHeld, Behind, history
<1>5. Aims(t)' /\ Found(t)' /\ Fresh(t)'
  BY <1>1, <1>2, <1>3 DEF IInv, Aims, Found, Fresh, history
<1> QED BY <1>1, <1>2, <1>4, <1>5, MoveKnown DEF IInv, TypeOK, history, counters

\* or goes on without it, and nothing is known by the lock from then on.
LEMMA GoWithoutKnown ==
  ASSUME IInv, NEW t \in Threads, GoWithout(t)
  PROVE  IInv'
<1> DEFINE r == [act[t] EXCEPT !.pc = "locate"]
<1>1. r \in Action /\ r.pc = "locate" /\ r.slot = act[t].slot /\ r.commit = act[t].commit
      /\ r.part = act[t].part /\ r.locked = act[t].locked /\ r.order = act[t].order
  BY ActTypes DEF Action, Pcs, IInv
<1>2. /\ act' = [act EXCEPT ![t] = r] /\ act[t].pc = "lock" /\ lapsed' = TRUE
      /\ UNCHANGED <<nvram, lock, fix, running, proven>>
      /\ Fault \/ UNCHANGED counters
  BY DEF GoWithout, Go
<1>3. faults' \in 0..MaxFaults /\ actions' = actions /\ UNCHANGED <<boots, wipes>>
  BY <1>2, Faulty DEF IInv
<1> HIDE DEF r
<1>4. act'[t] = r /\ \A u \in Threads : u # t => act'[u] = act[u]
  BY <1>2, NewAct DEF IInv
<1>5. LocksHeld'
  BY <1>1, <1>2, <1>4 DEF IInv, LocksHeld, Behind
<1>6. Aims(t)' /\ Found(t)' /\ Fresh(t)'
  BY <1>1, <1>2, <1>4 DEF IInv, Aims, Found, Fresh
<1> QED BY <1>1, <1>2, <1>3, <1>5, <1>6, MoveKnown DEF IInv, TypeOK

\* It looks for the partition,
LEMMA LocateKnown ==
  ASSUME IInv, NEW t \in Threads, Locate(t)
  PROVE  IInv'
<1>1. act[t].pc = "locate" /\ act[t].slot \in Slots /\ act[t] \in Action /\ running \in Slots
  BY ActTypes DEF Locate, IInv, Aims, TypeOK
<1>2. PICK part \in Uuids \cup {NONE} :
        /\ act' = [act EXCEPT ![t] = [act[t] EXCEPT !.pc = "list", !.part = part]]
        /\ part # NONE => part = Esp(act[t].slot) \/ part = act[t].part
        /\ Fault \/ UNCHANGED counters
  <2>1. CASE Go(t, "list") /\ Fault
    <3>1. /\ act' = [act EXCEPT ![t] = [act[t] EXCEPT !.pc = "list", !.part = act[t].part]]
          /\ act[t].part \in Uuids \cup {NONE}
      BY <1>1, <2>1 DEF Go, Action
    <3> QED BY <2>1, <3>1
  <2>2. ASSUME NEW near \in SUBSET OtherDisks,
               LET part == SlotPartition({p \in Parts : p.disk \in near \cup {Disk}},
                                         Esp(running), act[t].slot) IN
               act' = [act EXCEPT ![t].pc = "list",
                         ![t].part = IF part = NONE THEN NONE ELSE part.uuid],
               UNCHANGED counters
        PROVE  \E part \in Uuids \cup {NONE} :
                 /\ act' = [act EXCEPT ![t] = [act[t] EXCEPT !.pc = "list", !.part = part]]
                 /\ part # NONE => part = Esp(act[t].slot)
    <3> DEFINE found == SlotPartition({p \in Parts : p.disk \in near \cup {Disk}},
                                      Esp(running), act[t].slot)
               part == IF found = NONE THEN NONE ELSE found.uuid
    <3>1. found # NONE => found.uuid = Esp(act[t].slot)
      BY <1>1, LocatedEsp
    <3>2. act' = [act EXCEPT ![t] = [act[t] EXCEPT !.pc = "list", !.part = part]]
      BY <2>2 DEF TypeOK, IInv
    <3> HIDE DEF found
    <3>3. part \in Uuids \cup {NONE} /\ (part # NONE => part = Esp(act[t].slot))
      BY <1>1, <3>1, EspType
    <3> QED BY <3>2, <3>3
  <2> QED BY <2>1, <2>2 DEF Locate
<1> DEFINE r == [act[t] EXCEPT !.pc = "list", !.part = part]
<1>3. r \in Action /\ r.pc = "list" /\ r.slot = act[t].slot /\ r.commit = act[t].commit
      /\ r.part = part /\ r.locked = act[t].locked /\ r.order = act[t].order
  BY <1>1 DEF Action, Pcs
<1>4. act' = [act EXCEPT ![t] = r] /\ UNCHANGED <<nvram, lock, fix, running, history>>
  BY <1>2 DEF Locate
<1>5. faults' \in 0..MaxFaults /\ actions' = actions /\ UNCHANGED <<boots, wipes>>
  BY <1>2, Faulty DEF IInv
<1> HIDE DEF r
<1>6. act'[t] = r /\ \A u \in Threads : u # t => act'[u] = act[u]
  BY <1>4, NewAct DEF IInv
<1>7. LocksHeld'
  <2>1. Behind(t) /\ Behind(t)'
    BY <1>1, <1>3, <1>6 DEF Behind
  <2> QED BY <1>3, <1>4, <1>6, <2>1, LockKept DEF history
<1>8. Aims(t)'
  <2>1. part # NONE => part = Esp(act[t].slot)
    BY <1>2 DEF IInv, Aims
  <2>2. act[t].commit => act[t].slot \in proven'
    BY <1>4 DEF IInv, Aims, history
  <2>3. Once(act[t].order)
    BY DEF IInv, Aims
  <2> QED BY <1>1, <1>3, <1>6, <2>1, <2>2, <2>3 DEF Aims
<1>9. Found(t)' /\ Fresh(t)'
  BY <1>3, <1>6 DEF Found, Fresh
<1> QED BY <1>3, <1>4, <1>5, <1>7, <1>8, <1>9, MoveKnown DEF IInv, TypeOK, history

\* and keeps a listing.
LEMMA ListingKnown ==
  ASSUME IInv, NEW t \in Threads, Behind(t), NEW step \in {"write", "create"}, Listing(t, step),
         step = "write" => Match(act[t].slot, act[t].part) # NONE,
         step = "create" => act[t].part # NONE,
         UNCHANGED <<nvram, lock, fix, running, history, counters>>
  PROVE  IInv'
<1> DEFINE num == Match(act[t].slot, act[t].part)
           active == num # NONE /\ entries[num].active
           r == [act[t] EXCEPT !.pc = step, !.num = num, !.order = order, !.active = active]
<1>1. num \in Nums \cup {NONE}
  BY MatchType
<1>2. /\ num # NONE => /\ num \in Nums /\ Own(num, act[t].slot)
                       /\ act[t].part \in {NONE, entries[num].uuid}
      /\ act' = [act EXCEPT ![t] = r]
      /\ step = "write" => num # NONE
  BY MatchFinds DEF Listing
<1> HIDE DEF num
<1>3. active \in BOOLEAN /\ (num # NONE => active = entries[num].active)
  BY <1>2 DEF IInv, TypeOK, Entries, Own, Present
<1> HIDE DEF active
<1>4. r \in Action /\ r.pc = step /\ r.slot = act[t].slot /\ r.commit = act[t].commit
      /\ r.part = act[t].part /\ r.locked = act[t].locked /\ r.order = order /\ r.num = num
      /\ r.active = active
  BY <1>1, <1>3, ActTypes DEF Action, Pcs, IInv, TypeOK
<1> HIDE DEF r
<1>5. act'[t] = r /\ \A u \in Threads : u # t => act'[u] = act[u]
  BY <1>2, NewAct DEF IInv
<1>6. LocksHeld'
  <2>1. Behind(t)'
    BY <1>4, <1>5 DEF Behind
  <2> QED BY <1>4, <1>5, <2>1, LockKept DEF history
<1>7. Aims(t)'
  BY <1>4, <1>5 DEF IInv, Aims, TypeOK, Once, history, Behind
<1>8. Found(t)'
  BY <1>2, <1>4, <1>5 DEF Found, Own, Present, nvram
<1>9. Fresh(t)'
  BY <1>2, <1>3, <1>4, <1>5 DEF Fresh, nvram
<1> QED BY <1>2, <1>4, <1>6, <1>7, <1>8, <1>9, MoveKnown DEF IInv, TypeOK, history, counters

\* An action ends, and may have set BootNext.
LEMMA EndKnown ==
  ASSUME IInv, NEW t \in Threads, End(t),
         UNCHANGED <<entries, order, fix, running, history, boots, wipes>>,
         next' \in Nums \cup {NONE}, actions' = actions, faults' \in 0..MaxFaults
  PROVE  IInv'
<1>1. act'[t] = Idle /\ \A u \in Threads : u # t => act'[u] = act[u]
  BY NewAct DEF End, IInv
<1>2. /\ Aims(t)' /\ Found(t)' /\ Fresh(t)' /\ ~act'[t].locked /\ ~Behind(t)'
  BY <1>1 DEF Idle, Aims, Found, Fresh, Once, Behind
<1>3. LocksHeld'
  BY <1>1, <1>2, LockKept DEF End, history
<1>4. TypeOK'
  <2>1. lock' \in Threads \cup {"fix", NONE}
    BY DEF IInv, TypeOK, End, Release
  <2> QED BY <2>1, IdleAction, Types DEF IInv, TypeOK, End, Once, history
<1>5. OnlyStale'
  BY DEF IInv, OnlyStale, Present, Stale
<1>6. \A n \in Present : n \in Present' /\ entries'[n] = entries[n]
  BY DEF Present
<1> QED BY <1>1, <1>2, <1>3, <1>4, <1>5, <1>6, Grows DEF history

\* The listings, BootNext and the failures.
LEMMA ListKnown ==
  ASSUME IInv, NEW t \in Threads, List(t) \/ Relist(t) \/ SetNext(t) \/ Fails(t)
  PROVE  IInv'
<1>1. CASE List(t) \/ Relist(t)
  <2>1. Behind(t) /\ UNCHANGED <<nvram, fix, running, history, counters>>
    BY <1>1 DEF List, Relist, Behind
  <2>2. CASE End(t)
    BY <2>1, <2>2, EndKnown DEF nvram, counters, IInv, TypeOK
  <2>3. CASE Listing(t, "write") /\ Match(act[t].slot, act[t].part) # NONE /\ lock' = lock
    BY <2>1, <2>3, ListingKnown
  <2>4. CASE Listing(t, "create") /\ act[t].part # NONE /\ lock' = lock
    BY <2>1, <2>4, ListingKnown
  <2> QED BY <1>1, <2>2, <2>3, <2>4 DEF List, Relist
<1>2. CASE SetNext(t)
  <2>1. act[t].num \in Nums
    BY <1>2 DEF SetNext, Present
  <2> QED BY <1>2, <2>1, EndKnown DEF SetNext, counters, IInv, TypeOK
<1>3. CASE Fails(t)
  <2>1. Fault \/ UNCHANGED counters
    BY <1>3 DEF Fails
  <2>2. faults' \in 0..MaxFaults /\ actions' = actions /\ UNCHANGED <<boots, wipes>>
    BY <2>1, Faulty DEF IInv
  <2> QED BY <1>3, <2>2, EndKnown DEF Fails, nvram, IInv, TypeOK
<1> QED BY <1>1, <1>2, <1>3

-----------------------------------------------------------------------------
(* An entry is created *)

\* A new entry is at a free number,
LEMMA NewEntryGrows ==
  ASSUME IInv, Present # Nums, NEW s \in Slots,
         NewEntry(Least(Nums \ Present), s, Esp(s))
  PROVE  /\ entries' \in [Nums -> Entries \cup {NONE}]
         /\ \A n \in Present : n \in Present' /\ entries'[n] = entries[n]
<1> DEFINE n == Least(Nums \ Present)
           e == [label |-> s, uuid |-> Esp(s), active |-> TRUE]
<1>1. n \in Nums \ Present
  BY FreeNumber DEF IInv
<1>2. e \in Entries
  BY EspType DEF Entries
<1>3. entries' = [entries EXCEPT ![n] = e]
  BY DEF NewEntry
<1> HIDE DEF n, e
<1> QED BY <1>1, <1>2, <1>3 DEF IInv, TypeOK, Present

\* so the step that creates it for an action only adds.
LEMMA CreateKnown ==
  ASSUME IInv, NEW t \in Threads, Create(t)
  PROVE  IInv'
<1> DEFINE r == [act[t] EXCEPT !.pc = "relist"]
<1>1. r \in Action /\ r.pc = "relist" /\ r.slot = act[t].slot /\ r.commit = act[t].commit
      /\ r.part = act[t].part /\ r.locked = act[t].locked /\ r.order = act[t].order
  BY ActTypes DEF Action, Pcs, IInv
<1>2. /\ act' = [act EXCEPT ![t] = r] /\ act[t].pc = "create" /\ Present # Nums
      /\ NewEntry(Least(Nums \ Present), act[t].slot, act[t].part)
      /\ UNCHANGED <<order, next, lock, fix, running, history, counters>>
  BY DEF Create, Go
<1>3. act[t].slot \in Slots /\ act[t].part = Esp(act[t].slot)
  BY <1>2 DEF IInv, Aims
<1> HIDE DEF r
<1>4. act'[t] = r /\ \A u \in Threads : u # t => act'[u] = act[u]
  BY <1>2, NewAct DEF IInv
<1>5. /\ entries' \in [Nums -> Entries \cup {NONE}]
      /\ \A n \in Present : n \in Present' /\ entries'[n] = entries[n]
  BY <1>2, <1>3, NewEntryGrows
<1>6. TypeOK'
  BY <1>1, <1>2, <1>5, Types DEF IInv, TypeOK, Once, history, counters
<1>7. LocksHeld'
  <2>1. Behind(t) /\ Behind(t)'
    BY <1>1, <1>2, <1>4 DEF Behind
  <2> QED BY <1>1, <1>2, <1>4, <2>1, LockKept DEF history
<1>8. OnlyStale'
  BY <1>2, <1>5 DEF IInv, OnlyStale, Stale
<1>9. Aims(t)' /\ Found(t)' /\ Fresh(t)'
  BY <1>1, <1>2, <1>4 DEF IInv, Aims, Found, Fresh, history
<1> QED BY <1>2, <1>4, <1>5, <1>6, <1>7, <1>8, <1>9, Grows DEF history

-----------------------------------------------------------------------------
(* The repair only adds, unless it deletes *)

\* A step of the repair that deletes nothing.
LEMMA FixGrows ==
  ASSUME IInv, UNCHANGED <<order, next, act, running, history, counters>>,
         fix' \in [pc : {"ready", "list", "edit", "over"}, delete : SUBSET Nums, add : SUBSET Slots],
         lock' \in Threads \cup {"fix", NONE},
         entries' \in [Nums -> Entries \cup {NONE}],
         \A n \in Present : n \in Present' /\ entries'[n] = entries[n],
         LocksHeld', OnlyStale'
  PROVE  IInv'
<1>1. TypeOK'
  BY DEF IInv, TypeOK, history, counters
<1> QED BY <1>1, Grows DEF history

\* The types of the repair.
LEMMA FixTypes ==
  ASSUME IInv
  PROVE  /\ fix.pc \in {"ready", "list", "edit", "over"}
         /\ fix.delete \subseteq Nums /\ fix.add \subseteq Slots
         /\ fix = [pc |-> fix.pc, delete |-> fix.delete, add |-> fix.add]
  BY DEF IInv, TypeOK

\* It takes the lock, lists, and drops the lock.
LEMMA FixMovesKnown ==
  ASSUME IInv, FixBegin \/ FixList \/ FixEnd
  PROVE  IInv'
<1>0. UNCHANGED <<nvram, act, running, history, counters>>
  BY DEF FixBegin, FixList, FixEnd
<1>1. /\ entries' \in [Nums -> Entries \cup {NONE}]
      /\ \A n \in Present : n \in Present' /\ entries'[n] = entries[n]
  BY <1>0 DEF nvram, IInv, TypeOK, Present
<1>2. /\ fix' \in [pc : {"ready", "list", "edit", "over"}, delete : SUBSET Nums, add : SUBSET Slots]
      /\ OnlyStale' /\ lock' \in Threads \cup {"fix", NONE} /\ LocksHeld'
  <2>1. CASE FixBegin
    <3>1. fix.pc = "ready" /\ lock = NONE /\ lock' = "fix"
          /\ fix' = [pc |-> "list", delete |-> fix.delete, add |-> fix.add]
      BY <2>1, FixTypes DEF FixBegin, IInv, TypeOK
    <3>2. \A t \in Threads : ~act[t].locked
      BY <3>1, EfiAssumption DEF IInv, LocksHeld
    <3>3. LocksHeld'
      BY <1>0, <3>1, <3>2 DEF IInv, LocksHeld, Behind, history
    <3>4. OnlyStale'
      BY <1>0, <3>1 DEF IInv, OnlyStale, Stale, Present, nvram
    <3> QED BY <3>1, <3>3, <3>4, FixTypes
  <2>2. CASE FixList
    <3> DEFINE stale == {n \in Present : Stale(n)}
               missing == {s \in Slots : ~\E n \in Present : entries[n].label = s /\ ~Stale(n)}
    <3>1. /\ fix.pc = "list" /\ lock' = lock
          /\ fix' = [pc |-> "edit", delete |-> stale, add |-> missing]
      BY <2>2 DEF FixList
    <3>2. stale \subseteq Nums /\ missing \subseteq Slots
      BY DEF Present
    <3>3. OnlyStale'
      BY <1>0, <3>1 DEF OnlyStale, Stale, Present, nvram
    <3> HIDE DEF stale, missing
    <3>4. fix'.pc = "edit"
      BY <3>1
    <3>5. LocksHeld'
      BY <1>0, <3>1, <3>4 DEF IInv, LocksHeld, Behind, history
    <3> QED BY <3>1, <3>2, <3>3, <3>5 DEF IInv, TypeOK
  <2>3. CASE FixEnd
    <3>1. fix.pc = "edit" /\ fix' = [pc |-> "over", delete |-> fix.delete, add |-> fix.add]
          /\ Release("fix")
      BY <2>3, FixTypes DEF FixEnd, IInv, TypeOK
    <3>2. lock = "fix" /\ lock' = NONE
      BY <3>1 DEF IInv, LocksHeld, Release
    <3>3. \A t \in Threads : ~act[t].locked
      BY <3>2, EfiAssumption DEF IInv, LocksHeld
    <3>4. LocksHeld'
      BY <1>0, <3>1, <3>2, <3>3 DEF IInv, LocksHeld, Behind, history
    <3>5. OnlyStale'
      BY <1>0, <3>1 DEF IInv, OnlyStale, Stale, Present, nvram
    <3> QED BY <3>1, <3>2, <3>4, <3>5, FixTypes
  <2> QED BY <2>1, <2>2, <2>3
<1> QED BY <1>0, <1>1, <1>2, FixGrows DEF nvram

\* It creates an entry.
LEMMA FixAddKnown ==
  ASSUME IInv, NEW s \in Slots, FixAdd(s)
  PROVE  IInv'
<1>1. /\ fix.pc = "edit" /\ UNCHANGED <<order, next, lock, act, running, history, counters>>
      /\ fix' = [pc |-> "edit", delete |-> fix.delete, add |-> fix.add \ {s}]
      /\ UNCHANGED entries \/ (Present # Nums /\ NewEntry(Least(Nums \ Present), s, Esp(s)))
  BY FixTypes DEF FixAdd, IInv, TypeOK
<1>2. /\ entries' \in [Nums -> Entries \cup {NONE}]
      /\ \A n \in Present : n \in Present' /\ entries'[n] = entries[n]
  <2>1. CASE UNCHANGED entries
    BY <2>1 DEF IInv, TypeOK, Present
  <2> QED BY <1>1, <2>1, NewEntryGrows
<1>3. LocksHeld'
  BY <1>1 DEF IInv, LocksHeld, Behind, history
<1>4. OnlyStale'
  BY <1>1, <1>2 DEF IInv, OnlyStale, Stale
<1>5. fix' \in [pc : {"ready", "list", "edit", "over"}, delete : SUBSET Nums, add : SUBSET Slots]
      /\ lock' \in Threads \cup {"fix", NONE}
  BY <1>1, FixTypes DEF IInv, TypeOK
<1> QED BY <1>1, <1>2, <1>3, <1>4, <1>5, FixGrows

-----------------------------------------------------------------------------
(* The writers of BootOrder *)

\* While all took the lock, a thread past it is alone there.
LEMMA OthersWait ==
  ASSUME IInv, NEW t \in Threads, Behind(t), ~lapsed
  PROVE  act[t].locked /\ \A u \in Threads : u # t => ~Behind(u)
  BY DEF IInv, LocksHeld

\* A commit that writes has an entry of a proven slot.
LEMMA Writes ==
  ASSUME IInv, NEW t \in Threads, act[t].pc \in {"write", "activate"}, act[t].commit
  PROVE  /\ act[t].num \in Nums /\ act[t].slot \in Slots /\ act[t].slot \in proven /\ Behind(t)
         /\ Once(act[t].order) /\ act[t].order \in Seq(Nums) /\ act[t] \in Action
         /\ ~lapsed => entries[act[t].num].label = act[t].slot
<1>1. act[t] \in Action /\ Behind(t)
  BY ActTypes DEF IInv, Behind
<1>2. Aims(t) /\ Found(t)
  BY DEF IInv
<1>3. ~lapsed => act[t].locked
  BY <1>1 DEF IInv, LocksHeld
<1> QED BY <1>1, <1>2, <1>3 DEF Aims, Found, Own, Action

\* A commit writes BootOrder: only an entry of its own slot, which is proven, gets
\* ahead of another.
LEMMA SetOrderKnown ==
  ASSUME IInv, NEW t \in Threads, SetOrder(t)
  PROVE  IInv'
<1> DEFINE a == act[t].order
           num == act[t].num
           promoted == Promoted(a, num)
<1>1. /\ act[t].pc = "write" /\ act[t].commit
      /\ \/ promoted = a /\ UNCHANGED order
         \/ order' = promoted /\ Refers(act[t]) \subseteq Present
      /\ \/ End(t)
         \/ Go(t, "activate") /\ UNCHANGED lock
      /\ UNCHANGED <<entries, next, fix, running, history, counters>>
  BY DEF SetOrder
<1>2. /\ num \in Nums /\ act[t].slot \in Slots /\ act[t].slot \in proven /\ Behind(t)
      /\ Once(a) /\ a \in Seq(Nums) /\ act[t] \in Action
      /\ ~lapsed => entries[num].label = act[t].slot
  BY <1>1, Writes
<1>3. /\ promoted \in Seq(Nums) /\ Once(promoted)
      /\ promoted # <<>> /\ promoted[1] = num
      /\ \A j \in DOMAIN promoted : promoted[j] # num =>
           \E i \in DOMAIN a :
             /\ a[i] = promoted[j]
             /\ \A m \in 1..(i - 1) : \E h \in 1..(j - 1) : promoted[h] = a[m]
  <2>1. a \in Seq(Nums) /\ Once(a) /\ num \in Nums
    BY <1>2
  <2> HIDE DEF a, num
  <2> QED BY <2>1, PromotedFacts
<1>4. ~lapsed => a = order
  BY <1>1 DEF IInv, Fresh
<1> HIDE DEF promoted
<1>5. order' \in Seq(Nums) /\ Once(order')
  BY <1>1, <1>3 DEF IInv, TypeOK, Once
<1>6. ~lapsed => order' = promoted
  BY <1>1, <1>4
<1>7. OrderKnown'
  <2>1. CASE UNCHANGED order
    BY <1>1, <2>1 DEF IInv, OrderKnown, Present
  <2>2. CASE order' = promoted /\ Refers(act[t]) \subseteq Present
    <3>1. num \in Present /\ \A i \in DOMAIN a : a[i] \in Present
      BY <1>1, <2>2 DEF Refers
    <3>2. \A j \in DOMAIN promoted : promoted[j] \in Present
      BY <1>3, <3>1
    <3> QED BY <1>1, <2>2, <3>2 DEF OrderKnown, Present
  <2> QED BY <1>1, <2>1, <2>2
<1>8. Guarded'
  <2>1. ASSUME ~lapsed, NEW n \in DOMAIN order', entries[order'[n]].active,
               entries[order'[n]].label \in Slots \ proven
        PROVE  \E m \in 1..(n - 1) : /\ entries[order'[m]].active /\ ~Stale(order'[m])
                                     /\ entries[order'[m]].label \notin Slots \ proven
    <3>1. order' = promoted /\ a = order /\ promoted[n] # num
      BY <1>2, <1>4, <1>6, <2>1
    <3>2. PICK i \in DOMAIN a :
            /\ a[i] = promoted[n]
            /\ \A m \in 1..(i - 1) : \E h \in 1..(n - 1) : promoted[h] = a[m]
      BY <1>3, <2>1, <3>1
    <3>3. PICK m \in 1..(i - 1) : /\ entries[order[m]].active /\ ~Stale(order[m])
                                  /\ entries[order[m]].label \notin Slots \ proven
      BY <2>1, <3>1, <3>2 DEF IInv, Guarded
    <3>4. PICK h \in 1..(n - 1) : promoted[h] = a[m]
      BY <3>2
    <3> QED BY <3>1, <3>3, <3>4
  <2> QED BY <1>1, <2>1 DEF Guarded, Stale, history
<1>9. OnlyStale'
  BY <1>1 DEF IInv, OnlyStale, Present, Stale
<1>10. ASSUME NEW u \in Threads, act'[u] = act[u], u # t
       PROVE  Aims(u)' /\ Found(u)' /\ Fresh(u)'
  <2>1. Aims(u)'
    BY <1>1, <1>10 DEF IInv, Aims, history
  <2>2. Found(u)'
    BY <1>1, <1>10 DEF IInv, Found, Own, Present
  <2>3. Fresh(u)'
    BY <1>1, <1>2, <1>10, OthersWait DEF Fresh, Behind, history
  <2> QED BY <2>1, <2>2, <2>3
<1>11. CASE End(t)
  <2>1. act' = [act EXCEPT ![t] = Idle] /\ lock' \in Threads \cup {"fix", NONE}
    BY <1>11 DEF IInv, TypeOK, End, Release
  <2>2. act'[t] = Idle /\ \A u \in Threads : u # t => act'[u] = act[u]
    BY <2>1, NewAct DEF IInv
  <2>3. /\ Aims(t)' /\ Found(t)' /\ Fresh(t)' /\ ~act'[t].locked /\ ~Behind(t)'
    BY <2>2 DEF Idle, Aims, Found, Fresh, Once, Behind
  <2>4. LocksHeld'
    BY <1>1, <1>11, <2>2, <2>3, LockKept DEF End, history
  <2>5. TypeOK'
    BY <1>1, <1>5, <2>1, IdleAction, Types DEF IInv, TypeOK, history, counters
  <2> QED BY <1>7, <1>8, <1>9, <1>10, <2>2, <2>3, <2>4, <2>5 DEF IInv
<1>12. CASE Go(t, "activate") /\ UNCHANGED lock
  <2> DEFINE r == [act[t] EXCEPT !.pc = "activate"]
  <2>1. r \in Action /\ r.pc = "activate" /\ r.slot = act[t].slot /\ r.commit = act[t].commit
        /\ r.part = act[t].part /\ r.locked = act[t].locked /\ r.order = act[t].order
        /\ r.num = act[t].num
    BY <1>2 DEF Action, Pcs
  <2>2. act' = [act EXCEPT ![t] = r]
    BY <1>12 DEF Go
  <2> HIDE DEF r
  <2>3. act'[t] = r /\ \A u \in Threads : u # t => act'[u] = act[u]
    BY <2>2, NewAct DEF IInv
  <2>4. LocksHeld'
    <3>1. Behind(t)'
      BY <2>1, <2>3 DEF Behind
    <3> QED BY <1>1, <1>2, <1>12, <2>1, <2>3, <3>1, LockKept DEF history
  <2>5. Aims(t)'
    BY <1>1, <2>1, <2>3 DEF IInv, Aims, history
  <2>6. Found(t)'
    BY <1>1, <2>1, <2>3 DEF IInv, Found, Own, Present
  <2>7. Fresh(t)'
    BY <1>1, <1>3, <1>6, <2>1, <2>3 DEF Fresh, history
  <2>8. TypeOK'
    BY <1>1, <1>5, <1>12, <2>1, <2>2, Types DEF IInv, TypeOK, history, counters
  <2> QED BY <1>7, <1>8, <1>9, <1>10, <2>3, <2>4, <2>5, <2>6, <2>7, <2>8 DEF IInv
<1> QED BY <1>1, <1>11, <1>12

\* A commit activates the entry it put first, of a slot that is proven.
LEMMA ActivateKnown ==
  ASSUME IInv, NEW t \in Threads, Activate(t)
  PROVE  IInv'
<1> DEFINE num == act[t].num
<1>1. /\ act[t].pc = "activate" /\ num \in Present
      /\ entries' = [entries EXCEPT ![num].active = TRUE]
      /\ End(t)
      /\ UNCHANGED <<order, next, fix, running, history, counters>>
  BY DEF Activate
<1>2. act[t].commit
  BY <1>1 DEF IInv, Aims
<1>3. /\ num \in Nums /\ act[t].slot \in proven /\ Behind(t)
      /\ ~lapsed => entries[num].label = act[t].slot
  BY <1>1, <1>2, Writes
<1>4. ~lapsed => order # <<>> /\ order[1] = num
  BY <1>1 DEF IInv, Fresh
<1> HIDE DEF num
<1>5. /\ entries' \in [Nums -> Entries \cup {NONE}]
      /\ entries'[num].active /\ entries'[num].label = entries[num].label
      /\ entries'[num].uuid = entries[num].uuid /\ entries'[num] # NONE
      /\ \A n \in Nums : n # num => entries'[n] = entries[n]
  <2>1. entries \in [Nums -> Entries \cup {NONE}]
    BY DEF IInv, TypeOK
  <2>2. entries[num] \in Entries
    BY <1>1, <2>1 DEF Present
  <2>3. entries' = [entries EXCEPT ![num] = [entries[num] EXCEPT !.active = TRUE]]
    BY <1>1
  <2> DEFINE e == [entries[num] EXCEPT !.active = TRUE]
  <2>4. e \in Entries /\ e.active /\ e.label = entries[num].label /\ e.uuid = entries[num].uuid
    BY <2>2 DEF Entries
  <2>5. e # NONE
    BY <2>4, EfiAssumption
  <2> HIDE DEF e
  <2> QED BY <1>3, <2>1, <2>3, <2>4, <2>5 DEF e
<1>6. Present' = Present /\ \A n \in Nums : Stale(n)' <=> Stale(n)
  BY <1>1, <1>5 DEF Present, Stale
<1>7. OnlyStale'
  BY <1>1, <1>6 DEF IInv, OnlyStale, Present
<1>8. OrderKnown'
  BY <1>1, <1>6 DEF IInv, OrderKnown
<1>9. \A m \in DOMAIN order : order[m] \in Nums
  BY DEF IInv, OrderKnown, Present
<1>10. Guarded'
  <2>1. ASSUME ~lapsed, NEW n \in DOMAIN order, entries'[order[n]].active,
               entries'[order[n]].label \in Slots \ proven
        PROVE  \E m \in 1..(n - 1) : LET e == entries'[order[m]] IN
                 e.active /\ e.label \notin Slots \ proven /\ ~Stray(e)
    <3>1. order[n] # num /\ entries'[order[n]] = entries[order[n]]
      BY <1>3, <1>5, <1>9, <2>1
    <3>2. PICK m \in 1..(n - 1) : /\ entries[order[m]].active /\ ~Stale(order[m])
                                  /\ entries[order[m]].label \notin Slots \ proven
      BY <2>1, <3>1 DEF IInv, Guarded
    <3>3. m \in DOMAIN order
      BY DEF IInv, TypeOK
    <3>4. order[m] \in Nums
      BY <1>9, <3>3
    <3>5. /\ entries'[order[m]].active /\ entries'[order[m]].label = entries[order[m]].label
          /\ entries'[order[m]].uuid = entries[order[m]].uuid
      BY <1>5, <3>2, <3>4
    <3> QED BY <3>2, <3>5 DEF Stale, Stray
  <2> QED BY <1>1, <2>1 DEF Guarded, history, Stale, Stray
<1>11. act' = [act EXCEPT ![t] = Idle] /\ lock' \in Threads \cup {"fix", NONE}
  BY <1>1 DEF IInv, TypeOK, End, Release
<1>12. act'[t] = Idle /\ \A u \in Threads : u # t => act'[u] = act[u]
  BY <1>11, NewAct DEF IInv
<1>13. /\ Aims(t)' /\ Found(t)' /\ Fresh(t)' /\ ~act'[t].locked /\ ~Behind(t)'
  BY <1>12 DEF Idle, Aims, Found, Fresh, Once, Behind
<1>14. LocksHeld'
  BY <1>1, <1>12, <1>13, LockKept DEF End, history
<1>15. TypeOK'
  BY <1>1, <1>5, <1>11, IdleAction, Types DEF IInv, TypeOK, Once, history, counters
<1>16. ASSUME NEW u \in Threads, u # t PROVE Aims(u)' /\ Found(u)' /\ Fresh(u)'
  <2>1. Aims(u)'
    BY <1>1, <1>12, <1>16 DEF IInv, Aims, history
  <2>2. Found(u)'
    BY <1>5, <1>6, <1>12, <1>16 DEF IInv, Found, Own
  <2>3. Fresh(u)'
    BY <1>1, <1>3, <1>12, <1>16, OthersWait DEF Fresh, Behind, history
  <2> QED BY <2>1, <2>2, <2>3
<1> QED BY <1>7, <1>8, <1>10, <1>13, <1>14, <1>15, <1>16 DEF IInv

\* The repair deletes an entry: as it is stale, it is none that guards another, and
\* none that an action without the lock is about to name.
LEMMA FixDeleteKnown ==
  ASSUME IInv, NEW n \in Nums, FixDelete(n)
  PROVE  IInv'
<1>1. /\ fix.pc = "edit" /\ n \in fix.delete
      /\ fix' = [pc |-> "edit", delete |-> fix.delete \ {n}, add |-> fix.add]
      /\ entries' = [entries EXCEPT ![n] = NONE] /\ order' = Without(order, n)
      /\ UNCHANGED <<next, lock, act, running, history, counters>>
  BY FixTypes DEF FixDelete, IInv, TypeOK
<1>2. lock = "fix" /\ Stale(n) /\ \A t \in Threads : ~act[t].locked /\ (~lapsed => ~Behind(t))
  BY <1>1, EfiAssumption DEF IInv, LocksHeld, OnlyStale
<1>3. /\ entries' \in [Nums -> Entries \cup {NONE}] /\ entries'[n] = NONE
      /\ \A m \in Nums : m # n => entries'[m] = entries[m]
  BY <1>1 DEF IInv, TypeOK
<1>4. /\ order' \in Seq(Nums) /\ Once(order')
      /\ \A j \in DOMAIN order' :
           \E i \in DOMAIN order :
             /\ order[i] = order'[j] /\ order[i] # n
             /\ \A m \in 1..(i - 1) : order[m] # n => \E h \in 1..(j - 1) : order'[h] = order[m]
  <2> DEFINE w == Without(order, n)
  <2>1. order \in Seq(Nums) /\ Once(order)
    BY DEF IInv, TypeOK, Once
  <2>2. /\ w \in Seq(Nums) /\ Once(w)
        /\ \A j \in DOMAIN w :
             \E i \in DOMAIN order :
               /\ order[i] = w[j] /\ order[i] # n
               /\ \A m \in 1..(i - 1) : order[m] # n => \E h \in 1..(j - 1) : w[h] = order[m]
    BY <2>1, WithoutFacts
  <2>3. order' = w
    BY <1>1
  <2> HIDE DEF w
  <2> QED BY <2>2, <2>3 DEF Once
<1>5. \A m \in DOMAIN order : order[m] \in Present /\ order[m] \in Nums
  BY DEF IInv, OrderKnown, Present
<1>6. OrderKnown'
  BY <1>3, <1>4, <1>5 DEF OrderKnown, Present
<1>7. OnlyStale'
  BY <1>1, <1>3 DEF IInv, OnlyStale, Present, Stale
<1>8. LocksHeld'
  BY <1>1, <1>2 DEF IInv, LocksHeld, Behind, history
<1>9. Guarded'
  <2>1. ASSUME ~lapsed, NEW j \in DOMAIN order', entries'[order'[j]].active,
               entries'[order'[j]].label \in Slots \ proven
        PROVE  \E h \in 1..(j - 1) : LET e == entries'[order'[h]] IN
                 e.active /\ e.label \notin Slots \ proven /\ ~Stray(e)
    <3>1. PICK i \in DOMAIN order :
            /\ order[i] = order'[j] /\ order[i] # n
            /\ \A m \in 1..(i - 1) : order[m] # n => \E h \in 1..(j - 1) : order'[h] = order[m]
      BY <1>4
    <3>2. entries'[order[i]] = entries[order[i]]
      BY <1>3, <1>5, <3>1
    <3>3. PICK m \in 1..(i - 1) : /\ entries[order[m]].active /\ ~Stale(order[m])
                                  /\ entries[order[m]].label \notin Slots \ proven
      BY <2>1, <3>1, <3>2 DEF IInv, Guarded
    <3>4. m \in DOMAIN order
      BY DEF IInv, TypeOK
    <3>5. order[m] # n
      BY <1>2, <3>3
    <3>6. entries'[order[m]] = entries[order[m]]
      BY <1>3, <1>5, <3>4, <3>5
    <3>7. PICK h \in 1..(j - 1) : order'[h] = order[m]
      BY <3>1, <3>5
    <3> QED BY <3>3, <3>6, <3>7 DEF Stale, Stray
  <2> QED BY <1>1, <2>1 DEF Guarded, history, Stale, Stray
<1>10. TypeOK'
  BY <1>1, <1>3, <1>4, FixTypes DEF IInv, TypeOK, Once, history, counters
<1>11. ASSUME NEW t \in Threads PROVE Aims(t)' /\ Found(t)' /\ Fresh(t)'
  <2>1. Aims(t)'
    BY <1>1 DEF IInv, Aims, history
  <2>2. Found(t)'
    <3>1. CASE act[t].pc \notin {"write", "activate"} \/ act[t].part = NONE
      BY <1>1, <1>2, <3>1 DEF IInv, Found
    <3>2. CASE act[t].pc \in {"write", "activate"} /\ act[t].part # NONE
      <4>1. /\ act[t].num \in Nums /\ Own(act[t].num, act[t].slot)
            /\ entries[act[t].num].uuid = act[t].part
            /\ act[t].part = Esp(act[t].slot) /\ act[t].slot \in Slots
        BY <3>2 DEF IInv, Found, Aims
      <4>2. act[t].num # n
        BY <1>2, <4>1 DEF Own, Stale
      <4> QED BY <1>1, <1>3, <4>1, <4>2 DEF Found, Own, Present
    <3> QED BY <3>1, <3>2
  <2>3. Fresh(t)'
    BY <1>1, <1>2 DEF Fresh, Behind, history
  <2> QED BY <2>1, <2>2, <2>3
<1> QED BY <1>6, <1>7, <1>8, <1>9, <1>10, <1>11 DEF IInv

\* A reboot ends every action and the repair, and may find BootOrder empty.
LEMMA RebootKnown ==
  ASSUME IInv, NEW s \in Slots, NEW wiped \in BOOLEAN, Reboot(s, wiped)
  PROVE  IInv'
<1>1. /\ boots < MaxBoots /\ boots' = boots + 1
      /\ (wipes < MaxWipes /\ wipes' = wipes + 1) \/ wipes' = wipes
      /\ running' = s /\ next' = NONE
      /\ act' = [t \in Threads |-> Idle] /\ lock' = NONE /\ fix' = Resting
      /\ UNCHANGED <<history, actions, faults>>
  BY DEF Reboot
<1>2. (entries' = [n \in Nums |-> NONE] /\ order' = <<>>) \/ UNCHANGED <<entries, order>>
  BY DEF Reboot
<1>3. \A t \in Threads : Aims(t)' /\ Found(t)' /\ Fresh(t)' /\ ~act'[t].locked /\ ~Behind(t)'
  BY <1>1 DEF Idle, Aims, Found, Fresh, Once, Behind
<1>4. LocksHeld'
  BY <1>1, <1>3 DEF LocksHeld, Resting
<1>5. OnlyStale'
  BY <1>1 DEF OnlyStale, Resting
<1>6. Guarded' /\ OrderKnown'
  <2>1. CASE entries' = [n \in Nums |-> NONE] /\ order' = <<>>
    BY <2>1 DEF Guarded, OrderKnown
  <2>2. CASE UNCHANGED <<entries, order>>
    BY <1>1, <2>2 DEF IInv, Guarded, OrderKnown, Stale, Present, history
  <2> QED BY <1>2, <2>1, <2>2
<1>7. TypeOK'
  <2>1. act' \in [Threads -> Action]
    BY <1>1, IdleAction
  <2>2. fix' \in [pc : {"ready", "list", "edit", "over"}, delete : SUBSET Nums, add : SUBSET Slots]
    BY <1>1 DEF Resting
  <2>3. /\ actions' \in 0..MaxActions /\ boots' \in 0..MaxBoots
        /\ wipes' \in 0..MaxWipes /\ faults' \in 0..MaxFaults
    BY <1>1, EfiAssumption DEF IInv, TypeOK
  <2>4. /\ entries' \in [Nums -> Entries \cup {NONE}]
        /\ order' \in Seq(Nums) /\ \A m, n \in DOMAIN order' : order'[m] = order'[n] => m = n
    <3>1. <<>> \in Seq(Nums) /\ DOMAIN <<>> = {}
      OBVIOUS
    <3>2. CASE entries' = [n \in Nums |-> NONE] /\ order' = <<>>
      BY <3>1, <3>2
    <3>3. CASE UNCHANGED <<entries, order>>
      BY <3>3 DEF IInv, TypeOK
    <3> QED BY <1>2, <3>2, <3>3
  <2> QED BY <1>1, <2>1, <2>2, <2>3, <2>4 DEF TypeOK, IInv, Action, Pcs, history
<1> QED BY <1>3, <1>4, <1>5, <1>6, <1>7 DEF IInv

-----------------------------------------------------------------------------
(* The theorems *)

\* Every step keeps the invariant.
LEMMA NextIInv == IInv /\ [Next]_vars => IInv'
<1> SUFFICES ASSUME IInv, [Next]_vars PROVE IInv'
  OBVIOUS
<1>1. ASSUME NEW t \in Threads, NEW s \in Slots, NEW commit \in BOOLEAN, Begin(t, s, commit)
      PROVE  IInv'
  BY <1>1, BeginKnown
<1>2. ASSUME NEW t \in Threads, ActStep(t) PROVE IInv'
  BY <1>2, TakeLockKnown, GoWithoutKnown, LocateKnown, ListKnown, CreateKnown, SetOrderKnown,
     ActivateKnown DEF ActStep
<1>3. CASE Repair
  BY <1>3, FixMovesKnown, FixDeleteKnown, FixAddKnown DEF Repair
<1>4. ASSUME NEW s \in Slots, NEW wiped \in BOOLEAN, Reboot(s, wiped) PROVE IInv'
  BY <1>4, RebootKnown
<1>5. CASE UNCHANGED vars
  BY <1>5 DEF vars, nvram, history, counters, IInv, TypeOK, LocksHeld, OrderKnown, OnlyStale,
     Guarded, Aims, Found, Fresh, Once, Own, Behind, Stale, Present
<1> QED BY <1>1, <1>2, <1>3, <1>4, <1>5 DEF Next

\* The inductive invariant holds of every state of EfiBoot.
THEOREM Invariance == Spec => []IInv
<1> QED BY InitIInv, NextIInv, PTL DEF Spec

\* BootOrder names no entry twice, and everything has its type, however the variables
\* are edited.
THEOREM Typing == Spec => []TypeOK
<1>1. IInv => TypeOK
  BY DEF IInv
<1> QED BY <1>1, Invariance, PTL

\* The first entry of BootOrder that is in a set has none of the set before it.
LEMMA HeadOf ==
  ASSUME NEW S, FirstInOrder(S) # NONE, order \in Seq(Nums)
  PROVE  \E k \in DOMAIN order : /\ FirstInOrder(S) = order[k] /\ order[k] \in S
                                 /\ \A m \in 1..(k - 1) : order[m] \notin S
<1> DEFINE at == {m \in DOMAIN order : order[m] \in S}
<1>1. at # {} /\ FirstInOrder(S) = order[Least(at)]
  BY DEF FirstInOrder
<1>2. at \in SUBSET Nat
  OBVIOUS
<1>3. Least(at) \in at /\ \A m \in at : Least(at) <= m
  BY <1>1, <1>2, LeastOf
<1>4. \A m \in 1..(Least(at) - 1) : m \in DOMAIN order /\ ~(Least(at) <= m)
  BY <1>3
<1> QED BY <1>1, <1>3, <1>4

\* Unless an action went on without the lock, what the firmware boots by itself is no
\* slot that nobody began a commit for (apply_efibootmgr_action,
\* create_efi_boot_entry), whatever the repair deletes: behind any entry of such a slot
\* that it could boot, there would be another it boots first.
THEOREM UnprovenIsNoDefault == Spec => []DefaultIsProven
<1>1. IInv => DefaultIsProven
  <2> SUFFICES ASSUME IInv, ~lapsed, Default \in Slots \ proven PROVE FALSE
    BY DEF DefaultIsProven
  <2> DEFINE S == {n \in Present : entries[n].active}
             head == FirstInOrder(S)
  <2>1. head # NONE /\ Default = entries[head].label
    BY EfiAssumption DEF Default
  <2>2. PICK k \in DOMAIN order : /\ head = order[k] /\ order[k] \in S
                                  /\ \A m \in 1..(k - 1) : order[m] \notin S
    BY <2>1, HeadOf DEF IInv, TypeOK
  <2>3. PICK m \in 1..(k - 1) : entries[order[m]].active
    BY <2>1, <2>2 DEF IInv, Guarded
  <2>4. m \in DOMAIN order
    BY DEF IInv, TypeOK
  <2>5. order[m] \in S
    BY <2>3, <2>4 DEF IInv, OrderKnown
  <2> QED BY <2>2, <2>5
<1> QED BY <1>1, Invariance, PTL

\* BootNext is set to an entry of the slot of the action, if it had the lock, and to
\* one that boots that slot's own ESP, if its partition was known (parse_efi_boot_num,
\* apply_efibootmgr_action): whatever was created, deleted or attached since the
\* listing.
THEOREM ActionsHitTheirSlots == Spec => HitsItsSlot
<1>1. ASSUME IInv, NEW t \in Threads, SetNext(t)
      PROVE  LET e == entries[next'] IN
               /\ act[t].locked => e.label = act[t].slot
               /\ act[t].part # NONE => e.label = act[t].slot /\ e.uuid = Esp(act[t].slot)
  <2>1. next' = act[t].num /\ act[t].pc = "write"
    BY <1>1 DEF SetNext
  <2> QED BY <1>1, <2>1 DEF IInv, Found, Own, Aims
<1>2. IInv /\ [Next]_vars =>
        [\A t \in Threads :
           SetNext(t) => LET e == entries[next'] IN
             /\ act[t].locked => e.label = act[t].slot
             /\ act[t].part # NONE => e.label = act[t].slot /\ e.uuid = Esp(act[t].slot)]_vars
  BY <1>1
<1> QED BY <1>2, Invariance, PTL DEF Spec, HitsItsSlot

\* An active entry at the head of BootOrder is the default, after a step.
LEMMA HeadIsDefault ==
  ASSUME TypeOK', NEW n \in Present', entries'[n].active, order' # <<>>, order'[1] = n
  PROVE  Default' = entries'[n].label
<1> DEFINE S == {m \in Present' : entries'[m].active}
           at == {m \in DOMAIN order' : order'[m] \in S}
<1>1. 1 \in DOMAIN order' /\ \A m \in DOMAIN order' : m \in Nat /\ 1 <= m
  BY DEF TypeOK
<1>2. 1 \in at /\ at \in SUBSET Nat
  BY <1>1
<1>3. Least(at) \in at /\ \A m \in at : Least(at) <= m
  BY <1>2, LeastOf
<1>4. Least(at) = 1 /\ at # {}
  BY <1>1, <1>2, <1>3
<1>5. n # NONE /\ order'[Least(at)] = n
  BY <1>4, EfiAssumption DEF Present
<1>6. Default' = LET head == IF at = {} THEN NONE ELSE order'[Least(at)]
                 IN  IF head = NONE THEN NONE ELSE entries'[head].label
  BY DEF Default, FirstInOrder
<1> QED BY <1>4, <1>5, <1>6

\* A commit that succeeds, when all took the lock, leaves its slot the default and
\* every entry of BootOrder in it (promoted_boot_order, apply_efibootmgr_action),
\* although it writes an order it read three calls earlier.
THEOREM CommitsLast == Spec => CommitLasts
<1> DEFINE lasts(t) == /\ Default' = act[t].slot
                       /\ \A n \in DOMAIN order : \E m \in DOMAIN order' : order'[m] = order[n]
<1>1. ASSUME IInv, IInv', NEW t \in Threads, ~lapsed, act[t].commit, SetOrder(t),
             act'[t].pc = "idle"
      PROVE  lasts(t)
  <2> DEFINE a == act[t].order
             num == act[t].num
             promoted == Promoted(a, num)
  <2>1. act[t].pc = "write" /\ entries' = entries /\ act[t].active
        /\ ((promoted = a /\ order' = order) \/ order' = promoted)
    <3>1. act[t].active
      <4>1. CASE Go(t, "activate")
        BY <1>1, <4>1, ActTypes DEF Go, IInv, Action
      <4> QED BY <1>1, <4>1 DEF SetOrder
    <3> QED BY <1>1, <3>1 DEF SetOrder
  <2>2. /\ a = order /\ num \in Nums /\ Own(num, act[t].slot) /\ entries[num].active
    <3>1. act[t].locked
      BY <1>1, <2>1 DEF IInv, LocksHeld, Behind
    <3> QED BY <1>1, <2>1, <3>1 DEF IInv, Fresh, Found
  <2>3. Once(order) /\ order \in Seq(Nums)
    BY <1>1 DEF IInv, TypeOK, Once
  <2>4. /\ promoted # <<>> /\ promoted[1] = num
        /\ \A i \in DOMAIN order : \E j \in DOMAIN promoted : promoted[j] = order[i]
    BY <2>2, <2>3, PromotedFacts
  <2>5. order' = promoted
    BY <2>1, <2>2
  <2>6. num \in Present' /\ entries'[num].active
    BY <2>1, <2>2 DEF Own, Present
  <2> HIDE DEF promoted, num
  <2>7. Default' = entries'[num].label
    BY <1>1, <2>4, <2>5, <2>6, HeadIsDefault DEF IInv
  <2> QED BY <2>1, <2>2, <2>4, <2>5, <2>7 DEF Own
<1>2. ASSUME IInv, IInv', NEW t \in Threads, ~lapsed, act[t].commit, Activate(t)
      PROVE  lasts(t)
  <2> DEFINE num == act[t].num
  <2>1. /\ act[t].pc = "activate" /\ num \in Present /\ order' = order
        /\ entries' = [entries EXCEPT ![num].active = TRUE]
    BY <1>2 DEF Activate
  <2>2. Own(num, act[t].slot) /\ order # <<>> /\ order[1] = num /\ num \in Nums
    <3>1. act[t].locked
      BY <1>2, <2>1 DEF IInv, LocksHeld, Behind
    <3> QED BY <1>2, <2>1, <3>1 DEF IInv, Fresh, Found
  <2>3. entries[num] \in Entries
    BY <1>2, <2>1 DEF IInv, TypeOK, Present
  <2>4. entries'[num] = [entries[num] EXCEPT !.active = TRUE]
    BY <1>2, <2>1, <2>2 DEF IInv, TypeOK
  <2>5. entries'[num].label = act[t].slot /\ entries'[num].active /\ entries'[num] \in Entries
    BY <2>2, <2>3, <2>4 DEF Entries, Own
  <2>6. num \in Present'
    BY <2>2, <2>5, EfiAssumption DEF Present
  <2>7. Default' = entries'[num].label
    BY <1>2, <2>1, <2>2, <2>5, <2>6, HeadIsDefault DEF IInv
  <2> QED BY <2>1, <2>5, <2>7
<1>3. IInv /\ IInv' /\ [Next]_vars =>
        [\A t \in Threads :
           ~lapsed /\ act[t].commit /\ (SetOrder(t) \/ Activate(t)) /\ act'[t].pc = "idle"
             => lasts(t)]_vars
  BY <1>1, <1>2
<1> QED BY <1>3, Invariance, PTL DEF Spec, CommitLasts
=============================================================================
