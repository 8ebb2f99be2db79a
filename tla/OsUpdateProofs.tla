--------------------------- MODULE OsUpdateProofs ----------------------------
(***************************************************************************)
(* What holds of OsUpdate for any runtimes and bundles and any number of   *)
(* crashes and faults.                                                     *)
(*                                                                         *)
(* With any number of update passes, activations and merges at once: the   *)
(* types, and that no apply writes the running slot on a loader whose slot *)
(* detection reports the running slot.                                     *)
(*                                                                         *)
(* When the device serves one request or refresh at a time (Serialised):   *)
(* the next boot takes a proven slot or the marked one, every slot the     *)
(* next boot may take is whole or rolls back, and the active runtime is    *)
(* one that the running OS was built for.                                  *)
(***************************************************************************)
EXTENDS OsUpdate, TLAPS

\* What a process that applies an update knows at each step.
Working ==
  \A p \in Appliers :
    /\ apl[p].pc # "idle" => apl[p].runtime \in Runtimes
    /\ apl[p].pc \in {"mark", "write", "writing"}
         => apl[p].prev \in Slots /\ apl[p].new \in Slots
    /\ apl[p].pc = "writing" => apl[p].part \in Parts
    /\ apl[p].pc = "setRuntime" => apl[p].copy \in Marker

\* A merge past its first step and before its last has read a marker.
Merging ==
  \A m \in Mergers :
    mrg[m].pc \notin {"idle", "refresh", "rest"} => mrg[m].pending \in Marker

\* Nothing is in progress on a machine that runs nothing.
Awake ==
  /\ phase \in {"boot", "up"} => running # NONE
  /\ phase = "off" => running = NONE
  /\ running = NONE => /\ \A p \in Appliers : apl[p].pc = "idle"
                       /\ \A m \in Mergers : mrg[m].pc = "idle"

\* The slot being written is not the one that is running.
Apart ==
  running # NONE /\ loader # "uboot"
    => \A p \in Appliers : apl[p].pc \in {"mark", "write", "writing"}
                             => apl[p].new # running.slot

IInv == TypeOK /\ Working /\ Merging /\ Awake /\ Apart

-----------------------------------------------------------------------------
\* The other slot is a slot, and another one.
LEMMA OtherSlot == ASSUME NEW s \in Slots
                   PROVE  Other(s) \in Slots /\ Other(s) # s
  BY ConstantsAssumption DEF Other

\* The boot loader picks among the slots.
LEMMA TargetsAreSlots == TypeOK => Targets \subseteq Slots
  BY DEF TypeOK, Targets, Newest

\* The idle records have their types.
LEMMA IdleTypes == IdleApplier \in Applier /\ IdleMerger \in Merger
  BY DEF IdleApplier, IdleMerger, Applier, Merger, Parts

\* A device fresh from the factory satisfies the invariant.
LEMMA InitIInv == Init => IInv
<1> SUFFICES ASSUME Init PROVE IInv
  OBVIOUS
<1>1. TypeOK
  BY ConstantsAssumption, IdleTypes DEF Init, TypeOK, Content
<1>2. Working /\ Merging /\ Awake /\ Apart
  BY DEF Init, Working, Merging, Awake, Apart, IdleApplier, IdleMerger
<1> QED BY <1>1, <1>2 DEF IInv

\* Staging a runtime touches neither slot choice nor marker.
LEMMA RequestIInv == ASSUME IInv, NEW p \in Appliers, NEW r \in Runtimes, Request(p, r)
                     PROVE  IInv'
<1> USE DEF IInv
<1>1. apl' \in [Appliers -> Applier]
  <2>1. apl[p] \in Applier
    BY DEF TypeOK
  <2>2. [apl[p] EXCEPT !.pc = "decide", !.runtime = r] \in Applier
    BY <2>1 DEF Applier
  <2>3. apl' = [apl EXCEPT ![p] = [apl[p] EXCEPT !.pc = "decide", !.runtime = r]]
    BY DEF Request
  <2> QED BY <2>2, <2>3 DEF TypeOK
<1>2. lock' \in Updaters \cup {NONE} /\ staged' \subseteq Runtimes
  BY DEF TypeOK, Request
<1>3. TypeOK'
  BY <1>1, <1>2 DEF TypeOK, Request, medium, machine, history
<1>4. Working' /\ Merging' /\ Awake' /\ Apart'
  BY DEF TypeOK, Working, Merging, Awake, Apart, Request, Accepts, Applier, medium, machine, history
<1> QED BY <1>3, <1>4

\* A process that ends, in success or in an error, disturbs no other one.
LEMMA AppliersEnd ==
  ASSUME IInv, UNCHANGED <<loader, running, phase, mrg>>,
         \A q \in Appliers : apl'[q] \in {apl[q], IdleApplier}
  PROVE  Working' /\ Merging' /\ Awake' /\ Apart'
  BY DEF IInv, Working, Merging, Awake, Apart, IdleApplier

\* The error exit of an apply leaves its record, the store and the lock typed.
LEMMA FailsTypes ==
  ASSUME TypeOK, NEW p \in Appliers, Fails(p)
  PROVE  /\ apl' \in [Appliers -> Applier] /\ staged' \subseteq Runtimes
         /\ lock' \in Updaters \cup {NONE}
         /\ \A q \in Appliers : apl'[q] \in {apl[q], IdleApplier}
  BY IdleTypes DEF TypeOK, Fails, Release

\* So does the activation that leads on to a refresh, which no one disturbs.
LEMMA ActivateRuntimeTypes ==
  ASSUME IInv, NEW p \in Appliers, ActivateRuntime(p), running # NONE,
         UNCHANGED <<loader, running, phase>>
  PROVE  /\ apl' \in [Appliers -> Applier] /\ staged' \subseteq Runtimes
         /\ lock' \in Updaters \cup {NONE} /\ active' \in Runtimes
         /\ mrg' \in [Mergers -> Merger]
         /\ Working' /\ Merging' /\ Awake' /\ Apart'
<1> USE DEF IInv
<1>1. CASE apl[p].runtime \in staged
  <2>1. /\ p \in Mergers /\ mrg' = [mrg EXCEPT ![p].pc = "refresh"]
        /\ apl' = [apl EXCEPT ![p] = IdleApplier] /\ Release(p)
        /\ active' = apl[p].runtime /\ UNCHANGED staged
    BY <1>1 DEF ActivateRuntime, Mergers
  <2>2. apl' \in [Appliers -> Applier] /\ lock' \in Updaters \cup {NONE}
    BY <2>1, IdleTypes DEF TypeOK, Release
  <2>3. mrg' \in [Mergers -> Merger]
    BY <2>1 DEF TypeOK, Merger
  <2>4. active' \in Runtimes /\ staged' \subseteq Runtimes
    BY <1>1, <2>1 DEF TypeOK
  <2>5. Working' /\ Apart'
    BY <2>1 DEF TypeOK, Working, Apart, IdleApplier
  <2>6. Merging' /\ Awake'
    BY <2>1 DEF TypeOK, Merging, Awake
  <2> QED BY <2>2, <2>3, <2>4, <2>5, <2>6
<1>2. CASE apl[p].runtime \notin staged
  <2>1. Fails(p) /\ UNCHANGED <<active, mrg>>
    BY <1>2 DEF ActivateRuntime
  <2> QED BY <2>1, FailsTypes, AppliersEnd DEF TypeOK
<1> QED BY <1>1, <1>2

\* Deciding whether the OS has to change.
LEMMA DecideIInv == ASSUME IInv, NEW p \in Appliers, Decide(p)
                    PROVE  IInv'
<1> USE DEF IInv
<1>0. /\ running # NONE
      /\ UNCHANGED <<medium, marker, machine, history, counters>>
  BY DEF Decide, Awake
<1>1. CASE Satisfied(apl[p].runtime)
  <2>1. ActivateRuntime(p)
    BY <1>1 DEF Decide
  <2>2. /\ apl' \in [Appliers -> Applier] /\ staged' \subseteq Runtimes
        /\ lock' \in Updaters \cup {NONE} /\ active' \in Runtimes
        /\ mrg' \in [Mergers -> Merger]
        /\ Working' /\ Merging' /\ Awake' /\ Apart'
    BY <1>0, <2>1, ActivateRuntimeTypes DEF machine
  <2> QED BY <1>0, <2>2 DEF TypeOK, medium, machine, history, counters
<1>2. CASE ~Satisfied(apl[p].runtime)
  <2>1. /\ apl' = [apl EXCEPT ![p] = [apl[p] EXCEPT !.pc = "detect"]]
        /\ UNCHANGED <<active, staged, lock, mrg>>
    BY <1>2 DEF Decide
  <2>2. apl[p] \in Applier /\ [apl[p] EXCEPT !.pc = "detect"] \in Applier
    BY DEF TypeOK, Applier
  <2>3. TypeOK'
    BY <1>0, <2>1, <2>2 DEF TypeOK, medium, machine, history, counters
  <2>4. Working' /\ Merging' /\ Awake' /\ Apart'
    BY <1>0, <2>1, <2>2
       DEF Decide, TypeOK, Working, Merging, Awake, Apart, Applier, machine
  <2> QED BY <2>3, <2>4
<1> QED BY <1>1, <1>2

\* The choice of the slot establishes Apart: it is the other one than the slot
\* detected, which is the running one unless U-Boot's variable was read.
LEMMA DetectIInv == ASSUME IInv, NEW p \in Appliers, Detect(p)
                    PROVE  IInv'
<1> USE DEF IInv
<1> DEFINE new == Other(DetectedSlot)
           skip == BundleOf[apl[p].runtime] \in HasVerify /\ Satisfied(apl[p].runtime)
           next == [apl[p] EXCEPT !.pc = "mark", !.prev = DetectedSlot,
                                  !.new = new, !.todo = Parts]
<1>0. /\ apl[p].pc = "detect" /\ apl[p] \in Applier /\ running # NONE
      /\ UNCHANGED <<medium, marker, machine, proven, counters>>
  BY DEF Detect, TypeOK, Awake
<1>1. CASE skip /\ p \in Updaters
  <2>1. ActivateRuntime(p)
    BY <1>1 DEF Detect
  <2>2. /\ apl' \in [Appliers -> Applier] /\ staged' \subseteq Runtimes
        /\ lock' \in Updaters \cup {NONE} /\ active' \in Runtimes
        /\ mrg' \in [Mergers -> Merger]
        /\ Working' /\ Merging' /\ Awake' /\ Apart'
    BY <1>0, <2>1, ActivateRuntimeTypes DEF machine
  <2> QED BY <1>0, <2>2 DEF TypeOK, medium, machine, counters
<1>2. CASE skip /\ p \notin Updaters
  <2>1. /\ apl' = [apl EXCEPT ![p] = [apl[p] EXCEPT !.pc = "readMark"]]
        /\ UNCHANGED <<active, staged, lock, mrg>>
    BY <1>2 DEF Detect
  <2>2. [apl[p] EXCEPT !.pc = "readMark"] \in Applier
    BY <1>0 DEF Applier
  <2>3. TypeOK'
    BY <1>0, <2>1, <2>2 DEF TypeOK, medium, machine, counters
  <2>4. Working' /\ Merging' /\ Awake' /\ Apart'
    BY <1>0, <2>1, <2>2 DEF TypeOK, Working, Merging, Awake, Apart, Applier, machine
  <2> QED BY <2>3, <2>4
<1>3. CASE ~skip
  <2>1. /\ apl' = [apl EXCEPT ![p] = next]
        /\ UNCHANGED <<active, staged, lock, mrg>>
    BY <1>3 DEF Detect
  <2>2. DetectedSlot \in Slots /\ (loader # "uboot" => DetectedSlot = running.slot)
    BY <1>0 DEF TypeOK, DetectedSlot, Running
  <2>3. new \in Slots /\ new # DetectedSlot
    BY <2>2, OtherSlot
  <2>4. next \in Applier /\ next.pc = "mark" /\ next.prev = DetectedSlot
        /\ next.new = new /\ next.runtime = apl[p].runtime
    BY <1>0, <2>2, <2>3 DEF Applier
  <2> HIDE DEF next, new
  <2>5. TypeOK'
    BY <1>0, <2>1, <2>4 DEF TypeOK, medium, machine, counters
  <2>6. Working' /\ Merging' /\ Awake'
    BY <1>0, <2>1, <2>2, <2>3, <2>4 DEF TypeOK, Working, Merging, Awake, machine
  <2>7. Apart'
    BY <1>0, <2>1, <2>2, <2>3, <2>4 DEF TypeOK, Apart, machine
  <2> QED BY <2>5, <2>6, <2>7
<1> QED BY <1>1, <1>2, <1>3

\* A process in the middle of its apply goes on with the same slot.
LEMMA ApplierMoves ==
  ASSUME IInv, UNCHANGED <<loader, running, phase, mrg>>,
         NEW p \in Appliers, NEW r \in Applier, apl[p].pc # "idle",
         apl' = [apl EXCEPT ![p] = r], r.runtime = apl[p].runtime,
         r.pc \in {"write", "writing"} => /\ apl[p].pc \in {"mark", "write", "writing"}
                                         /\ r.prev = apl[p].prev /\ r.new = apl[p].new,
         r.pc = "writing" => r.part \in Parts,
         r.pc = "setRuntime" => r.copy \in Marker,
         r.pc \notin {"idle", "mark"}
  PROVE  apl' \in [Appliers -> Applier] /\ Working' /\ Merging' /\ Awake' /\ Apart'
<1> USE DEF IInv
<1>1. apl' \in [Appliers -> Applier]
  BY DEF TypeOK
<1>2. Working' /\ Merging'
  BY DEF TypeOK, Working, Merging
<1>3. Awake' /\ Apart'
  BY DEF TypeOK, Awake, Apart
<1> QED BY <1>1, <1>2, <1>3

\* Writing the marker.
LEMMA MarkIInv == ASSUME IInv, NEW p \in Appliers, Mark(p)
                  PROVE  IInv'
<1> USE DEF IInv
<1> DEFINE next == [apl[p] EXCEPT !.pc = "write"]
<1>1. /\ apl[p] \in Applier /\ apl[p].pc = "mark" /\ apl[p].runtime \in Runtimes
      /\ apl[p].prev \in Slots /\ apl[p].new \in Slots
  BY DEF TypeOK, Working, Mark
<1>2. /\ apl' = [apl EXCEPT ![p] = next]
      /\ UNCHANGED <<medium, staged, active, machine, lock, mrg, history, counters>>
  BY DEF Mark
<1>3. next \in Applier /\ next.pc = "write" /\ next.runtime = apl[p].runtime
      /\ next.prev = apl[p].prev /\ next.new = apl[p].new
  BY <1>1 DEF Applier
<1> HIDE DEF next
<1>4. marker' \in Marker
  BY <1>1, ConstantsAssumption DEF Mark, Marker
<1>5. apl' \in [Appliers -> Applier] /\ Working' /\ Merging' /\ Awake' /\ Apart'
  BY <1>1, <1>2, <1>3, ApplierMoves DEF machine
<1>6. TypeOK'
  BY <1>2, <1>4, <1>5 DEF TypeOK, medium, machine, history, counters
<1> QED BY <1>5, <1>6

\* Starting to write a partition changes only the writer's step and partition,
\* and who is known to mix with whom.
LEMMA BeginWriteKeeps ==
  ASSUME IInv, NEW p \in Appliers, NEW x \in Parts, BeginWrite(p, x), NEW q \in Appliers
  PROVE  /\ apl'[q] \in Applier /\ apl'[q].runtime = apl[q].runtime
         /\ apl'[q].prev = apl[q].prev /\ apl'[q].new = apl[q].new
         /\ apl'[q].copy = apl[q].copy /\ apl'[q].todo = apl[q].todo
         /\ q = p => apl'[q].pc = "writing" /\ apl'[q].part = x
         /\ q # p => apl'[q].pc = apl[q].pc /\ apl'[q].part = apl[q].part
<1>1. apl[q] \in Applier
  BY DEF IInv, TypeOK
<1>2. CASE q = p
  BY <1>1, <1>2 DEF BeginWrite, Applier
<1>3. CASE q # p
  BY <1>1, <1>3 DEF BeginWrite, Applier
<1> QED BY <1>2, <1>3

\* Starting to write a partition, and mixing with whoever else writes it.
LEMMA BeginWriteIInv == ASSUME IInv, NEW p \in Appliers, NEW x \in Parts, BeginWrite(p, x)
                        PROVE  IInv'
<1> USE DEF IInv
<1>1. /\ apl[p].pc = "write" /\ apl[p] \in Applier /\ apl[p].new \in Slots
      /\ UNCHANGED <<pointer, oneshot, store, machine, lock, mrg, lapses, counters>>
  BY DEF TypeOK, Working, BeginWrite
<1>2. /\ slot' \in [Slots -> [boot : Content, rootfs : Content]]
      /\ proven' \in [Slots -> BOOLEAN]
  <2>1. CASE Atomic(x)
    BY <2>1 DEF TypeOK, BeginWrite
  <2>2. CASE ~Atomic(x)
    <3>1. slot' = [slot EXCEPT ![apl[p].new] = [slot[apl[p].new] EXCEPT ![x] = Torn]]
      BY <2>2 DEF BeginWrite
    <3>2. [slot[apl[p].new] EXCEPT ![x] = Torn] \in [boot : Content, rootfs : Content]
      BY <1>1 DEF TypeOK, Parts, Content
    <3>3. proven' \in [Slots -> BOOLEAN]
      BY <2>2 DEF TypeOK, BeginWrite
    <3> QED BY <3>1, <3>2, <3>3 DEF TypeOK
  <2> QED BY <2>1, <2>2
<1>3. ASSUME NEW q \in Appliers
      PROVE  /\ apl'[q] \in Applier /\ apl'[q].runtime = apl[q].runtime
             /\ apl'[q].prev = apl[q].prev /\ apl'[q].new = apl[q].new
             /\ apl'[q].copy = apl[q].copy
             /\ q = p => apl'[q].pc = "writing" /\ apl'[q].part = x
             /\ q # p => apl'[q].pc = apl[q].pc /\ apl'[q].part = apl[q].part
  BY BeginWriteKeeps
<1>4. apl' \in [Appliers -> Applier]
  <2>1. apl' = [q \in Appliers |-> apl'[q]]
    BY DEF BeginWrite
  <2> QED BY <2>1, <1>3
<1>5. TypeOK'
  BY <1>1, <1>2, <1>4 DEF TypeOK, store, machine, counters
<1>6. Working' /\ Merging' /\ Awake' /\ Apart'
  BY <1>1, <1>3 DEF Working, Merging, Awake, Apart, machine
<1> QED BY <1>5, <1>6

\* Ending the write of a partition.
LEMMA EndWriteIInv == ASSUME IInv, NEW p \in Appliers, EndWrite(p)
                      PROVE  IInv'
<1> USE DEF IInv
<1> DEFINE s == apl[p].new
           x == apl[p].part
           made == IF apl[p].mixed THEN Torn ELSE BundleOf[apl[p].runtime]
           next == [apl[p] EXCEPT !.pc = "write", !.todo = @ \ {x},
                                  !.part = NONE, !.mixed = FALSE]
<1>1. /\ apl[p].pc = "writing" /\ apl[p] \in Applier /\ s \in Slots
      /\ x \in Parts /\ apl[p].runtime \in Runtimes
      /\ UNCHANGED <<pointer, oneshot, store, machine, lock, mrg, lapses, counters>>
  BY DEF TypeOK, Working, EndWrite
<1>2. slot' = [slot EXCEPT ![s] = [slot[s] EXCEPT ![x] = made]]
      /\ proven' = [proven EXCEPT ![s] = FALSE]
  BY DEF EndWrite
<1>3. made \in Content
  BY <1>1, ConstantsAssumption DEF Content
<1>4. [slot[s] EXCEPT ![x] = made] \in [boot : Content, rootfs : Content]
  BY <1>1, <1>3 DEF TypeOK, Parts
<1>5. slot' \in [Slots -> [boot : Content, rootfs : Content]]
      /\ proven' \in [Slots -> BOOLEAN]
  BY <1>1, <1>2, <1>4 DEF TypeOK
<1>6. apl' = [apl EXCEPT ![p] = next]
  BY DEF EndWrite
<1>7. next \in Applier /\ next.pc = "write" /\ next.runtime = apl[p].runtime
      /\ next.prev = apl[p].prev /\ next.new = apl[p].new
  BY <1>1 DEF Applier
<1> HIDE DEF next
<1>8. apl' \in [Appliers -> Applier] /\ Working' /\ Merging' /\ Awake' /\ Apart'
  BY <1>1, <1>6, <1>7, ApplierMoves DEF machine
<1>9. TypeOK'
  BY <1>1, <1>5, <1>8 DEF TypeOK, store, machine, counters
<1> QED BY <1>8, <1>9

\* An error before the activation.
LEMMA ApplyFailsIInv == ASSUME IInv, NEW p \in Appliers, ApplyFails(p)
                        PROVE  IInv'
<1> USE DEF IInv
<1>1. /\ Fails(p) /\ faults' = faults + 1
      /\ UNCHANGED <<medium, marker, active, machine, mrg, history, requests, refreshes, crashes>>
  BY DEF ApplyFails, Fault
<1>2. TypeOK'
  BY <1>1, FailsTypes DEF TypeOK, medium, machine, history
<1> QED BY <1>1, <1>2, FailsTypes, AppliersEnd DEF machine

\* The boot choice stays a slot.
LEMMA FlipTypes == ASSUME TypeOK, NEW s \in Slots, Flip(s)
                   PROVE  pointer' \in Slots /\ oneshot' \in Slots \cup {NONE}
  BY DEF TypeOK, Flip

\* The flip of the boot choice.
LEMMA ActivateIInv == ASSUME IInv, NEW p \in Appliers, Activate(p)
                      PROVE  IInv'
<1> USE DEF IInv
<1> DEFINE next == [apl[p] EXCEPT !.pc = "readMark"]
<1>1. /\ apl[p].pc = "write" /\ apl[p] \in Applier /\ apl[p].new \in Slots
      /\ Flip(apl[p].new) /\ apl' = [apl EXCEPT ![p] = next]
      /\ UNCHANGED <<slot, store, machine, lock, mrg, history, counters>>
  BY DEF TypeOK, Working, Activate
<1>2. next \in Applier /\ next.pc = "readMark" /\ next.runtime = apl[p].runtime
  BY <1>1 DEF Applier
<1> HIDE DEF next
<1>3. apl' \in [Appliers -> Applier] /\ Working' /\ Merging' /\ Awake' /\ Apart'
  BY <1>1, <1>2, ApplierMoves DEF machine
<1>4. TypeOK'
  BY <1>1, <1>3, FlipTypes DEF TypeOK, store, machine, history, counters
<1> QED BY <1>3, <1>4

\* A failed activation, whichever way it leaves the marker.
LEMMA ActivateFailsIInv == ASSUME IInv, NEW p \in Appliers, ActivateFails(p)
                           PROVE  IInv'
<1> USE DEF IInv
<1>1. /\ Fails(p) /\ faults' = faults + 1 /\ marker' \in {marker, NONE}
      /\ apl[p].new \in Slots
      /\ UNCHANGED <<slot, active, machine, mrg, proven, requests, refreshes, crashes>>
  BY DEF ActivateFails, Fault, Working
<1>2. pointer' \in Slots /\ oneshot' \in Slots \cup {NONE}
  BY <1>1, FlipTypes DEF ActivateFails, TypeOK
<1>3. TypeOK'
  BY <1>1, <1>2, FailsTypes DEF TypeOK, machine
<1> QED BY <1>1, <1>3, FailsTypes, AppliersEnd DEF machine

\* set_pending_runtime_id reads the marker.
LEMMA ReadMarkIInv == ASSUME IInv, NEW p \in Appliers, ReadMark(p)
                      PROVE  IInv'
<1> USE DEF IInv
<1> DEFINE next == [apl[p] EXCEPT !.pc = "setRuntime", !.copy = marker]
<1>1. /\ apl[p].pc = "readMark" /\ apl[p] \in Applier
      /\ UNCHANGED <<medium, marker, active, machine, mrg, history, counters>>
  BY DEF TypeOK, ReadMark
<1>2. CASE marker = NONE
  <2>1. Fails(p)
    BY <1>2 DEF ReadMark
  <2>2. TypeOK'
    BY <1>1, <2>1, FailsTypes DEF TypeOK, medium, machine, history, counters
  <2> QED BY <1>1, <2>1, <2>2, FailsTypes, AppliersEnd DEF machine
<1>3. CASE marker # NONE
  <2>1. apl' = [apl EXCEPT ![p] = next] /\ UNCHANGED <<staged, lock>>
    BY <1>3 DEF ReadMark
  <2>2. marker \in Marker
    BY <1>3 DEF TypeOK
  <2>3. next \in Applier /\ next.pc = "setRuntime" /\ next.copy = marker
        /\ next.runtime = apl[p].runtime
    BY <1>1, <2>2 DEF Applier
  <2> HIDE DEF next
  <2>4. apl' \in [Appliers -> Applier] /\ Working' /\ Merging' /\ Awake' /\ Apart'
    BY <1>1, <2>1, <2>2, <2>3, ApplierMoves DEF machine
  <2>5. TypeOK'
    BY <1>1, <2>1, <2>4 DEF TypeOK, medium, machine, history, counters
  <2> QED BY <2>4, <2>5
<1> QED BY <1>2, <1>3

\* set_pending_runtime_id writes it back and the request ends.
LEMMA SetRuntimeIInv == ASSUME IInv, NEW p \in Appliers, SetRuntime(p)
                        PROVE  IInv'
<1> USE DEF IInv
<1>1. /\ apl[p].copy \in Marker /\ apl[p].runtime \in Runtimes
      /\ apl' = [apl EXCEPT ![p] = IdleApplier] /\ Release(p)
      /\ UNCHANGED <<medium, staged, active, loader, running, phase, mrg, history,
                     requests, refreshes, crashes>>
  BY DEF SetRuntime, Working
<1>2. marker' \in Marker
  BY <1>1 DEF SetRuntime, Marker
<1>3. \/ rebooting' = TRUE /\ UNCHANGED faults
      \/ UNCHANGED rebooting /\ faults' = faults + 1
  BY Zenon DEF SetRuntime, Fault
<1>4. rebooting' \in BOOLEAN
  BY <1>3 DEF TypeOK
<1>5. faults' \in Nat
  BY <1>3 DEF TypeOK
<1>6. TypeOK'
  BY <1>1, <1>2, <1>4, <1>5, IdleTypes DEF TypeOK, Release, medium, history
<1>7. \A q \in Appliers : apl'[q] \in {apl[q], IdleApplier}
  BY <1>1 DEF TypeOK
<1> QED BY <1>1, <1>6, <1>7, AppliersEnd

-----------------------------------------------------------------------------
\* A merge that moves on keeps what it knows of the marker.
LEMMA MergerMoves ==
  ASSUME IInv, UNCHANGED <<loader, running, phase, apl>>,
         NEW m \in Mergers, NEW r \in Merger, running # NONE,
         mrg' = [mrg EXCEPT ![m] = r],
         r.pc \notin {"idle", "refresh", "rest"} => r.pending \in Marker
  PROVE  mrg' \in [Mergers -> Merger] /\ Working' /\ Merging' /\ Awake' /\ Apart'
  BY DEF IInv, TypeOK, Working, Merging, Awake, Apart

\* The end of a merge, and with it of the boot.
LEMMA MergerLeaves ==
  ASSUME IInv, UNCHANGED <<loader, running, apl>>,
         NEW m \in Mergers, LeaveMerge(m), mrg[m].pc # "idle"
  PROVE  /\ mrg' \in [Mergers -> Merger] /\ phase' \in {"off", "boot", "up", "stuck"}
         /\ Working' /\ Merging' /\ Awake' /\ Apart'
<1> USE DEF IInv
<1>1. running # NONE /\ phase # "off"
  BY DEF Awake
<1>2. mrg' \in [Mergers -> Merger] /\ phase' \in {"boot", "up", "stuck"}
  BY <1>1, IdleTypes DEF TypeOK, LeaveMerge
<1>3. Working' /\ Merging'
  BY <1>2 DEF TypeOK, Working, Merging, LeaveMerge, IdleMerger
<1>4. Awake'
  BY <1>1, <1>2 DEF Awake
<1>5. Apart'
  BY DEF Apart
<1> QED BY <1>2, <1>3, <1>4, <1>5

\* A merge reads the marker and knows it from then on.
LEMMA ExamineMoves ==
  ASSUME IInv, UNCHANGED <<loader, running, phase, apl, marker>>,
         NEW m \in Mergers, running # NONE, Examine(m)
  PROVE  mrg' \in [Mergers -> Merger] /\ Working' /\ Merging' /\ Awake' /\ Apart'
<1> USE DEF IInv
<1> DEFINE start == CASE marker = NONE -> "rest"
                      [] marker # NONE /\ Verified(marker.bundle) -> "commit"
                      [] OTHER -> "rollback"
           next == [mrg[m] EXCEPT !.pending = marker, !.pc = start]
<1>1. mrg[m] \in Merger /\ mrg' = [mrg EXCEPT ![m] = next]
  BY DEF TypeOK, Examine
<1>2. start \in {"rest", "commit", "rollback"} /\ (start # "rest" => marker # NONE)
  OBVIOUS
<1> HIDE DEF start
<1>3. next \in Merger /\ (next.pc \notin {"idle", "refresh", "rest"} => next.pending \in Marker)
  BY <1>1, <1>2 DEF TypeOK, Merger
<1> HIDE DEF next
<1> QED BY <1>1, <1>3, MergerMoves

\* The merge of the boot, or of a request.
LEMMA MergeStartIInv == ASSUME IInv, NEW m \in Mergers, MergeStart(m)
                        PROVE  IInv'
<1> USE DEF IInv
<1>1. /\ running # NONE /\ Examine(m) /\ refreshes' \in Nat
      /\ UNCHANGED <<medium, store, machine, lock, apl, proven, requests, crashes, faults>>
  BY DEF TypeOK, Awake, MergeStart, Accepts
<1>2. mrg' \in [Mergers -> Merger] /\ Working' /\ Merging' /\ Awake' /\ Apart'
  BY <1>1, ExamineMoves DEF machine, store
<1>3. TypeOK'
  BY <1>1, <1>2 DEF TypeOK, medium, store, machine
<1> QED BY <1>2, <1>3

\* The merge that follows an activation, or its refusal.
LEMMA RefreshIInv == ASSUME IInv, NEW m \in Mergers, Refresh(m)
                     PROVE  IInv'
<1> USE DEF IInv
<1>1. /\ running # NONE /\ faults' \in Nat
      /\ Examine(m) \/ mrg' = [mrg EXCEPT ![m] = IdleMerger]
      /\ UNCHANGED <<medium, store, machine, lock, apl, proven, requests, refreshes, crashes>>
  BY DEF TypeOK, Awake, Refresh, Fault
<1>2. mrg' \in [Mergers -> Merger] /\ Working' /\ Merging' /\ Awake' /\ Apart'
  <2>1. CASE Examine(m)
    BY <1>1, <2>1, ExamineMoves DEF machine, store
  <2>2. CASE mrg' = [mrg EXCEPT ![m] = IdleMerger]
    BY <1>1, <2>2, IdleTypes, MergerMoves DEF machine, IdleMerger
  <2> QED BY <1>1, <2>1, <2>2
<1>3. TypeOK'
  BY <1>1, <1>2 DEF TypeOK, medium, store, machine
<1> QED BY <1>2, <1>3

\* The commit actions.
LEMMA CommitIInv == ASSUME IInv, NEW m \in Mergers, Commit(m)
                    PROVE  IInv'
<1> USE DEF IInv
<1> DEFINE next == [mrg[m] EXCEPT !.pc = "promote"]
<1>1. /\ mrg[m] \in Merger /\ mrg[m].pending \in Marker /\ running # NONE
      /\ mrg' = [mrg EXCEPT ![m] = next]
      /\ UNCHANGED <<slot, oneshot, store, machine, lock, apl, lapses,
                     requests, refreshes, crashes>>
  BY DEF TypeOK, Merging, Awake, Commit
<1>2. next \in Merger /\ next.pending \in Marker
  BY <1>1 DEF Merger
<1> HIDE DEF next
<1>3. mrg' \in [Mergers -> Merger] /\ Working' /\ Merging' /\ Awake' /\ Apart'
  BY <1>1, <1>2, MergerMoves DEF machine
<1>4. pointer' \in Slots /\ faults' \in Nat
  BY <1>1 DEF TypeOK, Commit, Fault, Marker
<1>5. proven' \in [Slots -> BOOLEAN]
  <2>1. proven' = [proven EXCEPT ![running.slot] =
                     \/ proven[running.slot]
                     \/ /\ slot[running.slot].boot = running.boot
                        /\ slot[running.slot].rootfs = running.rootfs]
    BY DEF Commit
  <2>2. ASSUME NEW b \in BOOLEAN
        PROVE  [proven EXCEPT ![running.slot] = b] \in [Slots -> BOOLEAN]
    BY DEF TypeOK
  <2>3. (\/ proven[running.slot]
         \/ /\ slot[running.slot].boot = running.boot
            /\ slot[running.slot].rootfs = running.rootfs) \in BOOLEAN
    OBVIOUS
  <2> QED BY <2>1, <2>2, <2>3, Zenon
<1>6. TypeOK'
  BY <1>1, <1>3, <1>4, <1>5 DEF TypeOK, store, machine
<1> QED BY <1>3, <1>6

\* The promotion of the pending runtime.
LEMMA PromoteIInv == ASSUME IInv, NEW m \in Mergers, Promote(m)
                     PROVE  IInv'
<1> USE DEF IInv
<1> DEFINE next == [mrg[m] EXCEPT !.pc = "clear"]
<1>1. /\ mrg[m] \in Merger /\ mrg[m].pending \in Marker /\ running # NONE
      /\ mrg' = [mrg EXCEPT ![m] = next]
      /\ UNCHANGED <<medium, marker, staged, machine, lock, apl, history, counters>>
  BY DEF TypeOK, Merging, Awake, Promote
<1>2. next \in Merger /\ next.pending \in Marker
  BY <1>1 DEF Merger
<1> HIDE DEF next
<1>3. mrg' \in [Mergers -> Merger] /\ Working' /\ Merging' /\ Awake' /\ Apart'
  BY <1>1, <1>2, MergerMoves DEF machine
<1>4. active' \in Runtimes
  BY DEF TypeOK, Promote
<1>5. TypeOK'
  BY <1>1, <1>3, <1>4 DEF TypeOK, medium, machine, history, counters
<1> QED BY <1>3, <1>5

\* The rollback actions: the slot cleared is typed, and so is the boot choice.
LEMMA RollbackIInv == ASSUME IInv, NEW m \in Mergers, Rollback(m)
                      PROVE  IInv'
<1> USE DEF IInv
<1> DEFINE pm == mrg[m].pending
           moved == [mrg[m] EXCEPT !.pc = "unmark", !.moved = TRUE]
           stayed == [mrg[m] EXCEPT !.pc = "unmark"]
<1>1. /\ mrg[m] \in Merger /\ pm \in Marker /\ running # NONE
      /\ pm.prev \in Slots /\ pm.new \in Slots
      /\ UNCHANGED <<store, machine, lock, apl, requests, refreshes, crashes>>
  BY DEF TypeOK, Merging, Awake, Rollback, Marker
<1>2. /\ moved \in Merger /\ moved.pending \in Marker
      /\ stayed \in Merger /\ stayed.pending \in Marker
  BY <1>1 DEF Merger
<1>3. \/ /\ Unflip(pm.prev, pm.new)
         /\ proven' = IF loader = "sorting" THEN [proven EXCEPT ![pm.new] = FALSE] ELSE proven
         /\ mrg' = [mrg EXCEPT ![m] = moved] /\ UNCHANGED faults
      \/ /\ faults' \in {faults, faults + 1}
         /\ mrg' = [mrg EXCEPT ![m] = stayed] /\ UNCHANGED <<medium, proven>>
  BY DEF Rollback, Fault
<1> HIDE DEF moved, stayed
<1>4. mrg' \in [Mergers -> Merger] /\ Working' /\ Merging' /\ Awake' /\ Apart'
  BY <1>1, <1>2, <1>3, MergerMoves DEF machine
<1>5. /\ slot' \in [Slots -> [boot : Content, rootfs : Content]]
      /\ pointer' \in Slots /\ oneshot' \in Slots \cup {NONE}
      /\ proven' \in [Slots -> BOOLEAN] /\ faults' \in Nat
  <2>1. CASE /\ Unflip(pm.prev, pm.new) /\ UNCHANGED faults
             /\ proven' = IF loader = "sorting" THEN [proven EXCEPT ![pm.new] = FALSE]
                                                 ELSE proven
    <3>1. slot' \in [Slots -> [boot : Content, rootfs : Content]]
      <4>1. [slot[pm.new] EXCEPT !.boot = Blank] \in [boot : Content, rootfs : Content]
        BY <1>1 DEF TypeOK, Content
      <4>2. slot' \in {slot, [slot EXCEPT ![pm.new] = [slot[pm.new] EXCEPT !.boot = Blank]]}
        BY <2>1 DEF Unflip
      <4> QED BY <4>1, <4>2 DEF TypeOK
    <3>2. pointer' \in Slots /\ oneshot' \in Slots \cup {NONE}
      BY <1>1, <2>1, FlipTypes DEF Unflip
    <3>3. proven' \in [Slots -> BOOLEAN] /\ faults' \in Nat
      BY <2>1 DEF TypeOK
    <3> QED BY <3>1, <3>2, <3>3
  <2>2. CASE faults' \in {faults, faults + 1} /\ UNCHANGED <<medium, proven>>
    BY <2>2 DEF TypeOK, medium
  <2> QED BY <1>3, <2>1, <2>2
<1>6. TypeOK'
  BY <1>1, <1>4, <1>5 DEF TypeOK, store, machine
<1> QED BY <1>4, <1>6

\* rollback_os_update removes the marker, or ends in an error.
LEMMA UnmarkIInv == ASSUME IInv, NEW m \in Mergers, Unmark(m)
                    PROVE  IInv'
<1> USE DEF IInv
<1> DEFINE told == [mrg[m] EXCEPT !.pc = "clear"]
           untold == [mrg[m] EXCEPT !.pc = "clear", !.moved = FALSE]
<1>1. /\ mrg[m] \in Merger /\ mrg[m].pending \in Marker /\ running # NONE
      /\ UNCHANGED <<medium, staged, active, machine, lock, apl, proven,
                     requests, refreshes, crashes>>
  BY DEF TypeOK, Merging, Awake, Unmark
<1>2. /\ told \in Merger /\ told.pending \in Marker
      /\ untold \in Merger /\ untold.pending \in Marker
  BY <1>1 DEF Merger
<1>3. /\ mrg' = [mrg EXCEPT ![m] = told] \/ mrg' = [mrg EXCEPT ![m] = untold]
      /\ marker' \in {marker, NONE} /\ faults' \in {faults, faults + 1}
  BY DEF Unmark, Fault
<1> HIDE DEF told, untold
<1>4. mrg' \in [Mergers -> Merger] /\ Working' /\ Merging' /\ Awake' /\ Apart'
  BY <1>1, <1>2, <1>3, MergerMoves DEF machine
<1>5. TypeOK'
  BY <1>1, <1>3, <1>4 DEF TypeOK, medium, machine
<1> QED BY <1>4, <1>5

\* The merge removes the marker, or cannot, and is to reboot or to go on.
LEMMA ClearIInv == ASSUME IInv, NEW m \in Mergers, Clear(m)
                   PROVE  IInv'
<1> USE DEF IInv
<1> DEFINE next == IF mrg[m].moved THEN [mrg[m] EXCEPT !.pc = "reboot"]
                                   ELSE [mrg[m] EXCEPT !.pc = "rest", !.pending = NONE]
<1>1. /\ mrg[m] \in Merger /\ mrg[m].pending \in Marker /\ running # NONE
      /\ mrg' = [mrg EXCEPT ![m] = next]
      /\ marker' \in {marker, NONE} /\ faults' \in {faults, faults + 1}
      /\ UNCHANGED <<medium, staged, active, machine, lock, apl, proven,
                     requests, refreshes, crashes>>
  BY DEF TypeOK, Merging, Awake, Clear, Decided, Fault
<1>2. next \in Merger /\ (next.pc # "rest" => next.pending \in Marker)
  BY <1>1 DEF Merger
<1> HIDE DEF next
<1>3. mrg' \in [Mergers -> Merger] /\ Working' /\ Merging' /\ Awake' /\ Apart'
  BY <1>1, <1>2, MergerMoves DEF machine
<1>4. TypeOK'
  BY <1>1, <1>3 DEF TypeOK, medium, machine
<1> QED BY <1>3, <1>4

\* The reboot that follows a rollback, or its failure.
LEMMA RebootBackIInv == ASSUME IInv, NEW m \in Mergers, RebootBack(m)
                        PROVE  IInv'
<1> USE DEF IInv
<1>1. /\ mrg[m].pc = "reboot" /\ running # NONE
      /\ UNCHANGED <<medium, store, loader, running, lock, apl, history,
                     requests, refreshes, crashes>>
  BY DEF TypeOK, Awake, RebootBack
<1>2. CASE rebooting' = TRUE /\ mrg' = [mrg EXCEPT ![m] = IdleMerger]
           /\ UNCHANGED <<phase, faults>>
  <2>1. mrg' \in [Mergers -> Merger] /\ Working' /\ Merging' /\ Awake' /\ Apart'
    BY <1>1, <1>2, IdleTypes, MergerMoves DEF IdleMerger
  <2>2. TypeOK'
    BY <1>1, <1>2, <2>1 DEF TypeOK, medium, store, history
  <2> QED BY <2>1, <2>2
<1>3. CASE LeaveMerge(m) /\ faults' = faults + 1 /\ UNCHANGED rebooting
  <2>1. /\ mrg' \in [Mergers -> Merger] /\ phase' \in {"off", "boot", "up", "stuck"}
        /\ Working' /\ Merging' /\ Awake' /\ Apart'
    BY <1>1, <1>3, MergerLeaves
  <2>2. TypeOK'
    BY <1>1, <1>3, <2>1 DEF TypeOK, medium, store, history
  <2> QED BY <2>1, <2>2
<1>4. \/ /\ rebooting' = TRUE /\ mrg' = [mrg EXCEPT ![m] = IdleMerger]
         /\ UNCHANGED <<phase, faults>>
      \/ LeaveMerge(m) /\ faults' = faults + 1 /\ UNCHANGED rebooting
  BY Zenon DEF RebootBack, Fault
<1> QED BY <1>2, <1>3, <1>4

\* The fallback to a compatible runtime and the end of the merge.
LEMMA RestIInv == ASSUME IInv, NEW m \in Mergers, Rest(m)
                  PROVE  IInv'
<1> USE DEF IInv
<1>1. /\ mrg[m].pc = "rest" /\ LeaveMerge(m)
      /\ UNCHANGED <<medium, marker, staged, loader, running, rebooting, lock, apl,
                     history, counters>>
  BY DEF Rest
<1>2. active' \in Runtimes
  BY DEF TypeOK, Rest, Fallbacks
<1>3. /\ mrg' \in [Mergers -> Merger] /\ phase' \in {"off", "boot", "up", "stuck"}
      /\ Working' /\ Merging' /\ Awake' /\ Apart'
  BY <1>1, MergerLeaves
<1>4. TypeOK'
  BY <1>1, <1>2, <1>3 DEF TypeOK, medium, history, counters
<1> QED BY <1>3, <1>4

-----------------------------------------------------------------------------
\* A reboot or a power failure: nothing runs, so nothing is being written.
LEMMA PowerOffIInv == ASSUME IInv, PowerOff, crashes' \in Nat,
                             UNCHANGED <<requests, refreshes, faults>>
                      PROVE  IInv'
<1> USE DEF IInv
<1>1. apl' \in [Appliers -> Applier] /\ mrg' \in [Mergers -> Merger]
  BY IdleTypes DEF PowerOff
<1>2. TypeOK'
  BY <1>1 DEF TypeOK, PowerOff, medium, store, history
<1>3. Working' /\ Merging' /\ Awake' /\ Apart'
  BY DEF PowerOff, Working, Merging, Awake, Apart, IdleApplier, IdleMerger
<1> QED BY <1>2, <1>3

\* A boot starts with every process idle, so Apart holds of the new running slot.
LEMMA BootIInv == ASSUME IInv, Boot
                  PROVE  IInv'
<1> USE DEF IInv
<1>1. /\ phase = "off" /\ running = NONE /\ oneshot' = NONE
      /\ UNCHANGED <<loader, rebooting, slot, pointer, store, lock, apl, mrg, history, counters>>
  BY DEF Boot, Awake
<1>2. \/ running' \in Running /\ phase' = "boot"
      \/ running' = NONE /\ phase' = "stuck"
  <2>1. CASE running' = NONE /\ phase' = "stuck"
    BY <2>1
  <2>2. ASSUME NEW s \in Targets, slot[s].boot \in Bundles, phase' = "boot",
               running' = [slot |-> s, boot |-> slot[s].boot, rootfs |-> slot[s].rootfs]
        PROVE  running' \in Running /\ phase' = "boot"
    <3>1. s \in Slots /\ slot[s].rootfs \in Content
      BY TargetsAreSlots DEF TypeOK
    <3> QED BY <2>2, <3>1 DEF Running
  <2> QED BY <2>1, <2>2 DEF Boot
<1>3. TypeOK'
  BY <1>1, <1>2 DEF TypeOK, store, history, counters
<1>4. Working' /\ Merging' /\ Apart'
  BY <1>1 DEF Working, Merging, Awake, Apart
<1>5. Awake'
  BY <1>1, <1>2, ConstantsAssumption DEF Awake
<1> QED BY <1>3, <1>4, <1>5

-----------------------------------------------------------------------------
\* Every step preserves the invariant.
LEMMA NextIInv == IInv /\ [Next]_vars => IInv'
<1> SUFFICES ASSUME IInv, [Next]_vars PROVE IInv'
  OBVIOUS
<1>1. ASSUME NEW p \in Appliers, NEW r \in Runtimes, Request(p, r) PROVE IInv'
  BY <1>1, RequestIInv
<1>2. ASSUME NEW p \in Appliers, ApplyStep(p) PROVE IInv'
  BY <1>2, DecideIInv, DetectIInv, MarkIInv, BeginWriteIInv, EndWriteIInv,
     ActivateIInv, ReadMarkIInv, SetRuntimeIInv DEF ApplyStep
<1>3. ASSUME NEW p \in Appliers, ApplyFails(p) \/ ActivateFails(p) PROVE IInv'
  BY <1>3, ApplyFailsIInv, ActivateFailsIInv
<1>4. ASSUME NEW m \in Mergers, MergeStart(m) \/ MergeStep(m) PROVE IInv'
  BY <1>4, MergeStartIInv, RefreshIInv, CommitIInv, PromoteIInv, RollbackIInv, UnmarkIInv,
     ClearIInv, RebootBackIInv, RestIInv DEF MergeStep
<1>5. CASE Reboot \/ Crash
  BY <1>5, PowerOffIInv DEF Reboot, Crash, counters, IInv, TypeOK
<1>6. CASE Boot
  BY <1>6, BootIInv
<1>7. CASE UNCHANGED vars
  BY <1>7 DEF vars, medium, store, machine, history, counters,
              IInv, TypeOK, Working, Merging, Awake, Apart
<1> QED BY <1>1, <1>2, <1>3, <1>4, <1>5, <1>6, <1>7 DEF Next

\* The invariant that the two theorems below rest on.
THEOREM Invariance == Spec => []IInv
  BY InitIInv, NextIInv, PTL DEF Spec

\* Every variable keeps its type: the model of os_update.rs and of the merge in
\* commands/ext.rs never follows a marker, slot or runtime it does not have.
THEOREM Typing == Spec => []TypeOK
<1>1. IInv => TypeOK
  BY DEF IInv
<1> QED BY <1>1, Invariance, PTL

-----------------------------------------------------------------------------
\* An apply writes the slot it chose, and so not the one that is running.
LEMMA WriteElsewhere ==
  ASSUME IInv, loader # "uboot", running # NONE, NEW p \in Appliers,
         EndWrite(p) \/ \E x \in Parts : BeginWrite(p, x)
  PROVE  slot'[running.slot] = slot[running.slot]
<1>1. apl[p].new \in Slots /\ apl[p].new # running.slot /\ running.slot \in Slots
  BY DEF IInv, TypeOK, Running, Working, Apart, EndWrite, BeginWrite
<1>2. CASE EndWrite(p)
  BY <1>1, <1>2 DEF IInv, TypeOK, EndWrite
<1>3. CASE \E x \in Parts : BeginWrite(p, x)
  <2>1. PICK x \in Parts : BeginWrite(p, x)
    BY <1>3
  <2>2. slot' = slot \/ slot' = [slot EXCEPT ![apl[p].new][x] = Torn]
    BY <2>1 DEF BeginWrite
  <2> QED BY <1>1, <2>2 DEF IInv, TypeOK
<1> QED BY <1>2, <1>3

\* A merge that changes a slot clears the boot image of the slot it rolls back.
LEMMA RollbackElsewhere ==
  ASSUME IInv, running # NONE, NEW m \in Mergers, Rollback(m),
         mrg[m].pending.new # running.slot
  PROVE  slot'[running.slot] = slot[running.slot]
<1>1. mrg[m].pending.new \in Slots /\ running.slot \in Slots
  BY DEF IInv, TypeOK, Running, Merging, Marker, Rollback
<1>2. slot' = slot \/ slot' = [slot EXCEPT ![mrg[m].pending.new].boot = Blank]
  BY DEF Rollback, Unflip, medium
<1> QED BY <1>1, <1>2 DEF IInv, TypeOK

\* However many update passes, activations and merges run at once, none of them
\* writes the running slot, whatever crashes and failures they meet: only the
\* rollback of that slot removes its boot image. U-Boot is excluded, where the
\* detection of os_update.rs reports the slot of the next boot.
THEOREM RunningSlotSafe == ASSUME "uboot" \notin Loaders
                           PROVE  Spec => RunningSlotUntouched
<1>1. IInv /\ [Next]_vars => [OnlyRolledBack]_vars
  <2> SUFFICES ASSUME IInv, Next, running # NONE, slot'[running.slot] # slot[running.slot]
               PROVE  \E m \in Mergers : /\ mrg[m].pc = "rollback"
                                         /\ mrg[m].pending.new = running.slot
    BY DEF OnlyRolledBack
  <2>1. loader # "uboot"
    BY DEF IInv, TypeOK
  <2>2. ASSUME NEW p \in Appliers, NEW r \in Runtimes, Request(p, r) PROVE FALSE
    BY <2>2 DEF Request, medium
  <2>3. ASSUME NEW p \in Appliers, ApplyStep(p) PROVE FALSE
    BY <2>1, <2>3, WriteElsewhere
       DEF ApplyStep, Decide, Detect, Mark, Activate, ReadMark, SetRuntime, medium
  <2>4. ASSUME NEW p \in Appliers, ApplyFails(p) \/ ActivateFails(p) PROVE FALSE
    BY <2>4 DEF ApplyFails, ActivateFails, medium
  <2>5. ASSUME NEW m \in Mergers, MergeStart(m) PROVE FALSE
    BY <2>5 DEF MergeStart, medium
  <2>6. ASSUME NEW m \in Mergers, MergeStep(m)
        PROVE  mrg[m].pc = "rollback" /\ mrg[m].pending.new = running.slot
    <3>1. Rollback(m)
      BY <2>6 DEF MergeStep, Refresh, Commit, Promote, Unmark, Clear, RebootBack, Rest, medium
    <3> QED BY <3>1, RollbackElsewhere DEF Rollback
  <2>7. CASE Reboot \/ Crash \/ Boot
    BY <2>7 DEF Reboot, Crash, PowerOff, Boot, medium
  <2> QED BY <2>2, <2>3, <2>4, <2>5, <2>6, <2>7 DEF Next
<1> QED BY <1>1, Invariance, PTL DEF Spec, RunningSlotUntouched

-----------------------------------------------------------------------------
(* One request or refresh at a time *)

\* An apply under way is alone, on a device whose boot is over; a merge under
\* way is the only merge. The boot choice has been moved back only by a
\* rollback that has not ended, and a device that is off has forgotten that it
\* was to reboot.
Sole ==
  /\ \A p \in Appliers : apl[p].pc # "idle" =>
        /\ phase = "up"
        /\ \A q \in Appliers : q # p => apl[q].pc = "idle"
        /\ \A m \in Mergers : mrg[m].pc = "idle"
  /\ \A m \in Mergers : mrg[m].pc # "idle" =>
        /\ phase \in {"boot", "up"}
        /\ \A n \in Mergers : n # m => mrg[n].pc = "idle"
  /\ \A m \in Mergers : mrg[m].moved => mrg[m].pc \in {"unmark", "clear", "reboot"}
  /\ \A m \in Mergers : mrg[m].pc = "reboot" => mrg[m].moved
  /\ phase = "off" => ~rebooting
  /\ phase = "boot" /\ rebooting => \A m \in Mergers : mrg[m].pc = "idle"

\* An apply that stays alone leaves Sole true.
LEMMA ApplierAlone ==
  ASSUME IInv, Sole, NEW p \in Appliers, apl[p].pc # "idle",
         \A q \in Appliers : q # p => apl'[q].pc = apl[q].pc,
         UNCHANGED <<phase, mrg>>
  PROVE  Sole'
  BY DEF Sole

\* So does a merge that stays alone, or ends.
LEMMA MergerAlone ==
  ASSUME IInv, Sole, NEW m \in Mergers, NEW r \in Merger, mrg[m].pc # "idle",
         mrg' = [mrg EXCEPT ![m] = r], r.moved => r.pc \in {"unmark", "clear", "reboot"},
         r.pc = "reboot" => r.moved,
         UNCHANGED apl,
         \/ UNCHANGED <<phase, rebooting>>
         \/ r.pc = "idle" /\ phase' = phase
         \/ r.pc = "idle" /\ phase' \in {"up", "stuck"}
  PROVE  Sole'
<1>1. /\ m \in DOMAIN mrg /\ mrg[m] \in Merger
      /\ \A n \in Mergers : mrg'[n] = IF n = m THEN r ELSE mrg[n]
  BY DEF IInv, TypeOK
<1>2. running # NONE /\ phase # "off" /\ \A p \in Appliers : apl[p].pc = "idle"
  BY DEF IInv, Awake, Sole
<1> QED BY <1>1, <1>2 DEF Sole

\* A request is accepted only when every thread is idle.
LEMMA RequestSole ==
  ASSUME Serialised, IInv, Sole, NEW p \in Appliers, NEW r \in Runtimes, Request(p, r)
  PROVE  Sole'
<1>1. AllIdle /\ phase = "up" /\ UNCHANGED <<phase, rebooting, mrg>>
  BY DEF Request, Accepts, machine
<1>2. \A q \in Appliers : q # p => apl'[q] = apl[q]
  BY DEF Request, IInv, TypeOK
<1> QED BY <1>1, <1>2 DEF Sole, AllIdle

\* The activation hands over to its own refresh, or ends.
LEMMA ActivateRuntimeSole ==
  ASSUME IInv, Sole, NEW p \in Appliers, ActivateRuntime(p), apl[p].pc # "idle",
         UNCHANGED <<phase, rebooting>>
  PROVE Sole'
<1>1. \A q \in Appliers : apl'[q] = IF q = p THEN IdleApplier ELSE apl[q]
  BY DEF ActivateRuntime, Fails, IInv, TypeOK
<1>2. p \in Mergers /\ mrg[p] \in Merger
  BY DEF Mergers, IInv, TypeOK
<1>3. UNCHANGED mrg \/ mrg' = [mrg EXCEPT ![p] = [mrg[p] EXCEPT !.pc = "refresh"]]
  BY DEF ActivateRuntime
<1>4. \A n \in Mergers : /\ n # p => mrg'[n] = mrg[n]
                         /\ mrg'[n].moved = mrg[n].moved
                         /\ mrg'[n].pc \in {mrg[n].pc, "refresh"}
  BY <1>2, <1>3 DEF IInv, TypeOK, Merger
<1>5. \A q \in Appliers : apl'[q].pc = "idle"
  BY <1>1 DEF Sole, IdleApplier
<1> QED BY <1>2, <1>4, <1>5 DEF Sole

\* A merge that looks at the marker while all else is idle is the only one.
LEMMA ExamineSole ==
  ASSUME IInv, Sole, NEW m \in Mergers, Examine(m), UNCHANGED <<apl, phase, rebooting>>,
         \A n \in Mergers : n # m => mrg[n].pc = "idle",
         \A p \in Appliers : apl[p].pc = "idle",
         ~mrg[m].moved, phase = "up" \/ (phase = "boot" /\ ~rebooting)
  PROVE  Sole'
<1>1. \A n \in Mergers : n # m => mrg'[n] = mrg[n]
  BY DEF IInv, TypeOK, Examine
<1>2. mrg'[m].moved = mrg[m].moved /\ mrg'[m].pc # "reboot"
  BY DEF IInv, TypeOK, Examine, Merger
<1> QED BY <1>1, <1>2 DEF Sole

\* Every step of an apply, and every error of it.
LEMMA ApplySole ==
  ASSUME IInv, Sole, NEW p \in Appliers, ApplyStep(p) \/ ApplyFails(p) \/ ActivateFails(p)
  PROVE  Sole'
<1>1. CASE ActivateRuntime(p) /\ (Decide(p) \/ Detect(p))
  BY <1>1, ActivateRuntimeSole DEF Decide, Detect, machine
<1>2. CASE ~ActivateRuntime(p) /\ (Decide(p) \/ Detect(p))
  <2>1. /\ apl[p].pc # "idle" /\ UNCHANGED <<phase, mrg>>
        /\ \A q \in Appliers : q # p => apl'[q].pc = apl[q].pc
    BY <1>2 DEF IInv, TypeOK, Decide, Detect, machine
  <2> QED BY <2>1, ApplierAlone
<1>3. CASE Mark(p) \/ EndWrite(p) \/ Activate(p) \/ ReadMark(p) \/ SetRuntime(p)
           \/ ApplyFails(p) \/ ActivateFails(p)
  <2>1. /\ apl[p].pc # "idle" /\ UNCHANGED <<phase, mrg>>
        /\ \A q \in Appliers : q # p => apl'[q].pc = apl[q].pc
    BY <1>3 DEF IInv, TypeOK, Mark, EndWrite, Activate, ReadMark, SetRuntime,
                ApplyFails, ActivateFails, Fails, machine
  <2> QED BY <2>1, ApplierAlone
<1>4. CASE \E x \in Parts : BeginWrite(p, x)
  <2>1. PICK x \in Parts : BeginWrite(p, x)
    BY <1>4
  <2>2. apl[p].pc # "idle" /\ UNCHANGED <<phase, mrg>>
    BY <2>1 DEF BeginWrite, machine
  <2>3. \A q \in Appliers : q # p => apl'[q].pc = apl[q].pc
    BY <2>1, BeginWriteKeeps
  <2> QED BY <2>2, <2>3, ApplierAlone
<1> QED BY <1>1, <1>2, <1>3, <1>4 DEF ApplyStep

\* A merge starts only when every thread is idle.
LEMMA MergeStartSole ==
  ASSUME Serialised, IInv, Sole, NEW m \in Mergers, MergeStart(m)
  PROVE  Sole'
<1>1. /\ AllIdle /\ Examine(m) /\ UNCHANGED <<apl, phase, rebooting>> /\ mrg[m].pc = "idle"
      /\ phase = "up" \/ (phase = "boot" /\ ~rebooting)
  BY DEF MergeStart, Accepts, machine
<1> QED BY <1>1, ExamineSole DEF AllIdle, Sole

\* Every step of a merge.
LEMMA MergeStepSole ==
  ASSUME IInv, Sole, NEW m \in Mergers, MergeStep(m)
  PROVE  Sole'
<1>0. mrg[m] \in Merger /\ mrg[m].pc # "idle"
  BY DEF IInv, TypeOK, MergeStep, Refresh, Commit, Promote, Rollback, Unmark, Clear, RebootBack,
         Rest
<1>1. CASE Refresh(m) /\ Examine(m)
  <2>1. UNCHANGED <<apl, phase, rebooting>> /\ mrg[m].pc = "refresh"
    BY <1>1 DEF Refresh, machine
  <2>2. \A n \in Mergers : n # m => mrg[n].pc = "idle"
    BY <1>0 DEF Sole
  <2>3. \A p \in Appliers : apl[p].pc = "idle"
    BY <1>0 DEF Sole
  <2>4. ~mrg[m].moved /\ (phase = "up" \/ (phase = "boot" /\ ~rebooting))
    BY <2>1, <1>0 DEF Sole, IInv, Awake
  <2> QED BY <1>1, <2>1, <2>2, <2>3, <2>4, ExamineSole
<1>2. CASE Refresh(m) /\ ~Examine(m)
  <2>1. UNCHANGED <<apl, phase, rebooting>> /\ mrg' = [mrg EXCEPT ![m] = IdleMerger]
    BY <1>2 DEF Refresh, machine
  <2> QED BY <1>0, <2>1, MergerAlone, IdleTypes DEF IdleMerger
<1>3. CASE Commit(m) \/ Promote(m) \/ Rollback(m) \/ Unmark(m)
  <2>1. PICK r \in {[mrg[m] EXCEPT !.pc = "promote"], [mrg[m] EXCEPT !.pc = "clear"],
                    [mrg[m] EXCEPT !.pc = "clear", !.moved = FALSE],
                    [mrg[m] EXCEPT !.pc = "unmark", !.moved = TRUE],
                    [mrg[m] EXCEPT !.pc = "unmark"]} :
           /\ mrg' = [mrg EXCEPT ![m] = r] /\ UNCHANGED <<apl, phase, rebooting>>
           /\ r.pc = "promote" => mrg[m].pc = "commit"
    BY <1>3, <1>0 DEF Commit, Promote, Rollback, Unmark, machine, Merger
  <2>2. r \in Merger /\ r.pc \in {"promote", "clear", "unmark"} /\ (r.pc = "promote" => ~r.moved)
    BY <1>0, <2>1 DEF Merger, Sole
  <2> QED BY <1>0, <2>1, <2>2, MergerAlone
<1>4. CASE Clear(m)
  <2>1. CASE mrg[m].moved
    <3>1. /\ mrg' = [mrg EXCEPT ![m] = [mrg[m] EXCEPT !.pc = "reboot"]]
          /\ UNCHANGED <<apl, phase, rebooting>>
      BY <1>4, <2>1 DEF Clear, Decided, machine
    <3>2. /\ [mrg[m] EXCEPT !.pc = "reboot"] \in Merger
          /\ [mrg[m] EXCEPT !.pc = "reboot"].pc = "reboot"
          /\ [mrg[m] EXCEPT !.pc = "reboot"].moved
      BY <1>0, <2>1 DEF Merger
    <3> QED BY <1>0, <3>1, <3>2, MergerAlone
  <2>2. CASE ~mrg[m].moved
    <3> DEFINE next == [mrg[m] EXCEPT !.pc = "rest", !.pending = NONE]
    <3>1. mrg' = [mrg EXCEPT ![m] = next] /\ UNCHANGED <<apl, phase, rebooting>>
      BY <1>4, <2>2 DEF Clear, Decided, machine
    <3>2. next \in Merger /\ next.pc = "rest" /\ ~next.moved
      BY <1>0, <2>2 DEF Merger
    <3> HIDE DEF next
    <3> QED BY <1>0, <3>1, <3>2, MergerAlone
  <2> QED BY <2>1, <2>2
<1>5. CASE RebootBack(m) \/ Rest(m)
  <2>1. /\ mrg' = [mrg EXCEPT ![m] = IdleMerger] /\ UNCHANGED apl
        /\ phase' = phase \/ phase' \in {"up", "stuck"}
    BY <1>5 DEF RebootBack, Rest, LeaveMerge
  <2> QED BY <1>0, <2>1, MergerAlone, IdleTypes DEF IdleMerger
<1> QED BY <1>1, <1>2, <1>3, <1>4, <1>5 DEF MergeStep

\* Sole is preserved by every step.
LEMMA NextSole ==
  ASSUME Serialised, IInv, Sole, [Next]_vars
  PROVE  Sole'
<1>1. ASSUME NEW p \in Appliers, NEW r \in Runtimes, Request(p, r) PROVE Sole'
  BY <1>1, RequestSole
<1>2. ASSUME NEW p \in Appliers, ApplyStep(p) \/ ApplyFails(p) \/ ActivateFails(p) PROVE Sole'
  BY <1>2, ApplySole
<1>3. ASSUME NEW m \in Mergers, MergeStart(m) \/ MergeStep(m) PROVE Sole'
  BY <1>3, MergeStartSole, MergeStepSole
<1>4. CASE Reboot \/ Crash
  BY <1>4 DEF Reboot, Crash, PowerOff, Sole, IdleApplier, IdleMerger
<1>5. CASE Boot
  <2>1. /\ \A p \in Appliers : apl[p].pc = "idle"
        /\ \A m \in Mergers : mrg[m].pc = "idle"
        /\ UNCHANGED <<apl, mrg, rebooting>> /\ ~rebooting /\ phase' \in {"boot", "stuck"}
    BY <1>5 DEF Boot, IInv, Awake, Sole
  <2> QED BY <2>1 DEF Sole
<1>6. CASE UNCHANGED vars
  BY <1>6 DEF vars, machine, Sole
<1> QED BY <1>1, <1>2, <1>3, <1>4, <1>5, <1>6 DEF Next

-----------------------------------------------------------------------------
(* What the marker says *)

\* The runtime the marker names, if any, runs on the bundle it names.
Named == marker # NONE /\ marker.runtime # NONE => BundleOf[marker.runtime] = marker.bundle

\* What an apply knows of the marker: it rewrites the OS only when the running
\* one does not satisfy its runtime, it writes the slot its own marker names,
\* and the marker it completes is for its runtime's bundle.
MarkedBy(p) ==
  /\ apl[p].pc = "detect" => ~Satisfied(apl[p].runtime)
  /\ apl[p].pc \in {"write", "writing"}
       => marker = [bundle |-> BundleOf[apl[p].runtime], prev |-> apl[p].prev,
                    new |-> apl[p].new, runtime |-> NONE]
  /\ apl[p].pc = "readMark" => marker # NONE /\ marker.bundle = BundleOf[apl[p].runtime]
  /\ apl[p].pc = "setRuntime" => /\ marker = apl[p].copy
                                 /\ marker.bundle = BundleOf[apl[p].runtime]

\* What a merge knows of the marker it read: nobody has rewritten it, and one
\* that is being accepted names the rootfs that is running, when its bundle
\* says how to verify.
ReadBy(m) ==
  /\ mrg[m].pc \in {"commit", "promote", "rollback", "unmark"} => marker = mrg[m].pending
  /\ mrg[m].pc = "clear" => marker \in {NONE, mrg[m].pending}
  /\ mrg[m].pc \in {"rest", "reboot"} => marker = NONE \/ "markerKept" \in lapses
  /\ mrg[m].pc \in {"commit", "promote"} /\ mrg[m].pending.bundle \in HasVerify
       => RunsRootfs(mrg[m].pending.bundle)

\* The marker and what the threads have read of it agree.
Told == /\ Named
        /\ \A p \in Appliers : MarkedBy(p)
        /\ \A m \in Mergers : ReadBy(m)

\* A step of an apply, while every merge is idle or about to begin.
LEMMA ApplierTold ==
  ASSUME IInv, Sole, Told, NEW p \in Appliers, apl[p].pc # "idle",
         \A q \in Appliers : q # p => apl'[q].pc = apl[q].pc,
         \A m \in Mergers : mrg'[m].pc \in {"idle", "refresh"},
         Named', MarkedBy(p)'
  PROVE  Told'
  BY DEF Sole, Told, MarkedBy, ReadBy

\* A step of the only merge, while every apply is idle.
LEMMA MergerTold ==
  ASSUME IInv, Sole, Told, NEW m \in Mergers,
         \A p \in Appliers : apl[p].pc = "idle",
         \A n \in Mergers : n # m => mrg[n].pc = "idle",
         UNCHANGED apl,
         \A n \in Mergers : n # m => mrg'[n] = mrg[n],
         Named', ReadBy(m)'
  PROVE  Told'
  BY DEF Sole, Told, MarkedBy, ReadBy

\* While an apply is under way no merge is.
LEMMA MergersIdle == ASSUME Sole, NEW p \in Appliers, apl[p].pc # "idle"
                     PROVE  \A m \in Mergers : mrg[m].pc = "idle"
  BY DEF Sole

\* While a merge is under way no apply is, and no other merge.
LEMMA OthersIdle == ASSUME Sole, NEW m \in Mergers, mrg[m].pc # "idle"
                    PROVE  /\ \A p \in Appliers : apl[p].pc = "idle"
                           /\ \A n \in Mergers : n # m => mrg[n].pc = "idle"
  BY DEF Sole

\* A request leaves the marker alone.
LEMMA RequestTold ==
  ASSUME IInv, Sole, Told, Serialised, NEW p \in Appliers, NEW r \in Runtimes, Request(p, r)
  PROVE  Told'
<1>1. UNCHANGED <<marker, mrg>> /\ AllIdle
  BY DEF Request, Accepts
<1>2. \A q \in Appliers : apl'[q].pc \in {"idle", "decide"}
  BY <1>1 DEF Request, IInv, TypeOK, Applier, AllIdle
<1> QED BY <1>1, <1>2 DEF Told, Named, MarkedBy, ReadBy, AllIdle

\* So does an activation.
LEMMA ActivateRuntimeTold ==
  ASSUME IInv, Sole, Told, NEW p \in Appliers, ActivateRuntime(p), apl[p].pc # "idle",
         UNCHANGED marker
  PROVE Told'
<1>1. \A q \in Appliers : apl'[q] = IF q = p THEN IdleApplier ELSE apl[q]
  BY DEF ActivateRuntime, Fails, IInv, TypeOK
<1>2. p \in Mergers /\ mrg[p] \in Merger
  BY DEF Mergers, IInv, TypeOK
<1>3. UNCHANGED mrg \/ mrg' = [mrg EXCEPT ![p] = [mrg[p] EXCEPT !.pc = "refresh"]]
  BY DEF ActivateRuntime
<1>4. \A n \in Mergers : mrg'[n].pc \in {"idle", "refresh"}
  BY <1>2, <1>3, MergersIdle DEF IInv, TypeOK, Merger
<1>5. MarkedBy(p)' /\ Named'
  BY <1>1 DEF MarkedBy, IdleApplier, Named, Told
<1> QED BY <1>1, <1>4, <1>5, ApplierTold

\* Whoever goes on to write has seen an OS that does not satisfy its runtime.
LEMMA DecideTold == ASSUME IInv, Sole, Told, NEW p \in Appliers, Decide(p)
                    PROVE  Told'
<1>0. apl[p].pc = "decide" /\ apl[p] \in Applier
  BY DEF Decide, IInv, TypeOK
<1>1. CASE Satisfied(apl[p].runtime)
  BY <1>0, <1>1, ActivateRuntimeTold DEF Decide
<1>2. CASE ~Satisfied(apl[p].runtime)
  <2>1. /\ apl' = [apl EXCEPT ![p] = [apl[p] EXCEPT !.pc = "detect"]]
        /\ UNCHANGED <<active, staged, mrg, marker, running>>
    BY <1>2 DEF Decide, machine
  <2>2. apl'[p].pc = "detect" /\ apl'[p].runtime = apl[p].runtime
    BY <1>0, <2>1 DEF IInv, TypeOK, Applier
  <2>3. MarkedBy(p)' /\ Named'
    BY <1>2, <2>1, <2>2 DEF MarkedBy, Told, Named, Satisfied, RunsRootfs, RunsInitrd
  <2>4. \A q \in Appliers : q # p => apl'[q].pc = apl[q].pc
    BY <2>1 DEF IInv, TypeOK
  <2> QED BY <1>0, <2>1, <2>3, <2>4, MergersIdle, ApplierTold
<1> QED BY <1>1, <1>2

\* The choice of the slot leaves the marker alone.
LEMMA DetectTold == ASSUME IInv, Sole, Told, NEW p \in Appliers, Detect(p)
                    PROVE  Told'
<1>0. /\ apl[p].pc = "detect" /\ apl[p] \in Applier /\ UNCHANGED marker
      /\ ~Satisfied(apl[p].runtime)
  BY DEF Detect, IInv, TypeOK, Told, MarkedBy
<1>1. ActivateRuntime(p) => Told'
  BY <1>0, ActivateRuntimeTold
<1>2. CASE apl' = [apl EXCEPT ![p].pc = "mark", ![p].prev = DetectedSlot,
                              ![p].new = Other(DetectedSlot), ![p].todo = Parts]
           /\ UNCHANGED mrg
  <2>1. apl'[p].pc = "mark" /\ \A q \in Appliers : q # p => apl'[q].pc = apl[q].pc
    BY <1>0, <1>2 DEF IInv, TypeOK, Applier
  <2>2. MarkedBy(p)' /\ Named'
    BY <1>0, <2>1 DEF MarkedBy, Told, Named
  <2> QED BY <1>0, <1>2, <2>1, <2>2, MergersIdle, ApplierTold
<1> QED BY <1>0, <1>1, <1>2 DEF Detect

\* The marker is the writer's own.
LEMMA MarkTold == ASSUME IInv, Sole, Told, NEW p \in Appliers, Mark(p)
                  PROVE  Told'
<1>0. apl[p].pc = "mark" /\ apl[p] \in Applier /\ UNCHANGED mrg
  BY DEF Mark, IInv, TypeOK
<1>1. /\ apl'[p].pc = "write" /\ apl'[p].runtime = apl[p].runtime
      /\ apl'[p].prev = apl[p].prev /\ apl'[p].new = apl[p].new
      /\ \A q \in Appliers : q # p => apl'[q].pc = apl[q].pc
  BY <1>0 DEF Mark, IInv, TypeOK, Applier
<1>2. MarkedBy(p)' /\ Named'
  BY <1>1 DEF MarkedBy, Named, Mark
<1> QED BY <1>0, <1>1, <1>2, MergersIdle, ApplierTold

\* A write leaves the marker alone,
LEMMA BeginWriteTold ==
  ASSUME IInv, Sole, Told, NEW p \in Appliers, NEW x \in Parts, BeginWrite(p, x)
  PROVE  Told'
<1>0. apl[p].pc = "write" /\ UNCHANGED <<mrg, marker>>
  BY DEF BeginWrite, store
<1>1. /\ apl'[p].pc = "writing" /\ apl'[p].runtime = apl[p].runtime
      /\ apl'[p].prev = apl[p].prev /\ apl'[p].new = apl[p].new
      /\ \A q \in Appliers : q # p => apl'[q].pc = apl[q].pc
  BY BeginWriteKeeps
<1>2. MarkedBy(p)' /\ Named'
  BY <1>0, <1>1 DEF MarkedBy, Named, Told
<1> QED BY <1>0, <1>1, <1>2, MergersIdle, ApplierTold

\* and so does its end.
LEMMA EndWriteTold == ASSUME IInv, Sole, Told, NEW p \in Appliers, EndWrite(p)
                      PROVE  Told'
<1>0. apl[p].pc = "writing" /\ apl[p] \in Applier /\ UNCHANGED <<mrg, marker>>
  BY DEF EndWrite, IInv, TypeOK, store
<1>1. /\ apl'[p].pc = "write" /\ apl'[p].runtime = apl[p].runtime
      /\ apl'[p].prev = apl[p].prev /\ apl'[p].new = apl[p].new
      /\ \A q \in Appliers : q # p => apl'[q].pc = apl[q].pc
  BY <1>0 DEF EndWrite, IInv, TypeOK, Applier
<1>2. MarkedBy(p)' /\ Named'
  BY <1>0, <1>1 DEF MarkedBy, Named, Told
<1> QED BY <1>0, <1>1, <1>2, MergersIdle, ApplierTold

\* After the flip the marker is still the writer's own.
LEMMA ActivateTold == ASSUME IInv, Sole, Told, NEW p \in Appliers, Activate(p)
                      PROVE  Told'
<1>0. /\ apl[p].pc = "write" /\ apl[p] \in Applier /\ UNCHANGED <<mrg, marker>>
      /\ marker # NONE /\ marker.bundle = BundleOf[apl[p].runtime]
  <2>1. apl[p].pc = "write" /\ apl[p] \in Applier /\ UNCHANGED <<mrg, marker>>
    BY DEF Activate, IInv, TypeOK, store
  <2>2. marker = [bundle |-> BundleOf[apl[p].runtime], prev |-> apl[p].prev,
                  new |-> apl[p].new, runtime |-> NONE]
    BY <2>1 DEF Told, MarkedBy
  <2>3. marker \in Marker
    BY <2>1, <2>2, ConstantsAssumption DEF IInv, Working, Marker
  <2> QED BY <2>1, <2>2, <2>3, ConstantsAssumption
<1>1. /\ apl'[p].pc = "readMark" /\ apl'[p].runtime = apl[p].runtime
      /\ \A q \in Appliers : q # p => apl'[q].pc = apl[q].pc
  BY <1>0 DEF Activate, IInv, TypeOK, Applier
<1>2. MarkedBy(p)' /\ Named'
  BY <1>0, <1>1 DEF MarkedBy, Named, Told
<1> QED BY <1>0, <1>1, <1>2, MergersIdle, ApplierTold

\* The copy set_pending_runtime_id works on is the marker itself,
LEMMA ReadMarkTold == ASSUME IInv, Sole, Told, NEW p \in Appliers, ReadMark(p)
                      PROVE  Told'
<1>0. /\ apl[p].pc = "readMark" /\ apl[p] \in Applier /\ UNCHANGED <<mrg, marker>>
      /\ marker # NONE /\ marker.bundle = BundleOf[apl[p].runtime]
  BY DEF ReadMark, IInv, TypeOK, Told, MarkedBy
<1>1. /\ apl' = [apl EXCEPT ![p] = [apl[p] EXCEPT !.pc = "setRuntime", !.copy = marker]]
  BY <1>0 DEF ReadMark
<1>2. /\ apl'[p].pc = "setRuntime" /\ apl'[p].runtime = apl[p].runtime /\ apl'[p].copy = marker
      /\ \A q \in Appliers : q # p => apl'[q].pc = apl[q].pc
  BY <1>0, <1>1 DEF IInv, TypeOK, Applier
<1>3. MarkedBy(p)' /\ Named'
  BY <1>0, <1>2 DEF MarkedBy, Named, Told
<1> QED BY <1>0, <1>2, <1>3, MergersIdle, ApplierTold

\* so what it writes back names a runtime of the marker's bundle.
LEMMA SetRuntimeTold == ASSUME IInv, Sole, Told, NEW p \in Appliers, SetRuntime(p)
                        PROVE  Told'
<1>0. /\ apl[p].pc = "setRuntime" /\ apl[p] \in Applier /\ UNCHANGED mrg
      /\ marker = apl[p].copy /\ marker \in Marker
      /\ marker.bundle = BundleOf[apl[p].runtime]
  BY DEF SetRuntime, IInv, TypeOK, Working, Told, MarkedBy
<1>1. \A q \in Appliers : apl'[q] = IF q = p THEN IdleApplier ELSE apl[q]
  BY DEF SetRuntime, IInv, TypeOK
<1>2. marker'.bundle = BundleOf[apl[p].runtime] /\ marker'.runtime = apl[p].runtime
  BY <1>0 DEF SetRuntime, Marker
<1>3. MarkedBy(p)' /\ Named'
  BY <1>1, <1>2 DEF MarkedBy, Named, IdleApplier
<1> QED BY <1>0, <1>1, <1>3, MergersIdle, ApplierTold

\* An error removes the marker or leaves it.
LEMMA FailureTold ==
  ASSUME IInv, Sole, Told, NEW p \in Appliers, ApplyFails(p) \/ ActivateFails(p)
  PROVE  Told'
<1>0. /\ apl[p].pc # "idle" /\ UNCHANGED mrg /\ (marker' = marker \/ marker' = NONE)
  BY DEF ApplyFails, ActivateFails
<1>1. \A q \in Appliers : apl'[q] = IF q = p THEN IdleApplier ELSE apl[q]
  BY DEF ApplyFails, ActivateFails, Fails, IInv, TypeOK
<1>2. MarkedBy(p)' /\ Named'
  BY <1>0, <1>1 DEF MarkedBy, Named, IdleApplier, Told
<1> QED BY <1>0, <1>1, <1>2, MergersIdle, ApplierTold

\* What a merge learns from the marker: it accepts one that verifies, and rolls
\* back one that does not.
LEMMA ExamineReads ==
  ASSUME IInv, NEW m \in Mergers, Examine(m)
  PROVE  /\ \A n \in Mergers : n # m => mrg'[n] = mrg[n]
         /\ mrg'[m] \in Merger /\ mrg'[m].pending = marker /\ mrg'[m].moved = mrg[m].moved
         /\ marker = NONE => mrg'[m].pc = "rest"
         /\ marker # NONE /\ Verified(marker.bundle) => mrg'[m].pc = "commit"
         /\ marker # NONE /\ ~Verified(marker.bundle) => mrg'[m].pc = "rollback"
<1> DEFINE pc == CASE marker = NONE -> "rest"
                   [] marker # NONE /\ Verified(marker.bundle) -> "commit"
                   [] OTHER -> "rollback"
<1>1. mrg' = [mrg EXCEPT ![m] = [mrg[m] EXCEPT !.pending = marker, !.pc = pc]]
  BY DEF Examine
<1>2. pc \in {"rest", "commit", "rollback"}
  OBVIOUS
<1>3. [mrg[m] EXCEPT !.pending = marker, !.pc = pc] \in Merger
  BY <1>2 DEF IInv, TypeOK, Merger
<1>4. mrg'[m].pc = pc /\ mrg'[m].pending = marker /\ mrg'[m].moved = mrg[m].moved
  BY <1>1, <1>2 DEF IInv, TypeOK, Merger
<1>5. /\ marker = NONE => pc = "rest"
      /\ marker # NONE /\ Verified(marker.bundle) => pc = "commit"
      /\ marker # NONE /\ ~Verified(marker.bundle) => pc = "rollback"
  OBVIOUS
<1> HIDE DEF pc
<1> QED BY <1>1, <1>3, <1>4, <1>5 DEF IInv, TypeOK

\* A marker accepted by a merge names the running rootfs.
LEMMA ExamineTold ==
  ASSUME IInv, Sole, Told, NEW m \in Mergers, Examine(m), UNCHANGED <<marker, running, apl>>,
         \A p \in Appliers : apl[p].pc = "idle",
         \A n \in Mergers : n # m => mrg[n].pc = "idle"
  PROVE  Told'
<1>1. ReadBy(m)'
  <2>1. marker = NONE \/ marker \in Marker
    BY DEF IInv, TypeOK
  <2>2. CASE marker # NONE /\ Verified(marker.bundle)
    BY <2>2, ExamineReads DEF ReadBy, Verified, RunsRootfs
  <2>3. CASE marker # NONE /\ ~Verified(marker.bundle)
    BY <2>3, ExamineReads DEF ReadBy
  <2>4. CASE marker = NONE
    BY <2>4, ExamineReads DEF ReadBy
  <2> QED BY <2>2, <2>3, <2>4
<1>2. Named'
  BY DEF Told, Named
<1> QED BY <1>1, <1>2, ExamineReads, MergerTold

\* The merge of the boot, or of a request.
LEMMA MergeStartTold == ASSUME Serialised, IInv, Sole, Told, NEW m \in Mergers, MergeStart(m)
                        PROVE  Told'
  BY ExamineTold DEF MergeStart, Accepts, AllIdle, store, machine

\* The merge that follows an activation, or its refusal.
LEMMA RefreshTold == ASSUME IInv, Sole, Told, NEW m \in Mergers, Refresh(m)
                     PROVE  Told'
<1>0. mrg[m].pc = "refresh" /\ UNCHANGED <<marker, running, apl>>
  BY DEF Refresh, store, machine
<1>1. CASE Examine(m)
  BY <1>0, <1>1, OthersIdle, ExamineTold
<1>2. CASE ~Examine(m)
  <2>1. \A n \in Mergers : mrg'[n] = IF n = m THEN IdleMerger ELSE mrg[n]
    BY <1>2 DEF Refresh, IInv, TypeOK
  <2>2. ReadBy(m)' /\ Named'
    BY <1>0, <2>1 DEF ReadBy, IdleMerger, Told, Named
  <2> QED BY <1>0, <2>1, <2>2, OthersIdle, MergerTold
<1> QED BY <1>1, <1>2

\* The steps between reading the marker and removing it.
LEMMA MergeOnTold ==
  ASSUME IInv, Sole, Told, NEW m \in Mergers,
         Commit(m) \/ Promote(m) \/ Rollback(m) \/ Unmark(m)
  PROVE  Told'
<1>0. mrg[m].pc # "idle" /\ mrg[m] \in Merger /\ UNCHANGED <<apl, running>>
      /\ (marker' = marker \/ (marker' = NONE /\ mrg[m].pc = "unmark"))
  BY DEF Commit, Promote, Rollback, Unmark, store, machine, IInv, TypeOK
<1>1. /\ \A n \in Mergers : n # m => mrg'[n] = mrg[n]
      /\ mrg'[m].pending = mrg[m].pending
      /\ <<mrg[m].pc, mrg'[m].pc>> \in {<<"commit", "promote">>, <<"promote", "clear">>,
                                        <<"rollback", "unmark">>, <<"unmark", "clear">>}
  BY <1>0 DEF Commit, Promote, Rollback, Unmark, IInv, TypeOK, Merger
<1>2. ReadBy(m)' /\ Named'
  BY <1>0, <1>1 DEF ReadBy, Told, Named, RunsRootfs
<1> QED BY <1>0, <1>1, <1>2, OthersIdle, MergerTold

\* The removal of the marker, and the end of the merge.
LEMMA MergeEndTold ==
  ASSUME IInv, Sole, Told, NEW m \in Mergers, Clear(m) \/ RebootBack(m) \/ Rest(m)
  PROVE  Told'
<1>0. /\ mrg[m].pc # "idle" /\ mrg[m] \in Merger /\ UNCHANGED <<apl, running>>
      /\ marker' \in {marker, NONE}
  BY DEF Clear, RebootBack, Rest, machine, store, IInv, TypeOK
<1>1. /\ \A n \in Mergers : n # m => mrg'[n] = mrg[n]
      /\ \/ mrg'[m].pc = "idle"
         \/ /\ mrg'[m].pc \in {"rest", "reboot"}
            /\ marker' = NONE \/ "markerKept" \in lapses'
  <2>1. CASE Clear(m)
    <3>1. marker' = NONE \/ "markerKept" \in lapses'
      BY <2>1 DEF Clear
    <3>2. /\ \A n \in Mergers : n # m => mrg'[n] = mrg[n]
          /\ mrg'[m].pc \in {"rest", "reboot"}
      BY <1>0, <2>1 DEF Clear, Decided, IInv, TypeOK, Merger
    <3> QED BY <3>1, <3>2
  <2>2. CASE RebootBack(m) \/ Rest(m)
    BY <1>0, <2>2 DEF RebootBack, Rest, LeaveMerge, IdleMerger, IInv, TypeOK
  <2> QED BY <2>1, <2>2
<1>2. ReadBy(m)' /\ Named'
  BY <1>0, <1>1 DEF ReadBy, Told, Named
<1> QED BY <1>0, <1>1, <1>2, OthersIdle, MergerTold

\* Told is preserved by every step.
LEMMA NextTold ==
  ASSUME Serialised, IInv, Sole, Told, [Next]_vars
  PROVE  Told'
<1>1. ASSUME NEW p \in Appliers, NEW r \in Runtimes, Request(p, r) PROVE Told'
  BY <1>1, RequestTold
<1>2. ASSUME NEW p \in Appliers, ApplyStep(p) \/ ApplyFails(p) \/ ActivateFails(p) PROVE Told'
  BY <1>2, DecideTold, DetectTold, MarkTold, BeginWriteTold, EndWriteTold, ActivateTold,
     ReadMarkTold, SetRuntimeTold, FailureTold DEF ApplyStep
<1>3. ASSUME NEW m \in Mergers, MergeStart(m) \/ MergeStep(m) PROVE Told'
  BY <1>3, MergeStartTold, RefreshTold, MergeOnTold, MergeEndTold DEF MergeStep
<1>4. CASE Reboot \/ Crash
  BY <1>4 DEF Reboot, Crash, PowerOff, store, Told, Named, MarkedBy, ReadBy,
              IdleApplier, IdleMerger
<1>5. CASE Boot
  <2>1. /\ \A p \in Appliers : apl[p].pc = "idle"
        /\ \A m \in Mergers : mrg[m].pc = "idle"
        /\ UNCHANGED <<apl, mrg, store>>
    BY <1>5 DEF Boot, IInv, Awake
  <2> QED BY <2>1 DEF Told, Named, MarkedBy, ReadBy, store
<1>6. CASE UNCHANGED vars
  BY <1>6 DEF vars, machine, store, history, Told, Named, MarkedBy, ReadBy, Satisfied,
              RunsRootfs, RunsInitrd
<1> QED BY <1>1, <1>2, <1>3, <1>4, <1>5, <1>6 DEF Next

\* The runtime promoted from a marker runs on the OS that is running, when its
\* bundle says how to verify.
LEMMA PromoteMatches ==
  ASSUME IInv, Told, NEW m \in Mergers, Promote(m), active' # active
  PROVE  RunsRootfs(BundleOf[active']) \/ BundleOf[active'] \notin HasVerify
<1>1. /\ mrg[m].pc = "promote" /\ marker = mrg[m].pending /\ marker \in Marker
      /\ active' = marker.runtime /\ marker.runtime # NONE
  BY ConstantsAssumption DEF Promote, IInv, TypeOK, Merging, Told, ReadBy
<1>2. BundleOf[active'] = marker.bundle
  BY <1>1, ConstantsAssumption DEF Told, Named
<1> QED BY <1>1, <1>2 DEF Told, ReadBy

\* Every step that changes the active runtime does so: the activation that
\* found the OS satisfied, the promotion, and the fallback to a compatible
\* runtime.
LEMMA ActivationStep ==
  ASSUME IInv, Told, Next, active' # active
  PROVE  RunsRootfs(BundleOf[active']) \/ BundleOf[active'] \notin HasVerify
<1>1. ASSUME NEW p \in Appliers, NEW r \in Runtimes, Request(p, r) PROVE FALSE
  BY <1>1 DEF Request
<1>2. ASSUME NEW p \in Appliers, ApplyStep(p) PROVE RunsRootfs(BundleOf[active'])
  <2>1. Decide(p) \/ Detect(p)
    BY <1>2 DEF ApplyStep, Mark, BeginWrite, EndWrite, Activate, ReadMark, SetRuntime, store
  <2>2. ActivateRuntime(p) /\ Satisfied(apl[p].runtime)
    BY <2>1 DEF Decide, Detect
  <2> QED BY <2>2 DEF ActivateRuntime, Satisfied
<1>3. ASSUME NEW p \in Appliers, ApplyFails(p) \/ ActivateFails(p) PROVE FALSE
  BY <1>3 DEF ApplyFails, ActivateFails
<1>4. ASSUME NEW m \in Mergers, MergeStart(m) \/ MergeStep(m)
      PROVE  RunsRootfs(BundleOf[active']) \/ BundleOf[active'] \notin HasVerify
  <2>1. Promote(m) \/ Rest(m)
    BY <1>4 DEF MergeStart, MergeStep, Refresh, Commit, Rollback, Unmark, Clear, RebootBack, store
  <2>2. Rest(m) => RunsRootfs(BundleOf[active'])
    BY DEF Rest, Fallbacks
  <2> QED BY <2>1, <2>2, PromoteMatches
<1>5. CASE Reboot \/ Crash \/ Boot
  BY <1>5 DEF Reboot, Crash, PowerOff, Boot, store
<1> QED BY <1>1, <1>2, <1>3, <1>4, <1>5 DEF Next

-----------------------------------------------------------------------------
(* What the slots hold *)

\* An apply that is alone never mixes with another writer, and every partition
\* that it is done with holds a bundle's image.
WrittenBy(p) ==
  /\ ~apl[p].mixed
  /\ apl[p].pc = "mark" => apl[p].todo = Parts
  /\ apl[p].pc \in {"write", "writing"}
       => \A x \in Parts \ apl[p].todo : slot[apl[p].new][x] \in Bundles

\* The same of every apply.
Written == \A p \in Appliers : WrittenBy(p)

\* A proven slot has a boot image; and its rootfs is an image too when every
\* bundle says how to verify.
Sound == \A s \in Slots : proven[s] => /\ slot[s].boot \in Bundles
                                       /\ HasVerify = Bundles => slot[s].rootfs \in Bundles

\* A step of an apply, the others being idle and not mixed.
LEMMA ApplierWritten ==
  ASSUME IInv, Sole, Written, NEW p \in Appliers, apl[p].pc # "idle",
         \A q \in Appliers : q # p => apl'[q].pc = apl[q].pc /\ apl'[q].mixed = apl[q].mixed,
         WrittenBy(p)'
  PROVE  Written'
  BY DEF Sole, Written, WrittenBy

\* The end of an apply, in success or in an error.
LEMMA EndWritten ==
  ASSUME IInv, Sole, Written, NEW p \in Appliers,
         \A q \in Appliers : apl'[q] \in {apl[q], IdleApplier},
         UNCHANGED slot
  PROVE  Written'
  BY DEF Sole, Written, WrittenBy, IdleApplier, Parts

\* A step that writes no partition.
LEMMA MovedWritten ==
  ASSUME IInv, Sole, Written, NEW p \in Appliers, apl[p].pc # "idle", UNCHANGED slot,
         \A q \in Appliers : q # p => apl'[q] = apl[q],
         ~apl'[p].mixed,
         apl'[p].pc = "mark" => apl'[p].todo = Parts,
         apl'[p].pc = "write" => apl[p].pc = "mark" /\ apl'[p].todo = apl[p].todo,
         apl'[p].pc # "writing"
  PROVE  Written'
<1>1. WrittenBy(p)'
  BY DEF Written, WrittenBy
<1> QED BY <1>1, ApplierWritten

\* The steps of an apply other than its writes.
LEMMA ApplyWritten ==
  ASSUME IInv, Sole, Written, NEW p \in Appliers,
         Decide(p) \/ Detect(p) \/ Mark(p) \/ Activate(p) \/ ReadMark(p) \/ SetRuntime(p)
         \/ ApplyFails(p) \/ ActivateFails(p)
  PROVE  Written'
<1>0. /\ apl[p].pc # "idle" /\ apl[p] \in Applier /\ UNCHANGED slot /\ ~apl[p].mixed
  BY DEF Decide, Detect, Mark, Activate, ReadMark, SetRuntime, ApplyFails, ActivateFails,
         medium, IInv, TypeOK, Written, WrittenBy
<1>1. CASE ActivateRuntime(p) \/ Fails(p) \/ SetRuntime(p)
  <2>1. \A q \in Appliers : apl'[q] \in {apl[q], IdleApplier}
    BY <1>1 DEF ActivateRuntime, Fails, SetRuntime, IInv, TypeOK
  <2> QED BY <1>0, <2>1, EndWritten
<1>2. CASE apl' = [apl EXCEPT ![p].pc = "detect"]
  BY <1>0, <1>2, MovedWritten DEF IInv, TypeOK, Applier
<1>3. CASE apl' = [apl EXCEPT ![p].pc = "readMark"]
  BY <1>0, <1>3, MovedWritten DEF IInv, TypeOK, Applier
<1>4. CASE apl' = [apl EXCEPT ![p].pc = "mark", ![p].prev = DetectedSlot,
                              ![p].new = Other(DetectedSlot), ![p].todo = Parts]
  BY <1>0, <1>4, MovedWritten DEF IInv, TypeOK, Applier
<1>5. CASE Mark(p)
  BY <1>0, <1>5, MovedWritten DEF IInv, TypeOK, Applier, Mark, Written, WrittenBy
<1>6. CASE apl' = [apl EXCEPT ![p].pc = "setRuntime", ![p].copy = marker]
  BY <1>0, <1>6, MovedWritten DEF IInv, TypeOK, Applier
<1> QED BY <1>1, <1>2, <1>3, <1>4, <1>5, <1>6
        DEF Decide, Detect, Activate, ReadMark, ApplyFails, ActivateFails

\* Starting a write tears only a partition that is still to do.
LEMMA BeginWriteWritten ==
  ASSUME IInv, Sole, Written, NEW p \in Appliers, NEW x \in Parts, BeginWrite(p, x)
  PROVE  Written'
<1>0. /\ apl[p].pc = "write" /\ apl[p] \in Applier /\ apl[p].new \in Slots /\ x \in apl[p].todo
      /\ \A y \in Parts \ apl[p].todo : slot[apl[p].new][y] \in Bundles
  BY DEF BeginWrite, IInv, TypeOK, Working, Written, WrittenBy
<1>1. \A q \in Appliers : /\ q # p => apl'[q].pc = apl[q].pc
                          /\ apl'[q].new = apl[q].new /\ apl'[q].todo = apl[q].todo
  BY BeginWriteKeeps
<1>2. \A q \in Appliers : q # p => apl[q].pc = "idle"
  BY <1>0 DEF Sole
<1>3. \A q \in Appliers : q # p => apl'[q] = apl[q]
  BY <1>0, <1>2 DEF BeginWrite, Clashes
<1>4. ~apl'[p].mixed
  <2>1. apl'[p] = [apl[p] EXCEPT !.pc = "writing", !.part = x, !.mixed = FALSE]
    BY <1>2, Zenon DEF BeginWrite, Clashes
  <2> QED BY <1>0, <2>1 DEF Applier
<1>5. \A y \in Parts \ apl[p].todo : slot'[apl[p].new][y] = slot[apl[p].new][y]
  <2>1. \/ UNCHANGED slot
        \/ slot' = [slot EXCEPT ![apl[p].new] = [slot[apl[p].new] EXCEPT ![x] = Torn]]
    BY DEF BeginWrite
  <2> QED BY <1>0, <2>1 DEF IInv, TypeOK, Parts
<1>6. WrittenBy(p)'
  BY <1>0, <1>1, <1>4, <1>5, BeginWriteKeeps DEF WrittenBy
<1> QED BY <1>0, <1>3, <1>6, ApplierWritten

\* Ending it leaves the image of the bundle there.
LEMMA EndWriteWritten ==
  ASSUME IInv, Sole, Written, NEW p \in Appliers, EndWrite(p)
  PROVE  Written'
<1> DEFINE s == apl[p].new
           x == apl[p].part
           made == BundleOf[apl[p].runtime]
           next == [apl[p] EXCEPT !.pc = "write", !.todo = @ \ {x},
                                  !.part = NONE, !.mixed = FALSE]
<1>0. /\ apl[p].pc = "writing" /\ apl[p] \in Applier /\ s \in Slots /\ x \in Parts
      /\ made \in Bundles /\ ~apl[p].mixed
      /\ \A y \in Parts \ apl[p].todo : slot[s][y] \in Bundles
  BY ConstantsAssumption DEF EndWrite, IInv, TypeOK, Working, Written, WrittenBy
<1>1. slot' = [slot EXCEPT ![s] = [slot[s] EXCEPT ![x] = made]]
  BY <1>0 DEF EndWrite
<1>2. apl' = [apl EXCEPT ![p] = next]
  BY DEF EndWrite
<1>3. next.pc = "write" /\ next.new = s /\ next.todo = apl[p].todo \ {x} /\ ~next.mixed
  BY <1>0 DEF Applier
<1> HIDE DEF next
<1>4. apl'[p] = next /\ \A q \in Appliers : q # p => apl'[q] = apl[q]
  BY <1>2 DEF IInv, TypeOK
<1>5. \A y \in Parts : slot'[s][y] = IF y = x THEN made ELSE slot[s][y]
  BY <1>0, <1>1 DEF IInv, TypeOK, Parts
<1>6. WrittenBy(p)'
  BY <1>0, <1>3, <1>4, <1>5 DEF WrittenBy
<1> QED BY <1>0, <1>4, <1>6, ApplierWritten

\* Written is preserved by every step.
LEMMA NextWritten ==
  ASSUME Serialised, IInv, Sole, Written, [Next]_vars
  PROVE  Written'
<1>1. ASSUME NEW p \in Appliers, NEW r \in Runtimes, Request(p, r) PROVE Written'
  <2>1. apl' = [apl EXCEPT ![p] = [apl[p] EXCEPT !.pc = "decide", !.runtime = r]] /\ AllIdle
    BY <1>1 DEF Request, Accepts
  <2>2. \A q \in Appliers : /\ apl'[q].pc \in {"idle", "decide"}
                            /\ apl'[q].mixed = apl[q].mixed
    BY <2>1 DEF IInv, TypeOK, Applier, AllIdle
  <2> QED BY <2>2 DEF Written, WrittenBy
<1>2. ASSUME NEW p \in Appliers, ApplyStep(p) \/ ApplyFails(p) \/ ActivateFails(p)
      PROVE  Written'
  BY <1>2, ApplyWritten, BeginWriteWritten, EndWriteWritten DEF ApplyStep
<1>3. ASSUME NEW m \in Mergers, MergeStart(m) \/ MergeStep(m) PROVE Written'
  <2>1. UNCHANGED apl /\ \A p \in Appliers : apl[p].pc = "idle"
    <3>1. CASE MergeStart(m)
      BY <3>1 DEF MergeStart, Accepts, AllIdle
    <3>2. CASE MergeStep(m)
      <4>1. mrg[m].pc # "idle" /\ UNCHANGED apl
        BY <3>2 DEF MergeStep, Refresh, Commit, Promote, Rollback, Unmark, Clear, RebootBack, Rest
      <4> QED BY <4>1, OthersIdle
    <3> QED BY <1>3, <3>1, <3>2
  <2> QED BY <2>1 DEF Written, WrittenBy
<1>4. CASE Reboot \/ Crash
  BY <1>4 DEF Reboot, Crash, PowerOff, Written, WrittenBy, IdleApplier
<1>5. CASE Boot
  <2>1. UNCHANGED <<apl, slot>>
    BY <1>5 DEF Boot
  <2> QED BY <2>1 DEF Written, WrittenBy
<1>6. CASE UNCHANGED vars
  BY <1>6 DEF vars, medium, Written, WrittenBy
<1> QED BY <1>1, <1>2, <1>3, <1>4, <1>5, <1>6 DEF Next

\* Only writes, commits and rollbacks touch a slot or what is known of it.
LEMMA SlotWriters ==
  ASSUME Next
  PROVE  \/ UNCHANGED <<slot, proven>>
         \/ \E p \in Appliers : EndWrite(p) \/ \E x \in Parts : BeginWrite(p, x)
         \/ \E m \in Mergers : Commit(m) \/ Rollback(m)
<1>1. ASSUME NEW p \in Appliers, NEW r \in Runtimes, Request(p, r)
      PROVE  UNCHANGED <<slot, proven>>
  BY <1>1 DEF Request, medium, history
<1>2. ASSUME NEW p \in Appliers, ApplyStep(p)
      PROVE  \/ UNCHANGED <<slot, proven>> \/ EndWrite(p) \/ \E x \in Parts : BeginWrite(p, x)
  BY <1>2 DEF ApplyStep, Decide, Detect, Mark, Activate, ReadMark, SetRuntime, medium, history
<1>3. ASSUME NEW p \in Appliers, ApplyFails(p) \/ ActivateFails(p)
      PROVE  UNCHANGED <<slot, proven>>
  BY <1>3 DEF ApplyFails, ActivateFails, medium, history
<1>4. ASSUME NEW m \in Mergers, MergeStart(m) PROVE UNCHANGED <<slot, proven>>
  BY <1>4 DEF MergeStart, medium
<1>5. ASSUME NEW m \in Mergers, MergeStep(m)
      PROVE  UNCHANGED <<slot, proven>> \/ Commit(m) \/ Rollback(m)
  BY <1>5 DEF MergeStep, Refresh, Promote, Unmark, Clear, RebootBack, Rest, medium, history
<1>6. CASE Reboot \/ Crash \/ Boot
  BY <1>6 DEF Reboot, Crash, PowerOff, Boot, medium, history
<1> QED BY <1>1, <1>2, <1>3, <1>4, <1>5, <1>6 DEF Next

\* A slot that is written is not proven.
LEMMA SlotSound ==
  ASSUME IInv, Sound, NEW s \in Slots, proven' = [proven EXCEPT ![s] = FALSE],
         \A t \in Slots : t # s => slot'[t] = slot[t]
  PROVE  Sound'
  BY DEF Sound, IInv, TypeOK

\* Sound is preserved by every step: a commit proves the slot that runs a
\* verified rootfs.
LEMMA NextSound ==
  ASSUME IInv, Told, Sound, [Next]_vars
  PROVE  Sound'
<1>1. ASSUME NEW p \in Appliers, NEW x \in Parts, BeginWrite(p, x) PROVE Sound'
  <2>1. CASE Atomic(x)
    BY <1>1, <2>1 DEF BeginWrite, Sound
  <2>2. CASE ~Atomic(x)
    <3>1. /\ apl[p].new \in Slots /\ proven' = [proven EXCEPT ![apl[p].new] = FALSE]
          /\ \A t \in Slots : t # apl[p].new => slot'[t] = slot[t]
      BY <1>1, <2>2 DEF BeginWrite, IInv, TypeOK, Working
    <3> QED BY <3>1, SlotSound
  <2> QED BY <2>1, <2>2
<1>2. ASSUME NEW p \in Appliers, EndWrite(p) PROVE Sound'
  <2>1. /\ apl[p].new \in Slots /\ proven' = [proven EXCEPT ![apl[p].new] = FALSE]
        /\ \A t \in Slots : t # apl[p].new => slot'[t] = slot[t]
    BY <1>2 DEF EndWrite, IInv, TypeOK, Working
  <2> QED BY <2>1, SlotSound
<1>3. ASSUME NEW m \in Mergers, Commit(m) PROVE Sound'
  <2>1. /\ running \in Running /\ marker \in Marker
        /\ marker.bundle \in HasVerify => running.rootfs \in Bundles
    BY <1>3 DEF Commit, IInv, Awake, TypeOK, Merging, Told, ReadBy, RunsRootfs
  <2>2. HasVerify = Bundles => running.rootfs \in Bundles
    BY <2>1 DEF Marker
  <2>3. UNCHANGED slot
    BY <1>3 DEF Commit
  <2>4. ASSUME NEW s \in Slots, proven'[s]
        PROVE  /\ slot[s].boot \in Bundles
               /\ HasVerify = Bundles => slot[s].rootfs \in Bundles
    <3>1. CASE s = running.slot
      <4>1. \/ proven[s]
            \/ /\ slot[running.slot].boot = running.boot
               /\ slot[running.slot].rootfs = running.rootfs
        BY <1>3, <2>4, <3>1 DEF Commit, IInv, TypeOK
      <4> QED BY <2>1, <2>2, <3>1, <4>1 DEF Sound, Running
    <3>2. CASE s # running.slot
      BY <1>3, <2>4, <3>2 DEF Commit, Sound, IInv, TypeOK
    <3> QED BY <3>1, <3>2
  <2> QED BY <2>3, <2>4 DEF Sound
<1>4. ASSUME NEW m \in Mergers, Rollback(m) PROVE Sound'
  <2>1. CASE UNCHANGED <<slot, proven>>
    BY <2>1 DEF Sound
  <2>2. CASE ~UNCHANGED <<slot, proven>>
    <3>1. /\ mrg[m].pending.new \in Slots
          /\ slot' = [slot EXCEPT ![mrg[m].pending.new].boot = Blank]
          /\ proven' = [proven EXCEPT ![mrg[m].pending.new] = FALSE]
      BY <1>4, <2>2 DEF Rollback, Unflip, medium, IInv, Merging, Marker
    <3> QED BY <3>1, SlotSound DEF IInv, TypeOK
  <2> QED BY <2>1, <2>2
<1>5. CASE UNCHANGED <<slot, proven>>
  BY <1>5 DEF Sound
<1>6. CASE UNCHANGED vars
  BY <1>5, <1>6 DEF vars, medium, history
<1> QED BY <1>1, <1>2, <1>3, <1>4, <1>5, <1>6, SlotWriters

-----------------------------------------------------------------------------
(* The permanent boot choice of U-Boot and Tegra *)

\* The lapses after which nothing is promised of the next boot,
Lost == {"rewroteTarget", "acceptedUnbooted", "rollbackLost"}

\* and those of a marker that could not be removed.
Unlinked == {"rollbackUntold", "markerKept"}

\* An apply between the choice of its slot and the flip.
Prepares(p) == apl[p].pc \in {"mark", "write", "writing"}

\* With a loader whose boot choice is one variable, the slot it names is whole,
\* a marker's previous slot is whole and not the new one, and an apply writes
\* the slot that is not chosen.
PointerWhole ==
  loader \in {"uboot", "tegra"} /\ lapses \cap Lost = {} =>
    /\ Whole(pointer)
    /\ marker # NONE => Whole(marker.prev) /\ marker.prev # marker.new
    /\ \A p \in Appliers : Prepares(p) => apl[p].prev = pointer /\ apl[p].new # pointer

\* A step that leaves the slots and the choice alone, and starts no apply.
LEMMA PointerStays ==
  ASSUME PointerWhole, UNCHANGED <<loader, slot, pointer>>, lapses \subseteq lapses',
         \/ marker' = NONE
         \/ marker # NONE /\ marker'.prev = marker.prev /\ marker'.new = marker.new,
         \A p \in Appliers : Prepares(p)' => /\ Prepares(p) /\ apl'[p].prev = apl[p].prev
                                             /\ apl'[p].new = apl[p].new
  PROVE  PointerWhole'
  BY DEF PointerWhole, Whole

\* An apply that does not take the chosen slot takes the other one.
LEMMA DetectPointer ==
  ASSUME IInv, PointerWhole, NEW p \in Appliers, Detect(p)
  PROVE  PointerWhole'
<1>0. /\ apl[p] \in Applier /\ apl[p].pc = "detect" /\ running # NONE
      /\ UNCHANGED <<loader, slot, pointer, marker>> /\ lapses \subseteq lapses'
  BY DEF Detect, medium, machine, IInv, TypeOK, Awake
<1>1. CASE apl' = [apl EXCEPT ![p].pc = "mark", ![p].prev = DetectedSlot,
                              ![p].new = Other(DetectedSlot), ![p].todo = Parts]
           /\ lapses' = lapses
                \cup (IF Other(DetectedSlot) \in Targets THEN {"rewroteTarget"} ELSE {})
                \cup (IF Other(DetectedSlot) = running.slot THEN {"rewroteRunning"} ELSE {})
  <2>1. apl'[p].prev = DetectedSlot /\ apl'[p].new = Other(DetectedSlot)
        /\ \A q \in Appliers : q # p => apl'[q] = apl[q]
    BY <1>0, <1>1 DEF IInv, TypeOK, Applier
  <2>2. DetectedSlot \in Slots /\ pointer \in Slots
    BY <1>0 DEF DetectedSlot, IInv, TypeOK, Running
  <2>3. Other(DetectedSlot) \in Slots /\ Other(DetectedSlot) # DetectedSlot
    BY <2>2, OtherSlot
  <2>4. loader \in {"uboot", "tegra"} /\ lapses' \cap Lost = {} => Other(DetectedSlot) # pointer
    BY <1>1 DEF Lost, Targets
  <2>5. loader \in {"uboot", "tegra"} /\ lapses' \cap Lost = {} => DetectedSlot = pointer
    BY <2>2, <2>3, <2>4, ConstantsAssumption
  <2> HIDE DEF DetectedSlot
  <2> QED BY <1>0, <2>1, <2>4, <2>5 DEF PointerWhole, Prepares, Whole
<1>2. CASE \A q \in Appliers : apl'[q].pc \in {"mark", "write", "writing"} => apl'[q] = apl[q]
  BY <1>0, <1>2, PointerStays DEF Prepares
<1>3. \/ ActivateRuntime(p) \/ apl' = [apl EXCEPT ![p].pc = "readMark"]
      \/ <1>1!1
  BY Zenon DEF Detect
<1>4. ActivateRuntime(p) \/ apl' = [apl EXCEPT ![p].pc = "readMark"]
        => \A q \in Appliers : apl'[q].pc \in {"mark", "write", "writing"} => apl'[q] = apl[q]
  BY <1>0 DEF ActivateRuntime, Fails, IdleApplier, IInv, TypeOK, Applier
<1> QED BY <1>1, <1>2, <1>3, <1>4

\* Its marker names the chosen slot as the previous one.
LEMMA MarkPointer ==
  ASSUME IInv, PointerWhole, NEW p \in Appliers, Mark(p)
  PROVE  PointerWhole'
<1>1. /\ UNCHANGED <<loader, slot, pointer, lapses>> /\ Prepares(p)
      /\ marker'.prev = apl[p].prev /\ marker'.new = apl[p].new
      /\ \A q \in Appliers : /\ apl'[q].prev = apl[q].prev /\ apl'[q].new = apl[q].new
                             /\ Prepares(q)' => Prepares(q)
  BY DEF Mark, medium, machine, history, IInv, TypeOK, Applier, Prepares
<1> QED BY <1>1 DEF PointerWhole, Whole

\* Its writes touch the new slot only.
LEMMA WritePointer ==
  ASSUME IInv, Told, PointerWhole, NEW p \in Appliers,
         EndWrite(p) \/ \E x \in Parts : BeginWrite(p, x)
  PROVE  PointerWhole'
<1>1. /\ UNCHANGED <<loader, pointer, lapses, marker>> /\ Prepares(p)
      /\ apl[p].new \in Slots /\ apl[p].prev \in Slots /\ pointer \in Slots
      /\ marker = [bundle |-> BundleOf[apl[p].runtime], prev |-> apl[p].prev,
                   new |-> apl[p].new, runtime |-> NONE]
  BY DEF BeginWrite, EndWrite, store, machine, IInv, TypeOK, Working, Told, MarkedBy, Prepares
<1>2. \A q \in Appliers : /\ apl'[q].prev = apl[q].prev /\ apl'[q].new = apl[q].new
                          /\ Prepares(q)' => Prepares(q)
  <2>1. CASE EndWrite(p)
    BY <2>1 DEF EndWrite, IInv, TypeOK, Applier, Prepares
  <2>2. ASSUME NEW x \in Parts, BeginWrite(p, x), NEW q \in Appliers
        PROVE  /\ apl'[q].prev = apl[q].prev /\ apl'[q].new = apl[q].new
               /\ Prepares(q)' => Prepares(q)
    BY <1>1, <2>2, BeginWriteKeeps DEF Prepares
  <2> QED BY <2>1, <2>2
<1>3. \A t \in Slots : t # apl[p].new => slot'[t] = slot[t]
  BY <1>1 DEF EndWrite, BeginWrite, IInv, TypeOK
<1>4. marker.prev = apl[p].prev /\ marker.new = apl[p].new
  BY <1>1
<1> QED BY <1>1, <1>2, <1>3, <1>4 DEF PointerWhole, Whole

\* The slot an apply flips to is whole.
LEMMA FlipWhole ==
  ASSUME IInv, Written, NEW p \in Appliers, apl[p].pc = "write", apl[p].todo = {}
  PROVE  Whole(apl[p].new)
  BY DEF Written, WrittenBy, Whole, Parts

\* The flip, whether or not an action after it fails.
LEMMA ActivatePointer ==
  ASSUME IInv, Sole, Written, PointerWhole, NEW p \in Appliers, Activate(p) \/ ActivateFails(p)
  PROVE  PointerWhole'
<1>1. /\ apl[p].pc = "write" /\ Whole(apl[p].new)
      /\ UNCHANGED <<loader, slot>> /\ (marker' = marker \/ marker' = NONE)
      /\ lapses \subseteq lapses'
      /\ loader \in {"uboot", "tegra"} => pointer' \in {pointer, apl[p].new}
  BY FlipWhole DEF Activate, ActivateFails, store, machine, history, Flip
<1>2. \A q \in Appliers : ~Prepares(q)'
  <2>1. \A q \in Appliers : q # p => apl'[q] = apl[q]
    BY DEF Activate, ActivateFails, Fails, IInv, TypeOK
  <2>2. apl'[p].pc \in {"idle", "readMark"}
    BY DEF Activate, ActivateFails, Fails, IInv, TypeOK, Applier, IdleApplier
  <2> QED BY <1>1, <2>1, <2>2 DEF Prepares, Sole
<1> QED BY <1>1, <1>2 DEF PointerWhole, Whole

\* The rollback chooses the marker's previous slot.
LEMMA RollbackPointer ==
  ASSUME IInv, Sole, Told, PointerWhole, NEW m \in Mergers, Rollback(m)
  PROVE  PointerWhole'
<1>0. \A p \in Appliers : apl[p].pc = "idle"
  BY OthersIdle DEF Rollback
<1>1. /\ marker # NONE /\ marker = mrg[m].pending
      /\ UNCHANGED <<loader, marker, apl>> /\ lapses \subseteq lapses'
      /\ loader # "sorting" => slot' = slot /\ pointer' \in {pointer, marker.prev}
  BY ConstantsAssumption
     DEF Rollback, Unflip, Flip, medium, store, machine, Told, ReadBy, IInv, Merging
<1> QED BY <1>0, <1>1 DEF PointerWhole, Whole, Prepares

\* PointerWhole is preserved by every step.
LEMMA NextPointer ==
  ASSUME Serialised, IInv, Sole, Told, Written, PointerWhole, [Next]_vars
  PROVE  PointerWhole'
<1>1. ASSUME NEW p \in Appliers, NEW r \in Runtimes, Request(p, r) PROVE PointerWhole'
  <2>1. UNCHANGED <<loader, slot, pointer, marker, lapses>>
        /\ \A q \in Appliers : Prepares(q)' => apl'[q] = apl[q]
    BY <1>1 DEF Request, medium, machine, history, IInv, TypeOK, Applier, Prepares
  <2> QED BY <2>1, PointerStays DEF Prepares
<1>2. ASSUME NEW p \in Appliers, Decide(p) \/ ReadMark(p) \/ SetRuntime(p) \/ ApplyFails(p)
      PROVE  PointerWhole'
  <2>1. UNCHANGED <<loader, slot, pointer, lapses>>
        /\ \/ marker' = marker
           \/ marker # NONE /\ marker'.prev = marker.prev /\ marker'.new = marker.new
    BY <1>2, ConstantsAssumption
       DEF Decide, ReadMark, SetRuntime, ApplyFails, medium, machine, history, Told, MarkedBy,
           IInv, Working, Marker
  <2>2. \A q \in Appliers : Prepares(q)' => apl'[q] = apl[q]
    BY <1>2 DEF Decide, ReadMark, SetRuntime, ApplyFails, ActivateRuntime, Fails, IdleApplier,
                IInv, TypeOK, Applier, Prepares
  <2> QED BY <2>1, <2>2, PointerStays DEF Prepares
<1>3. ASSUME NEW p \in Appliers, ApplyStep(p) \/ ApplyFails(p) \/ ActivateFails(p)
      PROVE  PointerWhole'
  BY <1>2, <1>3, DetectPointer, MarkPointer, WritePointer, ActivatePointer DEF ApplyStep
<1>4. ASSUME NEW m \in Mergers, MergeStart(m) \/ MergeStep(m) PROVE PointerWhole'
  <2>1. CASE Rollback(m)
    BY <2>1, RollbackPointer
  <2>2. CASE ~Rollback(m)
    <3>1. /\ UNCHANGED <<loader, slot, apl>> /\ (marker' = marker \/ marker' = NONE)
          /\ lapses \subseteq lapses'
          /\ loader # "efi" => pointer' = pointer
      <4>1. CASE MergeStart(m)
        BY <4>1 DEF MergeStart, Examine, medium, store, machine
      <4>2. CASE MergeStep(m)
        BY <2>2, <4>2 DEF MergeStep, Refresh, Examine, Commit, Promote, Unmark, Clear,
                          RebootBack, Rest, medium, store, machine, history
      <4> QED BY <1>4, <4>1, <4>2
    <3> QED BY <3>1 DEF PointerWhole, Whole, Prepares
  <2> QED BY <2>1, <2>2
<1>5. CASE Reboot \/ Crash
  BY <1>5, PointerStays
     DEF Reboot, Crash, PowerOff, medium, store, history, Prepares, IdleApplier
<1>6. CASE Boot
  BY <1>6, PointerStays DEF Boot, store, history, Prepares
<1>7. CASE UNCHANGED vars
  BY <1>7, PointerStays DEF vars, medium, store, machine, history, Prepares
<1> QED BY <1>1, <1>3, <1>4, <1>5, <1>6, <1>7 DEF Next

-----------------------------------------------------------------------------
(* What a device without lapses keeps *)

\* Slot s would verify bundle b: what Verified(b) says once s has booted.
FitsSlot(b, s) == b \in HasVerify => /\ slot[s].rootfs \in Bundles
                                     /\ RootfsId[slot[s].rootfs] = RootfsId[b]
                                     /\ InInitrd => InitrdId[slot[s].boot] = InitrdId[b]

\* A rollback has moved the boot choice back and its reboot has not come yet.
Undone == rebooting \/ \E m \in Mergers : mrg[m].moved

\* During the boot-time merge the running slot still holds what was booted, is
\* proven or marked, and the one-shot choice is used up.
Booted ==
  phase = "boot" /\ ~Undone =>
    /\ slot[running.slot].boot = running.boot /\ slot[running.slot].rootfs = running.rootfs
    /\ proven[running.slot] \/ (marker # NONE /\ marker.new = running.slot)
    /\ loader = "efi" => oneshot = NONE

\* What a merge may rely on at each step: it commits only the marked slot and
\* only if that runs and fits; it promotes and unmarks a proven slot; once it
\* has rolled back, the next boot can only take the previous slot, which is
\* proven.
JudgedBy(m) ==
  /\ mrg[m].pc = "commit" => /\ phase = "boot" /\ mrg[m].pending.new = running.slot
                             /\ FitsSlot(mrg[m].pending.bundle, running.slot)
  /\ mrg[m].pc = "promote" \/ (mrg[m].pc = "clear" /\ ~mrg[m].moved)
       => /\ phase = "boot" /\ mrg[m].pending.new = running.slot /\ proven[running.slot]
          /\ marker = mrg[m].pending
  /\ mrg[m].pc = "unmark" => mrg[m].moved
  /\ mrg[m].moved => Targets = {mrg[m].pending.prev} /\ proven[mrg[m].pending.prev]
  /\ mrg[m].pc = "rest" /\ phase = "boot" => proven[running.slot]

\* Once the boot is over the running slot is proven or about to be left, and no
\* marker names it as the new one.
Up ==
  phase = "up" => /\ proven[running.slot] \/ Targets = {Other(running.slot)}
                  /\ marker # NONE => marker.new # running.slot

\* An apply leaves the running slot alone, which is proven and the one that the
\* next boot takes until the flip.
AsideBy(p) ==
  Prepares(p) => /\ apl[p].prev = running.slot /\ apl[p].new = Other(running.slot)
                 /\ proven[running.slot]
                 /\ loader # "sorting" => pointer = running.slot
                 /\ loader = "efi" => oneshot \in {NONE, running.slot}

\* Every marker names a proven slot to go back to.
Way == marker # NONE => marker.prev # marker.new /\ proven[marker.prev]

\* With the EFI variables, both the permanent and the one-shot choice are
\* whole, and the permanent one is proven.
EfiTargets ==
  loader = "efi" =>
    /\ proven[pointer] /\ Whole(pointer)
    /\ oneshot # NONE => Whole(oneshot)
    /\ marker # NONE => Whole(marker.prev)
    /\ running # NONE => running.rootfs \in Bundles
    /\ running # NONE /\ pointer # running.slot => oneshot \in {NONE, pointer}

\* When the permanent choice has left a marker's previous slot, the new slot
\* has been verified, and nothing rolls it back.
EfiCommitted ==
  loader = "efi" /\ marker # NONE /\ pointer # marker.prev =>
    /\ oneshot = NONE /\ phase # "up"
    /\ running # NONE => running.slot = marker.new
    /\ FitsSlot(marker.bundle, marker.new)
    /\ \A m \in Mergers : mrg[m].pc \notin {"rollback", "unmark"}

\* The slots the next boot may take are proven or marked.
Covered == \A s \in Targets : proven[s] \/ (marker # NONE /\ marker.new = s)

\* Some slot is proven.
SomeProven == \E s \in Slots : proven[s]

\* All of the above, which holds as long as nothing unguarded has happened.
Kept == /\ Booted /\ Up /\ Way /\ EfiTargets /\ EfiCommitted /\ Covered /\ SomeProven
        /\ \A p \in Appliers : AsideBy(p)
        /\ \A m \in Mergers : JudgedBy(m)

\* There are only two slots, so that a slot which is not s is the other one.
LEMMA TwoSlots == ASSUME NEW s \in Slots, NEW t \in Slots, s # t
                  PROVE  Other(s) = t
  BY ConstantsAssumption DEF Other

\* Every slot is s or the other one.
LEMMA SlotPair == ASSUME NEW s \in Slots, NEW t \in Slots
                  PROVE  t = s \/ t = Other(s)
  BY TwoSlots

\* While an apply is under way the device is up and no merge is.
LEMMA ApplierUp == ASSUME IInv, Sole, NEW p \in Appliers, apl[p].pc # "idle"
                   PROVE  /\ phase = "up" /\ running \in Running /\ running.slot \in Slots
                          /\ \A m \in Mergers : mrg[m].pc = "idle" /\ ~mrg[m].moved
                          /\ \A q \in Appliers : q # p => apl[q].pc = "idle"
<1>1. phase = "up" /\ \A m \in Mergers : mrg[m].pc = "idle"
  BY DEF Sole
<1>2. \A m \in Mergers : ~mrg[m].moved
  BY <1>1 DEF Sole
<1>3. running \in Running
  BY <1>1 DEF IInv, Awake, TypeOK
<1> QED BY <1>1, <1>2, <1>3 DEF Running, Sole

\* A step that leaves slots, loader and running system alone while the device
\* is up, and starts no apply and no merge.
LEMMA StillKept ==
  ASSUME IInv, Sole, Kept, phase = "up",
         UNCHANGED <<loader, slot, pointer, oneshot, running, phase, proven>>,
         \/ marker' = marker
         \/ marker # NONE /\ marker' # NONE /\ marker'.bundle = marker.bundle
            /\ marker'.prev = marker.prev /\ marker'.new = marker.new,
         \A p \in Appliers : Prepares(p)' => /\ Prepares(p) /\ apl'[p].prev = apl[p].prev
                                             /\ apl'[p].new = apl[p].new,
         \A m \in Mergers : mrg'[m].pc \in {"idle", "refresh"} /\ ~mrg'[m].moved
  PROVE  Kept'
<1>1. Targets' = Targets
  BY DEF Targets, Newest
<1>2. Booted' /\ Up' /\ Way' /\ Covered' /\ SomeProven'
  BY <1>1 DEF Kept, Booted, Up, Way, Covered, SomeProven
<1>3. EfiTargets' /\ EfiCommitted'
  BY DEF Kept, EfiTargets, EfiCommitted, Whole
<1>4. \A p \in Appliers : AsideBy(p)'
  BY DEF Kept, AsideBy
<1>5. \A m \in Mergers : JudgedBy(m)'
  BY DEF JudgedBy
<1> QED BY <1>2, <1>3, <1>4, <1>5 DEF Kept

\* A request is such a step,
LEMMA RequestKept ==
  ASSUME IInv, Sole, Kept, Serialised, NEW p \in Appliers, NEW r \in Runtimes, Request(p, r)
  PROVE  Kept'
<1>1. /\ phase = "up" /\ AllIdle
      /\ UNCHANGED <<loader, slot, pointer, oneshot, running, phase, proven, marker, mrg>>
  BY DEF Request, Accepts, medium, machine, history
<1>2. \A q \in Appliers : apl'[q].pc \in {"idle", "decide"}
  BY <1>1 DEF Request, IInv, TypeOK, Applier, AllIdle
<1>3. \A m \in Mergers : mrg[m].pc = "idle" /\ ~mrg[m].moved
  BY <1>1 DEF AllIdle, Sole
<1> QED BY <1>1, <1>2, <1>3, StillKept DEF Prepares

\* an activation is,
LEMMA ActivateRuntimeKept ==
  ASSUME IInv, Sole, Kept, NEW p \in Appliers, ActivateRuntime(p), apl[p].pc # "idle",
         UNCHANGED <<loader, slot, pointer, oneshot, running, phase, proven, marker>>
  PROVE  Kept'
<1>1. \A q \in Appliers : Prepares(q)' => apl'[q] = apl[q]
  BY DEF ActivateRuntime, Fails, IInv, TypeOK, Prepares, IdleApplier
<1>2. p \in Mergers /\ mrg[p] \in Merger
  BY DEF Mergers, IInv, TypeOK
<1>3. UNCHANGED mrg \/ mrg' = [mrg EXCEPT ![p] = [mrg[p] EXCEPT !.pc = "refresh"]]
  BY DEF ActivateRuntime
<1>4. \A n \in Mergers : mrg'[n].pc \in {"idle", "refresh"} /\ ~mrg'[n].moved
  BY <1>2, <1>3, ApplierUp DEF IInv, TypeOK, Merger
<1> QED BY <1>1, <1>4, ApplierUp, StillKept DEF Prepares

\* and so are the steps of an apply that only read, complete the marker, or
\* give up before the writes.
LEMMA QuietKept ==
  ASSUME IInv, Sole, Told, Kept, NEW p \in Appliers,
         Decide(p) \/ ReadMark(p) \/ SetRuntime(p) \/ ApplyFails(p)
  PROVE  Kept'
<1>0. apl[p].pc # "idle" /\ apl[p] \in Applier
      /\ UNCHANGED <<loader, slot, pointer, oneshot, running, phase, proven>>
  BY DEF Decide, ReadMark, SetRuntime, ApplyFails, medium, machine, history, IInv, TypeOK
<1>1. CASE Decide(p) /\ ActivateRuntime(p)
  BY <1>0, <1>1, ActivateRuntimeKept DEF Decide
<1>2. CASE ~(Decide(p) /\ ActivateRuntime(p))
  <2>1. UNCHANGED mrg
    BY <1>2 DEF Decide, ReadMark, SetRuntime, ApplyFails
  <2>2. \A q \in Appliers : Prepares(q)' => apl'[q] = apl[q]
    BY <1>0, <1>2 DEF Decide, ReadMark, SetRuntime, ApplyFails, Fails, IdleApplier,
                IInv, TypeOK, Applier, Prepares
  <2>3. \/ marker' = marker
        \/ SetRuntime(p)
    BY <1>2 DEF Decide, ReadMark, ApplyFails
  <2>4. SetRuntime(p) => marker # NONE /\ marker' # NONE /\ marker'.bundle = marker.bundle
                         /\ marker'.prev = marker.prev /\ marker'.new = marker.new
    <3>1. SUFFICES ASSUME SetRuntime(p)
                   PROVE  /\ marker # NONE /\ marker' # NONE /\ marker'.bundle = marker.bundle
                         /\ marker'.prev = marker.prev /\ marker'.new = marker.new
      OBVIOUS
    <3>2. /\ marker \in Marker /\ apl[p].runtime \in Runtimes
          /\ marker' = [marker EXCEPT !.runtime = apl[p].runtime]
      BY <3>1 DEF SetRuntime, Told, MarkedBy, IInv, Working
    <3> QED BY <3>2, ConstantsAssumption DEF Marker
  <2> QED BY <1>0, <2>1, <2>2, <2>3, <2>4, ApplierUp, StillKept DEF Prepares
<1> QED BY <1>1, <1>2

\* The slot an apply chose and the running one are the two slots.
LEMMA WriterKnows ==
  ASSUME IInv, Sole, Kept, NEW p \in Appliers, Prepares(p)
  PROVE  /\ phase = "up" /\ running # NONE /\ running.slot \in Slots
         /\ apl[p] \in Applier
         /\ apl[p].prev = running.slot /\ apl[p].new \in Slots /\ apl[p].new # running.slot
         /\ proven[running.slot]
         /\ loader # "sorting" => pointer = running.slot
         /\ loader = "efi" => oneshot \in {NONE, running.slot}
         /\ \A s \in Slots : s # running.slot => s = apl[p].new
         /\ \A m \in Mergers : mrg[m].pc = "idle" /\ ~mrg[m].moved
         /\ \A q \in Appliers : q # p => ~Prepares(q)
<1>1. apl[p].pc # "idle"
  BY DEF Prepares
<1>2. /\ phase = "up" /\ running \in Running /\ running.slot \in Slots
      /\ \A m \in Mergers : mrg[m].pc = "idle" /\ ~mrg[m].moved
      /\ \A q \in Appliers : q # p => ~Prepares(q)
  BY <1>1, ApplierUp DEF Prepares
<1>3. apl[p].new = Other(running.slot) /\ apl[p] \in Applier
  BY DEF Kept, AsideBy, IInv, TypeOK
<1> QED BY <1>2, <1>3, OtherSlot, SlotPair, ConstantsAssumption DEF Kept, AsideBy

\* An apply that begins on neither the running slot nor the next boot's slot
\* has chosen the other one.
LEMMA DetectKept ==
  ASSUME IInv, Sole, Kept, NEW p \in Appliers, Detect(p), lapses' = {}
  PROVE  Kept'
<1>0. /\ apl[p].pc = "detect" /\ apl[p] \in Applier
      /\ UNCHANGED <<loader, slot, pointer, oneshot, running, phase, proven, marker>>
  BY DEF Detect, medium, machine, IInv, TypeOK
<1>1. CASE ActivateRuntime(p)
  BY <1>0, <1>1, ActivateRuntimeKept
<1>2. CASE apl' = [apl EXCEPT ![p].pc = "readMark"] /\ UNCHANGED mrg
  <2>1. \A q \in Appliers : Prepares(q)' => apl'[q] = apl[q]
    BY <1>0, <1>2 DEF IInv, TypeOK, Applier, Prepares
  <2> QED BY <1>0, <1>2, <2>1, ApplierUp, StillKept DEF Prepares
<1>3. CASE apl' = [apl EXCEPT ![p].pc = "mark", ![p].prev = DetectedSlot,
                              ![p].new = Other(DetectedSlot), ![p].todo = Parts]
           /\ lapses' = lapses
                \cup (IF Other(DetectedSlot) \in Targets THEN {"rewroteTarget"} ELSE {})
                \cup (IF Other(DetectedSlot) = running.slot THEN {"rewroteRunning"} ELSE {})
           /\ UNCHANGED mrg
  <2>1. apl'[p].prev = DetectedSlot /\ apl'[p].new = Other(DetectedSlot)
        /\ \A q \in Appliers : q # p => apl'[q] = apl[q]
    BY <1>0, <1>3 DEF IInv, TypeOK, Applier
  <2>2. /\ phase = "up" /\ running # NONE /\ running.slot \in Slots /\ pointer \in Slots
        /\ oneshot \in Slots \cup {NONE}
        /\ \A m \in Mergers : mrg[m].pc = "idle" /\ ~mrg[m].moved
        /\ \A q \in Appliers : q # p => apl[q].pc = "idle"
    BY <1>0, ApplierUp, ConstantsAssumption DEF IInv, TypeOK
  <2>3. DetectedSlot \in Slots
    BY <2>2 DEF DetectedSlot
  <2>4. Other(DetectedSlot) \notin Targets /\ Other(DetectedSlot) # running.slot
    BY <1>3
  <2>5. DetectedSlot = running.slot
    BY <2>2, <2>3, <2>4, SlotPair
  <2>6. Targets # {Other(running.slot)}
    BY <2>4, <2>5
  <2>7. proven[running.slot]
    BY <2>2, <2>6 DEF Kept, Up
  <2>8. loader # "sorting" => pointer = running.slot
    <3>1. loader = "uboot" => pointer = running.slot
      BY <2>5 DEF DetectedSlot
    <3>2. loader = "tegra" => pointer = running.slot
      BY <2>2, <2>4, <2>5, SlotPair DEF Targets
    <3>3. loader = "efi" => pointer = running.slot
      <4>1. SUFFICES ASSUME loader = "efi", pointer # running.slot PROVE FALSE
        OBVIOUS
      <4>2. pointer = Other(running.slot)
        BY <2>2, <4>1, TwoSlots
      <4>3. oneshot \in {NONE, pointer}
        BY <2>2, <4>1 DEF Kept, EfiTargets
      <4>4. pointer \in Targets
        BY <4>1, <4>3 DEF Targets
      <4> QED BY <2>4, <2>5, <4>2, <4>4
    <3> QED BY <3>1, <3>2, <3>3, ConstantsAssumption DEF IInv, TypeOK, LoaderKinds
  <2>9. loader = "efi" => oneshot \in {NONE, running.slot}
    BY <2>2, <2>4, <2>5, SlotPair DEF Targets
  <2>10. AsideBy(p)'
    BY <1>0, <2>1, <2>5, <2>7, <2>8, <2>9 DEF AsideBy
  <2>11. \A q \in Appliers : q # p => AsideBy(q)'
    BY <1>0, <2>1, <2>2 DEF AsideBy, Prepares
  <2>12. \A m \in Mergers : JudgedBy(m)'
    BY <1>3, <2>2 DEF JudgedBy
  <2>13. Targets' = Targets
    BY <1>0 DEF Targets, Newest
  <2>14. Booted' /\ Up' /\ Way' /\ Covered' /\ SomeProven'
    BY <1>0, <2>2, <2>13 DEF Kept, Booted, Up, Way, Covered, SomeProven
  <2>15. EfiTargets' /\ EfiCommitted'
    <3>1. UNCHANGED <<loader, slot, pointer, oneshot, running, phase, proven, marker, mrg>>
      BY <1>0, <1>3
    <3> QED BY <3>1 DEF Kept, EfiTargets, EfiCommitted, Whole, FitsSlot
  <2> QED BY <2>10, <2>11, <2>12, <2>14, <2>15 DEF Kept
<1> QED BY <1>1, <1>2, <1>3, Zenon DEF Detect

\* The marker names the running slot, which is proven, as the one to go back
\* to.
LEMMA MarkKept ==
  ASSUME IInv, Sole, Kept, NEW p \in Appliers, Mark(p)
  PROVE  Kept'
<1>0. apl[p].pc = "mark" /\ Prepares(p)
  BY DEF Mark, Prepares
<1>1. /\ UNCHANGED <<loader, slot, pointer, oneshot, running, phase, proven, mrg>>
      /\ marker'.prev = apl[p].prev /\ marker'.new = apl[p].new
  BY DEF Mark, medium, machine, history
<1>2. \A q \in Appliers : /\ apl'[q].prev = apl[q].prev /\ apl'[q].new = apl[q].new
                          /\ Prepares(q)' => Prepares(q)
  BY <1>0 DEF Mark, IInv, TypeOK, Applier, Prepares
<1>3. Targets' = Targets
  BY <1>1 DEF Targets, Newest
<1>4. marker' # NONE
  BY ConstantsAssumption, MarkIInv DEF Mark, Marker, IInv, Working
<1>5. Booted' /\ Up' /\ Way' /\ SomeProven'
  BY <1>0, <1>1, <1>3, WriterKnows DEF Kept, Booted, Up, Way, SomeProven
<1>6. Covered'
  BY <1>0, <1>1, <1>3, <1>4, WriterKnows, TargetsAreSlots DEF Covered, IInv
<1>7. EfiTargets' /\ EfiCommitted'
  BY <1>0, <1>1, WriterKnows DEF Kept, EfiTargets, EfiCommitted, Whole
<1>8. \A q \in Appliers : AsideBy(q)'
  BY <1>1, <1>2 DEF Kept, AsideBy
<1>9. \A m \in Mergers : JudgedBy(m)'
  BY <1>0, <1>1, WriterKnows DEF JudgedBy
<1> QED BY <1>5, <1>6, <1>7, <1>8, <1>9 DEF Kept

\* The writes touch only the slot that the next boot does not take.
LEMMA WriteKept ==
  ASSUME IInv, Sole, Told, Kept, NEW p \in Appliers,
         EndWrite(p) \/ \E x \in Parts : BeginWrite(p, x)
  PROVE  Kept'
<1> DEFINE s == apl[p].new
<1>0. Prepares(p)
  BY DEF BeginWrite, EndWrite, Prepares
<1>1. /\ UNCHANGED <<loader, pointer, oneshot, running, phase, marker, mrg>>
      /\ marker = [bundle |-> BundleOf[apl[p].runtime], prev |-> apl[p].prev,
                   new |-> apl[p].new, runtime |-> NONE]
  BY DEF BeginWrite, EndWrite, store, machine, Told, MarkedBy
<1>2. \A q \in Appliers : /\ apl'[q].prev = apl[q].prev /\ apl'[q].new = apl[q].new
                          /\ Prepares(q)' => Prepares(q)
  <2>1. CASE EndWrite(p)
    BY <2>1 DEF EndWrite, IInv, TypeOK, Applier, Prepares
  <2>2. ASSUME NEW x \in Parts, BeginWrite(p, x), NEW q \in Appliers
        PROVE  /\ apl'[q].prev = apl[q].prev /\ apl'[q].new = apl[q].new
               /\ Prepares(q)' => Prepares(q)
    BY <1>0, <2>2, BeginWriteKeeps DEF Prepares
  <2> QED BY <2>1, <2>2
<1>3. /\ \A t \in Slots : t # apl[p].new => slot'[t] = slot[t]
      /\ \A t \in Slots : t # apl[p].new => proven'[t] = proven[t]
  BY <1>0, WriterKnows DEF EndWrite, BeginWrite, IInv, TypeOK
<1>4. marker.prev = apl[p].prev /\ marker.new = apl[p].new /\ marker # NONE
  <2>1. marker \in Marker
    BY <1>0, <1>1, ConstantsAssumption DEF Marker, IInv, Working, Prepares
  <2> QED BY <1>1, <2>1, ConstantsAssumption
<1>5. /\ proven'[running.slot] /\ running.slot \in Slots
      /\ slot'[running.slot] = slot[running.slot]
  BY <1>0, <1>3, WriterKnows
<1>6. Booted' /\ Up' /\ Way' /\ SomeProven'
  BY <1>0, <1>1, <1>4, <1>5, WriterKnows DEF Booted, Up, Way, SomeProven
<1>7. Targets' \subseteq Slots
  BY <1>1 DEF Targets, Newest, IInv, TypeOK
<1>8. Covered'
  BY <1>0, <1>1, <1>4, <1>5, <1>7, WriterKnows DEF Covered
<1>9. EfiTargets' /\ EfiCommitted'
  BY <1>0, <1>1, <1>4, <1>5, WriterKnows DEF Kept, EfiTargets, EfiCommitted, Whole
<1>10. \A q \in Appliers : AsideBy(q)'
  BY <1>1, <1>2, <1>5 DEF Kept, AsideBy
<1>11. \A m \in Mergers : JudgedBy(m)'
  BY <1>0, <1>1, WriterKnows DEF JudgedBy
<1> QED BY <1>6, <1>8, <1>9, <1>10, <1>11 DEF Kept

\* The flip makes the next boot take the marked slot. When an action after the
\* flip fails and the marker goes, that is a lapse.
LEMMA ActivateKept ==
  ASSUME IInv, Sole, Told, Written, Kept, NEW p \in Appliers, lapses' = {},
         Activate(p) \/ ActivateFails(p)
  PROVE  Kept'
<1>0. Prepares(p) /\ apl[p].pc = "write" /\ Whole(apl[p].new)
  BY FlipWhole DEF Activate, ActivateFails, Prepares
<1>1. /\ UNCHANGED <<loader, slot, running, phase, proven, mrg>>
      /\ marker = [bundle |-> BundleOf[apl[p].runtime], prev |-> apl[p].prev,
                   new |-> apl[p].new, runtime |-> NONE]
  BY DEF Activate, ActivateFails, store, machine, history, Told, MarkedBy
<1>2. \A q \in Appliers : ~Prepares(q)'
  <2>1. \A q \in Appliers : q # p => apl'[q] = apl[q]
    BY DEF Activate, ActivateFails, Fails, IInv, TypeOK
  <2>2. apl'[p].pc \in {"idle", "readMark"}
    BY DEF Activate, ActivateFails, Fails, IInv, TypeOK, Applier, IdleApplier
  <2> QED BY <1>0, <2>1, <2>2, WriterKnows DEF Prepares
<1>3. marker.prev = apl[p].prev /\ marker.new = apl[p].new /\ marker # NONE
  <2>1. marker \in Marker
    BY <1>0, <1>1, ConstantsAssumption DEF Marker, IInv, Working
  <2> QED BY <1>1, <2>1, ConstantsAssumption
<1>4. \/ marker' = marker /\ oneshot' \in {oneshot, apl[p].new}
         /\ (loader = "efi" => pointer' = pointer) /\ pointer' \in {pointer, apl[p].new}
      \/ marker' = NONE /\ loader \notin {"efi", "sorting"} /\ UNCHANGED <<pointer, oneshot>>
  BY DEF Activate, ActivateFails, store, Flip, SdbootAb
<1>5. Booted' /\ Up' /\ Way' /\ SomeProven'
  BY <1>0, <1>1, <1>3, <1>4, WriterKnows DEF Booted, Up, Way, SomeProven
<1>6. Covered'
  <2>1. CASE marker' = marker
    <3>1. Targets' \subseteq Slots
      BY <1>0, <1>1, <1>4, WriterKnows DEF Targets, Newest, IInv, TypeOK
    <3> QED BY <1>0, <1>1, <1>3, <2>1, <3>1, WriterKnows DEF Covered
  <2>2. CASE loader \notin {"efi", "sorting"} /\ UNCHANGED <<pointer, oneshot>>
    <3>1. Targets' = {running.slot}
      BY <1>0, <1>1, <2>2, WriterKnows DEF Targets
    <3> QED BY <1>0, <1>1, <3>1, WriterKnows DEF Covered
  <2> QED BY <1>4, <2>1, <2>2
<1>7. EfiTargets' /\ EfiCommitted'
  BY <1>0, <1>1, <1>3, <1>4, WriterKnows DEF Kept, EfiTargets, EfiCommitted, Whole
<1>8. \A q \in Appliers : AsideBy(q)'
  BY <1>2 DEF AsideBy
<1>9. \A m \in Mergers : JudgedBy(m)'
  BY <1>0, <1>1, WriterKnows DEF JudgedBy
<1> QED BY <1>5, <1>6, <1>7, <1>8, <1>9 DEF Kept

\* What holds while a merge is under way.
LEMMA MergerKnows ==
  ASSUME IInv, Sole, NEW m \in Mergers, mrg[m].pc # "idle"
  PROVE  /\ phase \in {"boot", "up"} /\ running \in Running /\ running.slot \in Slots
         /\ mrg[m] \in Merger
         /\ \A p \in Appliers : ~Prepares(p)
         /\ \A n \in Mergers : n # m => mrg[n].pc = "idle" /\ ~mrg[n].moved
         /\ phase = "boot" => ~rebooting
         /\ mrg[m].moved => mrg[m].pc \in {"unmark", "clear", "reboot"}
<1>1. phase \in {"boot", "up"} /\ running \in Running /\ mrg[m] \in Merger
  BY DEF Sole, IInv, Awake, TypeOK
<1>2. \A n \in Mergers : n # m => mrg[n].pc = "idle" /\ ~mrg[n].moved
  BY DEF Sole
<1> QED BY <1>1, <1>2, OthersIdle DEF Running, Prepares, Sole

\* What a merge that leaves slots and loader alone has to show.
LEMMA MergerKept ==
  ASSUME Kept, NEW m \in Mergers, UNCHANGED <<loader, slot, pointer, oneshot, running, proven>>,
         \A p \in Appliers : ~Prepares(p)',
         \A n \in Mergers : n # m => mrg[n].pc = "idle" /\ ~mrg[n].moved,
         \A n \in Mergers : n # m => mrg'[n] = mrg[n],
         marker' = marker \/ (marker' = NONE /\ \A s \in Targets : proven[s]),
         Booted', Up', EfiCommitted', JudgedBy(m)'
  PROVE  Kept'
<1>1. Targets' = Targets
  BY DEF Targets, Newest
<1>2. Way' /\ Covered' /\ SomeProven'
  BY <1>1 DEF Kept, Way, Covered, SomeProven
<1>3. EfiTargets'
  BY DEF Kept, EfiTargets, Whole
<1>4. \A p \in Appliers : AsideBy(p)'
  BY DEF AsideBy
<1>5. \A n \in Mergers : n # m => JudgedBy(n)'
  BY DEF JudgedBy
<1> QED BY <1>2, <1>3, <1>4, <1>5 DEF Kept

\* Before anything was undone, what a boot-time merge verifies is the running
\* slot.
LEMMA SeesFit ==
  ASSUME IInv, Kept, phase = "boot", ~Undone, marker # NONE
  PROVE  Verified(marker.bundle) <=> FitsSlot(marker.bundle, running.slot)
<1>1. running \in Running
  BY DEF IInv, Awake, TypeOK
<1>2. slot[running.slot].boot = running.boot /\ slot[running.slot].rootfs = running.rootfs
  BY DEF Kept, Booted
<1> QED BY <1>1, <1>2 DEF Verified, FitsSlot, RunsRootfs, RunsInitrd

\* A merge that reads a marker accepts only the marked slot, unless that is a
\* lapse.
LEMMA ExamineKept ==
  ASSUME IInv, Sole, Told, Kept, NEW m \in Mergers, Examine(m), lapses' = {},
         UNCHANGED <<loader, slot, pointer, oneshot, running, proven, marker, phase,
                     rebooting, apl>>,
         \A n \in Mergers : n # m => mrg[n].pc = "idle",
         \A p \in Appliers : apl[p].pc = "idle",
         mrg[m].pc \in {"idle", "refresh"}, phase = "up" \/ (phase = "boot" /\ ~rebooting)
  PROVE  Kept'
<1>0. /\ \A n \in Mergers : ~mrg[n].moved /\ mrg[n].pc \in {"idle", "refresh"}
      /\ running \in Running
  BY DEF Sole, IInv, Awake, TypeOK
<1>1. \A n \in Mergers : ~mrg'[n].moved
  BY <1>0, ExamineReads
<1>2. marker # NONE /\ Verified(marker.bundle) => marker.new = running.slot /\ phase = "boot"
  <2>1. marker # NONE /\ Verified(marker.bundle) => marker.new = running.slot
    BY DEF Examine
  <2> QED BY <2>1 DEF Kept, Up
<1>3. phase = "boot" => ~Undone
  BY <1>0 DEF Undone
<1>4. JudgedBy(m)'
  <2>1. CASE marker = NONE
    <3>1. mrg'[m].pc = "rest"
      BY <2>1, ExamineReads
    <3>2. phase = "boot" => proven[running.slot]
      BY <2>1, <1>3 DEF Kept, Booted
    <3> QED BY <1>1, <3>1, <3>2 DEF JudgedBy
  <2>2. CASE marker # NONE /\ Verified(marker.bundle)
    <3>1. mrg'[m].pc = "commit" /\ mrg'[m].pending = marker
      BY <2>2, ExamineReads
    <3>2. FitsSlot(marker.bundle, running.slot)
      BY <1>2, <1>3, <2>2, SeesFit
    <3> QED BY <1>1, <1>2, <2>2, <3>1, <3>2 DEF JudgedBy, FitsSlot
  <2>3. CASE marker # NONE /\ ~Verified(marker.bundle)
    <3>1. mrg'[m].pc = "rollback"
      BY <2>3, ExamineReads
    <3> QED BY <1>1, <3>1 DEF JudgedBy
  <2> QED BY <2>1, <2>2, <2>3
<1>5. Booted' /\ Up'
  <2>1. Targets' = Targets
    BY DEF Targets, Newest
  <2>2. Undone' => Undone
    BY <1>1 DEF Undone
  <2>3. Booted'
    BY <1>3, <2>2 DEF Kept, Booted
  <2>4. Up'
    BY <2>1 DEF Kept, Up
  <2> QED BY <2>3, <2>4
<1>6. EfiCommitted'
  <2>1. SUFFICES ASSUME loader = "efi", marker # NONE, pointer # marker.prev
                 PROVE  /\ oneshot = NONE /\ phase # "up"
                        /\ running # NONE => running.slot = marker.new
                        /\ FitsSlot(marker.bundle, marker.new)
                        /\ \A n \in Mergers : mrg'[n].pc \notin {"rollback", "unmark"}
    BY DEF EfiCommitted, FitsSlot
  <2>2. /\ oneshot = NONE /\ phase # "up"
        /\ running # NONE => running.slot = marker.new
        /\ FitsSlot(marker.bundle, marker.new)
    BY <2>1 DEF Kept, EfiCommitted
  <2>3. Verified(marker.bundle)
    BY <1>0, <1>3, <2>1, <2>2, SeesFit, ConstantsAssumption
  <2>4. mrg'[m].pc = "commit"
    BY <2>1, <2>3, ExamineReads
  <2>5. \A n \in Mergers : n # m => mrg'[n].pc = "idle"
    BY ExamineReads
  <2> QED BY <2>2, <2>4, <2>5
<1>7. \A p \in Appliers : ~Prepares(p)'
  BY DEF Prepares
<1> QED BY <1>0, <1>4, <1>5, <1>6, <1>7, ExamineReads, MergerKept

\* The merge of the boot, or of a request.
LEMMA MergeStartKept ==
  ASSUME Serialised, IInv, Sole, Told, Kept, NEW m \in Mergers, MergeStart(m), lapses' = {}
  PROVE  Kept'
  BY ExamineKept DEF MergeStart, Accepts, AllIdle, medium, store, machine

\* The merge that follows an activation, or its refusal.
LEMMA RefreshKept ==
  ASSUME IInv, Sole, Told, Kept, NEW m \in Mergers, Refresh(m), lapses' = {}
  PROVE  Kept'
<1>0. /\ mrg[m].pc = "refresh"
      /\ UNCHANGED <<loader, slot, pointer, oneshot, running, proven, marker, phase,
                     rebooting, apl>>
  BY DEF Refresh, medium, store, machine
<1>1. CASE Examine(m)
  <2>1. \A n \in Mergers : n # m => mrg[n].pc = "idle"
    BY <1>0, MergerKnows
  <2>2. \A p \in Appliers : apl[p].pc = "idle"
    BY <1>0, OthersIdle
  <2>3. phase = "up" \/ (phase = "boot" /\ ~rebooting)
    BY <1>0, MergerKnows
  <2> QED BY <1>0, <1>1, <2>1, <2>2, <2>3, ExamineKept
<1>2. CASE ~Examine(m)
  <2>1. \A n \in Mergers : mrg'[n] = IF n = m THEN IdleMerger ELSE mrg[n]
    BY <1>2 DEF Refresh, IInv, TypeOK
  <2>2. Targets' = Targets
    BY <1>0 DEF Targets, Newest
  <2>3. Undone' = Undone
    BY <1>0, <2>1, MergerKnows DEF Undone, IdleMerger
  <2>4. Booted' /\ Up'
    BY <1>0, <2>2, <2>3 DEF Kept, Booted, Up
  <2>5. EfiCommitted'
    BY <1>0, <2>1 DEF Kept, EfiCommitted, FitsSlot, IdleMerger
  <2>6. JudgedBy(m)'
    BY <2>1 DEF JudgedBy, IdleMerger
  <2>7. \A p \in Appliers : ~Prepares(p)'
    BY <1>0, MergerKnows DEF Prepares
  <2> QED BY <1>0, <2>1, <2>4, <2>5, <2>6, <2>7, MergerKnows, MergerKept
<1> QED BY <1>1, <1>2

\* The commit actions prove the slot that runs.
LEMMA CommitKept ==
  ASSUME IInv, Sole, Told, Kept, NEW m \in Mergers, Commit(m)
  PROVE  Kept'
<1> DEFINE s == running.slot
<1>0. /\ mrg[m].pc = "commit" /\ mrg[m] \in Merger /\ ~mrg[m].moved
      /\ UNCHANGED <<loader, slot, oneshot, running, marker, phase, rebooting, apl>>
      /\ phase = "boot" /\ s \in Slots /\ running # NONE
      /\ \A n \in Mergers : n # m => mrg[n].pc = "idle" /\ ~mrg[n].moved
      /\ \A p \in Appliers : ~Prepares(p)'
  BY MergerKnows, ConstantsAssumption DEF Commit, store, machine, Kept, JudgedBy, Prepares
<1>1. mrg[m].pending = marker /\ marker # NONE /\ marker.new = s /\ FitsSlot(marker.bundle, s)
  BY <1>0, ConstantsAssumption DEF Told, ReadBy, IInv, Merging, Kept, JudgedBy
<1>2. ~Undone /\ ~rebooting
  BY <1>0, MergerKnows DEF Undone
<1>3. /\ slot[s].boot = running.boot /\ slot[s].rootfs = running.rootfs
      /\ loader = "efi" => oneshot = NONE
  BY <1>0, <1>2 DEF Kept, Booted
<1>4. proven' = [proven EXCEPT ![s] = TRUE]
  BY <1>3 DEF Commit
<1>5. proven'[s] /\ \A t \in Slots : proven[t] => proven'[t]
  BY <1>0, <1>4 DEF IInv, TypeOK
<1>6. pointer' = pointer \/ (loader = "efi" /\ pointer' = s)
  BY <1>1 DEF Commit
<1>7. /\ \A n \in Mergers : n # m => mrg'[n] = mrg[n]
      /\ mrg'[m].pc = "promote" /\ ~mrg'[m].moved /\ mrg'[m].pending = marker
  BY <1>0, <1>1 DEF Commit, IInv, TypeOK, Merger
<1>8. Booted' /\ Up'
  BY <1>0, <1>3, <1>5 DEF Booted, Up
<1>9. Way' /\ SomeProven'
  BY <1>0, <1>5 DEF Kept, Way, SomeProven, IInv, TypeOK, Marker
<1>10. Covered'
  <2>1. CASE pointer' = pointer
    <3>1. Targets' = Targets
      BY <1>0, <2>1 DEF Targets, Newest
    <3> QED BY <1>0, <1>5, <3>1, TargetsAreSlots DEF Kept, Covered, IInv
  <2>2. CASE loader = "efi" /\ pointer' = s
    <3>1. Targets' = {s}
      BY <1>0, <1>3, <2>2 DEF Targets
    <3> QED BY <1>5, <3>1 DEF Covered
  <2> QED BY <1>6, <2>1, <2>2
<1>11. EfiTargets'
  <2>1. SUFFICES ASSUME loader = "efi" PROVE EfiTargets'
    BY <1>0 DEF EfiTargets
  <2>2. running \in Running /\ pointer \in Slots
    BY <1>0 DEF IInv, TypeOK
  <2>3. Whole(s)
    BY <1>0, <1>3, <2>1, <2>2 DEF Kept, EfiTargets, Whole, Running
  <2>4. proven'[pointer'] /\ Whole(pointer')
    BY <1>5, <1>6, <2>1, <2>2, <2>3 DEF Kept, EfiTargets
  <2>5. oneshot' = NONE
    BY <1>0, <1>3, <2>1
  <2> QED BY <1>0, <2>1, <2>4, <2>5 DEF Kept, EfiTargets, Whole
<1>12. EfiCommitted'
  BY <1>0, <1>1, <1>3, <1>7 DEF EfiCommitted, FitsSlot
<1>13. JudgedBy(m)'
  BY <1>0, <1>1, <1>5, <1>7 DEF JudgedBy
<1>14. \A n \in Mergers : n # m => JudgedBy(n)'
  BY <1>0, <1>7 DEF JudgedBy
<1>15. \A p \in Appliers : AsideBy(p)'
  BY <1>0 DEF AsideBy
<1> QED BY <1>8, <1>9, <1>10, <1>11, <1>12, <1>13, <1>14, <1>15 DEF Kept

\* The promotion changes no slot.
LEMMA PromoteKept ==
  ASSUME IInv, Sole, Told, Kept, NEW m \in Mergers, Promote(m)
  PROVE  Kept'
<1>0. /\ mrg[m].pc = "promote" /\ mrg[m] \in Merger /\ ~mrg[m].moved
      /\ UNCHANGED <<loader, slot, pointer, oneshot, running, proven, marker, phase,
                     rebooting, apl>>
      /\ \A n \in Mergers : n # m => mrg[n].pc = "idle" /\ ~mrg[n].moved
      /\ \A p \in Appliers : ~Prepares(p)'
  BY MergerKnows DEF Promote, medium, machine, history, Prepares
<1>1. /\ \A n \in Mergers : n # m => mrg'[n] = mrg[n]
      /\ mrg'[m].pc = "clear" /\ ~mrg'[m].moved /\ mrg'[m].pending = mrg[m].pending
  BY <1>0 DEF Promote, IInv, TypeOK, Merger
<1>2. Targets' = Targets
  BY <1>0 DEF Targets, Newest
<1>3. Undone => Undone'
  BY <1>0, <1>1 DEF Undone
<1>4. Booted' /\ Up'
  BY <1>0, <1>2, <1>3 DEF Kept, Booted, Up
<1>5. EfiCommitted'
  BY <1>0, <1>1 DEF Kept, EfiCommitted, FitsSlot
<1>6. JudgedBy(m)'
  BY <1>0, <1>1 DEF Kept, JudgedBy
<1> QED BY <1>0, <1>1, <1>4, <1>5, <1>6, MergerKept

\* The rollback, if it takes effect, makes the previous slot the only one the
\* next boot may take: with a sorting loader because the new slot's boot image
\* is removed, and there is no third.
LEMMA RollbackKept ==
  ASSUME IInv, Sole, Told, Sound, Kept, NEW m \in Mergers, Rollback(m), lapses' = {}
  PROVE  Kept'
<1> DEFINE prev == marker.prev
           new == marker.new
<1>0. /\ mrg[m].pc = "rollback" /\ mrg[m] \in Merger
      /\ UNCHANGED <<loader, running, marker, phase, rebooting, apl>>
      /\ phase \in {"boot", "up"} /\ running.slot \in Slots /\ running # NONE
      /\ \A n \in Mergers : n # m => mrg[n].pc = "idle" /\ ~mrg[n].moved
      /\ \A p \in Appliers : ~Prepares(p)'
  BY MergerKnows, ConstantsAssumption DEF Rollback, store, machine, Prepares
<1>1. mrg[m].pending = marker /\ marker # NONE /\ marker \in Marker
  BY <1>0, ConstantsAssumption DEF Told, ReadBy, IInv, Merging
<1>2. prev \in Slots /\ new \in Slots /\ prev # new /\ proven[prev]
  BY <1>1 DEF Kept, Way, Marker
<1>3. /\ Unflip(prev, new)
      /\ proven' = (IF loader = "sorting" THEN [proven EXCEPT ![new] = FALSE] ELSE proven)
      /\ mrg' = [mrg EXCEPT ![m].pc = "unmark", ![m].moved = TRUE]
  BY <1>1 DEF Rollback
<1>4. /\ \A n \in Mergers : n # m => mrg'[n] = mrg[n]
      /\ mrg'[m].pc = "unmark" /\ mrg'[m].moved /\ mrg'[m].pending = marker
  BY <1>0, <1>1, <1>3 DEF IInv, TypeOK, Merger
<1>5. proven'[prev] /\ slot'[prev] = slot[prev]
      /\ (loader = "sorting" => slot'[new].boot = Blank)
      /\ (loader # "sorting" => slot' = slot /\ proven' = proven)
  BY <1>2, <1>3 DEF Unflip, IInv, TypeOK
<1>6. Targets' = {prev}
  <2>1. CASE loader = "sorting"
    <3>1. slot'[prev].boot \in Bundles
      BY <1>2, <1>5 DEF Sound
    <3>2. slot'[new].boot \notin Bundles
      BY <1>5, <2>1, ConstantsAssumption
    <3>3. \A t \in Slots : t = prev \/ t = new
      BY <1>2, SlotPair
    <3>4. \A b \in Bundles : b <= b
      <4>1. Bundles \subseteq Nat
        BY ConstantsAssumption
      <4> QED BY <4>1
    <3>5. Newest' = {prev}
      BY <1>2, <3>1, <3>2, <3>3, <3>4 DEF Newest
    <3> QED BY <1>0, <2>1, <3>5 DEF Targets
  <2>2. CASE loader = "efi"
    BY <1>0, <1>2, <1>3, <2>2, ConstantsAssumption DEF Targets, Unflip, Flip
  <2>3. CASE loader \in {"uboot", "tegra"}
    BY <1>0, <1>3, <2>3 DEF Targets, Unflip, Flip
  <2> QED BY <2>1, <2>2, <2>3, ConstantsAssumption DEF IInv, TypeOK, LoaderKinds
<1>7. Booted'
  BY <1>4 DEF Booted, Undone
<1>8. Up'
  <2>1. SUFFICES ASSUME phase = "up"
                 PROVE  proven'[running.slot] /\ marker.new # running.slot
    BY <1>0 DEF Up
  <2>2. marker.new # running.slot
    BY <1>1, <2>1 DEF Kept, Up
  <2>3. running.slot = prev
    BY <1>0, <1>2, <2>2, SlotPair
  <2> QED BY <1>5, <2>2, <2>3
<1>9. Way' /\ SomeProven' /\ Covered'
  BY <1>0, <1>2, <1>5, <1>6 DEF Way, SomeProven, Covered
<1>10. EfiTargets' /\ EfiCommitted'
  <2>1. SUFFICES ASSUME loader = "efi" PROVE EfiTargets' /\ EfiCommitted'
    BY <1>0 DEF EfiTargets, EfiCommitted
  <2>2. UNCHANGED <<slot, pointer, proven>> /\ oneshot' = prev
    BY <1>3, <2>1 DEF Unflip, Flip
  <2>3. pointer = prev
    BY <1>0, <1>1, <2>1 DEF Kept, EfiCommitted
  <2> QED BY <1>0, <1>1, <2>1, <2>2, <2>3 DEF Kept, EfiTargets, EfiCommitted, Whole
<1>11. JudgedBy(m)'
  BY <1>4, <1>5, <1>6 DEF JudgedBy
<1>12. \A n \in Mergers : n # m => JudgedBy(n)'
  BY <1>0, <1>4 DEF JudgedBy
<1>13. \A p \in Appliers : AsideBy(p)'
  BY <1>0 DEF AsideBy
<1> QED BY <1>7, <1>8, <1>9, <1>10, <1>11, <1>12, <1>13 DEF Kept

\* After that the marker is no longer needed,
LEMMA UnmarkKept ==
  ASSUME IInv, Sole, Told, Kept, NEW m \in Mergers, Unmark(m), lapses' = {}
  PROVE  Kept'
<1>0. /\ mrg[m].pc = "unmark" /\ mrg[m] \in Merger /\ mrg[m].moved
      /\ Targets = {mrg[m].pending.prev} /\ proven[mrg[m].pending.prev]
      /\ UNCHANGED <<loader, slot, pointer, oneshot, running, proven, phase, rebooting, apl>>
      /\ \A n \in Mergers : n # m => mrg[n].pc = "idle" /\ ~mrg[n].moved
      /\ \A p \in Appliers : ~Prepares(p)'
  BY MergerKnows DEF Unmark, medium, machine, Prepares, Kept, JudgedBy
<1>1. marker' = NONE /\ mrg' = [mrg EXCEPT ![m].pc = "clear"]
  BY <1>0 DEF Unmark
<1>2. /\ \A n \in Mergers : n # m => mrg'[n] = mrg[n]
      /\ mrg'[m].pc = "clear" /\ mrg'[m].moved /\ mrg'[m].pending = mrg[m].pending
  BY <1>0, <1>1 DEF IInv, TypeOK, Merger
<1>3. Targets' = Targets
  BY <1>0 DEF Targets, Newest
<1>4. Booted' /\ EfiCommitted'
  BY <1>0, <1>1, <1>2 DEF Booted, Undone, EfiCommitted
<1>5. Up'
  BY <1>0, <1>1, <1>3 DEF Kept, Up
<1>6. JudgedBy(m)'
  BY <1>0, <1>2, <1>3 DEF JudgedBy
<1> QED BY <1>0, <1>1, <1>2, <1>4, <1>5, <1>6, MergerKept

\* nor after the commit.
LEMMA ClearKept ==
  ASSUME IInv, Sole, Told, Kept, NEW m \in Mergers, Clear(m), lapses' = {}
  PROVE  Kept'
<1>0. /\ mrg[m].pc = "clear" /\ mrg[m] \in Merger /\ running.slot \in Slots
      /\ UNCHANGED <<loader, slot, pointer, oneshot, running, proven, apl>>
      /\ marker' = NONE
      /\ \A n \in Mergers : n # m => mrg[n].pc = "idle" /\ ~mrg[n].moved
      /\ \A p \in Appliers : ~Prepares(p)'
  BY MergerKnows DEF Clear, medium, machine, Prepares
<1>1. Targets' = Targets
  BY <1>0 DEF Targets, Newest
<1>2. EfiCommitted'
  BY <1>0 DEF EfiCommitted
<1>3. CASE /\ ~mrg[m].moved
           /\ mrg' = [mrg EXCEPT ![m].pc = "rest", ![m].pending = NONE]
           /\ UNCHANGED <<phase, rebooting>>
  <2>1. /\ \A n \in Mergers : n # m => mrg'[n] = mrg[n]
        /\ mrg'[m].pc = "rest" /\ ~mrg'[m].moved
    BY <1>0, <1>3 DEF IInv, TypeOK, Merger
  <2>2. /\ phase = "boot" /\ proven[running.slot]
        /\ marker = mrg[m].pending /\ marker.new = running.slot
    BY <1>0, <1>3 DEF Kept, JudgedBy
  <2>3. ~Undone
    BY <1>0, <1>3, <2>2, MergerKnows DEF Undone
  <2>4. Booted' /\ Up'
    BY <1>0, <1>3, <2>2, <2>3 DEF Kept, Booted, Up
  <2>5. \A s \in Targets : proven[s]
    BY <2>2 DEF Kept, Covered
  <2>6. JudgedBy(m)'
    BY <1>0, <2>1, <2>2 DEF JudgedBy
  <2> QED BY <1>0, <1>2, <2>1, <2>4, <2>5, <2>6, MergerKept
<1>4. CASE mrg[m].moved
  <2>1. /\ mrg' = [mrg EXCEPT ![m] = [mrg[m] EXCEPT !.pc = "reboot"]]
        /\ UNCHANGED <<phase, rebooting>>
    BY <1>4 DEF Clear, Decided, machine
  <2>2. /\ \A n \in Mergers : n # m => mrg'[n] = mrg[n]
        /\ mrg'[m].pc = "reboot" /\ mrg'[m].moved /\ mrg'[m].pending = mrg[m].pending
    BY <1>0, <1>4, <2>1 DEF IInv, TypeOK, Merger
  <2>3. Targets = {mrg[m].pending.prev} /\ proven[mrg[m].pending.prev]
    BY <1>4 DEF Kept, JudgedBy
  <2>4. Booted'
    BY <2>2 DEF Booted, Undone
  <2>5. Up'
    BY <1>0, <1>1, <2>1 DEF Kept, Up
  <2>6. JudgedBy(m)'
    BY <1>0, <1>1, <2>2, <2>3 DEF JudgedBy
  <2> QED BY <1>0, <1>2, <2>2, <2>3, <2>4, <2>5, <2>6, MergerKept
<1>5. mrg[m].moved \/ /\ mrg' = [mrg EXCEPT ![m].pc = "rest", ![m].pending = NONE]
                      /\ UNCHANGED <<phase, rebooting>>
  BY DEF Clear, Decided, machine
<1> QED BY <1>3, <1>4, <1>5

\* The reboot that was due, or the boot that goes on without it.
LEMMA RebootBackKept ==
  ASSUME IInv, Sole, Told, Kept, NEW m \in Mergers, RebootBack(m), lapses' = {}
  PROVE  Kept'
<1>0. /\ mrg[m].pc = "reboot" /\ mrg[m] \in Merger /\ mrg[m].moved /\ running.slot \in Slots
      /\ UNCHANGED <<loader, slot, pointer, oneshot, running, proven, apl, marker>>
      /\ marker = NONE
      /\ \A n \in Mergers : n # m => mrg[n].pc = "idle" /\ ~mrg[n].moved
      /\ \A p \in Appliers : ~Prepares(p)'
  BY MergerKnows DEF RebootBack, medium, store, history, Prepares, Sole, Told, ReadBy
<1>1. Targets' = Targets
  BY <1>0 DEF Targets, Newest
<1>2. EfiCommitted'
  BY <1>0 DEF EfiCommitted
<1>3. /\ mrg' = [mrg EXCEPT ![m] = IdleMerger]
      /\ \/ rebooting' = TRUE /\ UNCHANGED phase
         \/ phase' = IF phase # "boot" THEN phase
                     ELSE IF running.rootfs \in Bundles THEN "up" ELSE "stuck"
  BY DEF RebootBack, LeaveMerge
<1>4. \A n \in Mergers : mrg'[n] = IF n = m THEN IdleMerger ELSE mrg[n]
  BY <1>3 DEF IInv, TypeOK
<1>5. Targets = {mrg[m].pending.prev} /\ proven[mrg[m].pending.prev]
  BY <1>0 DEF Kept, JudgedBy
<1>6. mrg[m].pending.prev \in Slots
  BY <1>0 DEF IInv, Merging, Marker
<1>7. proven[running.slot] \/ Targets = {Other(running.slot)}
  BY <1>0, <1>5, <1>6, SlotPair
<1>8. Booted'
  BY <1>3, <1>4 DEF Booted, Undone
<1>9. Up'
  BY <1>0, <1>1, <1>7 DEF Up
<1>10. JudgedBy(m)'
  BY <1>4 DEF JudgedBy, IdleMerger
<1>11. \A n \in Mergers : n # m => mrg'[n] = mrg[n]
  BY <1>4
<1> QED BY <1>0, <1>2, <1>5, <1>8, <1>9, <1>10, <1>11, MergerKept

\* The end of the merge and of the boot.
LEMMA RestKept ==
  ASSUME IInv, Sole, Told, Kept, NEW m \in Mergers, Rest(m), lapses' = {}
  PROVE  Kept'
<1>0. /\ mrg[m].pc = "rest" /\ mrg[m] \in Merger /\ running.slot \in Slots
      /\ UNCHANGED <<loader, slot, pointer, oneshot, running, proven, apl, marker, rebooting>>
      /\ \A n \in Mergers : n # m => mrg[n].pc = "idle" /\ ~mrg[n].moved
      /\ \A p \in Appliers : ~Prepares(p)'
      /\ marker = NONE
      /\ phase = "boot" => proven[running.slot]
      /\ mrg' = [mrg EXCEPT ![m] = IdleMerger]
      /\ phase' \in {phase, "up", "stuck"} /\ phase' # "boot"
      /\ phase' = "up" => phase \in {"up", "boot"}
  BY MergerKnows DEF Rest, LeaveMerge, medium, history, Prepares, Told, ReadBy, Kept, JudgedBy
<1>1. Targets' = Targets
  BY <1>0 DEF Targets, Newest
<1>2. \A n \in Mergers : mrg'[n] = IF n = m THEN IdleMerger ELSE mrg[n]
  BY <1>0 DEF IInv, TypeOK
<1>3. EfiCommitted' /\ Booted'
  BY <1>0 DEF EfiCommitted, Booted
<1>4. Up'
  BY <1>0, <1>1 DEF Kept, Up
<1>5. JudgedBy(m)'
  BY <1>2 DEF JudgedBy, IdleMerger
<1>6. \A n \in Mergers : n # m => mrg'[n] = mrg[n]
  BY <1>2
<1> QED BY <1>0, <1>3, <1>4, <1>5, <1>6, MergerKept

\* A reboot or a power failure stops the threads and changes no slot.
LEMMA PowerOffKept ==
  ASSUME Kept, PowerOff
  PROVE  Kept'
<1>1. Targets' = Targets
  BY DEF PowerOff, medium, Targets, Newest
<1>2. Booted' /\ Up' /\ Way' /\ Covered' /\ SomeProven'
  BY <1>1 DEF PowerOff, medium, store, history, Kept, Booted, Up, Way, Covered, SomeProven
<1>3. EfiTargets' /\ EfiCommitted'
  BY DEF PowerOff, medium, store, history, IdleMerger, Kept, EfiTargets, EfiCommitted, Whole,
         FitsSlot
<1>4. \A p \in Appliers : AsideBy(p)'
  BY DEF PowerOff, IdleApplier, AsideBy, Prepares
<1>5. \A m \in Mergers : JudgedBy(m)'
  BY DEF PowerOff, IdleMerger, JudgedBy
<1> QED BY <1>2, <1>3, <1>4, <1>5 DEF Kept

\* The boot takes one of the slots that were covered.
LEMMA BootKept ==
  ASSUME IInv, Sole, Kept, Boot
  PROVE  Kept'
<1>0. /\ phase = "off" /\ oneshot' = NONE
      /\ UNCHANGED <<loader, rebooting, slot, pointer, marker, apl, mrg, proven>>
      /\ \A p \in Appliers : apl[p].pc = "idle"
      /\ \A m \in Mergers : mrg[m].pc = "idle"
  BY DEF Boot, store, history, IInv, Awake
<1>1. \A p \in Appliers : AsideBy(p)'
  BY <1>0 DEF AsideBy, Prepares
<1>2. \A m \in Mergers : ~mrg[m].moved
  BY <1>0 DEF Sole
<1>3. \A m \in Mergers : JudgedBy(m)'
  BY <1>0, <1>2 DEF JudgedBy
<1>4. Way' /\ SomeProven'
  BY <1>0 DEF Kept, Way, SomeProven
<1>5. Covered'
  <2>1. CASE loader = "efi"
    BY <1>0, <2>1 DEF Kept, EfiTargets, Covered, Targets
  <2>2. CASE loader # "efi"
    <3>1. Targets' = Targets
      BY <1>0, <2>2 DEF Targets, Newest
    <3> QED BY <1>0, <3>1 DEF Kept, Covered
  <2> QED BY <2>1, <2>2
<1>6. CASE running' = NONE /\ phase' = "stuck"
  <2>1. Booted' /\ Up'
    BY <1>6 DEF Booted, Up
  <2>2. EfiTargets' /\ EfiCommitted'
    BY <1>0, <1>6 DEF Kept, EfiTargets, EfiCommitted, Whole, FitsSlot
  <2> QED BY <1>1, <1>3, <1>4, <1>5, <2>1, <2>2 DEF Kept
<1>7. ASSUME NEW s \in Targets, phase' = "boot",
             running' = [slot |-> s, boot |-> slot[s].boot, rootfs |-> slot[s].rootfs]
      PROVE  Kept'
  <2>1. s \in Slots
    BY TargetsAreSlots DEF IInv
  <2>2. running'.slot = s /\ running'.boot = slot[s].boot /\ running'.rootfs = slot[s].rootfs
    BY <1>7
  <2>3. proven[s] \/ (marker # NONE /\ marker.new = s)
    BY DEF Kept, Covered
  <2>4. Booted' /\ Up'
    BY <1>0, <1>7, <2>2, <2>3 DEF Booted, Up
  <2>5. loader = "efi" => s = pointer \/ (s = oneshot /\ oneshot # NONE)
    BY DEF Targets
  <2>6. EfiTargets'
    BY <1>0, <2>2, <2>5 DEF Kept, EfiTargets, Whole
  <2>7. EfiCommitted'
    <3>1. SUFFICES ASSUME loader = "efi", marker # NONE, pointer # marker.prev
                   PROVE  EfiCommitted'
      BY <1>0 DEF EfiCommitted
    <3>2. oneshot = NONE /\ FitsSlot(marker.bundle, marker.new)
      BY <3>1 DEF Kept, EfiCommitted
    <3>3. marker \in Marker /\ pointer \in Slots /\ marker.prev # marker.new
      BY <3>1 DEF IInv, TypeOK, Kept, Way
    <3>4. pointer = marker.new
      BY <3>1, <3>3, SlotPair DEF Marker
    <3>5. s = marker.new
      BY <2>5, <3>1, <3>2, <3>4
    <3> QED BY <1>0, <1>7, <2>2, <3>2, <3>5 DEF EfiCommitted, FitsSlot
  <2> QED BY <1>1, <1>3, <1>4, <1>5, <2>4, <2>6, <2>7 DEF Kept
<1> QED BY <1>6, <1>7 DEF Boot

\* A device without lapses is kept.
Recoverable == lapses = {} => Kept

\* A lapse is never forgotten.
LEMMA LapsesGrow == ASSUME [Next]_vars PROVE lapses \subseteq lapses'
<1>1. ASSUME NEW p \in Appliers, NEW r \in Runtimes, Request(p, r)
      PROVE  lapses \subseteq lapses'
  BY <1>1 DEF Request, history
<1>2. ASSUME NEW p \in Appliers, ApplyStep(p) PROVE lapses \subseteq lapses'
  BY <1>2 DEF ApplyStep, Decide, Detect, Mark, BeginWrite, EndWrite, Activate, ReadMark,
              SetRuntime, history
<1>3. ASSUME NEW p \in Appliers, ApplyFails(p) \/ ActivateFails(p)
      PROVE  lapses \subseteq lapses'
  BY <1>3 DEF ApplyFails, ActivateFails, history
<1>4. ASSUME NEW m \in Mergers, MergeStart(m) PROVE lapses \subseteq lapses'
  BY <1>4 DEF MergeStart, Examine
<1>5. ASSUME NEW m \in Mergers, MergeStep(m) PROVE lapses \subseteq lapses'
  BY <1>5 DEF MergeStep, Refresh, Examine, Commit, Promote, Rollback, Unmark, Clear, RebootBack,
              Rest, history
<1>6. CASE Reboot \/ Crash \/ Boot
  BY <1>6 DEF Reboot, Crash, PowerOff, Boot, history
<1>7. CASE UNCHANGED vars
  BY <1>7 DEF vars, history
<1> QED BY <1>1, <1>2, <1>3, <1>4, <1>5, <1>6, <1>7 DEF Next

\* Recoverable is preserved by every step.
LEMMA NextRecoverable ==
  ASSUME Serialised, IInv, Sole, Told, Written, Sound, Recoverable, [Next]_vars
  PROVE  Recoverable'
<1> SUFFICES ASSUME lapses' = {} PROVE Kept'
  BY DEF Recoverable
<1>0. Kept
  BY LapsesGrow DEF Recoverable
<1>1. ASSUME NEW p \in Appliers, NEW r \in Runtimes, Request(p, r) PROVE Kept'
  BY <1>0, <1>1, RequestKept
<1>2. ASSUME NEW p \in Appliers, ApplyStep(p) \/ ApplyFails(p) \/ ActivateFails(p) PROVE Kept'
  BY <1>0, <1>2, QuietKept, DetectKept, MarkKept, WriteKept, ActivateKept DEF ApplyStep
<1>3. ASSUME NEW m \in Mergers, MergeStart(m) \/ MergeStep(m) PROVE Kept'
  BY <1>0, <1>3, MergeStartKept, RefreshKept, CommitKept, PromoteKept, RollbackKept,
     UnmarkKept, ClearKept, RebootBackKept, RestKept DEF MergeStep
<1>4. CASE Reboot \/ Crash
  BY <1>0, <1>4, PowerOffKept DEF Reboot, Crash
<1>5. CASE Boot
  BY <1>0, <1>5, BootKept
<1>6. CASE UNCHANGED vars
  <2>1. UNCHANGED <<loader, slot, pointer, oneshot, running, phase, rebooting, proven,
                    marker, apl, mrg>>
    BY <1>6 DEF vars, medium, store, machine, history
  <2>2. Targets' = Targets /\ Undone' = Undone
    BY <2>1 DEF Targets, Newest, Undone
  <2>3. Booted' /\ Up' /\ Way' /\ Covered' /\ SomeProven'
    BY <1>0, <2>1, <2>2 DEF Kept, Booted, Up, Way, Covered, SomeProven
  <2>4. EfiTargets' /\ EfiCommitted'
    BY <1>0, <2>1 DEF Kept, EfiTargets, EfiCommitted, Whole, FitsSlot
  <2>5. \A p \in Appliers : AsideBy(p)'
    BY <1>0, <2>1 DEF Kept, AsideBy, Prepares
  <2>6. \A m \in Mergers : JudgedBy(m)'
    BY <1>0, <2>1, <2>2 DEF Kept, JudgedBy, FitsSlot
  <2> QED BY <2>3, <2>4, <2>5, <2>6 DEF Kept
<1> QED BY <1>1, <1>2, <1>3, <1>4, <1>5, <1>6 DEF Next

\* With the EFI variables or a sorting loader the other two lapses cannot
\* happen: no apply begins on the running slot, and an activation that fails
\* after its flip keeps its marker.
Spared == SdbootAb => lapses \subseteq Lost \cup Unlinked

\* Spared is preserved by every step.
LEMMA NextSpared ==
  ASSUME IInv, Told, Spared, [Next]_vars
  PROVE  Spared'
<1> USE DEF SdbootAb
<1>1. ASSUME NEW p \in Appliers, Detect(p) PROVE Spared'
  <2>1. running \in Running
    BY <1>1 DEF Detect, IInv, Awake, TypeOK
  <2>2. SdbootAb => Other(DetectedSlot) # running.slot
    BY <2>1, OtherSlot DEF DetectedSlot, Running
  <2>3. UNCHANGED loader
    BY <1>1 DEF Detect, machine
  <2>4. \/ lapses' = lapses
        \/ lapses' = lapses
                \cup (IF Other(DetectedSlot) \in Targets THEN {"rewroteTarget"} ELSE {})
                \cup (IF Other(DetectedSlot) = running.slot THEN {"rewroteRunning"} ELSE {})
    BY <1>1, Zenon DEF Detect
  <2> QED BY <2>2, <2>3, <2>4 DEF Spared, Lost
<1>2. ASSUME NEW p \in Appliers, ActivateFails(p) PROVE Spared'
  <2>1. marker # NONE
    <3>1. marker = [bundle |-> BundleOf[apl[p].runtime], prev |-> apl[p].prev,
                    new |-> apl[p].new, runtime |-> NONE]
      BY <1>2 DEF ActivateFails, Told, MarkedBy
    <3>2. marker \in Marker
      BY <1>2, <3>1, ConstantsAssumption DEF ActivateFails, IInv, Working, Marker
    <3> QED BY <3>2, ConstantsAssumption
  <2>2. loader' = loader /\ (lapses' = lapses \/ ~SdbootAb)
    BY <1>2, <2>1 DEF ActivateFails, machine
  <2> QED BY <2>2 DEF Spared
<1>3. ASSUME NEW m \in Mergers,
             MergeStart(m) \/ Refresh(m) \/ Rollback(m) \/ Unmark(m) \/ Clear(m)
      PROVE  Spared'
  BY <1>3 DEF MergeStart, Refresh, Rollback, Unmark, Clear, Examine, Spared, machine, Lost,
              Unlinked
<1>4. ASSUME UNCHANGED <<loader, lapses>> PROVE Spared'
  BY <1>4 DEF Spared
<1>5. ASSUME NEW p \in Appliers, NEW r \in Runtimes, Request(p, r) PROVE Spared'
  BY <1>4, <1>5 DEF Request, history, machine
<1>6. ASSUME NEW p \in Appliers, ApplyStep(p) PROVE Spared'
  BY <1>1, <1>4, <1>6 DEF ApplyStep, Decide, Mark, BeginWrite, EndWrite, Activate, ReadMark,
                          SetRuntime, history, machine
<1>7. ASSUME NEW p \in Appliers, ApplyFails(p) PROVE Spared'
  BY <1>4, <1>7 DEF ApplyFails, history, machine
<1>8. ASSUME NEW m \in Mergers, MergeStep(m) PROVE Spared'
  BY <1>3, <1>4, <1>8 DEF MergeStep, Commit, Promote, RebootBack, Rest, history, machine
<1>9. CASE Reboot \/ Crash \/ Boot
  BY <1>4, <1>9 DEF Reboot, Crash, PowerOff, Boot, history
<1>10. CASE UNCHANGED vars
  BY <1>4, <1>10 DEF vars, history, machine
<1> QED BY <1>2, <1>3, <1>5, <1>6, <1>7, <1>8, <1>9, <1>10 DEF Next

-----------------------------------------------------------------------------
(* The theorems of a device that serves one request at a time *)

\* The inductive invariant.
SerialInv == IInv /\ Sole /\ Told /\ Written /\ Sound /\ PointerWhole /\ Spared /\ Recoverable

\* A device fresh from the factory satisfies it.
LEMMA InitSerialInv == Init => SerialInv
<1> SUFFICES ASSUME Init PROVE SerialInv
  OBVIOUS
<1> USE DEF Init
<1>1. IInv
  BY InitIInv
<1>2. /\ \A p \in Appliers : apl[p] = IdleApplier
      /\ \A m \in Mergers : mrg[m] = IdleMerger
  OBVIOUS
<1>3. Sole /\ Told
  BY <1>2 DEF Sole, Told, Named, MarkedBy, ReadBy, IdleApplier, IdleMerger
<1>4. Written
  BY <1>2 DEF Written, WrittenBy, IdleApplier
<1>5. FactorySlot \in Slots /\ FactoryBundle \in Bundles /\ Blank \notin Bundles
  BY ConstantsAssumption
<1>6. slot[FactorySlot] = [boot |-> FactoryBundle, rootfs |-> FactoryBundle]
      /\ \A s \in Slots : s # FactorySlot => slot[s] = [boot |-> Blank, rootfs |-> Blank]
  BY <1>5
<1>7. Sound /\ Whole(FactorySlot)
  BY <1>5, <1>6 DEF Sound, Whole
<1>8. PointerWhole
  BY <1>2, <1>7 DEF PointerWhole, Prepares, IdleApplier
<1>9. Spared
  BY DEF Spared
<1>10. Booted /\ Up /\ Way /\ SomeProven
  BY <1>5 DEF Booted, Up, Way, SomeProven
<1>11. Targets \subseteq {FactorySlot}
  BY <1>5, <1>6 DEF Targets, Newest
<1>12. Covered
  BY <1>5, <1>11 DEF Covered
<1>13. EfiTargets /\ EfiCommitted
  BY <1>5, <1>7 DEF EfiTargets, EfiCommitted
<1>14. (\A p \in Appliers : AsideBy(p)) /\ (\A m \in Mergers : JudgedBy(m))
  BY <1>2 DEF AsideBy, JudgedBy, Prepares, IdleApplier, IdleMerger
<1> QED BY <1>1, <1>3, <1>4, <1>7, <1>8, <1>9, <1>10, <1>12, <1>13, <1>14
        DEF SerialInv, Recoverable, Kept

\* A device that serves one request or refresh at a time always satisfies it.
THEOREM SerialInvariance == ASSUME Serialised PROVE Spec => []SerialInv
<1>1. SerialInv /\ [Next]_vars => SerialInv'
  BY NextIInv, NextSole, NextTold, NextWritten, NextSound, NextPointer, NextSpared,
     NextRecoverable DEF SerialInv
<1> QED BY <1>1, InitSerialInv, PTL DEF Spec

\* As long as nothing unguarded has happened, every slot the next boot may take
\* is proven or is the one the marker names, whatever crashes and faults the
\* device meets: a boot of an unverified slot always finds the marker that
\* judges it.
THEOREM NextBootIsMarked == ASSUME Serialised PROVE Spec => []UnprovenTargetIsMarked
<1>1. SerialInv => UnprovenTargetIsMarked
  BY DEF SerialInv, Recoverable, Kept, Covered, UnprovenTargetIsMarked
<1> QED BY <1>1, SerialInvariance, PTL

\* With the EFI variables or a sorting loader, a marker has outlived the merge
\* that decided it, or a rollback has not been told of.
Stale == SdbootAb /\ lapses \cap Unlinked # {}

\* A sorting loader finds a boot image.
LEMMA SomeNewest == ASSUME IInv, Sound, SomeProven
                    PROVE  Newest # {}
<1>1. PICK s \in Slots : slot[s].boot \in Bundles
  BY DEF SomeProven, Sound
<1>2. Other(s) \in Slots /\ \A t \in Slots : t = s \/ t = Other(s)
  BY OtherSlot, SlotPair
<1>3. \A b, c \in Bundles : b <= b /\ (b <= c \/ c <= b)
  <2>1. Bundles \subseteq Nat
    BY ConstantsAssumption
  <2> QED BY <2>1
<1>4. CASE slot[Other(s)].boot \in Bundles => slot[Other(s)].boot <= slot[s].boot
  <2>1. s \in Newest
    BY <1>1, <1>2, <1>3, <1>4 DEF Newest
  <2> QED BY <2>1
<1>5. CASE slot[Other(s)].boot \in Bundles /\ ~(slot[Other(s)].boot <= slot[s].boot)
  <2>1. Other(s) \in Newest
    BY <1>1, <1>2, <1>3, <1>5 DEF Newest
  <2> QED BY <2>1
<1> QED BY <1>4, <1>5

\* However the power fails, and whatever actions fail, the next boot finds a
\* slot, and that slot is whole or boots an initrd that rolls it back. With a
\* sorting loader this needs the merge to run in the initrd and every bundle to
\* say how to verify; with that or the EFI variables, that no marker has
\* outlived its decision (there the runs alone show it).
THEOREM Recovers ==
  ASSUME Serialised, "sorting" \in Loaders => InInitrd /\ HasVerify = Bundles
  PROVE  Spec => [](~Stale => NextBootRecovers)
<1>1. SerialInv => (~Stale => NextBootRecovers)
  <2> SUFFICES ASSUME SerialInv, ~Stale, lapses \cap Lost = {}
               PROVE  /\ Targets # {}
                      /\ \A s \in Targets : \/ Whole(s)
                                            \/ /\ slot[s].boot \in Bundles /\ InInitrd
                                               /\ marker # NONE /\ marker.new = s
    BY DEF NextBootRecovers, Lost
  <2>1. CASE loader \in {"uboot", "tegra"}
    BY <2>1 DEF SerialInv, PointerWhole, Targets
  <2>2. SdbootAb => Kept
    BY DEF SerialInv, Spared, Recoverable, Stale, Unlinked
  <2>3. CASE loader = "efi"
    BY <2>2, <2>3 DEF SdbootAb, Kept, EfiTargets, Targets
  <2>4. CASE loader = "sorting"
    <3>1. Targets = Newest /\ Newest # {}
      BY <2>2, <2>4, SomeNewest DEF SdbootAb, Targets, SerialInv, Kept
    <3>2. InInitrd /\ HasVerify = Bundles
      BY <2>4 DEF SerialInv, IInv, TypeOK
    <3>3. ASSUME NEW s \in Targets
          PROVE  \/ Whole(s)
                 \/ slot[s].boot \in Bundles /\ InInitrd /\ marker # NONE /\ marker.new = s
      <4>1. s \in Slots /\ slot[s].boot \in Bundles
        BY <3>1 DEF Newest
      <4>2. proven[s] => Whole(s)
        BY <3>2, <4>1 DEF SerialInv, Sound, Whole
      <4> QED BY <2>2, <2>4, <3>2, <4>1, <4>2 DEF SdbootAb, Kept, Covered
    <3> QED BY <3>1, <3>3
  <2> QED BY <2>1, <2>3, <2>4, ConstantsAssumption DEF SerialInv, IInv, TypeOK, LoaderKinds
<1> QED BY <1>1, SerialInvariance, PTL

\* A step that changes the active runtime makes it one that the running rootfs
\* was built for, or whose bundle has no verify section.
THEOREM ActivationSafe == ASSUME Serialised PROVE Spec => ActivationMatchesOs
<1>1. SerialInv /\ [Next]_vars
        => [active' # active => \/ RunsRootfs(BundleOf[active'])
                                \/ BundleOf[active'] \notin HasVerify]_vars
  BY ActivationStep DEF SerialInv
<1> QED BY <1>1, SerialInvariance, PTL DEF Spec, ActivationMatchesOs
=============================================================================
