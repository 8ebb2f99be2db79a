----------------------------- MODULE RuntimeStore ----------------------------
(***************************************************************************)
(* The runtimes of one device and the pool of extension images they share: *)
(* update passes (update.rs), runtimes added from a local manifest,        *)
(* activated or removed (service/runtime.rs, staging.rs), promoted by a    *)
(* merge (commands/ext.rs) and collected (gc.rs).                          *)
(*                                                                         *)
(*   images    each file of images/: "absent", "torn" or "good"            *)
(*   fresh     the images no power failure has been survived with: nothing *)
(*             syncs them                                                  *)
(*   dirs      each directory of runtimes/: "none", "torn" when its        *)
(*             manifest cannot be read, "good"                             *)
(*   active    the runtime the `active` link names                         *)
(*   link      the runtime `.active.new` names, staged for a rename        *)
(*   pending   the runtime the pending-update marker names                 *)
(*   lock      the holder of .update.lock: update passes and collections   *)
(*   proc      the part of its request each thread is at: a thread that    *)
(*             has activated a runtime goes on to a refresh, and where     *)
(*             auto_gc is set to a collection, in either order             *)
(*   serial    the requests come one at a time                             *)
(*   kinds     the kinds of requests that come                             *)
(*                                                                         *)
(* What is done to the OS is left to OsUpdate: here an update pass or an   *)
(* activation finds by choice that the OS is as the runtime wants it or    *)
(* has to be changed, and a merge that it proved itself or did not. Every  *)
(* image carries a hash in its manifest.                                   *)
(*                                                                         *)
(* A history variable, restaged, tells that an update pass or an added     *)
(* manifest was staged over the active runtime, which no activation has    *)
(* made active anew since.                                                 *)
(***************************************************************************)
EXTENDS Naturals, FiniteSets

CONSTANTS
  Images,
  Runtimes,        \* numbered in build order, so a newer one is larger
  ImagesOf,        \* the images each runtime's manifest lists
  Factory,         \* the runtime the device is delivered with
  Retention,       \* runtimes a collection keeps
  Threads,         \* of the daemon
  Disciplines,     \* values of serial to consider
  Workloads,       \* values of kinds to consider
  LosesUnsynced,   \* a power failure can tear an image nothing synced
  MaxRequests, MaxCrashes, MaxFaults,
  NONE

Kinds == {"update", "add", "activate", "remove", "merge", "collect"}

ASSUME StoreAssumption ==
  /\ Runtimes \subseteq Nat /\ Factory \in Runtimes
  /\ ImagesOf \in [Runtimes -> SUBSET Images]
  /\ Retention \in Nat \ {0}
  /\ Disciplines \subseteq BOOLEAN /\ LosesUnsynced \in BOOLEAN
  /\ Workloads \subseteq SUBSET Kinds
  /\ {MaxRequests, MaxCrashes, MaxFaults} \subseteq Nat
  /\ NONE \notin Runtimes /\ NONE \notin Threads /\ NONE \notin Images

VARIABLES images, fresh, dirs, active, link, pending, up, lock, proc, serial,
          kinds, restaged, requests, crashes, faults

disk     == <<images, fresh, dirs, active, link, pending>>
counters == <<requests, crashes, faults>>
config   == <<serial, kinds>>
vars == <<disk, up, lock, proc, config, restaged, counters>>

Tasks == Kinds \cup {"fallback", "none"}

Pcs == {"idle", "next", "check", "install", "copy", "stage", "finish", "mark", "pend",
        "link", "symlink", "rename", "clear", "fallback", "remove", "list", "protect",
        "prune", "drop", "relist", "sweep"}

Proc == [task : Tasks, pc : Pcs, rt : Runtimes \cup {NONE}, image : Images \cup {NONE},
         known : SUBSET Images, todo : SUBSET Images, prune : SUBSET Runtimes,
         rest : SUBSET {"refresh", "collect"}]

Idle == [task |-> "none", pc |-> "idle", rt |-> NONE, image |-> NONE,
         known |-> {}, todo |-> {}, prune |-> {}, rest |-> {}]

-----------------------------------------------------------------------------
(* What the code reads off the disk *)

Readable == {r \in Runtimes : dirs[r] = "good"}

Pool == {i \in Images : images[i] # "absent"}

Referenced(rs) == UNION {ImagesOf[r] : r \in rs}

\* validate_manifest_images: present, and of the right hash.
Validated(r) == \A i \in ImagesOf[r] : images[i] = "good"

\* verify_with_spot_cache: an image that is not there is passed over.
SpotChecked(r) == \A i \in ImagesOf[r] : images[i] # "torn"

-----------------------------------------------------------------------------
(* Requests and their parts *)

Go(t, step) == proc' = [proc EXCEPT ![t].pc = step]

\* Thread t turns to another part of its request, with rest still to follow.
Turn(t, task, step, r, rest) ==
  proc' = [proc EXCEPT ![t] = [Idle EXCEPT !.task = task, !.pc = step, !.rt = r,
                                           !.rest = rest]]

Release(t) == lock' = IF lock = t THEN NONE ELSE lock

\* The request is over.
End(t) == proc' = [proc EXCEPT ![t] = Idle] /\ Release(t)

\* This part of it is over.
Leave(t, rest) ==
  /\ Turn(t, "none", IF rest = {} THEN "idle" ELSE "next", NONE, rest)
  /\ Release(t)

\* An error after the runtime was staged: an update pass removes its directory.
\* A merge only reports that it could not activate a runtime.
Fail(t) ==
  LET task == proc[t].task IN
  /\ CASE task = "merge"    -> Go(t, "clear") /\ UNCHANGED lock
       [] task = "fallback" -> Leave(t, proc[t].rest)
       [] OTHER             -> End(t)
  /\ dirs' = IF task = "update" THEN [dirs EXCEPT ![proc[t].rt] = "none"] ELSE dirs

Fault == faults < MaxFaults /\ faults' = faults + 1

\* The daemon takes up a request.
Accepts(t, kind) ==
  /\ up /\ proc[t].pc = "idle" /\ kind \in kinds
  /\ serial => \A q \in Threads : proc[q].pc = "idle"
  /\ requests < MaxRequests /\ requests' = requests + 1
  /\ UNCHANGED <<crashes, faults>>

TakeLock(t) == lock = NONE /\ lock' = t

-----------------------------------------------------------------------------
(* An update pass *)

\* perform_update, up to the listing of the images already on disk. A pass that
\* the metadata chain refuses changes nothing.
BeginUpdate(t, r) ==
  /\ Accepts(t, "update") /\ TakeLock(t)
  /\ proc' = [proc EXCEPT ![t] = [Idle EXCEPT !.task = "update", !.pc = "check",
                                              !.rt = r, !.known = Pool]]
  /\ UNCHANGED <<disk, up, config, restaged>>

\* The downloads, which may fail, and is_already_current: the runtime may be
\* current and the OS not.
Check(t) ==
  LET r == proc[t].rt IN
  /\ proc[t].pc = "check"
  /\ \/ /\ active = r /\ r \in Readable /\ Validated(r)
        /\ End(t)
        /\ UNCHANGED faults
     \/ Fault /\ End(t)
     \/ /\ proc' = [proc EXCEPT ![t].pc = "install", ![t].todo = ImagesOf[r]]
        /\ UNCHANGED <<lock, faults>>
  /\ UNCHANGED <<disk, up, config, restaged, requests, crashes>>

\* install_images_from_staging. What the listing had was not downloaded: it
\* must have the right hash. The others are copied, in place. A missing image is
\* reported once the rest is installed.
Install(t, i) ==
  LET missing == {j \in proc[t].known : images[j] = "absent"} IN
  /\ proc[t].pc = "install" /\ i \in proc[t].todo
  /\ \/ /\ images[i] = "good"
        /\ proc' = [proc EXCEPT ![t].todo = @ \ {i}]
        /\ UNCHANGED <<images, lock>>
     \/ /\ \/ images[i] = "torn"
           \/ proc[t].todo \subseteq missing
        /\ End(t)
        /\ UNCHANGED images
     \/ /\ images[i] = "absent" /\ i \notin missing
        /\ images' = [images EXCEPT ![i] = "torn"]
        /\ proc' = [proc EXCEPT ![t].pc = "copy", ![t].image = i]
        /\ UNCHANGED lock
  /\ UNCHANGED <<fresh, dirs, active, link, pending, up, config, restaged, counters>>

\* The copy is complete, or the medium is full and what was copied stays.
Copied(t) ==
  LET i == proc[t].image IN
  /\ proc[t].pc = "copy"
  /\ \/ /\ images' = [images EXCEPT ![i] = "good"]
        /\ fresh' = fresh \cup {i}
        /\ proc' = [proc EXCEPT ![t].pc = "install", ![t].image = NONE,
                                ![t].todo = @ \ {i}]
        /\ UNCHANGED <<lock, faults>>
     \/ /\ Fault
        /\ End(t)
        /\ UNCHANGED <<images, fresh>>
  /\ UNCHANGED <<dirs, active, link, pending, up, config, restaged, requests, crashes>>

\* stage_manifest writes the manifest in place, over the one that is there.
BeginStage(t) ==
  /\ proc[t].pc = "install" /\ proc[t].todo = {}
  /\ dirs' = [dirs EXCEPT ![proc[t].rt] = "torn"]
  /\ restaged' = (restaged \/ proc[t].rt = active)
  /\ Go(t, "stage")
  /\ UNCHANGED <<images, fresh, active, link, pending, up, lock, config, counters>>

Staged(t) == Go(t, IF proc[t].task = "update" THEN "finish" ELSE "link")

\* Mutant of EndStage: a failed write goes unnoticed.
EndStageBlind(t) ==
  /\ proc[t].pc = "stage"
  /\ \E d \in {"torn", "good"} : dirs' = [dirs EXCEPT ![proc[t].rt] = d]
  /\ Staged(t)
  /\ UNCHANGED <<images, fresh, active, link, pending, up, lock, config, restaged, counters>>

\* ... and may fail half way: that error removes nothing.
EndStage(t) ==
  /\ proc[t].pc = "stage"
  /\ \/ /\ dirs' = [dirs EXCEPT ![proc[t].rt] = "good"]
        /\ Staged(t)
        /\ UNCHANGED <<lock, faults>>
     \/ /\ Fault
        /\ End(t)
        /\ UNCHANGED dirs
  /\ UNCHANGED <<images, fresh, active, link, pending, up, config, restaged, requests, crashes>>

\* finish_update: activate at once, change the OS first, or fail at that.
Finish(t) ==
  /\ proc[t].pc = "finish"
  /\ \/ \E step \in {"link", "mark"} : Go(t, step) /\ UNCHANGED <<dirs, lock, faults>>
     \/ Fault /\ Fail(t)
  /\ UNCHANGED <<images, fresh, active, link, pending, up, config, restaged, requests, crashes>>

\* Applying an OS update writes a marker without a runtime ...
Mark(t) ==
  /\ proc[t].pc = "mark"
  /\ pending' = NONE
  /\ Go(t, "pend")
  /\ UNCHANGED <<images, fresh, dirs, active, link, up, lock, config, restaged, counters>>

\* ... and set_pending_runtime_id adds it. A reboot is to follow.
Pend(t) ==
  /\ proc[t].pc = "pend"
  /\ \/ pending' = proc[t].rt /\ End(t) /\ UNCHANGED <<dirs, faults>>
     \/ Fault /\ Fail(t) /\ UNCHANGED pending
  /\ UNCHANGED <<images, fresh, active, link, up, config, restaged, requests, crashes>>

-----------------------------------------------------------------------------
(* activate_runtime: unlink the staged link, make it anew, rename it *)

Link(t) ==
  /\ proc[t].pc = "link"
  /\ IF dirs[proc[t].rt] = "none"
       THEN Fail(t) /\ UNCHANGED link
       ELSE link' = NONE /\ Go(t, "symlink") /\ UNCHANGED <<dirs, lock>>
  /\ UNCHANGED <<images, fresh, active, pending, up, config, restaged, counters>>

Symlink(t) ==
  /\ proc[t].pc = "symlink"
  /\ IF link # NONE
       THEN Fail(t) /\ UNCHANGED link
       ELSE link' = proc[t].rt /\ Go(t, "rename") /\ UNCHANGED <<dirs, lock>>
  /\ UNCHANGED <<images, fresh, active, pending, up, config, restaged, counters>>

\* The rename moves whatever the staged link names by now.
Rename(t) ==
  LET task == proc[t].task IN
  /\ proc[t].pc = "rename"
  /\ IF link = NONE
       THEN Fail(t) /\ UNCHANGED <<active, link, restaged>>
       ELSE /\ active' = link /\ link' = NONE /\ restaged' = FALSE
            /\ \/ task = "merge" /\ Go(t, "clear") /\ UNCHANGED lock
               \/ task = "fallback" /\ Leave(t, proc[t].rest)
               \/ task \in {"update", "add", "activate"} /\ Leave(t, {"refresh"})
               \/ task \in {"update", "add"} /\ Leave(t, {"refresh", "collect"})
            /\ UNCHANGED dirs
  /\ UNCHANGED <<images, fresh, pending, up, config, counters>>

-----------------------------------------------------------------------------
(* Requests that take no lock *)

\* add_from_manifest: its images must be in the pool and good.
BeginAdd(t, r) ==
  /\ Accepts(t, "add") /\ Validated(r)
  /\ Turn(t, "add", "install", r, {})
  /\ UNCHANGED <<disk, up, lock, config, restaged>>

\* activate_runtime of the service: at once, or through another OS.
BeginActivate(t, r) ==
  /\ Accepts(t, "activate")
  /\ r \in Readable /\ r # active
  /\ \/ SpotChecked(r) /\ Turn(t, "activate", "link", r, {})
     \/ Turn(t, "activate", "mark", r, {})
  /\ UNCHANGED <<disk, up, lock, config, restaged>>

\* The active link is looked at before the directory goes.
BeginRemove(t, r) ==
  /\ Accepts(t, "remove")
  /\ r \in Readable /\ r # active
  /\ Turn(t, "remove", "remove", r, {})
  /\ UNCHANGED <<disk, up, lock, config, restaged>>

Remove(t) ==
  /\ proc[t].pc = "remove"
  /\ dirs' = [dirs EXCEPT ![proc[t].rt] = "none"]
  /\ End(t)
  /\ UNCHANGED <<images, fresh, active, link, pending, up, config, restaged, counters>>

-----------------------------------------------------------------------------
(* merge_extensions_internal, as far as it changes the store *)

\* The pending runtime is promoted if the OS proved itself and its manifest can
\* be read. Without a marker there is only the fallback.
StartMerge(t, rest) ==
  \/ pending \in Readable /\ Turn(t, "merge", "link", pending, rest)
  \/ Turn(t, "merge", "clear", NONE, rest)
  \/ pending = NONE /\ Turn(t, "merge", "fallback", NONE, rest)

BeginMerge(t) ==
  /\ Accepts(t, "merge")
  /\ StartMerge(t, {})
  /\ UNCHANGED <<disk, up, lock, config, restaged>>

\* The marker goes in any case. A merge that rolled back reboots at once.
Clear(t) ==
  /\ proc[t].pc = "clear"
  /\ pending' = NONE
  /\ \/ Go(t, "fallback") /\ UNCHANGED lock
     \/ Leave(t, proc[t].rest)
  /\ UNCHANGED <<images, fresh, dirs, active, link, up, config, restaged, counters>>

\* The active runtime may want another OS than the one that runs, and another
\* runtime may want this one.
Fallback(t) ==
  /\ proc[t].pc = "fallback"
  /\ \/ Leave(t, proc[t].rest)
     \/ /\ active \in Readable
        /\ \E r \in Readable \ {active} : Turn(t, "fallback", "link", r, proc[t].rest)
        /\ UNCHANGED lock
  /\ UNCHANGED <<disk, up, config, restaged, counters>>

\* The refresh after an activation: refused when the active runtime cannot be
\* read, and its unmerge may fail.
Refresh(t) ==
  LET rest == proc[t].rest \ {"refresh"} IN
  /\ proc[t].pc = "next" /\ "refresh" \in proc[t].rest
  /\ \/ active \in Readable /\ StartMerge(t, rest) /\ UNCHANGED <<lock, faults>>
     \/ active \notin Readable /\ Leave(t, rest) /\ UNCHANGED faults
     \/ Fault /\ Leave(t, rest)
  /\ UNCHANGED <<disk, up, config, restaged, requests, crashes>>

-----------------------------------------------------------------------------
(* collect_garbage *)

\* Mutant of BeginCollect: a collection without the lock.
BeginCollectUnlocked(t) ==
  /\ Accepts(t, "collect")
  /\ Turn(t, "collect", "list", NONE, {})
  /\ UNCHANGED <<disk, up, lock, config, restaged>>

BeginCollect(t) ==
  /\ Accepts(t, "collect") /\ TakeLock(t)
  /\ Turn(t, "collect", "list", NONE, {})
  /\ UNCHANGED <<disk, up, config, restaged>>

\* The collection after an activation: given up if the lock is taken.
AutoCollect(t) ==
  LET rest == proc[t].rest \ {"collect"} IN
  /\ proc[t].pc = "next" /\ "collect" \in proc[t].rest
  /\ IF lock = NONE THEN TakeLock(t) /\ Turn(t, "collect", "list", NONE, rest)
                    ELSE Leave(t, rest)
  /\ UNCHANGED <<disk, up, config, restaged, counters>>

\* The runtimes that survive: the active one and the newest others up to
\* Retention in all. The pending one is added later.
Newer(r, rs) == {q \in rs \ {active} : q > r}

\* Mutant of Kept: one too many.
KeptOneMore(rs) == {active} \cup
                   {r \in rs \ {active} : Cardinality(Newer(r, rs)) < Retention}

Kept(rs) == {active} \cup
            {r \in rs \ {active} : Cardinality(Newer(r, rs)) + 1 < Retention}

\* list_all_checked refuses an active runtime it cannot read.
List(t) ==
  /\ proc[t].pc = "list"
  /\ IF active \notin Readable
       THEN Leave(t, proc[t].rest)
       ELSE /\ IF Cardinality(Readable) <= Retention
                 THEN proc' = [proc EXCEPT ![t].pc = "sweep",
                                           ![t].known = Referenced(Readable)]
                 ELSE proc' = [proc EXCEPT ![t].pc = "protect",
                                           ![t].prune = Readable \ Kept(Readable)]
            /\ UNCHANGED lock
  /\ UNCHANGED <<disk, up, config, restaged, counters>>

\* Mutant of Protect: the marker is not looked at.
ProtectNothing(t) ==
  /\ proc[t].pc = "protect"
  /\ Go(t, "prune")
  /\ UNCHANGED <<disk, up, lock, config, restaged, counters>>

\* The marker is read after the list.
Protect(t) ==
  /\ proc[t].pc = "protect"
  /\ proc' = [proc EXCEPT ![t].pc = "prune", ![t].prune = @ \ {pending}]
  /\ UNCHANGED <<disk, up, lock, config, restaged, counters>>

\* remove_runtime looks at the active link again ...
Prune(t) ==
  /\ proc[t].pc = "prune"
  /\ \/ /\ proc[t].prune = {}
        /\ Go(t, "relist")
        /\ UNCHANGED lock
     \/ \E r \in proc[t].prune :
          /\ IF dirs[r] = "none" /\ r # active
               THEN Leave(t, proc[t].rest)
               ELSE /\ UNCHANGED lock
                    /\ proc' = [proc EXCEPT ![t].pc = IF r = active THEN "prune" ELSE "drop",
                                            ![t].rt = r, ![t].prune = @ \ {r}]
  /\ UNCHANGED <<disk, up, config, restaged, counters>>

\* ... and removes the directory.
Drop(t) ==
  /\ proc[t].pc = "drop"
  /\ dirs' = [dirs EXCEPT ![proc[t].rt] = "none"]
  /\ Go(t, "prune")
  /\ UNCHANGED <<images, fresh, active, link, pending, up, lock, config, restaged, counters>>

Relist(t) ==
  /\ proc[t].pc = "relist"
  /\ IF active \notin Readable
       THEN Leave(t, proc[t].rest)
       ELSE /\ proc' = [proc EXCEPT ![t].pc = "sweep", ![t].known = Referenced(Readable)]
            /\ UNCHANGED lock
  /\ UNCHANGED <<disk, up, config, restaged, counters>>

\* cleanup_orphaned_images, one file at a time, by the list made above.
Sweep(t) ==
  /\ proc[t].pc = "sweep"
  /\ IF Pool \subseteq proc[t].known
       THEN Leave(t, proc[t].rest) /\ UNCHANGED <<images, fresh>>
       ELSE \E i \in Pool \ proc[t].known :
              /\ images' = [images EXCEPT ![i] = "absent"]
              /\ fresh' = fresh \ {i}
              /\ UNCHANGED <<proc, lock>>
  /\ UNCHANGED <<dirs, active, link, pending, up, config, restaged, counters>>

-----------------------------------------------------------------------------
(* The machine *)

\* A power failure or a reboot ends every request and gives the lock back.
Crash ==
  /\ up /\ crashes < MaxCrashes /\ crashes' = crashes + 1
  /\ up' = FALSE
  /\ proc' = [t \in Threads |-> Idle] /\ lock' = NONE
  /\ \E lost \in SUBSET fresh :
       /\ lost # {} => LosesUnsynced
       /\ images' = [i \in Images |-> IF i \in lost THEN "torn" ELSE images[i]]
  /\ fresh' = {}
  /\ UNCHANGED <<dirs, active, link, pending, config, restaged, requests, faults>>

\* Mutant of Boot: what the marker names is promoted unread.
BootUnread ==
  /\ ~up /\ up' = TRUE
  /\ active' = pending /\ link' = NONE /\ restaged' = FALSE
  /\ pending' = NONE
  /\ UNCHANGED <<images, fresh, dirs, lock, proc, config, counters>>

\* The merge at boot, which has the device to itself: it may promote, and then
\* fall back.
Boot ==
  /\ ~up /\ up' = TRUE
  /\ \/ /\ {active, pending} \cap Readable # {}
        /\ active' \in Readable /\ (pending \in Readable \/ active' # active)
        /\ link' = NONE /\ restaged' = FALSE
     \/ UNCHANGED <<active, link, restaged>>
  /\ pending' = NONE
  /\ UNCHANGED <<images, fresh, dirs, lock, proc, config, counters>>

-----------------------------------------------------------------------------
Init ==
  /\ images = [i \in Images |-> IF i \in ImagesOf[Factory] THEN "good" ELSE "absent"]
  /\ fresh = {}
  /\ dirs = [r \in Runtimes |-> IF r = Factory THEN "good" ELSE "none"]
  /\ active = Factory /\ link = NONE /\ pending = NONE
  /\ up = TRUE /\ lock = NONE /\ proc = [t \in Threads |-> Idle]
  /\ serial \in Disciplines /\ kinds \in Workloads /\ restaged = FALSE
  /\ requests = 0 /\ crashes = 0 /\ faults = 0

Begin(t) ==
  \/ \E r \in Runtimes : \/ BeginUpdate(t, r) \/ BeginAdd(t, r)
                         \/ BeginActivate(t, r) \/ BeginRemove(t, r)
  \/ BeginMerge(t) \/ BeginCollect(t)

Step(t) ==
  \/ Check(t)
  \/ \E i \in Images : Install(t, i)
  \/ Copied(t)
  \/ BeginStage(t) \/ EndStage(t) \/ Finish(t) \/ Mark(t) \/ Pend(t)
  \/ Link(t) \/ Symlink(t) \/ Rename(t) \/ Remove(t)
  \/ Refresh(t) \/ Clear(t) \/ Fallback(t)
  \/ AutoCollect(t) \/ List(t) \/ Protect(t) \/ Prune(t) \/ Drop(t) \/ Relist(t)
  \/ Sweep(t)

Next == \/ \E t \in Threads : Begin(t) \/ Step(t)
        \/ Crash
        \/ Boot

Spec == Init /\ [][Next]_vars

-----------------------------------------------------------------------------
(* Properties *)

\* The types of the variables.
TypeOK ==
  /\ images \in [Images -> {"absent", "torn", "good"}] /\ fresh \subseteq Images
  /\ dirs \in [Runtimes -> {"none", "torn", "good"}]
  /\ active \in Runtimes /\ link \in Runtimes \cup {NONE}
  /\ pending \in Runtimes \cup {NONE}
  /\ up \in BOOLEAN /\ lock \in Threads \cup {NONE}
  /\ proc \in [Threads -> Proc]
  /\ serial \in BOOLEAN /\ kinds \subseteq Kinds /\ restaged \in BOOLEAN
  /\ requests \in Nat /\ crashes \in Nat /\ faults \in Nat

\* Every image of a runtime whose manifest can be read is in the pool and whole:
\* the lock keeps a collection off the images of an update pass that no manifest
\* names yet (gc.rs:22-27). A runtime added from a local manifest takes no lock,
\* so it needs the requests one at a time.
StagedIsComplete ==
  serial \/ "add" \notin kinds => \A r \in Readable : Validated(r)

\* With one request at a time, a crash anywhere included, the active link names
\* a runtime that can be merged, unless that runtime was staged over itself.
ActiveIsReadable == serial => (active \in Readable \/ restaged)

\* A collection that has reached the images left no more than Retention
\* runtimes, the pending one aside (gc.rs:17-20).
RetentionHolds ==
  \A t \in Threads :
    serial /\ proc[t].pc = "sweep" => Cardinality(Readable \ {pending}) <= Retention

\* A collection never removes the active runtime nor the pending one, as they
\* are when its directory goes (gc.rs:19-20).
KeepsProtected ==
  [][\A t \in Threads :
       serial /\ Drop(t) => proc[t].rt \notin {active, pending}]_vars

\* The active link never dangles: "the boot path merges no extensions without
\* it" (staging.rs:540-545).
ActiveResolves == serial => dirs[active] # "none"
=============================================================================
