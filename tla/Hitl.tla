--------------------------------- MODULE Hitl --------------------------------
(***************************************************************************)
(* The overlays of merged extensions and hardware-in-the-loop mounts:      *)
(* merge, unmerge and refresh (commands/ext.rs), mount, unmount and the    *)
(* watchdog that leaves a dead server (service/hitl.rs). What a merge does *)
(* about an OS update is in OsUpdate.                                      *)
(*                                                                         *)
(*   alive    the developer's NFS server answers                           *)
(*   dir      the extensions with a directory under the HITL root          *)
(*   nfs      those whose export is mounted on it                          *)
(*   rel      what is bound over the extension-release.d of a layer: "none"*)
(*            or its staged copy, of late "staged", "hollow" when copied   *)
(*            over itself, "orphan" when the staging tree has been removed *)
(*   staging  the staging tree exists                                      *)
(*   links    the layers linked into /run/extensions and /run/confexts     *)
(*   over     the layers of the sysext and of the confext overlay, none    *)
(*            when it is not merged                                        *)
(*   dropins  the extensions whose services are bound to the HITL mount    *)
(*   lost     the extensions whose sockets systemd dropped, at a reload    *)
(*            that found their unit files absent                           *)
(*   lock     the holder of hitl-fallback.lock                             *)
(*   proc     the callers, and under its own name the watchdog unit of     *)
(*            each extension                                               *)
(*                                                                         *)
(* A layer is an extension with where it comes from: its installed image,  *)
(* or its HITL directory, which takes the place of the image in a scan.    *)
(* Every extension is in the active manifest, with a sysext and a confext  *)
(* part and services of its own.                                           *)
(*                                                                         *)
(* A history variable, lapses, tells what the properties excuse:           *)
(*   "crossed"  a mount, a merge or an unmerge began while another process *)
(*              was at one: only unmounts and fallbacks take the lock      *)
(*   "asked"    a caller asked for the extensions to be unmerged           *)
(*   "broken"   a merge failed or left an image out, or a refresh failed   *)
(*              after its unmerge began                                    *)
(*   "stuck"    systemd failed to unmerge in an unmount or a fallback      *)
(*   "held"     an export could not be unmounted, not even lazily          *)
(*   "unread"   the release files of an extension could not be read off    *)
(*              its mount, the server being gone                           *)
(***************************************************************************)
EXTENDS Naturals, FiniteSets

CONSTANTS
  Exts,        \* the extensions of the active runtime
  Callers,     \* threads of the daemon that serve requests
  Requests,    \* the kinds of requests that come
  Failures,    \* WATCHDOG_FAILURES
  MaxRequests, MaxOutages, MaxFaults,
  NONE

Tasks == {"mount", "unmount", "refresh", "merge", "unmerge"}

ASSUME HitlAssumption ==
  /\ Exts \cap Callers = {} /\ NONE \notin Exts \cup Callers
  /\ Requests \subseteq Tasks
  /\ Failures \in Nat \ {0}
  /\ {MaxRequests, MaxOutages, MaxFaults} \subseteq Nat

VARIABLES alive, dir, nfs, rel, staging, links, over, dropins, lost, lock, proc,
          lapses, requests, outages, faults

mounts   == <<dir, nfs, rel, staging>>
merged   == <<links, over>>
units    == <<dropins, lost>>
counters == <<requests, outages, faults>>
vars == <<alive, mounts, merged, units, lock, proc, lapses, counters>>

Procs  == Callers \cup Exts
Layers == Exts \X {"hitl", "image"}
Kinds  == {"sysext", "confext"}
Lapses == {"crossed", "asked", "broken", "stuck", "held", "unread"}

Pcs == {"idle", "mkdir", "nfs", "watch", "undo", "reload",
        "probe", "lock", "stop", "sever",
        "unsys", "unconf", "unbind", "unstage", "unlink", "umount",
        "prepare", "link", "sys", "conf", "post"}

Proc == [task : Tasks \cup {"watch", "none"}, pc : Pcs, exts : SUBSET Exts,
         ext : Exts \cup {NONE}, svc : SUBSET Exts, plan : SUBSET Layers,
         fails : 0 .. Failures - 1]

Idle == [task |-> "none", pc |-> "idle", exts |-> {}, ext |-> NONE, svc |-> {},
         plan |-> {}, fails |-> 0]

\* A watchdog unit that has just been started.
Watching == [Idle EXCEPT !.task = "watch", !.pc = "probe"]

-----------------------------------------------------------------------------
Go(p, step) == proc' = [proc EXCEPT ![p].pc = step]

\* p returns; the guard of the lock is dropped.
End(p) ==
  /\ proc' = [proc EXCEPT ![p] = Idle]
  /\ lock' = IF lock = p THEN NONE ELSE lock

Fault == faults < MaxFaults /\ faults' = faults + 1

\* At a mount, a merge or an unmerge, or between the two.
Busy(p) == proc[p].pc \notin {"idle", "probe", "lock"}

Lapse(what) == lapses' = lapses \cup what

Crossing(p) == IF \E q \in Procs \ {p} : Busy(q) THEN {"crossed"} ELSE {}

Unwound(p) == proc[p].task \in {"unmount", "watch"}

\* What a daemon-reload costs.
Reloaded == lost \cup {e \in Exts : \A s \in {"hitl", "image"} : <<e, s>> \notin over["confext"]}

\* "After=" and "BindsTo=" the mount unit, for the services of e.
CreateDropins(e) == dropins' = dropins \cup {e}

CleanupDropins(es) == dropins' = dropins \ es

\* Nothing is bound over a mount that is gone.
Unbound(es) == [l \in Layers |-> IF l[1] \in es /\ l[2] = "hitl" THEN "none" ELSE rel[l]]

-----------------------------------------------------------------------------
(* Requests *)

Accepts(c, task) ==
  /\ proc[c].pc = "idle" /\ task \in Requests
  /\ requests < MaxRequests /\ requests' = requests + 1
  /\ UNCHANGED <<alive, mounts, merged, units, lock, outages, faults>>

\* mount goes through the extensions one by one.
RequestMount(c, es) ==
  /\ Accepts(c, "mount")
  /\ proc' = [proc EXCEPT ![c] = [Idle EXCEPT !.task = "mount", !.pc = "mkdir", !.exts = es]]
  /\ Lapse(Crossing(c))

RequestUnmount(c, es) ==
  /\ Accepts(c, "unmount")
  /\ proc' = [proc EXCEPT ![c] = [Idle EXCEPT !.task = "unmount", !.pc = "lock", !.exts = es]]
  /\ UNCHANGED lapses

RequestRefresh(c, task) ==
  /\ task \in {"refresh", "merge", "unmerge"} /\ Accepts(c, task)
  /\ proc' = [proc EXCEPT ![c] = [Idle EXCEPT !.task = task,
                                  !.pc = IF task = "merge" THEN "prepare" ELSE "unsys"]]
  /\ Lapse(Crossing(c) \cup (IF task = "unmerge" THEN {"asked"} ELSE {}))

Request(c) ==
  \/ \E es \in (SUBSET Exts) \ {{}} : RequestMount(c, es) \/ RequestUnmount(c, es)
  \/ \E task \in Requests : RequestRefresh(c, task)

-----------------------------------------------------------------------------
(* hitl mount *)

MakeDir(c, e) ==
  /\ proc[c].pc = "mkdir" /\ e \in proc[c].exts
  /\ dir' = dir \cup {e}
  /\ proc' = [proc EXCEPT ![c].pc = "nfs", ![c].ext = e]
  /\ UNCHANGED <<alive, nfs, rel, staging, merged, units, lock, lapses, counters>>

\* mount_one can succeed: a second mount on the same directory is refused.
Mountable(e) == alive /\ e \notin nfs

\* mount_one, then drop-ins for the services it finds on the mount. An export that
\* is missing or empty fails too. The error ends the whole request.
MountOne(c) ==
  LET e == proc[c].ext IN
  /\ proc[c].pc = "nfs"
  /\ \/ /\ Mountable(e)
        /\ nfs' = nfs \cup {e} /\ dir' = dir \cup {e}
        /\ CreateDropins(e)
        /\ Go(c, "watch")
        /\ UNCHANGED lock
     \/ /\ dir' = IF e \in nfs THEN dir ELSE dir \ {e}
        /\ End(c)
        /\ UNCHANGED <<nfs, dropins>>
  /\ UNCHANGED <<alive, rel, staging, merged, lost, lapses, counters>>

\* start_watchdog stops a unit of that name, whatever it is doing.
StartWatchdog(c) ==
  LET e == proc[c].ext
      rest == proc[c].exts \ {e}
  IN
  /\ proc[c].pc = "watch"
  /\ \/ /\ proc' = [proc EXCEPT ![e] = Watching, ![c].exts = rest, ![c].ext = NONE,
                                ![c].pc = IF rest = {} THEN "reload" ELSE "mkdir"]
        /\ UNCHANGED faults
     \/ /\ Fault
        /\ proc' = [proc EXCEPT ![e] = Idle, ![c].pc = "undo"]
  /\ lock' = IF lock = e THEN NONE ELSE lock
  /\ UNCHANGED <<alive, mounts, merged, units, lapses, requests, outages>>

\* The targets es come off the tree, but for those that cannot be unmounted.
TakeOff(es, what) ==
  \E kept \in SUBSET (es \cap nfs) :
    /\ nfs' = nfs \ (es \ kept)
    /\ rel' = Unbound(es)
    /\ \/ kept = {} /\ Lapse(what) /\ UNCHANGED faults
       \/ kept # {} /\ Lapse(what \cup {"held"}) /\ Fault

\* Mutant: the mount points are removed whether unmounted or not.
RemoveDirsAnyway(es) == dir' = dir \ es

\* Mutant: the mount points are left for the next scan to find.
RemoveDirsLater(es) == dir' = dir

\* The mount points of es, but for those that are still mounted.
RemoveDirs(es) == dir' = dir \ (es \ nfs')

\* Mutant: a mount whose watchdog does not start only loses its drop-ins.
UndoDropins(c) ==
  /\ proc[c].pc = "undo"
  /\ CleanupDropins({proc[c].ext})
  /\ End(c)
  /\ UNCHANGED <<alive, mounts, merged, lost, lapses, counters>>

\* No watchdog, no mount.
Undo(c) ==
  LET e == proc[c].ext IN
  /\ proc[c].pc = "undo"
  /\ \/ TakeOff({e}, {}) /\ CleanupDropins({e})
     \/ ~alive /\ TakeOff({e}, {"unread"}) /\ UNCHANGED dropins
  /\ RemoveDirs({e})
  /\ End(c)
  /\ UNCHANGED <<alive, staging, merged, lost, requests, outages>>

\* The reload before the refresh.
ReloadMounted(c) ==
  /\ proc[c].pc = "reload"
  /\ lost' = Reloaded
  /\ Go(c, "unsys")
  /\ Lapse(Crossing(c))
  /\ UNCHANGED <<alive, mounts, merged, dropins, lock, counters>>

-----------------------------------------------------------------------------
(* hitl unmount, and the watchdog *)

\* A round of the watchdog of e: is the export mounted, does the server answer?
\* At the last failure it takes everything that is mounted for its targets.
Probe(e) ==
  LET fails == proc[e].fails + 1 IN
  /\ proc[e].pc = "probe"
  /\ \/ /\ e \notin nfs
        /\ proc' = [proc EXCEPT ![e] = Idle]
     \/ /\ e \in nfs /\ alive /\ proc[e].fails # 0
        /\ proc' = [proc EXCEPT ![e].fails = 0]
     \/ /\ e \in nfs /\ ~alive
        /\ proc' = [proc EXCEPT ![e] = IF fails < Failures
                                       THEN [@ EXCEPT !.fails = fails]
                                       ELSE [@ EXCEPT !.fails = 0, !.pc = "lock", !.exts = nfs]]
  /\ UNCHANGED <<alive, mounts, merged, units, lock, lapses, counters>>

\* FallbackLock::acquire waits, or fails and goes on without. The watchdog finds
\* that another has swept its targets.
Acquire(p) ==
  /\ proc[p].pc = "lock"
  /\ \/ lock = NONE /\ UNCHANGED faults
     \/ lock # NONE /\ Fault
  /\ \/ /\ proc[p].task = "watch" /\ proc[p].exts \cap nfs = {}
        /\ proc' = [proc EXCEPT ![p] = Idle]
        /\ UNCHANGED <<lock, lapses>>
     \/ /\ proc[p].task = "watch" => proc[p].exts \cap nfs # {}
        /\ proc' = [proc EXCEPT ![p].pc = IF proc[p].task = "watch" THEN "sever" ELSE "stop"]
        /\ lock' = IF lock = NONE THEN p ELSE lock
        /\ Lapse(Crossing(p))
  /\ UNCHANGED <<alive, mounts, merged, units, requests, outages>>

\* An unmount stops the watchdogs, then reads which services got drop-ins.
StopWatchdogs(c) ==
  LET es == proc[c].exts
      there == es \cap nfs
  IN
  /\ proc[c].pc = "stop"
  /\ \E svc \in SUBSET there :
       /\ alive => svc = there
       /\ proc' = [q \in Procs |-> IF q \in es THEN Idle
                                   ELSE IF q = c THEN [proc[c] EXCEPT !.pc = "unsys", !.svc = svc]
                                   ELSE proc[q]]
       /\ Lapse(IF svc = there THEN {} ELSE {"unread"})
  /\ lock' = IF lock \in es THEN NONE ELSE lock
  /\ UNCHANGED <<alive, mounts, merged, units, counters>>

\* detach_sysext_overlays, by syscall: running a program would need /usr.
DetachOverlays == over' = [k \in Kinds |-> {}]

\* services_from_dropins.
WithDropins(es) == es \cap dropins

\* Mutant: a fallback stops its own watchdog, as an unmount does.
SeverStoppingItself(e) ==
  /\ proc[e].pc = "sever"
  /\ End(e)
  /\ UNCHANGED <<alive, mounts, merged, units, lapses, counters>>

\* Mutant: a fallback that takes all mounts looks for its own drop-ins only.
SeverOwn(e) ==
  /\ proc[e].pc = "sever"
  /\ TakeOff(proc[e].exts, {})
  /\ DetachOverlays
  /\ proc' = [proc EXCEPT ![e].pc = "unsys", ![e].svc = WithDropins({e})]
  /\ UNCHANGED <<alive, dir, staging, links, units, lock, requests, outages>>

\* A fallback detaches the dead mounts, then the overlays, before it runs anything.
Sever(e) ==
  /\ proc[e].pc = "sever"
  /\ TakeOff(proc[e].exts, {})
  /\ DetachOverlays
  /\ proc' = [proc EXCEPT ![e].pc = "unsys", ![e].svc = WithDropins(proc[e].exts)]
  /\ UNCHANGED <<alive, dir, staging, links, units, lock, requests, outages>>

\* unmount_one for each target, then cleanup_service_dropins.
Unmount(p) ==
  LET es == proc[p].exts IN
  /\ proc[p].pc = "umount"
  /\ TakeOff(es, {})
  /\ RemoveDirs(es)
  /\ CleanupDropins(proc[p].svc)
  /\ proc' = [proc EXCEPT ![p].pc = "prepare", ![p].exts = {}, ![p].svc = {}]
  /\ UNCHANGED <<alive, staging, merged, lost, lock, requests, outages>>

-----------------------------------------------------------------------------
(* Unmerge: unmerge_extensions_internal_with_options *)

\* Mutant: a failed unmerge ends an unmount too.
UnmergeFailsAtOnce(p, what) == Fault /\ End(p) /\ Lapse(what)

\* An unmount goes on when systemd fails to unmerge, anything else returns.
UnmergeFails(p, what) ==
  /\ Fault
  /\ \/ Unwound(p) /\ Go(p, "umount") /\ Lapse({"stuck"}) /\ UNCHANGED lock
     \/ ~Unwound(p) /\ End(p) /\ Lapse(what)

\* systemd-sysext unmerge, after the preflight of a refresh.
UnmergeSys(p) ==
  /\ proc[p].pc = "unsys"
  /\ \/ /\ over' = [over EXCEPT !["sysext"] = {}]
        /\ Go(p, "unconf")
        /\ UNCHANGED <<lock, lapses, faults>>
     \/ UnmergeFails(p, {}) /\ UNCHANGED over
  /\ UNCHANGED <<alive, mounts, links, units, requests, outages>>

UnmergeConf(p) ==
  /\ proc[p].pc = "unconf"
  /\ \/ /\ over' = [over EXCEPT !["confext"] = {}]
        /\ Go(p, "unbind")
        /\ UNCHANGED <<lock, lapses, faults>>
     \/ UnmergeFails(p, {"broken"}) /\ UNCHANGED over
  /\ UNCHANGED <<alive, mounts, links, units, requests, outages>>

\* cleanup_extension_release_staging does nothing when the tree is not there. A
\* bind that cannot be unmounted is only warned of.
Unbind(p) ==
  /\ proc[p].pc = "unbind"
  /\ \/ /\ ~staging
        /\ Go(p, "unlink")
        /\ UNCHANGED <<rel, faults>>
     \/ /\ staging
        /\ \/ rel' = [l \in Layers |-> "none"] /\ UNCHANGED faults
           \/ \E kept \in Layers : /\ rel[kept] # "none" /\ Fault
                                   /\ rel' = [l \in Layers |-> IF l = kept THEN rel[l] ELSE "none"]
        /\ Go(p, "unstage")
  /\ UNCHANGED <<alive, dir, nfs, staging, merged, units, lock, lapses, requests, outages>>

Unstage(p) ==
  /\ proc[p].pc = "unstage"
  /\ staging' = FALSE
  /\ rel' = [l \in Layers |-> IF rel[l] = "none" THEN "none" ELSE "orphan"]
  /\ Go(p, "unlink")
  /\ UNCHANGED <<alive, dir, nfs, merged, units, lock, lapses, counters>>

\* Mutant: units are reloaded as soon as the extensions are unmerged.
UnlinkReloading(p) ==
  /\ proc[p].pc = "unlink"
  /\ links' = {} /\ lost' = Reloaded
  /\ IF proc[p].task = "unmerge"
     THEN End(p)
     ELSE Go(p, IF Unwound(p) THEN "umount" ELSE "prepare") /\ UNCHANGED lock
  /\ UNCHANGED <<alive, mounts, over, dropins, lapses, counters>>

\* cleanup_extension_symlinks.
Unlink(p) ==
  /\ proc[p].pc = "unlink"
  /\ links' = {}
  /\ IF proc[p].task = "unmerge"
     THEN End(p)
     ELSE Go(p, IF Unwound(p) THEN "umount" ELSE "prepare") /\ UNCHANGED lock
  /\ UNCHANGED <<alive, mounts, over, units, lapses, counters>>

-----------------------------------------------------------------------------
(* Merge: merge_extensions_internal *)

MergeFails(p) == End(p) /\ Lapse({"broken"})

\* Any directory under the HITL root takes the place of the installed image.
Scan == {<<e, IF e \in dir THEN "hitl" ELSE "image">> : e \in Exts}

\* The manifest is refused; or the links are removed and the sources scanned, which
\* leaves out an image that cannot be mounted.
Prepare(p) ==
  /\ proc[p].pc = "prepare"
  /\ \/ /\ links' = {}
        /\ proc' = [proc EXCEPT ![p].pc = "link", ![p].plan = Scan]
        /\ UNCHANGED <<lock, lapses, faults>>
     \/ /\ Fault /\ Lapse({"broken"})
        /\ links' = {}
        /\ \E l \in Scan \cap (Exts \X {"image"}) :
             proc' = [proc EXCEPT ![p].pc = "link", ![p].plan = Scan \ {l}]
        /\ UNCHANGED lock
     \/ /\ Fault /\ MergeFails(p)
        /\ UNCHANGED links
  /\ UNCHANGED <<alive, mounts, over, units, requests, outages>>

\* A layer has a release directory: an empty HITL directory has none. That of a dead
\* server can be read or not, it may be in the cache.
Released(l)   == l[2] = "image" \/ l[1] \in nfs
Unanswered(l) == l[2] = "hitl" /\ l[1] \in nfs /\ ~alive

\* stage_extension_release: copy the release files to the staging tree, bind it
\* over them. Over an earlier bind the files are copied onto themselves, which
\* truncates them.
Stage(ls) ==
  /\ staging' = (staging \/ ls # {})
  /\ rel' = [l \in Layers |-> IF l \notin ls THEN rel[l]
                             ELSE IF rel[l] = "none" THEN "staged" ELSE "hollow"]

\* Stage and link the layers one by one, in any order, then remove links that are
\* not of this scan. Over an orphan there is nothing to bind to: the merge fails.
Link(p) ==
  LET plan == proc[p].plan IN
  /\ proc[p].pc = "link"
  /\ \E unread \in SUBSET {l \in plan : Unanswered(l)}, done \in SUBSET plan :
       LET stage  == {l \in plan \ unread : Released(l)}
           orphan == {l \in stage : rel[l] = "orphan"}
       IN
       /\ Stage(done \cap stage)
       /\ \/ /\ orphan = {} /\ done = plan
             /\ links' = plan
             /\ proc' = [proc EXCEPT ![p].pc = "sys", ![p].plan = {}]
             /\ Lapse(IF unread = {} THEN {} ELSE {"unread"})
             /\ UNCHANGED lock
          \/ /\ orphan # {} /\ done \cap orphan = {}
             /\ links' = links \cup done
             /\ MergeFails(p)
  /\ UNCHANGED <<alive, dir, nfs, over, units, counters>>

\* systemd merges the layers it knows by their release file, and leaves a
\* hierarchy that is merged as it is.
Merge(k) ==
  over' = [over EXCEPT ![k] = IF @ = {} THEN {l \in links : rel[l] = "staged"} ELSE @]

MergeSys(p) ==
  /\ proc[p].pc = "sys"
  /\ \/ Merge("sysext") /\ Go(p, "conf") /\ UNCHANGED <<lock, lapses, faults>>
     \/ Fault /\ MergeFails(p) /\ UNCHANGED over
  /\ UNCHANGED <<alive, mounts, links, units, requests, outages>>

MergeConf(p) ==
  /\ proc[p].pc = "conf"
  /\ \/ Merge("confext") /\ Go(p, "post") /\ UNCHANGED <<lock, lapses, faults>>
     \/ Fault /\ MergeFails(p) /\ UNCHANGED over
  /\ UNCHANGED <<alive, mounts, links, units, requests, outages>>

\* The reload of the post-merge tasks, and the one of an unmount after them.
PostMerge(p) ==
  /\ proc[p].pc = "post"
  /\ lost' = Reloaded
  /\ End(p)
  /\ UNCHANGED <<alive, mounts, merged, dropins, lapses, counters>>

-----------------------------------------------------------------------------
(* The developer's machine *)

Outage ==
  /\ alive /\ outages < MaxOutages
  /\ alive' = FALSE /\ outages' = outages + 1
  /\ UNCHANGED <<mounts, merged, units, lock, proc, lapses, requests, faults>>

Return ==
  /\ ~alive /\ alive' = TRUE
  /\ UNCHANGED <<mounts, merged, units, lock, proc, lapses, counters>>

-----------------------------------------------------------------------------
\* At boot the installed extensions have been merged, and /run forgets the rest.
Init ==
  LET installed == Exts \X {"image"} IN
  /\ alive = TRUE
  /\ dir = {} /\ nfs = {}
  /\ rel = [l \in Layers |-> IF l \in installed THEN "staged" ELSE "none"]
  /\ staging = TRUE
  /\ links = installed
  /\ over = [k \in Kinds |-> installed]
  /\ dropins = {} /\ lost = {}
  /\ lock = NONE
  /\ proc = [p \in Procs |-> Idle]
  /\ lapses = {}
  /\ requests = 0 /\ outages = 0 /\ faults = 0

Mounting(c) ==
  \/ \E e \in Exts : MakeDir(c, e)
  \/ MountOne(c) \/ StartWatchdog(c) \/ Undo(c) \/ ReloadMounted(c)

Unmerging(p) ==
  UnmergeSys(p) \/ UnmergeConf(p) \/ Unbind(p) \/ Unstage(p) \/ Unlink(p)

Merging(p) ==
  Prepare(p) \/ Link(p) \/ MergeSys(p) \/ MergeConf(p) \/ PostMerge(p)

Step(p) ==
  \/ p \in Callers /\ (Mounting(p) \/ StopWatchdogs(p))
  \/ p \in Exts /\ (Probe(p) \/ Sever(p))
  \/ Acquire(p) \/ Unmount(p) \/ Unmerging(p) \/ Merging(p)

Next ==
  \/ \E c \in Callers : Request(c)
  \/ \E p \in Procs : Step(p)
  \/ Outage \/ Return

Spec == Init /\ [][Next]_vars

\* Threads run, watchdogs wake up and the lock is handed on.
FairSpec == Spec /\ \A p \in Procs : WF_vars(Step(p))

-----------------------------------------------------------------------------
TypeOK ==
  /\ alive \in BOOLEAN /\ staging \in BOOLEAN
  /\ dir \subseteq Exts /\ nfs \subseteq dir
  /\ rel \in [Layers -> {"none", "staged", "hollow", "orphan"}]
  /\ links \subseteq Layers
  /\ over \in [Kinds -> SUBSET Layers]
  /\ dropins \subseteq Exts /\ lost \subseteq Exts
  /\ lock \in Procs \cup {NONE}
  /\ proc \in [Procs -> Proc]
  /\ lapses \subseteq Lapses
  /\ requests \in 0 .. MaxRequests /\ outages \in 0 .. MaxOutages /\ faults \in 0 .. MaxFaults

Quiet == \A p \in Procs : ~Busy(p)

\* A release file that a merge over an earlier bind truncated is still there.
Hollow == \E l \in Layers : rel[l] = "hollow"

Unmerged == \E k \in Kinds : over[k] = {}

\* Once nobody is at work both hierarchies are merged, whatever of an unmount or a
\* fallback failed before its merge. Excused are requests that cross, an unmerge that
\* was asked for, a merge that fails, a refresh that finds only mounts of a dead
\* server, whose watchdogs are there to leave it, and one case of the failed unmerge
\* itself: systemd failed to unmerge in an unmount or a fallback while a release file
\* was truncated, or so that the merge after it truncates them.
NeverUnmerged ==
  Quiet /\ Unmerged
    => \/ lapses \cap {"crossed", "asked", "broken"} # {}
       \/ "unread" \in lapses /\ nfs # {}
       \/ "stuck" \in lapses /\ Hollow

\* "The board is never left unmerged": what hitl.rs:21-24 and 510-513 promise of an
\* unmount and a fallback, though systemd fails to unmerge, while all else succeeds.
BoardStaysMerged ==
  Quiet /\ lapses \subseteq {"stuck"} => ~Unmerged

\* What is not mounted is served from its installed image, in both hierarchies, and
\* no layer of an overlay is a HITL directory with nothing mounted on it.
RestoredAtRest ==
  Quiet /\ lapses \cap {"crossed", "asked", "broken", "stuck"} = {}
    => \A k \in Kinds, e \in Exts \ nfs : <<e, "image">> \in over[k] /\ <<e, "hitl">> \notin over[k]

MergePcs == {"prepare", "link", "sys", "conf", "post"}

\* c has just mounted e, or is going to unmount it.
Handles(c, e) ==
  \/ proc[c].pc \in {"watch", "undo"} /\ proc[c].ext = e
  \/ proc[c].task = "unmount" /\ e \in proc[c].exts

\* "A mount with no watchdog is the exact hazard this feature prevents": each mount has
\* one that still looks after it, or a request that is about to start it or to unmount.
MountIsWatched ==
  "held" \notin lapses =>
    \A e \in nfs : \/ proc[e].task = "watch" /\ proc[e].pc \notin MergePcs
                   \/ \E c \in Callers : Handles(c, e)

\* No service stays bound to a mount that is gone.
DropinsFollowMount ==
  Quiet /\ lapses \cap {"crossed", "unread"} = {} => dropins \subseteq nfs

\* "No daemon-reload while unmerged".
SocketsKept ==
  lapses \cap {"crossed", "asked", "broken", "stuck", "unread"} = {} => lost = {}

\* A server that stays away is left in the end.
DeadServerIsLeft ==
  <>[]~alive => <>[](nfs = {} \/ "held" \in lapses)
=============================================================================
