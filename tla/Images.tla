------------------------------- MODULE Images -------------------------------
(***************************************************************************)
(* Image extensions on their mount points (image_adaptor.rs), driven by    *)
(* the scan of a merge and by the sweep of an unmerge (ext.rs). A .raw     *)
(* image is mounted through a loop device that systemd-dissect attaches    *)
(* and names by a udev link, by-loop-ref/<name>; the image in a .kab       *)
(* archive through one that losetup attaches at an offset, whose device is *)
(* written to the file kab-loops/<name>. Loop devices outlive their mounts *)
(* and are reused or replaced by what the next scan wants; every command   *)
(* may be refused, and the program may be killed between two.              *)
(*                                                                         *)
(*   mode     which scan runs: by the active manifest, of the release's    *)
(*            directory, or of the extensions directory                    *)
(*   want     the extensions' entries: the image file, verity or not       *)
(*   disk     what is in each image file: told apart by its length, or     *)
(*            nothing an extension could be mounted from (Torn)            *)
(*   loop     the loop devices: file, length when attached, name of the    *)
(*            link, whether the file was replaced since (gone), whether    *)
(*            it goes with its last mount (lazy)                           *)
(*   ref      the links by-loop-ref/<name>; udev removes them later        *)
(*   state    the files kab-loops/<name>                                   *)
(*   mnt      what is mounted on each mount point, the top last            *)
(*   job      the command that runs, and the step it is at                 *)
(*                                                                         *)
(* Histories: refused, the mount points whose last unmount was refused;    *)
(* left, the loop devices the kernel kept or that a kill or a full disk    *)
(* left without a record; lost, the mounted extensions whose state file    *)
(* was truncated, or already names the device of a mount a kill prevented. *)
(***************************************************************************)
EXTENDS Naturals, Sequences

CONSTANTS
  Raw, Kab,        \* the mount names <name>-<version>, by the form of the image
  Files,           \* the image files of each
  Lengths, Torn,
  HashTrees,       \* the image files with a verity hash tree beside them
  Loops,           \* the loop devices
  NONE, Empty,     \* no value; a state file that was truncated and not written
  MaxChanges, MaxRewrites, MaxFaults

VARIABLES mode, want, disk, loop, ref, state, mnt, job, refused, left, lost, changes, rewrites,
          faults

wanted == <<mode, want, disk>>
kernel == <<loop, ref, mnt>>
past   == <<refused, left, lost>>
counts == <<changes, rewrites>>
vars   == <<wanted, kernel, state, job, past, counts, faults>>

Names == Raw \cup Kab
Modes == {"manifest", "release", "directory"}
Paths == UNION {Files[e] : e \in Names}

\* What a scan wants of an extension, and what it knows of a loop device.
Entries == [path : Paths, verity : BOOLEAN]
LoopStates == [path : Paths, len : Lengths, gone : BOOLEAN, lazy : BOOLEAN,
               ref : Raw \cup {NONE}]

ASSUME ImagesAssumption ==
  /\ Raw \cap Kab = {} /\ \A e \in Names : Files[e] # {}
  /\ Lengths # {} /\ Torn \notin Lengths /\ NONE \notin Lengths
  /\ NONE \notin Names /\ NONE \notin Entries /\ NONE \notin LoopStates
  /\ NONE \notin Loops /\ Empty \notin Loops /\ Empty # NONE

Idle == [cmd |-> "none", drop |-> {}, plan |-> <<>>, cur |-> NONE, step |-> "next",
         why |-> "none", entry |-> NONE, dev |-> NONE, ok |-> TRUE,
         faulted |-> FALSE, moved |-> FALSE]

At(step) == job.step = step
Go(step) == job' = [job EXCEPT !.step = step]
Fault    == faults < MaxFaults /\ faults' = faults + 1
NoFault  == faults' = faults
\* The task in hand ends.
Ends(ok)       == job' = [job EXCEPT !.step = "end", !.ok = ok]
EndsByFault    == job' = [job EXCEPT !.step = "end", !.ok = FALSE, !.faulted = TRUE]

-----------------------------------------------------------------------------
(* What the program can see *)

Attached(n) == n \in Loops /\ loop[n] # NONE
Active(e)   == mnt[e] # <<>>
Top(e)      == mnt[e][Len(mnt[e])]
Used(m, n)  == \E e \in Names : \E k \in DOMAIN m[e] : m[e][k].dev = n

\* live_loop_device: the link may outlive the device.
LiveRef(e) == Attached(ref[e])

\* The device an adaptor takes for its extension's.
Device(e) == IF e \in Raw THEN ref[e] ELSE state[e]

IsMounted(e) == Device(e) # NONE /\ Active(e)

\* check_backing_file_changed: what cannot be read counts as unchanged, and so
\* does the length of a .kab whose footer cannot.
BackingChanged(e, path) ==
  /\ Attached(Device(e))
  /\ LET l == loop[Device(e)]
     IN  \/ l.path # path \/ l.gone
         \/ l.len # disk[path] /\ ~(e \in Kab /\ disk[path] = Torn)

VerityChanged(e, entry) == Active(e) /\ Top(e).verity # entry.verity

\* plan_mount
Plan(present, changed) ==
  CASE ~present -> "fresh" [] present /\ ~changed -> "reuse" [] OTHER -> "replace"

\* Mutant: the link decides whether a loop is attached.
PlanByLink(e, path) == Plan(ref[e] # NONE, BackingChanged(e, path))

RawPlan(e, path) == Plan(LiveRef(e), LiveRef(e) /\ BackingChanged(e, path))

\* What an extension could be mounted from.
Sealed(entry) == entry.verity => entry.path \in HashTrees
Usable(entry) == disk[entry.path] \in Lengths /\ Sealed(entry)

-----------------------------------------------------------------------------
(* The commands' effects on the kernel *)

\* The kernel hands out any device that is free.
Free == {n \in Loops : loop[n] = NONE}

\* A device attached to a file; udev has dropped what pointed at it before.
Attach(e, n, path) ==
  /\ loop' = [loop EXCEPT ![n] = [path |-> path, len |-> disk[path], gone |-> FALSE,
                                  lazy |-> FALSE, ref |-> IF e \in Raw THEN e ELSE NONE]]
  /\ ref' = [x \in Names |-> IF x = e /\ e \in Raw THEN n
                             ELSE IF ref[x] = n THEN NONE ELSE ref[x]]

MountOn(e, n, verity) ==
  mnt' = [mnt EXCEPT ![e] = Append(@, [dev |-> n, verity |-> verity])]

\* losetup -d: a device in use goes with its last mount.
Released(n) == IF Used(mnt, n) THEN [loop EXCEPT ![n].lazy = TRUE] ELSE [loop EXCEPT ![n] = NONE]

\* systemd-dissect -U: everything on the mount point goes.
Unmounted(e) ==
  LET m == [mnt EXCEPT ![e] = <<>>]
  IN  /\ mnt' = m
      /\ loop' = [n \in Loops |-> IF Attached(n) /\ loop[n].lazy /\ Used(mnt, n) /\ ~Used(m, n)
                                  THEN NONE ELSE loop[n]]

-----------------------------------------------------------------------------
(* Commands and their tasks *)

\* The extensions a scan of this kind sees, and their entries in it.
Entry(e) == IF mode = "manifest" THEN want[e] ELSE [want[e] EXCEPT !.verity = FALSE]
Found == {e \in IF mode = "manifest" THEN Names ELSE Raw :
            want[e] # NONE /\ disk[want[e].path] # NONE}

Recorded == {e \in Raw : ref[e] # NONE} \cup {e \in Kab : state[e] # NONE}

\* scan_extensions_from_all_sources; only the last kind cleans up stale mounts.
Scan ==
  /\ job = Idle
  /\ job' = [Idle EXCEPT !.cmd = "scan", !.plan = [e \in Found |-> Entry(e)],
                         !.drop = IF mode = "directory" THEN Recorded \ Found ELSE {}]
  /\ UNCHANGED <<wanted, kernel, state, past, counts, faults>>

\* unmount_all_persistent_mounts
Sweep ==
  /\ job = Idle
  /\ job' = [Idle EXCEPT !.cmd = "sweep", !.drop = Recorded]
  /\ UNCHANGED <<wanted, kernel, state, past, counts, faults>>

Drop(e) ==
  /\ At("next") /\ e \in job.drop
  /\ job' = [job EXCEPT !.step = "umount", !.why = "drop", !.cur = e, !.drop = @ \ {e},
                        !.faulted = FALSE, !.moved = FALSE]
  /\ UNCHANGED <<wanted, kernel, state, past, counts, faults>>

\* analyze_image_extension
Look(e) ==
  /\ At("next") /\ job.drop = {} /\ e \in DOMAIN job.plan
  /\ LET entry == job.plan[e]
     IN  job' = [job EXCEPT
           !.plan = [x \in DOMAIN @ \ {e} |-> @[x]],
           !.cur = e, !.entry = entry, !.faulted = FALSE, !.moved = FALSE, !.ok = TRUE,
           !.why = "clear",
           !.step = IF ~IsMounted(e) THEN "mount"
                    ELSE IF BackingChanged(e, entry.path) \/ VerityChanged(e, entry)
                    THEN "umount" ELSE "end"]
  /\ UNCHANGED <<wanted, kernel, state, past, counts, faults>>

\* A stale mount or one of a sweep that fails is reported and passed over, and
\* so is an extension; but not by the scan of the extensions directory.
Stops == job.why # "drop" /\ ~job.ok /\ mode = "directory"

\* Mutant: a failure ends the sweep.
TaskEndsAtFailure ==
  /\ At("end")
  /\ job' = IF Stops \/ ~job.ok
            THEN [Idle EXCEPT !.cmd = job.cmd, !.step = "done"]
            ELSE [job EXCEPT !.step = "next", !.cur = NONE, !.entry = NONE, !.dev = NONE,
                             !.why = "none", !.ok = TRUE]
  /\ UNCHANGED <<wanted, kernel, state, past, counts, faults>>

TaskEnds ==
  /\ At("end")
  /\ job' = IF Stops THEN [Idle EXCEPT !.cmd = job.cmd, !.step = "done"]
            ELSE [job EXCEPT !.step = "next", !.cur = NONE, !.entry = NONE, !.dev = NONE,
                             !.why = "none", !.ok = TRUE]
  /\ UNCHANGED <<wanted, kernel, state, past, counts, faults>>

CommandEnds ==
  /\ At("next") /\ job.cmd # "none" /\ job.drop = {} /\ DOMAIN job.plan = {}
  /\ job' = [Idle EXCEPT !.cmd = job.cmd, !.step = "done"]
  /\ UNCHANGED <<wanted, kernel, state, past, counts, faults>>

Return ==
  /\ At("done") /\ job' = Idle
  /\ UNCHANGED <<wanted, kernel, state, past, counts, faults>>

-----------------------------------------------------------------------------
(* Unmounting: systemd-dissect -U if mounted, then losetup -d *)

\* Where an unmount goes on: the mount it makes room for, or the task's end.
AfterUnmount(ok, faulted) ==
  job' = [job EXCEPT !.step = CASE job.why = "drop"    -> "end"
                                [] job.why = "clear"   -> "mount"
                                [] job.why = "replace" -> "attach",
                     !.ok = ok \/ job.why # "drop", !.faulted = @ \/ faulted]

Umount(e) ==
  /\ At("umount") /\ job.cur = e
  /\ IF Active(e) THEN Unmounted(e) ELSE UNCHANGED <<loop, mnt>>
  /\ refused' = refused \ {e} /\ lost' = lost \ {e}
  /\ Go("detach")
  /\ UNCHANGED <<wanted, ref, state, left, counts, faults>>

UmountFails(e) ==
  /\ At("umount") /\ job.cur = e /\ Active(e) /\ Fault
  /\ refused' = refused \cup {e}
  /\ left' = left \cup {mnt[e][k].dev : k \in DOMAIN mnt[e]}
  /\ AfterUnmount(FALSE, TRUE)
  /\ UNCHANGED <<wanted, kernel, state, lost, counts>>

\* There is nothing to detach; for a .raw also when the link is dangling.
NothingToDetach(e) ==
  /\ At("detach") /\ job.cur = e
  /\ IF e \in Raw THEN ~LiveRef(e) ELSE state[e] = NONE
  /\ AfterUnmount(TRUE, FALSE)
  /\ UNCHANGED <<wanted, kernel, state, past, counts, faults>>

Detach(e) ==
  /\ At("detach") /\ job.cur = e /\ Attached(Device(e))
  /\ loop' = Released(Device(e))
  /\ left' = left \ {n \in Loops : loop'[n] = NONE}
  /\ state' = IF e \in Kab THEN [state EXCEPT ![e] = NONE] ELSE state
  /\ AfterUnmount(TRUE, FALSE)
  /\ UNCHANGED <<wanted, ref, mnt, refused, lost, counts, faults>>

\* The kernel keeps the device, and says so or not.
DetachKept(e) ==
  /\ At("detach") /\ job.cur = e /\ Attached(Device(e)) /\ Fault
  /\ left' = left \cup {Device(e)}
  /\ \E told \in BOOLEAN :
       /\ AfterUnmount(~told, TRUE)
       /\ state' = IF e \in Kab /\ ~told THEN [state EXCEPT ![e] = NONE] ELSE state
  /\ UNCHANGED <<wanted, kernel, refused, lost, counts>>

\* A state file that names no attached device stays.
DetachesNothing(e) ==
  /\ At("detach") /\ job.cur = e /\ e \in Kab /\ state[e] # NONE /\ ~Attached(state[e])
  /\ AfterUnmount(FALSE, FALSE)
  /\ UNCHANGED <<wanted, kernel, state, past, counts, faults>>

-----------------------------------------------------------------------------
(* Mounting a .raw image *)

MountRaw(e) ==
  /\ At("mount") /\ job.cur = e /\ e \in Raw
  /\ job' = CASE RawPlan(e, job.entry.path) = "fresh"   -> [job EXCEPT !.step = "attach"]
              [] RawPlan(e, job.entry.path) = "reuse"   -> [job EXCEPT !.step = "reuse"]
              [] RawPlan(e, job.entry.path) = "replace" -> [job EXCEPT !.step = "umount",
                                                                       !.why = "replace"]
  /\ UNCHANGED <<wanted, kernel, state, past, counts, faults>>

\* mount_with_dissect of the file, with --loop-ref
DissectFile(e) ==
  /\ At("attach") /\ job.cur = e /\ Usable(job.entry)
  /\ \E n \in Free : Attach(e, n, job.entry.path) /\ MountOn(e, n, job.entry.verity)
  /\ Ends(TRUE)
  /\ UNCHANGED <<wanted, state, past, counts, faults>>

\* mount_with_dissect of the device the link leads to
DissectLoop(e) ==
  /\ At("reuse") /\ job.cur = e /\ LiveRef(e) /\ Sealed(job.entry)
  /\ MountOn(e, ref[e], job.entry.verity)
  /\ Ends(TRUE)
  /\ UNCHANGED <<wanted, loop, ref, state, past, counts, faults>>

DissectFails(e) ==
  /\ job.cur = e
  /\ \/ At("attach") /\ ~Usable(job.entry) /\ Ends(FALSE) /\ NoFault
     \/ At("reuse") /\ ~(LiveRef(e) /\ Sealed(job.entry)) /\ Ends(FALSE) /\ NoFault
     \/ job.step \in {"attach", "reuse"} /\ EndsByFault /\ Fault
  /\ UNCHANGED <<wanted, kernel, state, past, counts>>

-----------------------------------------------------------------------------
(* Mounting the image in a .kab archive *)

\* Mutant: without the detach of the device in the state file.
MountKabOver(e) ==
  /\ At("mount") /\ job.cur = e /\ e \in Kab
  /\ IF disk[job.entry.path] \notin Lengths THEN Ends(FALSE) ELSE Go("setup")
  /\ UNCHANGED <<wanted, kernel, state, past, counts, faults>>

\* find_image_entry, then the device an earlier unmount could not detach
MountKab(e) ==
  /\ At("mount") /\ job.cur = e /\ e \in Kab
  /\ IF disk[job.entry.path] \notin Lengths
     THEN Ends(FALSE) /\ UNCHANGED <<loop, left>>
     ELSE /\ Go("setup")
          /\ loop' = IF Attached(state[e]) THEN Released(state[e]) ELSE loop
          /\ left' = left \ {n \in Loops : loop'[n] = NONE}
  /\ UNCHANGED <<wanted, ref, mnt, state, refused, lost, counts, faults>>

\* ... which the kernel keeps once more
MountKabBeside(e) ==
  /\ At("mount") /\ job.cur = e /\ e \in Kab /\ disk[job.entry.path] \in Lengths
  /\ Attached(state[e]) /\ Fault
  /\ left' = left \cup {state[e]}
  /\ job' = [job EXCEPT !.step = "setup", !.faulted = TRUE]
  /\ UNCHANGED <<wanted, kernel, state, refused, lost, counts>>

\* Mutant: a torn archive passes for one with an image in it.
SetupUnread(e) ==
  /\ At("setup") /\ job.cur = e /\ disk[job.entry.path] # NONE
  /\ \E n \in Free : /\ Attach(e, n, job.entry.path)
                     /\ job' = [job EXCEPT !.step = "save", !.dev = n]
  /\ UNCHANGED <<wanted, mnt, state, past, counts, faults>>

\* setup_offset_loop. An archive that changed since its footer was read is
\* taken to expose what it holds now.
Setup(e) ==
  /\ At("setup") /\ job.cur = e /\ disk[job.entry.path] \in Lengths
  /\ \E n \in Free : /\ Attach(e, n, job.entry.path)
                     /\ job' = [job EXCEPT !.step = "save", !.dev = n]
  /\ UNCHANGED <<wanted, mnt, state, past, counts, faults>>

SetupFails(e) ==
  /\ At("setup") /\ job.cur = e
  /\ \/ disk[job.entry.path] \notin Lengths /\ Ends(FALSE) /\ NoFault
     \/ EndsByFault /\ Fault
  /\ UNCHANGED <<wanted, kernel, state, past, counts>>

\* save_loop_state
Save(e) ==
  /\ At("save") /\ job.cur = e
  /\ state' = [state EXCEPT ![e] = job.dev]
  /\ Go("dissect")
  /\ UNCHANGED <<wanted, kernel, past, counts, faults>>

SaveFails(e) ==
  /\ At("save") /\ job.cur = e /\ Fault
  /\ \/ state' = state /\ lost' = lost
     \/ state' = [state EXCEPT ![e] = Empty] /\ lost' = IF Active(e) THEN lost \cup {e} ELSE lost
  /\ left' = left \cup {job.dev}
  /\ EndsByFault
  /\ UNCHANGED <<wanted, kernel, refused, counts>>

\* mount_with_dissect of the device
DissectKab(e) ==
  /\ At("dissect") /\ job.cur = e /\ Sealed(job.entry)
  /\ MountOn(e, job.dev, job.entry.verity)
  /\ lost' = lost \ {e}
  /\ Ends(TRUE)
  /\ UNCHANGED <<wanted, loop, ref, state, refused, left, counts, faults>>

DissectKabFails(e) ==
  /\ At("dissect") /\ job.cur = e
  /\ \/ ~Sealed(job.entry) /\ Ends(FALSE) /\ NoFault
     \/ EndsByFault /\ Fault
  /\ loop' = Released(job.dev)
  /\ state' = [state EXCEPT ![e] = NONE]
  /\ UNCHANGED <<wanted, ref, mnt, past, counts>>

Task(e) ==
  \/ Drop(e) \/ Look(e) \/ Umount(e) \/ UmountFails(e) \/ NothingToDetach(e) \/ Detach(e)
  \/ DetachKept(e) \/ DetachesNothing(e) \/ MountRaw(e) \/ DissectFile(e) \/ DissectLoop(e)
  \/ DissectFails(e) \/ MountKab(e) \/ MountKabBeside(e) \/ Setup(e) \/ SetupFails(e)
  \/ Save(e) \/ SaveFails(e) \/ DissectKab(e) \/ DissectKabFails(e)

-----------------------------------------------------------------------------
(* Around the program *)

Change == changes < MaxChanges /\ changes' = changes + 1

\* An activation changes an entry, or what kind of scan is made.
Activate(e) ==
  /\ Change
  /\ \E entry \in {NONE} \cup [path : Files[e], verity : BOOLEAN] :
       entry # want[e] /\ want' = [want EXCEPT ![e] = entry]
  /\ UNCHANGED <<mode, disk, kernel, state, job, past, rewrites, faults>>

Turn ==
  /\ Change /\ job = Idle
  /\ \E m \in Modes \ {mode} : mode' = m
  /\ UNCHANGED <<want, disk, kernel, state, job, past, rewrites, faults>>

\* A file is rewritten in place, replaced by another, or removed.
Rewrite(path) ==
  /\ rewrites < MaxRewrites /\ rewrites' = rewrites + 1
  /\ \E content \in Lengths \cup {Torn, NONE}, inPlace \in BOOLEAN :
       /\ content # disk[path]
       /\ inPlace => disk[path] # NONE /\ content # NONE
       /\ disk' = [disk EXCEPT ![path] = content]
       /\ loop' = [n \in Loops |-> IF Attached(n) /\ loop[n].path = path /\ ~inPlace
                                   THEN [loop[n] EXCEPT !.gone = TRUE] ELSE loop[n]]
  /\ job' = [job EXCEPT !.moved = @ \/ (job.entry # NONE /\ job.entry.path = path)]
  /\ UNCHANGED <<mode, want, ref, mnt, state, past, changes, faults>>

\* udev gets to the event of a device that was detached.
Udev(e) ==
  /\ ref[e] # NONE /\ ~(Attached(ref[e]) /\ loop[ref[e]].ref = e)
  /\ LET others == {n \in Loops : Attached(n) /\ loop[n].ref = e}
     IN  \E n \in IF others = {} THEN {NONE} ELSE others : ref' = [ref EXCEPT ![e] = n]
  /\ UNCHANGED <<wanted, loop, mnt, state, job, past, counts, faults>>

Kill ==
  /\ job # Idle /\ Fault
  /\ left' = IF At("save") THEN left \cup {job.dev} ELSE left
  /\ lost' = IF At("dissect") /\ Active(job.cur) THEN lost \cup {job.cur} ELSE lost
  /\ job' = Idle
  /\ UNCHANGED <<wanted, kernel, state, refused, counts>>

-----------------------------------------------------------------------------

Init ==
  /\ mode \in {"manifest", "directory"}
  /\ want = [e \in Names |-> [path |-> CHOOSE p \in Files[e] : TRUE, verity |-> FALSE]]
  /\ disk = [p \in Paths |-> CHOOSE n \in Lengths : TRUE]
  /\ loop = [n \in Loops |-> NONE]
  /\ ref = [e \in Names |-> NONE] /\ state = [e \in Names |-> NONE]
  /\ mnt = [e \in Names |-> <<>>]
  /\ job = Idle /\ refused = {} /\ left = {} /\ lost = {} /\ changes = 0 /\ rewrites = 0 /\ faults = 0

Next ==
  \/ Scan \/ Sweep \/ TaskEnds \/ CommandEnds \/ Return \/ Turn \/ Kill
  \/ \E e \in Names : Task(e) \/ Activate(e) \/ Udev(e)
  \/ \E p \in DOMAIN disk : Rewrite(p)

Spec == Init /\ [][Next]_vars

-----------------------------------------------------------------------------
(* Properties *)

WantedOK == /\ mode \in Modes
            /\ want \in [Names -> Entries \cup {NONE}]
            /\ disk \in [Paths -> Lengths \cup {Torn, NONE}]
KernelOK == /\ loop \in [Loops -> LoopStates \cup {NONE}]
            /\ ref \in [Names -> Loops \cup {NONE}] /\ \A e \in Kab : ref[e] = NONE
            /\ DOMAIN mnt = Names
            /\ \A e \in Names : mnt[e] \in Seq([dev : Loops, verity : BOOLEAN])
RecordsOK == /\ state \in [Names -> Loops \cup {NONE, Empty}] /\ \A e \in Raw : state[e] = NONE
             /\ refused \subseteq Names /\ lost \subseteq Kab /\ left \subseteq Loops

\* Every variable keeps its type; what is mounted, is mounted from a device that
\* is attached to an image of known length.
TypeOK ==
  /\ WantedOK /\ KernelOK /\ RecordsOK
  /\ \A n \in Loops : Used(mnt, n) => loop[n] # NONE

\* An extension that a scan presents shows the image that is in its file, under
\* verity exactly if its entry says so; and a scan that could not present it met
\* an image it cannot mount or a command that was refused (RawAdaptor::mount and
\* live_loop_device, on a link that outlives its device). Excused: a file that
\* changes under the scan, a .kab whose footer cannot be read, and one that could
\* not be unmounted and then lost the record of what is mounted.
Presents ==
  At("end") /\ job.why # "drop" /\ ~job.moved =>
    IF job.ok
    THEN disk[job.entry.path] \in Lengths /\ job.cur \notin lost =>
           /\ Active(job.cur)
           /\ LET l == loop[Top(job.cur).dev]
              IN  l.path = job.entry.path /\ ~l.gone /\ l.len = disk[l.path]
           /\ Top(job.cur).verity = job.entry.verity
    ELSE job.faulted \/ ~Usable(job.entry)

\* A loop device stays attached only with a mount on it or a record that leads a
\* later unmount to it, unless the kernel or a crash left it so
\* (KabAdaptor::mount: "the old loop would have no record anywhere").
NoLeak ==
  \A n \in Loops : Attached(n) =>
    \/ Used(mnt, n) \/ n \in left
    \/ \E e \in Names : Device(e) = n
    \/ At("save") /\ job.dev = n

\* After a sweep an extension is mounted only if its own unmount was refused: no
\* failure keeps the sweep from the others (RawAdaptor::unmount_all).
SweepsAll ==
  At("done") /\ job.cmd = "sweep" => \A e \in Names : Active(e) => e \in refused
=============================================================================
