---------------------------- MODULE ImagesProofs ----------------------------
(***************************************************************************)
(* What holds of Images for any extensions, image files and loop devices   *)
(* and any number of changes, rewrites and faults: the types, that what a  *)
(* scan presents is what its files hold, that no loop device is attached   *)
(* without a way back to it, and that a sweep passes over nothing.         *)
(*                                                                         *)
(* The three rest on each other. A scan reuses a mount on the word of the  *)
(* link or the state file that stands for its device, so these must name   *)
(* the device of the mount on top (TopKnown); a device is released by the  *)
(* same record, so every layer below must be of that device or accounted   *)
(* for (LayersKnown); and a mount that overwrites the record must have     *)
(* nothing that only the record led to (Bare, Elsewhere).                  *)
(***************************************************************************)
EXTENDS Images, TLAPS

\* The steps of a command and of its tasks.
Steps == {"next", "umount", "detach", "mount", "reuse", "attach", "setup", "save", "dissect",
          "end", "done"}

\* The entries a scan has still to look at.
Plans == UNION {[D -> Entries] : D \in SUBSET Names}

\* What a command keeps.
Job == [cmd : {"none", "scan", "sweep"}, drop : SUBSET Names, plan : Plans,
        cur : Names \cup {NONE}, step : Steps, why : {"none", "drop", "clear", "replace"},
        entry : Entries \cup {NONE}, dev : Loops \cup {NONE},
        ok : BOOLEAN, faulted : BOOLEAN, moved : BOOLEAN]

\* The steps of a mount, and those of a task.
Mounting == job.step \in {"mount", "reuse", "attach", "setup", "save", "dissect"}
InTask == Mounting \/ job.step \in {"umount", "detach", "end"}

\* A job knows at each step what that step needs: the mount point, the entry of an
\* extension that is to be mounted, the device that was set up; only .raw images are
\* reused or attached by systemd-dissect, only .kab ones set up by losetup; a sweep
\* mounts nothing, and ends when it has dropped all.
JobOK ==
  /\ job \in Job
  /\ InTask => job.cur \in Names /\ job.why # "none"
  /\ InTask /\ job.why # "drop" => job.entry \in Entries
  /\ Mounting => job.why # "drop"
  /\ job.why = "replace" \/ job.step \in {"reuse", "attach"} => job.cur \in Raw
  /\ job.step \in {"setup", "save", "dissect"} => job.cur \in Kab
  /\ job.step \in {"save", "dissect"} => job.dev \in Loops
  /\ job.cmd = "sweep" => job.why \in {"none", "drop"} /\ DOMAIN job.plan = {}
  /\ At("done") => job.drop = {}

\* A link to a device that is attached is that device's own: the kernel may hand a
\* device out again only after udev has dropped the links to it.
LinksTrue == \A e \in Raw : LiveRef(e) => loop[ref[e]].ref = e

\* Every layer of a mount point is of an attached device with the link of the
\* extension, and of the one its record names, unless the kernel or a crash left it.
LayersKnown ==
  \A e \in Names : \A k \in DOMAIN mnt[e] :
    /\ Attached(mnt[e][k].dev)
    /\ loop[mnt[e][k].dev].ref = IF e \in Raw THEN e ELSE NONE
    /\ mnt[e][k].dev \in left \/ mnt[e][k].dev = Device(e)

\* The record of a mounted extension names the device of the mount on top. It may be
\* gone only if its last unmount was refused, and may name another device only after a
\* state file was lost, or while a .kab is between its state file and its mount.
TopKnown ==
  \A e \in Names : Active(e) =>
    /\ e \in Raw => Device(e) = Top(e).dev
    /\ Device(e) = NONE => e \in refused
    /\ \/ Device(e) \in {NONE, Top(e).dev}
       \/ e \in lost
       \/ At("dissect") /\ job.cur = e

\* A mount point is empty when its device is released; and a mount goes on top of
\* another only when the unmount of that was refused, and then its devices are known to
\* be left.
Bare ==
  /\ At("detach") => ~Active(job.cur)
  /\ Mounting /\ Active(job.cur) =>
       /\ job.cur \in refused
       /\ \A k \in DOMAIN mnt[job.cur] : mnt[job.cur][k].dev \in left

\* The device n holds the image that the entry in hand names.
Shows(n) == /\ Attached(n) /\ loop[n].path = job.entry.path /\ ~loop[n].gone
            /\ loop[n].len = disk[job.entry.path]

\* The device in hand is attached and holds the image, unless the file was changed
\* meanwhile; the state file names it when the mount begins.
InHand ==
  /\ At("reuse") => LiveRef(job.cur) /\ (job.moved \/ Shows(ref[job.cur]))
  /\ job.step \in {"save", "dissect"} =>
       /\ Attached(job.dev) /\ loop[job.dev].ref = NONE
       /\ job.moved \/ Shows(job.dev)
  /\ At("dissect") => state[job.cur] = job.dev

\* While an extension is being given a new device, every attached device is accounted
\* for without the record that is about to be overwritten.
Elsewhere ==
  job.step \in {"attach", "setup", "save"} =>
    \A n \in Loops : Attached(n) =>
      \/ Used(mnt, n) \/ n \in left
      \/ \E e \in Names \ {job.cur} : Device(e) = n
      \/ At("save") /\ job.dev = n

\* A sweep has still to drop every mounted extension, or drops it, or its unmount was
\* refused.
Sweeping ==
  job.cmd = "sweep" =>
    \A e \in Names : Active(e) => \/ e \in refused \/ e \in job.drop
                                  \/ At("umount") /\ job.cur = e

\* What is mounted, what is attached and what is recorded agree.
Known == /\ LinksTrue /\ LayersKnown /\ TopKnown /\ Bare /\ InHand /\ Elsewhere /\ Sweeping
         /\ Presents /\ NoLeak

\* The types.
Typed == WantedOK /\ KernelOK /\ RecordsOK /\ JobOK

\* The inductive invariant.
IInv == Typed /\ Known

\* The plan of a command that mounts nothing.
LEMMA EmptyPlan == <<>> \in Plans /\ DOMAIN <<>> = {}
<1>1. <<>> = [x \in {} |-> NONE]
  OBVIOUS
<1>2. [x \in {} |-> NONE] \in [{} -> Entries]
  OBVIOUS
<1> QED BY <1>1, <1>2 DEF Plans

\* Entries for some of the extensions are a plan.
LEMMA PlanOf == ASSUME NEW D \in SUBSET Names, NEW f \in [D -> Entries]
                PROVE  f \in Plans
  BY DEF Plans

\* An extension is taken off the plan.
LEMMA PlanUse == ASSUME NEW f \in Plans, NEW e \in DOMAIN f
                 PROVE  /\ e \in Names /\ f[e] \in Entries
                        /\ [x \in DOMAIN f \ {e} |-> f[x]] \in Plans
<1>1. PICK D \in SUBSET Names : f \in [D -> Entries]
  BY DEF Plans
<1>2. [x \in D \ {e} |-> f[x]] \in [D \ {e} -> Entries]
  BY <1>1
<1> QED BY <1>1, <1>2, PlanOf

\* The program at rest.
LEMMA IdleJob == Idle \in Job
  BY EmptyPlan DEF Idle, Job, Steps

-----------------------------------------------------------------------------
(* The types *)

\* The types hold initially.
LEMMA InitTyped == Init => Typed
<1> SUFFICES ASSUME Init PROVE Typed
  OBVIOUS
<1> USE DEF Init
<1>1. \A e \in Names : (CHOOSE p \in Files[e] : TRUE) \in Paths
  BY ImagesAssumption DEF Paths
<1>2. (CHOOSE n \in Lengths : TRUE) \in Lengths
  BY ImagesAssumption
<1>3. WantedOK
  BY <1>1, <1>2 DEF WantedOK, Modes, Entries
<1>4. KernelOK
  BY DEF KernelOK, Names
<1>5. RecordsOK
  BY DEF RecordsOK, Names
<1>6. JobOK
  BY IdleJob, EmptyPlan DEF JobOK, Idle, InTask, Mounting, At
<1> QED BY <1>3, <1>4, <1>5, <1>6 DEF Typed

\* So does the rest: nothing is attached.
LEMMA InitKnown == Init => Known
<1> SUFFICES ASSUME Init PROVE Known
  OBVIOUS
<1> USE DEF Init
<1>1. \A e \in Names : ~Active(e) /\ DOMAIN mnt[e] = {}
  BY DEF Active
<1>2. \A n \in Loops : ~Attached(n)
  BY DEF Attached
<1>3. job.step = "next" /\ job.cmd = "none"
  BY DEF Idle
<1>4. LinksTrue /\ LayersKnown /\ TopKnown
  BY <1>1, ImagesAssumption DEF LinksTrue, LayersKnown, TopKnown, LiveRef, Attached, Names
<1>5. Bare /\ InHand /\ Elsewhere /\ Sweeping /\ Presents /\ NoLeak
  BY <1>1, <1>2, <1>3 DEF Bare, InHand, Elsewhere, Sweeping, Presents, NoLeak, At, Mounting
<1> QED BY <1>4, <1>5 DEF Known

-----------------------------------------------------------------------------
(* The job *)

\* What a scan found is a plan.
LEMMA ScanPlan == ASSUME Typed
                  PROVE  [e \in Found |-> Entry(e)] \in Plans
<1>1. Found \subseteq Names
  BY DEF Found, Names
<1>2. \A e \in Found : Entry(e) \in Entries
  BY <1>1 DEF Typed, WantedOK, Found, Entry, Entries
<1> QED BY <1>1, <1>2, PlanOf

\* What the file of the entry in hand holds.
LEMMA PathDisk == ASSUME Typed, InTask, job.why # "drop"
                  PROVE  /\ job.entry \in Entries /\ job.entry.path \in Paths
                         /\ disk[job.entry.path] \in Lengths \cup {Torn, NONE}
  BY DEF Typed, JobOK, Entries, WantedOK

\* The commands, their ends and a kill.
LEMMA CommandJob ==
  ASSUME Typed, Scan \/ Sweep \/ CommandEnds \/ TaskEnds \/ Return \/ Kill
  PROVE  JobOK'
<1> USE DEF JobOK, InTask, Mounting, At
<1>1. CASE Scan
  <2>1. /\ job'.cmd = "scan" /\ job'.step = "next" /\ job'.why = "none" /\ job' \in Job
    BY <1>1, ScanPlan, EmptyPlan DEF Scan, Idle, Job, Steps, Recorded, Names
  <2> QED BY <2>1
<1>2. CASE Sweep
  BY <1>2, IdleJob, EmptyPlan DEF Sweep, Idle, Job, Steps, Recorded, Names
<1>3. ASSUME job' = [Idle EXCEPT !.cmd = job.cmd, !.step = "done"] PROVE JobOK'
  <2>1. job.cmd \in {"none", "scan", "sweep"}
    BY DEF Typed, Job
  <2>2. /\ job' \in Job /\ job'.why = "none" /\ job'.step = "done"
        /\ job'.plan = <<>> /\ job'.drop = {}
    BY <1>3, <2>1, EmptyPlan DEF Idle, Job, Steps
  <2> QED BY <2>2, EmptyPlan
<1>4. CASE TaskEnds
  <2>1. CASE ~Stops
    <3>1. job' = [job EXCEPT !.step = "next", !.cur = NONE, !.entry = NONE, !.dev = NONE,
                             !.why = "none", !.ok = TRUE]
      BY <1>4, <2>1 DEF TaskEnds
    <3>2. /\ job' \in Job /\ job'.why = "none" /\ job'.step = "next"
          /\ job'.cmd = job.cmd /\ job'.plan = job.plan
      BY <3>1 DEF Job, Steps, Typed
    <3> QED BY <3>2 DEF Typed
  <2> QED BY <1>3, <1>4, <2>1 DEF TaskEnds
<1>5. CASE Return \/ Kill
  <2>1. job' = Idle
    BY <1>5 DEF Return, Kill
  <2>2. job' \in Job /\ job'.why = "none" /\ job'.step = "next" /\ job'.cmd = "none"
    BY <2>1, IdleJob DEF Idle
  <2> QED BY <2>2
<1> QED BY <1>1, <1>2, <1>3, <1>4, <1>5 DEF CommandEnds

\* A task begins.
LEMMA LookJob ==
  ASSUME Typed, NEW e \in Names, Drop(e) \/ Look(e)
  PROVE  JobOK'
<1> USE DEF JobOK, InTask, Mounting, At, Typed
<1>1. CASE Drop(e)
  BY <1>1 DEF Drop, Job, Steps
<1>2. CASE Look(e)
  <2>1. /\ job.plan[e] \in Entries
        /\ [x \in DOMAIN job.plan \ {e} |-> job.plan[x]] \in Plans
    BY <1>2, PlanUse DEF Look, Job
  <2>2. job.cmd # "sweep"
    BY <1>2 DEF Look
  <2>3. PICK step \in {"mount", "umount", "end"} :
          job' = [job EXCEPT
            !.plan = [x \in DOMAIN job.plan \ {e} |-> job.plan[x]],
            !.cur = e, !.entry = job.plan[e], !.faulted = FALSE, !.moved = FALSE, !.ok = TRUE,
            !.why = "clear", !.step = step]
    BY <1>2 DEF Look
  <2>4. /\ job' \in Job /\ job'.cur = e /\ job'.why = "clear" /\ job'.entry = job.plan[e]
        /\ job'.cmd = job.cmd /\ job'.step \in {"mount", "umount", "end"}
    BY <2>1, <2>3 DEF Job, Steps
  <2> QED BY <2>1, <2>2, <2>4
<1> QED BY <1>1, <1>2

\* The steps of an unmount.
LEMMA UnmountJob ==
  ASSUME Typed, NEW e \in Names,
         Umount(e) \/ UmountFails(e) \/ NothingToDetach(e) \/ Detach(e) \/ DetachKept(e)
         \/ DetachesNothing(e)
  PROVE  JobOK'
<1> USE DEF JobOK, InTask, Mounting, At, Typed
<1>1. CASE Umount(e)
  BY <1>1 DEF Umount, Go, Job, Steps
<1>2. ASSUME job.step \in {"umount", "detach"},
             \E ok, faulted \in BOOLEAN : AfterUnmount(ok, faulted)
      PROVE  JobOK'
  <2>1. PICK step \in {"end", "mount", "attach"}, ok \in BOOLEAN, faulted \in BOOLEAN :
          /\ job' = [job EXCEPT !.step = step, !.ok = ok, !.faulted = faulted]
          /\ job.why = "drop" => step = "end"
          /\ step = "attach" => job.why = "replace"
    BY <1>2 DEF AfterUnmount, Job
  <2>2. /\ job' \in Job /\ job'.step = step /\ job'.cur = job.cur /\ job'.why = job.why
        /\ job'.entry = job.entry /\ job'.cmd = job.cmd /\ job'.plan = job.plan
    BY <2>1 DEF Job, Steps
  <2> QED BY <1>2, <2>1, <2>2
<1>3. CASE UmountFails(e) \/ NothingToDetach(e) \/ Detach(e) \/ DetachKept(e)
           \/ DetachesNothing(e)
  <2>1. /\ job.step \in {"umount", "detach"}
        /\ \E ok, faulted \in BOOLEAN : AfterUnmount(ok, faulted)
    BY <1>3 DEF UmountFails, NothingToDetach, Detach, DetachKept, DetachesNothing
  <2> QED BY <1>2, <2>1
<1> QED BY <1>1, <1>3

\* The steps of a mount.
LEMMA MountJob ==
  ASSUME Typed, NEW e \in Names,
         MountRaw(e) \/ DissectFile(e) \/ DissectLoop(e) \/ DissectFails(e) \/ MountKab(e)
         \/ MountKabBeside(e) \/ Setup(e) \/ SetupFails(e) \/ Save(e) \/ SaveFails(e)
         \/ DissectKab(e) \/ DissectKabFails(e)
  PROVE  JobOK'
<1> USE DEF JobOK, InTask, Mounting, At, Typed
<1>1. ASSUME Mounting, \/ \E ok \in BOOLEAN : Ends(ok)
                       \/ EndsByFault
      PROVE  JobOK'
  BY <1>1 DEF Ends, EndsByFault, Job, Steps
<1>2. CASE MountRaw(e)
  BY <1>2 DEF MountRaw, RawPlan, Plan, Job, Steps
<1>3. CASE Go("setup") /\ At("mount") /\ job.cur = e /\ e \in Kab
  BY <1>3, ImagesAssumption DEF Go, Job, Steps
<1>4. CASE MountKabBeside(e)
  BY <1>4, ImagesAssumption DEF MountKabBeside, Job, Steps
<1>5. CASE Setup(e)
  <2>1. PICK n \in Loops : job' = [job EXCEPT !.step = "save", !.dev = n]
    BY <1>5 DEF Setup, Free
  <2>2. job.step = "setup" /\ job.cur = e
    BY <1>5 DEF Setup
  <2> QED BY <2>1, <2>2, ImagesAssumption DEF Job, Steps
<1>6. CASE Save(e)
  BY <1>6 DEF Save, Go, Job, Steps
<1> QED BY <1>1, <1>2, <1>3, <1>4, <1>5, <1>6
        DEF DissectFile, DissectLoop, DissectFails, MountKab, SetupFails, SaveFails, DissectKab,
            DissectKabFails

\* A job stays one, whatever happens.
LEMMA NextJob == ASSUME Typed, [Next]_vars
                 PROVE  JobOK'
<1>1. ASSUME UNCHANGED job PROVE JobOK'
  BY <1>1 DEF Typed, JobOK, InTask, Mounting, At
<1>2. ASSUME NEW e \in Names, Task(e) PROVE JobOK'
  BY <1>2, LookJob, UnmountJob, MountJob DEF Task
<1>3. ASSUME NEW e \in Names, Activate(e) \/ Udev(e) PROVE JobOK'
  BY <1>1, <1>3 DEF Activate, Udev
<1>4. CASE Turn \/ UNCHANGED vars
  BY <1>1, <1>4 DEF Turn, vars
<1>5. ASSUME NEW p, Rewrite(p) PROVE JobOK'
  BY <1>5 DEF Rewrite, Typed, JobOK, Job, InTask, Mounting, At
<1> QED BY <1>2, <1>3, <1>4, <1>5, CommandJob DEF Next

-----------------------------------------------------------------------------
(* The types of the rest *)

\* One element appended to a sequence.
LEMMA AppendLayer == ASSUME NEW S, NEW s \in Seq(S), NEW x \in S
                     PROVE  /\ Append(s, x) \in Seq(S) /\ DOMAIN Append(s, x) = 1..Len(s) + 1
                            /\ \A k \in 1..Len(s) : Append(s, x)[k] = s[k]
                            /\ Append(s, x)[Len(s) + 1] = x /\ Append(s, x) # <<>>
                            /\ Len(Append(s, x)) = Len(s) + 1
  OBVIOUS

\* The elements of a sequence.
LEMMA LayerTypes == ASSUME NEW S, NEW s \in Seq(S)
                    PROVE  /\ Len(s) \in Nat /\ DOMAIN s = 1..Len(s)
                           /\ \A k \in DOMAIN s : s[k] \in S
                           /\ s # <<>> => Len(s) \in DOMAIN s
  OBVIOUS

\* The empty sequence.
LEMMA NoLayers == ASSUME NEW S PROVE <<>> \in Seq(S) /\ DOMAIN <<>> = {}
  OBVIOUS

\* The layers of a mount point.
LEMMA KnownLayers ==
  ASSUME Typed, NEW e \in Names
  PROVE  /\ mnt[e] \in Seq([dev : Loops, verity : BOOLEAN]) /\ DOMAIN mnt[e] = 1..Len(mnt[e])
         /\ \A k \in DOMAIN mnt[e] : mnt[e][k].dev \in Loops /\ mnt[e][k].verity \in BOOLEAN
         /\ Active(e) => Len(mnt[e]) \in DOMAIN mnt[e]
<1> DEFINE S == [dev : Loops, verity : BOOLEAN]
<1>1. mnt[e] \in Seq(S)
  BY DEF Typed, KernelOK
<1>2. \A x \in S : x.dev \in Loops /\ x.verity \in BOOLEAN
  OBVIOUS
<1> HIDE DEF S
<1>3. /\ DOMAIN mnt[e] = 1..Len(mnt[e]) /\ \A k \in DOMAIN mnt[e] : mnt[e][k] \in S
      /\ Active(e) => Len(mnt[e]) \in DOMAIN mnt[e]
  BY <1>1, LayerTypes DEF Active
<1> QED BY <1>1, <1>2, <1>3 DEF S

\* Attach keeps the types of the devices and the links,
LEMMA AttachTypes ==
  ASSUME Typed, NEW e \in Names, NEW n \in Free, NEW path \in Paths, Attach(e, n, path),
         disk[path] \in Lengths
  PROVE  /\ loop' \in [Loops -> LoopStates \cup {NONE}]
         /\ ref' \in [Names -> Loops \cup {NONE}] /\ \A x \in Kab : ref'[x] = NONE
<1> DEFINE l == [path |-> path, len |-> disk[path], gone |-> FALSE, lazy |-> FALSE,
                 ref |-> IF e \in Raw THEN e ELSE NONE]
<1>1. l \in LoopStates
  BY DEF LoopStates
<1>2. loop' = [loop EXCEPT ![n] = l] /\ n \in Loops
  BY DEF Attach, Free
<1> HIDE DEF l
<1>3. loop' \in [Loops -> LoopStates \cup {NONE}]
  BY <1>1, <1>2 DEF Typed, KernelOK
<1>4. /\ ref' \in [Names -> Loops \cup {NONE}] /\ \A x \in Kab : ref'[x] = NONE
  BY <1>2, ImagesAssumption DEF Attach, Typed, KernelOK, Names
<1> QED BY <1>3, <1>4

\* MountOn that of the mount points,
LEMMA MountTypes ==
  ASSUME Typed, NEW e \in Names, NEW n \in Loops, NEW verity \in BOOLEAN, MountOn(e, n, verity)
  PROVE  DOMAIN mnt' = Names /\ \A x \in Names : mnt'[x] \in Seq([dev : Loops, verity : BOOLEAN])
<1> DEFINE S == [dev : Loops, verity : BOOLEAN]
           x == [dev |-> n, verity |-> verity]
<1>1. x \in S /\ mnt[e] \in Seq(S) /\ \A y \in Names : mnt[y] \in Seq(S)
  BY DEF Typed, KernelOK
<1>2. mnt' = [mnt EXCEPT ![e] = Append(mnt[e], x)]
  BY DEF MountOn
<1> HIDE DEF S, x
<1>3. Append(mnt[e], x) \in Seq(S)
  BY <1>1, AppendLayer
<1>4. DOMAIN mnt' = Names /\ \A y \in Names : mnt'[y] \in Seq(S)
  BY <1>1, <1>2, <1>3 DEF Typed, KernelOK
<1> QED BY <1>4 DEF S

\* Released that of the devices,
LEMMA ReleasedTypes ==
  ASSUME Typed, NEW n \in Loops, Attached(n)
  PROVE  Released(n) \in [Loops -> LoopStates \cup {NONE}]
<1>1. [loop[n] EXCEPT !.lazy = TRUE] \in LoopStates
  BY DEF Typed, KernelOK, Attached, LoopStates
<1> QED BY <1>1 DEF Released, Typed, KernelOK

\* and Unmounted those of both.
LEMMA UnmountedTypes ==
  ASSUME Typed, NEW e \in Names, Unmounted(e)
  PROVE  /\ loop' \in [Loops -> LoopStates \cup {NONE}]
         /\ DOMAIN mnt' = Names
         /\ \A x \in Names : mnt'[x] \in Seq([dev : Loops, verity : BOOLEAN])
<1> DEFINE S == [dev : Loops, verity : BOOLEAN]
<1>1. /\ \A y \in Names : mnt[y] \in Seq(S) /\ mnt' = [mnt EXCEPT ![e] = <<>>]
      /\ loop' \in [Loops -> LoopStates \cup {NONE}]
  BY DEF Unmounted, Typed, KernelOK
<1> HIDE DEF S
<1>2. DOMAIN mnt' = Names /\ \A y \in Names : mnt'[y] \in Seq(S)
  BY <1>1, NoLayers DEF Typed, KernelOK
<1> QED BY <1>1, <1>2 DEF S

\* The steps of an unmount keep the types,
LEMMA UnmountTyped ==
  ASSUME Typed, NEW e \in Names,
         Umount(e) \/ UmountFails(e) \/ NothingToDetach(e) \/ Detach(e) \/ DetachKept(e)
         \/ DetachesNothing(e)
  PROVE  WantedOK' /\ KernelOK' /\ RecordsOK'
<1>1. WantedOK'
  BY DEF Umount, UmountFails, NothingToDetach, Detach, DetachKept, DetachesNothing, Typed,
         WantedOK, wanted
<1>2. CASE Umount(e)
  <2>1. RecordsOK'
    BY <1>2 DEF Umount, Typed, RecordsOK
  <2>2. KernelOK'
    BY <1>2, UnmountedTypes DEF Umount, Typed, KernelOK
  <2> QED BY <1>1, <2>1, <2>2
<1>3. CASE UmountFails(e)
  <2>1. \A k \in DOMAIN mnt[e] : mnt[e][k].dev \in Loops
    BY KnownLayers
  <2> QED BY <1>1, <1>3, <2>1 DEF UmountFails, Typed, KernelOK, RecordsOK, kernel
<1>4. CASE NothingToDetach(e) \/ DetachesNothing(e)
  BY <1>1, <1>4 DEF NothingToDetach, DetachesNothing, Typed, KernelOK, RecordsOK, kernel, past
<1>5. CASE Detach(e)
  <2>1. KernelOK'
    BY <1>5, ReleasedTypes DEF Detach, Attached, Typed, KernelOK
  <2>2. RecordsOK'
    BY <1>5, ImagesAssumption DEF Detach, Typed, RecordsOK, Names
  <2> QED BY <1>1, <2>1, <2>2
<1>6. CASE DetachKept(e)
  BY <1>1, <1>6, ImagesAssumption
     DEF DetachKept, Attached, Typed, KernelOK, RecordsOK, kernel, Names
<1> QED BY <1>2, <1>3, <1>4, <1>5, <1>6

\* those of a mount too,
LEMMA MountTyped ==
  ASSUME Typed, InHand, NEW e \in Names,
         MountRaw(e) \/ DissectFile(e) \/ DissectLoop(e) \/ DissectFails(e) \/ MountKab(e)
         \/ MountKabBeside(e) \/ Setup(e) \/ SetupFails(e) \/ Save(e) \/ SaveFails(e)
         \/ DissectKab(e) \/ DissectKabFails(e)
  PROVE  WantedOK' /\ KernelOK' /\ RecordsOK'
<1>1. WantedOK'
  BY DEF MountRaw, DissectFile, DissectLoop, DissectFails, MountKab, MountKabBeside, Setup,
         SetupFails, Save, SaveFails, DissectKab, DissectKabFails, Typed, WantedOK, wanted
<1>2. /\ Mounting /\ job.cur = e /\ job.entry \in Entries
      /\ job.entry.path \in Paths /\ job.entry.verity \in BOOLEAN
  <2>1. Mounting /\ job.cur = e
    BY DEF MountRaw, DissectFile, DissectLoop, DissectFails, MountKab, MountKabBeside, Setup,
           SetupFails, Save, SaveFails, DissectKab, DissectKabFails, At, Mounting
  <2> QED BY <2>1 DEF Typed, JobOK, InTask, Entries
<1>3. CASE MountRaw(e) \/ DissectFails(e) \/ SetupFails(e)
  BY <1>1, <1>3 DEF MountRaw, DissectFails, SetupFails, Typed, KernelOK, RecordsOK, kernel, past
<1>4. CASE DissectFile(e)
  <2>1. PICK n \in Free : Attach(e, n, job.entry.path) /\ MountOn(e, n, job.entry.verity)
    BY <1>4 DEF DissectFile
  <2>2. KernelOK'
    BY <1>2, <1>4, <2>1, AttachTypes, MountTypes DEF DissectFile, Usable, KernelOK, Free
  <2> QED BY <1>1, <1>4, <2>2 DEF DissectFile, Typed, RecordsOK, past
<1>5. CASE DissectLoop(e)
  <2>1. KernelOK'
    BY <1>2, <1>5, MountTypes DEF DissectLoop, LiveRef, Attached, Typed, KernelOK
  <2> QED BY <1>1, <1>5, <2>1 DEF DissectLoop, Typed, RecordsOK, past
<1>6. CASE MountKab(e)
  <2>1. loop' \in [Loops -> LoopStates \cup {NONE}]
    BY <1>6, ReleasedTypes DEF MountKab, Attached, Typed, KernelOK
  <2>2. KernelOK'
    BY <1>6, <2>1 DEF MountKab, Typed, KernelOK
  <2>3. RecordsOK'
    BY <1>6 DEF MountKab, Typed, RecordsOK
  <2> QED BY <1>1, <2>2, <2>3
<1>7. CASE MountKabBeside(e)
  BY <1>1, <1>7 DEF MountKabBeside, Attached, Typed, KernelOK, RecordsOK, kernel
<1>8. CASE Setup(e)
  <2>1. PICK n \in Free : Attach(e, n, job.entry.path)
    BY <1>8 DEF Setup
  <2>2. KernelOK'
    BY <1>2, <1>8, <2>1, AttachTypes DEF Setup, Typed, KernelOK
  <2> QED BY <1>1, <1>8, <2>2 DEF Setup, Typed, RecordsOK, past
<1>9. CASE Save(e) \/ SaveFails(e)
  <2>1. job.dev \in Loops /\ e \in Kab
    BY <1>9 DEF Save, SaveFails, At, Typed, JobOK
  <2> QED BY <1>1, <1>9, <2>1, ImagesAssumption
          DEF Save, SaveFails, Typed, KernelOK, RecordsOK, kernel, past, Names
<1>10. CASE DissectKab(e) \/ DissectKabFails(e)
  <2>1. job.dev \in Loops /\ e \in Kab
    BY <1>10 DEF DissectKab, DissectKabFails, At, Typed, JobOK
  <2>2. CASE DissectKab(e)
    BY <1>1, <1>2, <2>1, <2>2, MountTypes DEF DissectKab, Typed, KernelOK, RecordsOK
  <2>3. CASE DissectKabFails(e)
    <3>1. loop' \in [Loops -> LoopStates \cup {NONE}]
      BY <2>1, <2>3, ReleasedTypes DEF DissectKabFails, InHand, At
    <3>2. KernelOK'
      BY <2>3, <3>1 DEF DissectKabFails, Typed, KernelOK
    <3>3. RecordsOK'
      BY <2>1, <2>3, ImagesAssumption DEF DissectKabFails, Typed, RecordsOK, past, Names
    <3> QED BY <1>1, <3>2, <3>3
  <2> QED BY <1>10, <2>2, <2>3
<1> QED BY <1>3, <1>4, <1>5, <1>6, <1>7, <1>8, <1>9, <1>10

\* and the commands, the activations, udev and a kill,
LEMMA AroundTyped ==
  ASSUME Typed, \/ Scan \/ Sweep \/ TaskEnds \/ CommandEnds \/ Return \/ Turn \/ Kill
                \/ \E e \in Names : Drop(e) \/ Look(e) \/ Activate(e) \/ Udev(e)
                \/ UNCHANGED vars
  PROVE  WantedOK' /\ KernelOK' /\ RecordsOK'
<1>1. CASE \/ Scan \/ Sweep \/ TaskEnds \/ CommandEnds \/ Return \/ UNCHANGED vars
           \/ \E e \in Names : Drop(e) \/ Look(e)
  <2>1. UNCHANGED <<wanted, kernel, state, past>>
    BY <1>1 DEF Scan, Sweep, TaskEnds, CommandEnds, Return, Drop, Look, vars
  <2> QED BY <2>1 DEF wanted, kernel, past, Typed, WantedOK, KernelOK, RecordsOK
<1>2. ASSUME NEW e \in Names, Activate(e) PROVE WantedOK' /\ KernelOK' /\ RecordsOK'
  <2>1. PICK entry \in Entries \cup {NONE} : want' = [want EXCEPT ![e] = entry]
    BY <1>2 DEF Activate, Entries, Paths
  <2> QED BY <1>2, <2>1 DEF Activate, kernel, past, Typed, WantedOK, KernelOK, RecordsOK
<1>3. CASE Turn
  BY <1>3 DEF Turn, kernel, past, Typed, WantedOK, KernelOK, RecordsOK
<1>4. CASE Kill
  <2>1. /\ At("save") => job.dev \in Loops
        /\ At("dissect") => job.cur \in Kab
    BY DEF Typed, JobOK, At
  <2> QED BY <1>4, <2>1 DEF Kill, wanted, kernel, Typed, WantedOK, KernelOK, RecordsOK
<1>5. ASSUME NEW e \in Names, Udev(e) PROVE WantedOK' /\ KernelOK' /\ RecordsOK'
  <2>1. \E n \in Loops \cup {NONE} : ref' = [ref EXCEPT ![e] = n]
    BY <1>5 DEF Udev
  <2>2. ref[e] # NONE
    BY <1>5 DEF Udev
  <2>3. ref' \in [Names -> Loops \cup {NONE}] /\ \A x \in Kab : ref'[x] = NONE
    BY <2>1, <2>2 DEF Typed, KernelOK, Names
  <2>4. KernelOK'
    BY <1>5, <2>3 DEF Udev, Typed, KernelOK
  <2> QED BY <1>5, <2>4 DEF Udev, wanted, past, Typed, WantedOK, RecordsOK
<1> QED BY <1>1, <1>2, <1>3, <1>4, <1>5

\* and the rewrite of a file.
LEMMA RewriteTyped ==
  ASSUME Typed, NEW p \in DOMAIN disk, Rewrite(p)
  PROVE  WantedOK' /\ KernelOK' /\ RecordsOK'
<1>1. WantedOK'
  BY DEF Rewrite, Typed, WantedOK
<1>2. loop' \in [Loops -> LoopStates \cup {NONE}]
  <2>1. \A n \in Loops : Attached(n) => [loop[n] EXCEPT !.gone = TRUE] \in LoopStates
    BY DEF Attached, Typed, KernelOK, LoopStates
  <2> QED BY <2>1 DEF Rewrite, Typed, KernelOK
<1> QED BY <1>1, <1>2 DEF Rewrite, Typed, KernelOK, RecordsOK, past

\* Every step keeps the types.
LEMMA NextTyped == ASSUME Typed, InHand, [Next]_vars
                   PROVE  Typed'
<1>1. WantedOK' /\ KernelOK' /\ RecordsOK'
  BY UnmountTyped, MountTyped, AroundTyped, RewriteTyped DEF Next, Task
<1> QED BY <1>1, NextJob DEF Typed

-----------------------------------------------------------------------------
(* Steps that change no device and no mount *)

\* Where devices, mounts and records stay, only what is said of the job is to be shown.
LEMMA StillKnown ==
  ASSUME IInv, UNCHANGED <<kernel, state, past>>, ~At("dissect"), ~At("save"),
         Bare', InHand', Elsewhere', Sweeping', Presents'
  PROVE  Known'
<1>1. LinksTrue' /\ LayersKnown'
  BY DEF IInv, Known, LinksTrue, LayersKnown, LiveRef, Attached, Device, kernel, past
<1>2. TopKnown'
  BY DEF IInv, Known, TopKnown, Active, Device, Top, kernel, past
<1>3. NoLeak'
  BY DEF IInv, Known, NoLeak, Attached, Used, Device, kernel, past
<1> QED BY <1>1, <1>2, <1>3 DEF Known

\* A scan is at its first task.
LEMMA ScanEffect == ASSUME Scan
                    PROVE  job'.cmd = "scan" /\ job'.step = "next" /\ job'.why = "none"
<1>1. \E plan, drop : job' = [Idle EXCEPT !.cmd = "scan", !.plan = plan, !.drop = drop]
  BY DEF Scan
<1> QED BY <1>1 DEF Idle

\* Commands and their ends keep Known. A sweep drops all that is recorded, and so all
\* that is mounted.
LEMMA CommandKnown ==
  ASSUME IInv, \/ Scan \/ Sweep \/ TaskEnds \/ CommandEnds \/ Return
               \/ \E e \in Names : Drop(e)
  PROVE  Known'
<1>0. UNCHANGED <<wanted, kernel, state, past>>
  BY DEF Scan, Sweep, TaskEnds, CommandEnds, Return, Drop
<1>1. job.step \in {"next", "end", "done"} /\ job \in Job
  BY DEF Scan, Sweep, TaskEnds, CommandEnds, Return, Drop, Idle, At, IInv, Typed, JobOK
<1>2. /\ job'.step \in {"next", "umount", "done"}
  <2>1. CASE Scan \/ Return
    BY <2>1, ScanEffect DEF Return, Idle
  <2>4. CASE Sweep
    BY <2>4 DEF Sweep, Idle
  <2>5. CASE CommandEnds
    BY <2>5 DEF CommandEnds, Idle
  <2>2. CASE TaskEnds
    BY <1>1, <2>2 DEF TaskEnds, Idle, Job
  <2>3. ASSUME NEW e \in Names, Drop(e) PROVE job'.step = "umount"
    BY <1>1, <2>3 DEF Drop, Job
  <2> QED BY <2>1, <2>2, <2>3, <2>4, <2>5
<1>3. Bare' /\ InHand' /\ Elsewhere' /\ Presents'
  BY <1>2 DEF Bare, InHand, Elsewhere, Presents, Mounting, At
<1>4. Sweeping'
  <2>1. CASE Scan \/ Return
    BY <2>1, ScanEffect DEF Return, Idle, Sweeping
  <2>2. CASE Sweep
    <3>1. job'.drop = Recorded
      BY <2>2 DEF Sweep, Idle
    <3>2. \A e \in Names : Active(e) => e \in refused \/ e \in Recorded
      BY DEF IInv, Known, TopKnown, Device, Recorded, Names
    <3> QED BY <1>0, <3>1, <3>2 DEF Sweeping, Active, kernel, past
  <2>3. CASE TaskEnds
    <3>1. job'.cmd = "sweep" => job.cmd = "sweep"
      BY <1>1, <2>3 DEF TaskEnds, Idle, Job
    <3>2. job.cmd = "sweep" => ~Stops
      BY <2>3 DEF TaskEnds, Stops, IInv, Typed, JobOK, InTask, At
    <3>3. job.cmd = "sweep" => job'.drop = job.drop
      BY <1>1, <2>3, <3>2 DEF TaskEnds, Job
    <3> QED BY <1>0, <2>3, <3>1, <3>3
            DEF TaskEnds, Sweeping, IInv, Known, Active, At, kernel, past
  <2>4. CASE CommandEnds
    <3>1. job'.cmd = job.cmd /\ job.drop = {} /\ job.step = "next"
      BY <2>4 DEF CommandEnds, Idle, At
    <3> QED BY <1>0, <3>1 DEF Sweeping, IInv, Known, Active, At, kernel, past
  <2>5. ASSUME NEW e \in Names, Drop(e) PROVE Sweeping'
    <3>1. /\ job'.cmd = job.cmd /\ job'.drop = job.drop \ {e} /\ job'.cur = e
          /\ job'.step = "umount" /\ job.step = "next"
      BY <1>1, <2>5 DEF Drop, Job, At
    <3> QED BY <1>0, <3>1 DEF Sweeping, IInv, Known, Active, At, kernel, past
  <2> QED BY <2>1, <2>2, <2>3, <2>4, <2>5
<1> QED BY <1>0, <1>1, <1>3, <1>4, StillKnown DEF At

\* An extension that is found as the scan wants it shows the image in its file; one
\* that is not found mounted has nothing mounted, or what a refused unmount left.
LEMMA LookKnown ==
  ASSUME IInv, NEW e \in Names, Look(e)
  PROVE  Known'
<1>0. /\ UNCHANGED <<wanted, kernel, state, past>> /\ job.step = "next" /\ job \in Job
      /\ e \in DOMAIN job.plan /\ job.plan[e] \in Entries
  BY PlanUse DEF Look, At, IInv, Typed, JobOK, Job
<1>1. PICK step \in {"mount", "umount", "end"} :
        /\ job' = [job EXCEPT
             !.plan = [x \in DOMAIN job.plan \ {e} |-> job.plan[x]],
             !.cur = e, !.entry = job.plan[e], !.faulted = FALSE, !.moved = FALSE, !.ok = TRUE,
             !.why = "clear", !.step = step]
        /\ step = "mount" => ~IsMounted(e)
        /\ step = "end" => /\ IsMounted(e) /\ ~BackingChanged(e, job.plan[e].path)
                           /\ ~VerityChanged(e, job.plan[e])
  BY DEF Look
<1>2. /\ job'.step = step /\ job'.cur = e /\ job'.entry = job.plan[e] /\ job'.ok
      /\ job'.cmd = job.cmd /\ job'.drop = job.drop
  BY <1>0, <1>1 DEF Job
<1>3. Bare'
  <2>1. ASSUME step = "mount", Active(e)
        PROVE  e \in refused /\ \A k \in DOMAIN mnt[e] : mnt[e][k].dev \in left
    <3>1. Device(e) = NONE
      BY <1>1, <2>1 DEF IsMounted
    <3>2. \A k \in DOMAIN mnt[e] : mnt[e][k].dev # NONE
      BY KnownLayers, ImagesAssumption DEF IInv
    <3> QED BY <2>1, <3>1, <3>2 DEF IInv, Known, TopKnown, LayersKnown
  <2> QED BY <1>0, <1>1, <1>2, <2>1 DEF Bare, Mounting, At, Active, kernel, past
<1>4. InHand' /\ Elsewhere'
  BY <1>1, <1>2 DEF InHand, Elsewhere, At
<1>5. Sweeping'
  <2>1. job.cmd # "sweep"
    BY <1>0 DEF IInv, Typed, JobOK
  <2> QED BY <1>2, <2>1 DEF Sweeping
<1>6. Presents'
  <2> DEFINE entry == job.plan[e]
             n == Top(e).dev
  <2>1. SUFFICES ASSUME step = "end", disk[entry.path] \in Lengths, e \notin lost
                 PROVE  /\ Active(e) /\ loop[n].path = entry.path /\ ~loop[n].gone
                        /\ loop[n].len = disk[loop[n].path] /\ Top(e).verity = entry.verity
    BY <1>0, <1>1, <1>2 DEF Presents, Active, Top, At, kernel, wanted, past
  <2>2. Active(e) /\ Device(e) # NONE /\ ~BackingChanged(e, entry.path) /\ ~VerityChanged(e, entry)
    BY <1>1, <2>1 DEF IsMounted
  <2>3. n = Device(e) /\ Attached(n)
    <3>1. n = Device(e)
      BY <1>0, <2>1, <2>2 DEF IInv, Known, TopKnown, At
    <3>2. Attached(n)
      BY <2>2, KnownLayers DEF IInv, Known, LayersKnown, Top
    <3> QED BY <3>1, <3>2
  <2>4. loop[n].path = entry.path /\ ~loop[n].gone /\ loop[n].len = disk[entry.path]
    BY <2>1, <2>2, <2>3, ImagesAssumption DEF BackingChanged
  <2>5. Top(e).verity = entry.verity
    BY <2>2 DEF VerityChanged
  <2> QED BY <2>2, <2>4, <2>5
<1> QED BY <1>0, <1>3, <1>4, <1>5, <1>6, StillKnown DEF At

\* A mount belongs to a scan, and has its entry in hand.
LEMMA MountsNoSweep == ASSUME IInv, Mounting
                       PROVE  /\ job.cmd # "sweep" /\ job.cur \in Names /\ job.why # "drop"
                              /\ job.entry \in Entries /\ job.entry.path \in Paths
                              /\ job.entry.verity \in BOOLEAN
                              /\ disk[job.entry.path] \in Lengths \cup {Torn, NONE}
<1>1. InTask
  BY DEF InTask
<1>2. job.cmd # "sweep" /\ job.cur \in Names /\ job.why # "drop"
  BY <1>1 DEF IInv, Typed, JobOK
<1>3. job.entry.verity \in BOOLEAN
  BY <1>1, <1>2 DEF IInv, Typed, JobOK, Entries
<1> QED BY <1>1, <1>2, <1>3, PathDisk DEF IInv

\* Where an unmount goes on.
LEMMA AfterUnmountJob ==
  ASSUME Typed, InTask, NEW ok \in BOOLEAN, NEW faulted \in BOOLEAN, AfterUnmount(ok, faulted)
  PROVE  /\ job'.step \in {"end", "mount", "attach"} /\ job'.cur = job.cur /\ job'.why = job.why
         /\ job'.entry = job.entry /\ job'.moved = job.moved /\ job'.cmd = job.cmd
         /\ job'.drop = job.drop /\ job'.dev = job.dev
         /\ job'.step = "end" <=> job.why = "drop"
         /\ job'.step = "attach" <=> job.why = "replace"
<1>1. PICK step \in {"end", "mount", "attach"}, f \in BOOLEAN, o \in BOOLEAN :
        /\ job' = [job EXCEPT !.step = step, !.ok = o, !.faulted = f]
        /\ step = "end" <=> job.why = "drop"
        /\ step = "attach" <=> job.why = "replace"
  BY DEF AfterUnmount, Typed, JobOK, Job
<1> QED BY <1>1 DEF Typed, JobOK, Job

\* An unmount with nothing to detach leaves no device behind: the record leads to none.
LEMMA NothingKnown ==
  ASSUME IInv, NEW e \in Names, NothingToDetach(e) \/ DetachesNothing(e)
  PROVE  Known'
<1>0. /\ UNCHANGED <<wanted, kernel, state, past>> /\ job.step = "detach" /\ job.cur = e
      /\ ~Active(e) /\ InTask /\ \E ok \in BOOLEAN : AfterUnmount(ok, FALSE)
  BY DEF NothingToDetach, DetachesNothing, At, IInv, Known, Bare, InTask
<1>1. /\ job'.step \in {"end", "mount", "attach"} /\ job'.cur = e /\ job'.why = job.why
      /\ job'.cmd = job.cmd /\ job'.drop = job.drop
      /\ job'.step = "end" <=> job.why = "drop"
      /\ job'.step = "attach" <=> job.why = "replace"
  BY <1>0, AfterUnmountJob DEF IInv
<1>2. Bare' /\ InHand'
  BY <1>0, <1>1 DEF Bare, InHand, At, Active, kernel
<1>3. Elsewhere'
  <2>1. job.why = "replace" => e \in Raw /\ ~Attached(Device(e))
    BY <1>0, ImagesAssumption
       DEF NothingToDetach, DetachesNothing, LiveRef, Device, IInv, Typed, JobOK
  <2> QED BY <1>0, <1>1, <2>1 DEF Elsewhere, IInv, Known, NoLeak, Attached, Used, Device, At,
                                  kernel, past
<1>4. Sweeping' /\ Presents'
  BY <1>0, <1>1 DEF Sweeping, Presents, IInv, Known, Active, At, kernel, past
<1> QED BY <1>0, <1>2, <1>3, <1>4, StillKnown DEF At

\* A link that leads to a device with the image is reused; any other is replaced.
LEMMA MountRawKnown ==
  ASSUME IInv, NEW e \in Names, MountRaw(e)
  PROVE  Known'
<1>0. /\ UNCHANGED <<wanted, kernel, state, past>> /\ job.step = "mount" /\ job.cur = e /\ e \in Raw
      /\ job \in Job /\ Mounting
  BY DEF MountRaw, At, IInv, Typed, JobOK, Mounting
<1>1. /\ job'.cur = e /\ job'.entry = job.entry /\ job'.cmd = job.cmd /\ job'.moved = job.moved
      /\ job'.step \in {"attach", "reuse", "umount"}
      /\ job'.step = "attach" => ~LiveRef(e)
      /\ job'.step = "reuse" => LiveRef(e) /\ ~BackingChanged(e, job.entry.path)
  BY <1>0 DEF MountRaw, RawPlan, Plan, Job
<1>2. Bare'
  BY <1>0, <1>1 DEF Bare, IInv, Known, Mounting, Active, At, kernel, past
<1>3. InHand'
  BY <1>0, <1>1, ImagesAssumption
     DEF InHand, At, Shows, LiveRef, BackingChanged, Attached, Device, kernel, wanted
<1>4. Elsewhere'
  BY <1>0, <1>1
     DEF Elsewhere, IInv, Known, NoLeak, LiveRef, Attached, Used, Device, At, kernel, past
<1>5. Sweeping' /\ Presents'
  BY <1>0, <1>1, MountsNoSweep DEF Sweeping, Presents, At
<1> QED BY <1>0, <1>2, <1>3, <1>4, <1>5, StillKnown DEF At

\* A mount that fails before it has a device changes none.
LEMMA FailsKnown ==
  ASSUME IInv, NEW e \in Names, DissectFails(e) \/ SetupFails(e)
  PROVE  Known'
<1>0. /\ UNCHANGED <<wanted, kernel, state, past>> /\ job.step \in {"attach", "reuse", "setup"}
      /\ job \in Job /\ Mounting
  BY DEF DissectFails, SetupFails, At, IInv, Typed, JobOK, Mounting
<1>1. /\ job'.cmd = job.cmd /\ job'.moved = job.moved
      /\ job'.entry = job.entry /\ job'.step = "end" /\ job'.ok = FALSE
      /\ job'.faulted \/ ~Usable(job.entry)
  <2>1. EndsByFault \/ (Ends(FALSE) /\ ~Usable(job.entry))
    BY DEF DissectFails, SetupFails, Usable, IInv, Known, InHand, At
  <2> QED BY <1>0, <2>1 DEF EndsByFault, Ends, Job
<1>2. Bare' /\ InHand' /\ Elsewhere'
  BY <1>1 DEF Bare, InHand, Elsewhere, Mounting, At
<1>3. Sweeping' /\ Presents'
  BY <1>0, <1>1, MountsNoSweep DEF Sweeping, Presents, Usable, wanted
<1> QED BY <1>0, <1>2, <1>3, StillKnown DEF At

-----------------------------------------------------------------------------
(* The steps of an unmount *)

\* A mount point with no mount has no layers.
LEMMA BareMount == ASSUME Typed, NEW e \in Names, ~Active(e)
                   PROVE  DOMAIN mnt[e] = {}
  BY DEF Active

\* Unmounting keeps Known: what goes is of devices that are recorded or left, or goes
\* with them.
LEMMA UmountKnown ==
  ASSUME IInv, NEW e \in Names, Umount(e)
  PROVE  Known'
<1>0. /\ UNCHANGED <<wanted, ref, state, left>> /\ job.step = "umount" /\ job.cur = e
      /\ refused' = refused \ {e} /\ lost' = lost \ {e} /\ job \in Job
  BY DEF Umount, At, IInv, Typed, JobOK
<1>1. job'.step = "detach" /\ job'.cur = e /\ job'.cmd = job.cmd /\ job'.drop = job.drop
  BY <1>0 DEF Umount, Go, Job
<1>4. /\ mnt'[e] = <<>> /\ DOMAIN mnt'[e] = {}
      /\ \A x \in Names : x # e => mnt'[x] = mnt[x]
      /\ \A n \in Loops : loop'[n] # loop[n] => loop'[n] = NONE /\ ~Used(mnt', n)
  <2>1. CASE Active(e)
    <3>1. mnt' = [mnt EXCEPT ![e] = <<>>]
      BY <2>1 DEF Umount, Unmounted
    <3>2. /\ mnt'[e] = <<>> /\ DOMAIN mnt'[e] = {}
          /\ \A x \in Names : x # e => mnt'[x] = mnt[x]
      BY <3>1 DEF IInv, Typed, KernelOK
    <3>3. \A n \in Loops : loop'[n] # loop[n] => loop'[n] = NONE /\ ~Used(mnt', n)
      BY <2>1, <3>1 DEF Umount, Unmounted
    <3> QED BY <3>2, <3>3
  <2>2. CASE ~Active(e)
    <3>1. mnt' = mnt /\ loop' = loop /\ mnt[e] = <<>>
      BY <2>2 DEF Umount, Active
    <3> QED BY <3>1
  <2> QED BY <2>1, <2>2
<1>5. LinksTrue'
  BY <1>0, <1>4 DEF LinksTrue, LiveRef, Attached, IInv, Known
<1>6. LayersKnown'
  <2>1. ASSUME NEW x \in Names, NEW k \in DOMAIN mnt'[x]
        PROVE  x # e /\ mnt'[x] = mnt[x] /\ loop'[mnt[x][k].dev] = loop[mnt[x][k].dev]
    <3>1. x # e /\ mnt'[x] = mnt[x]
      BY <1>4
    <3>2. mnt[x][k].dev \in Loops /\ Used(mnt', mnt[x][k].dev)
      BY <3>1, KnownLayers DEF IInv, Used
    <3> QED BY <1>4, <3>1, <3>2
  <2> QED BY <1>0, <2>1 DEF LayersKnown, IInv, Known, Attached, Device
<1>7. TopKnown'
  BY <1>0, <1>4 DEF TopKnown, IInv, Known, Active, Device, Top, At
<1>8. Bare' /\ InHand' /\ Elsewhere' /\ Presents'
  BY <1>1, <1>4 DEF Bare, InHand, Elsewhere, Presents, Active, Mounting, At
<1>9. Sweeping'
  BY <1>0, <1>1, <1>4 DEF Sweeping, IInv, Known, Active, At
<1>10. NoLeak'
  <2>1. ASSUME NEW n \in Loops, Attached(n)'
        PROVE  Used(mnt', n) \/ n \in left \/ \E x \in Names : Device(x) = n
    <3>1. Attached(n)
      BY <1>4, <2>1 DEF Attached
    <3>2. Used(mnt, n) => \/ Used(mnt', n) \/ n \in left \/ Device(e) = n
      BY <1>4 DEF Used, IInv, Known, LayersKnown
    <3> QED BY <1>0, <3>1, <3>2 DEF NoLeak, IInv, Known, At
  <2> QED BY <1>0, <2>1 DEF NoLeak, Device
<1> QED BY <1>5, <1>6, <1>7, <1>8, <1>9, <1>10 DEF Known

\* An unmount that is refused leaves the devices behind, and notes it.
LEMMA UmountFailsKnown ==
  ASSUME IInv, NEW e \in Names, UmountFails(e)
  PROVE  Known'
<1>0. /\ UNCHANGED <<wanted, kernel, state, lost>> /\ job.step = "umount" /\ job.cur = e
      /\ refused' = refused \cup {e} /\ left' = left \cup {mnt[e][k].dev : k \in DOMAIN mnt[e]}
      /\ InTask /\ Active(e) /\ AfterUnmount(FALSE, TRUE)
  BY DEF UmountFails, At, InTask
<1>1. /\ job'.step \in {"end", "mount", "attach"} /\ job'.cur = e /\ job'.why = job.why
      /\ job'.cmd = job.cmd /\ job'.drop = job.drop
      /\ job'.step = "end" <=> job.why = "drop"
      /\ job'.step = "attach" <=> job.why = "replace"
  BY <1>0, AfterUnmountJob DEF IInv
<1>2. LinksTrue' /\ LayersKnown'
  BY <1>0 DEF LinksTrue, LayersKnown, IInv, Known, LiveRef, Attached, Device, kernel
<1>3. TopKnown'
  BY <1>0 DEF TopKnown, IInv, Known, Active, Device, Top, At, kernel
<1>4. Bare' /\ InHand'
  BY <1>0, <1>1 DEF Bare, InHand, At, kernel
<1>5. NoLeak'
  BY <1>0 DEF NoLeak, IInv, Known, Attached, Used, Device, At, kernel
<1>6. Elsewhere'
  <2>1. job.why = "replace" => Used(mnt, Device(e))
    <3>1. job.why = "replace" => Device(e) = Top(e).dev
      BY <1>0 DEF IInv, Typed, JobOK, Known, TopKnown
    <3>2. Used(mnt, Top(e).dev)
      BY <1>0, KnownLayers DEF Used, Top, IInv
    <3> QED BY <3>1, <3>2
  <2> QED BY <1>0, <1>1, <2>1 DEF Elsewhere, NoLeak, IInv, Known, Attached, Used, Device, At, kernel
<1>7. Sweeping' /\ Presents'
  BY <1>0, <1>1 DEF Sweeping, Presents, IInv, Known, Active, At, kernel
<1> QED BY <1>2, <1>3, <1>4, <1>5, <1>6, <1>7 DEF Known

\* What becomes of a device that is released, and of the others.
LEMMA ReleaseEffect ==
  ASSUME Typed, NEW d \in Loops, Attached(d), loop' = Released(d)
  PROVE  /\ \A n \in Loops : n # d => loop'[n] = loop[n]
         /\ ~Used(mnt, d) => loop'[d] = NONE
         /\ Used(mnt, d) => loop'[d] \in LoopStates /\ loop'[d].ref = loop[d].ref
         /\ Used(mnt, d) => /\ loop'[d].path = loop[d].path /\ loop'[d].len = loop[d].len
                            /\ loop'[d].gone = loop[d].gone
<1>1. loop[d] \in LoopStates
  BY DEF Typed, KernelOK, Attached
<1>2. Used(mnt, d) => loop' = [loop EXCEPT ![d] = [loop[d] EXCEPT !.lazy = TRUE]]
  BY DEF Released
<1>3. ~Used(mnt, d) => loop' = [loop EXCEPT ![d] = NONE]
  BY DEF Released
<1>4. \A n \in Loops : n # d => loop'[n] = loop[n]
  BY <1>2, <1>3 DEF Typed, KernelOK
<1>5. ~Used(mnt, d) => loop'[d] = NONE
  BY <1>3 DEF Typed, KernelOK
<1>6. Used(mnt, d) => loop'[d] = [loop[d] EXCEPT !.lazy = TRUE]
  BY <1>2 DEF Typed, KernelOK
<1>7. LET l == [loop[d] EXCEPT !.lazy = TRUE]
      IN  /\ l \in LoopStates /\ l.ref = loop[d].ref /\ l.path = loop[d].path
          /\ l.len = loop[d].len /\ l.gone = loop[d].gone
  BY <1>1 DEF LoopStates
<1> QED BY <1>4, <1>5, <1>6, <1>7

\* Detaching keeps Known: the mount point is empty, so no layer of it depended on the
\* record.
LEMMA DetachKnown ==
  ASSUME IInv, NEW e \in Names, Detach(e)
  PROVE  Known'
<1> DEFINE d == Device(e)
<1>0. /\ UNCHANGED <<wanted, ref, mnt, refused, lost>> /\ job.step = "detach" /\ job.cur = e
      /\ left' = left \ {n \in Loops : loop'[n] = NONE} /\ ~Active(e)
      /\ state' = IF e \in Kab THEN [state EXCEPT ![e] = NONE] ELSE state
      /\ InTask /\ AfterUnmount(TRUE, FALSE)
      /\ d \in Loops /\ Attached(d) /\ loop' = Released(d)
  BY DEF Detach, At, InTask, Attached, IInv, Known, Bare
<1>1. /\ job'.step \in {"end", "mount", "attach"} /\ job'.cur = e /\ job'.why = job.why
      /\ job'.cmd = job.cmd /\ job'.drop = job.drop
      /\ job'.step = "end" <=> job.why = "drop"
      /\ job'.step = "attach" <=> job.why = "replace"
  BY <1>0, AfterUnmountJob DEF IInv
<1>2. /\ \A n \in Loops : n # d => loop'[n] = loop[n]
      /\ ~Used(mnt, d) => loop'[d] = NONE
      /\ Used(mnt, d) => loop'[d] \in LoopStates /\ loop'[d].ref = loop[d].ref
  BY <1>0, ReleaseEffect DEF IInv
<1>3. \A x \in Names : x # e => Device(x)' = Device(x)
  BY <1>0 DEF Device, IInv, Typed, RecordsOK
<1> HIDE DEF d
<1>4. LinksTrue'
  <2>1. ASSUME NEW x \in Raw, LiveRef(x)' PROVE loop'[ref'[x]].ref = x
    <3>1. ref'[x] = ref[x] /\ ref[x] \in Loops /\ loop'[ref[x]] # NONE /\ LiveRef(x)
      BY <1>0, <1>2, <2>1 DEF LiveRef, Attached
    <3> QED BY <1>2, <3>1 DEF LinksTrue, IInv, Known
  <2> QED BY <2>1 DEF LinksTrue
<1>5. LayersKnown'
  <2>1. ASSUME NEW x \in Names, NEW k \in DOMAIN mnt[x]
        PROVE  /\ x # e /\ mnt[x][k].dev \in Loops
               /\ loop'[mnt[x][k].dev] # NONE
               /\ loop'[mnt[x][k].dev].ref = loop[mnt[x][k].dev].ref
    <3>1. x # e
      BY <1>0, BareMount DEF IInv
    <3>2. mnt[x][k].dev \in Loops /\ Used(mnt, mnt[x][k].dev) /\ Attached(mnt[x][k].dev)
      BY KnownLayers DEF IInv, Known, LayersKnown, Used
    <3> QED BY <1>2, <3>1, <3>2, ImagesAssumption DEF Attached
  <2> QED BY <1>0, <1>3, <2>1 DEF LayersKnown, IInv, Known, Attached
<1>6. TopKnown'
  BY <1>0, <1>3 DEF TopKnown, IInv, Known, Active, Top, At
<1>7. Bare' /\ InHand' /\ Presents'
  BY <1>0, <1>1 DEF Bare, InHand, Presents, Active, At
<1>8. Sweeping'
  BY <1>0, <1>1 DEF Sweeping, IInv, Known, Active, At
<1>9. ASSUME NEW n \in Loops, Attached(n)'
      PROVE  \/ Used(mnt, n) \/ n \in left'
             \/ \E x \in Names \ {e} : Device(x)' = n
  <2>1. Attached(n) /\ (n = d => Used(mnt, n))
    BY <1>0, <1>2, <1>9 DEF Attached
  <2> QED BY <1>0, <1>3, <1>9, <2>1 DEF NoLeak, IInv, Known, Attached, At, d
<1>10. NoLeak' /\ Elsewhere'
  BY <1>0, <1>1, <1>9 DEF NoLeak, Elsewhere, At
<1> QED BY <1>4, <1>5, <1>6, <1>7, <1>8, <1>10 DEF Known

\* So does a detach that the kernel did not do.
LEMMA DetachKeptKnown ==
  ASSUME IInv, NEW e \in Names, DetachKept(e)
  PROVE  Known'
<1>0. /\ UNCHANGED <<wanted, kernel, refused, lost>> /\ job.step = "detach" /\ job.cur = e
      /\ left' = left \cup {Device(e)} /\ ~Active(e)
      /\ (state' = state \/ (e \in Kab /\ state' = [state EXCEPT ![e] = NONE]))
      /\ InTask /\ \E ok \in BOOLEAN : AfterUnmount(ok, TRUE)
  <2>1. /\ UNCHANGED <<wanted, kernel, refused, lost>> /\ job.step = "detach" /\ job.cur = e
        /\ left' = left \cup {Device(e)} /\ InTask
    BY DEF DetachKept, At, InTask
  <2>2. ~Active(e)
    BY <2>1 DEF IInv, Known, Bare, At
  <2>3. PICK told \in BOOLEAN :
          /\ AfterUnmount(~told, TRUE)
          /\ state' = IF e \in Kab /\ ~told THEN [state EXCEPT ![e] = NONE] ELSE state
    BY DEF DetachKept
  <2>4. (~told) \in BOOLEAN
    OBVIOUS
  <2>5. state' = state \/ (e \in Kab /\ state' = [state EXCEPT ![e] = NONE])
    BY <2>3
  <2> QED BY <2>1, <2>2, <2>3, <2>4, <2>5
<1>1. /\ job'.step \in {"end", "mount", "attach"} /\ job'.cur = e /\ job'.why = job.why
      /\ job'.cmd = job.cmd /\ job'.drop = job.drop
      /\ job'.step = "end" <=> job.why = "drop"
      /\ job'.step = "attach" <=> job.why = "replace"
  BY <1>0, AfterUnmountJob DEF IInv
<1>2. \A x \in Names : x # e => Device(x)' = Device(x)
  BY <1>0 DEF Device, IInv, Typed, RecordsOK, kernel
<1>3. LinksTrue'
  BY <1>0 DEF LinksTrue, IInv, Known, LiveRef, Attached, kernel
<1>4. LayersKnown'
  BY <1>0, <1>2, BareMount DEF LayersKnown, IInv, Known, Attached, kernel
<1>5. TopKnown'
  BY <1>0, <1>2 DEF TopKnown, IInv, Known, Active, Top, At, kernel
<1>6. Bare' /\ InHand' /\ Presents'
  BY <1>0, <1>1 DEF Bare, InHand, Presents, Active, At, kernel
<1>7. Sweeping'
  BY <1>0, <1>1 DEF Sweeping, IInv, Known, Active, At, kernel
<1>8. ASSUME NEW n \in Loops, Attached(n)
      PROVE  \/ Used(mnt, n) \/ n \in left'
             \/ \E x \in Names \ {e} : Device(x)' = n
  BY <1>0, <1>2, <1>8 DEF NoLeak, IInv, Known, At
<1>9. NoLeak' /\ Elsewhere'
  BY <1>0, <1>1, <1>8 DEF NoLeak, Elsewhere, Attached, At, kernel
<1> QED BY <1>3, <1>4, <1>5, <1>6, <1>7, <1>9 DEF Known

-----------------------------------------------------------------------------
(* The steps of a mount *)

\* What becomes of the devices and links when one is attached.
LEMMA AttachEffect ==
  ASSUME Typed, NEW e \in Names, NEW n \in Free, NEW path \in Paths, Attach(e, n, path),
         disk[path] \in Lengths
  PROVE  /\ n \in Loops /\ ~Attached(n)
         /\ loop'[n] # NONE /\ loop'[n].path = path /\ loop'[n].len = disk[path] /\ ~loop'[n].gone
         /\ loop'[n].ref = IF e \in Raw THEN e ELSE NONE
         /\ \A m \in Loops : m # n => loop'[m] = loop[m]
         /\ e \in Raw => ref'[e] = n
         /\ \A x \in Names : x # e => ref'[x] = IF ref[x] = n THEN NONE ELSE ref[x]
         /\ e \notin Raw => \A x \in Names : ref'[x] = IF ref[x] = n THEN NONE ELSE ref[x]
<1> DEFINE l == [path |-> path, len |-> disk[path], gone |-> FALSE, lazy |-> FALSE,
                 ref |-> IF e \in Raw THEN e ELSE NONE]
<1>1. /\ l \in LoopStates /\ l.path = path /\ l.len = disk[path] /\ ~l.gone
      /\ l.ref = IF e \in Raw THEN e ELSE NONE
  BY DEF LoopStates
<1>2. loop' = [loop EXCEPT ![n] = l] /\ n \in Loops /\ ~Attached(n)
  BY DEF Attach, Free, Attached
<1> HIDE DEF l
<1>3. loop'[n] = l /\ \A m \in Loops : m # n => loop'[m] = loop[m]
  BY <1>2 DEF Typed, KernelOK
<1>4. l # NONE
  BY <1>1, ImagesAssumption
<1>5. \A x \in Names : ref'[x] = IF x = e /\ e \in Raw THEN n
                                 ELSE IF ref[x] = n THEN NONE ELSE ref[x]
  BY DEF Attach
<1> QED BY <1>1, <1>2, <1>3, <1>4, <1>5

\* What becomes of the mount points when one is mounted on.
LEMMA MountEffect ==
  ASSUME Typed, NEW e \in Names, NEW n \in Loops, NEW verity \in BOOLEAN, MountOn(e, n, verity)
  PROVE  /\ mnt'[e] # <<>> /\ mnt'[e][Len(mnt'[e])].dev = n
         /\ mnt'[e][Len(mnt'[e])].verity = verity
         /\ \A k \in DOMAIN mnt'[e] : \/ mnt'[e][k].dev = n
                                      \/ k \in DOMAIN mnt[e] /\ mnt'[e][k] = mnt[e][k]
         /\ \A x \in Names : x # e => mnt'[x] = mnt[x]
         /\ Used(mnt', n) /\ \A m : Used(mnt, m) => Used(mnt', m)
<1> DEFINE S == [dev : Loops, verity : BOOLEAN]
           y == [dev |-> n, verity |-> verity]
<1>1. y \in S /\ y.dev = n /\ y.verity = verity /\ mnt[e] \in Seq(S)
  BY KnownLayers
<1>2. mnt' = [mnt EXCEPT ![e] = Append(mnt[e], y)]
  BY DEF MountOn
<1>3. mnt'[e] = Append(mnt[e], y) /\ \A x \in Names : x # e => mnt'[x] = mnt[x]
  BY <1>2 DEF Typed, KernelOK
<1> HIDE DEF S, y
<1>4. /\ Len(mnt[e]) \in Nat /\ DOMAIN mnt[e] = 1..Len(mnt[e])
      /\ DOMAIN mnt'[e] = 1..Len(mnt[e]) + 1 /\ \A k \in 1..Len(mnt[e]) : mnt'[e][k] = mnt[e][k]
      /\ mnt'[e][Len(mnt[e]) + 1] = y /\ Len(mnt'[e]) = Len(mnt[e]) + 1 /\ mnt'[e] # <<>>
  BY <1>1, <1>3, AppendLayer, LayerTypes
<1>5. \A k \in DOMAIN mnt'[e] : mnt'[e][k] = y \/ (k \in DOMAIN mnt[e] /\ mnt'[e][k] = mnt[e][k])
  BY <1>4
<1>6. Len(mnt[e]) + 1 \in DOMAIN mnt'[e]
  BY <1>4
<1>7. Used(mnt', n)
  BY <1>1, <1>4, <1>6 DEF Used
<1>8. ASSUME NEW m, Used(mnt, m) PROVE Used(mnt', m)
  <2>1. PICK x \in Names : \E k \in DOMAIN mnt[x] : mnt[x][k].dev = m
    BY <1>8 DEF Used
  <2>2. \A k \in DOMAIN mnt[x] : k \in DOMAIN mnt'[x] /\ mnt'[x][k] = mnt[x][k]
    BY <1>3, <1>4
  <2> QED BY <2>1, <2>2 DEF Used
<1> QED BY <1>1, <1>3, <1>4, <1>5, <1>7, <1>8

\* A mount from the recorded device leaves every layer known and the top recorded.
LEMMA MountedLayers ==
  ASSUME IInv, NEW e \in Names, Mounting, job.cur = e, NEW n \in Loops, NEW verity \in BOOLEAN,
         MountOn(e, n, verity), loop'[n] # NONE, loop'[n].ref = IF e \in Raw THEN e ELSE NONE,
         Device(e)' = n, \A m \in Loops : Attached(m) => loop'[m] = loop[m],
         \A x \in Names : x # e /\ Active(x) => Device(x)' = Device(x),
         left' = left, refused' = refused, lost' \in {lost, lost \ {e}}
  PROVE  LayersKnown' /\ TopKnown'
<1>1. /\ mnt'[e] # <<>> /\ mnt'[e][Len(mnt'[e])].dev = n
      /\ \A k \in DOMAIN mnt'[e] : \/ mnt'[e][k].dev = n
                                   \/ k \in DOMAIN mnt[e] /\ mnt'[e][k] = mnt[e][k]
      /\ \A x \in Names : x # e => mnt'[x] = mnt[x]
  BY MountEffect DEF IInv
<1>2. ASSUME NEW x \in Names, NEW k \in DOMAIN mnt[x]
      PROVE  /\ mnt[x][k].dev \in Loops /\ loop'[mnt[x][k].dev] = loop[mnt[x][k].dev]
             /\ loop[mnt[x][k].dev] # NONE
             /\ loop[mnt[x][k].dev].ref = IF x \in Raw THEN x ELSE NONE
             /\ mnt[x][k].dev \in left \/ (x # e /\ mnt[x][k].dev = Device(x))
             /\ Active(x)
  <2>1. Active(x)
    BY BareMount DEF IInv
  <2>2. mnt[x][k].dev \in Loops /\ Attached(mnt[x][k].dev)
    BY KnownLayers DEF IInv, Known, LayersKnown
  <2> QED BY <2>1, <2>2 DEF IInv, Known, LayersKnown, Bare, Attached
<1>3. LayersKnown'
  <2>1. ASSUME NEW x \in Names, NEW k \in DOMAIN mnt'[x]
        PROVE  /\ mnt'[x][k].dev \in Loops /\ loop'[mnt'[x][k].dev] # NONE
               /\ loop'[mnt'[x][k].dev].ref = IF x \in Raw THEN x ELSE NONE
               /\ mnt'[x][k].dev \in left \/ mnt'[x][k].dev = Device(x)'
    <3>1. CASE x # e
      BY <1>1, <1>2, <3>1
    <3>2. CASE x = e /\ mnt'[x][k].dev = n
      BY <3>2
    <3>3. CASE x = e /\ k \in DOMAIN mnt[e] /\ mnt'[e][k] = mnt[e][k]
      BY <1>2, <3>3
    <3> QED BY <1>1, <3>1, <3>2, <3>3
  <2> QED BY <2>1 DEF LayersKnown, Attached
<1>4. TopKnown'
  <2>1. ASSUME NEW x \in Names, Active(x)'
        PROVE  /\ x \in Raw => Device(x)' = Top(x)'.dev
               /\ Device(x)' = NONE => x \in refused'
               /\ \/ Device(x)' \in {NONE, Top(x)'.dev}
                  \/ x \in lost'
    <3>1. CASE x = e
      BY <1>1, <3>1, ImagesAssumption DEF Top
    <3>2. CASE x # e
      BY <1>1, <2>1, <3>2 DEF IInv, Known, TopKnown, Active, Top
    <3> QED BY <3>1, <3>2
  <2> QED BY <2>1 DEF TopKnown
<1> QED BY <1>3, <1>4

\* A .raw image mounted from its file: the device is new, and the link leads to it.
LEMMA DissectFileKnown ==
  ASSUME IInv, NEW e \in Names, DissectFile(e)
  PROVE  Known'
<1>0. /\ job.step = "attach" /\ job.cur = e /\ e \in Raw /\ Mounting /\ job \in Job
      /\ disk[job.entry.path] \in Lengths
      /\ UNCHANGED <<wanted, state, past>> /\ Ends(TRUE)
  BY DEF DissectFile, Usable, At, IInv, Typed, JobOK, Mounting
<1>1. /\ job.cmd # "sweep" /\ job.why # "drop" /\ job.entry.path \in Paths
      /\ job.entry.verity \in BOOLEAN
  BY <1>0, MountsNoSweep
<1>2. PICK n \in Free : Attach(e, n, job.entry.path) /\ MountOn(e, n, job.entry.verity)
  BY DEF DissectFile
<1>3. /\ n \in Loops /\ ~Attached(n)
      /\ loop'[n] # NONE /\ loop'[n].path = job.entry.path /\ loop'[n].len = disk[job.entry.path]
      /\ ~loop'[n].gone /\ loop'[n].ref = e
      /\ \A m \in Loops : m # n => loop'[m] = loop[m]
      /\ ref'[e] = n
      /\ \A x \in Names : x # e => ref'[x] = IF ref[x] = n THEN NONE ELSE ref[x]
  BY <1>0, <1>1, <1>2, AttachEffect DEF IInv
<1>4. /\ mnt'[e] # <<>> /\ mnt'[e][Len(mnt'[e])].dev = n
      /\ mnt'[e][Len(mnt'[e])].verity = job.entry.verity
      /\ Used(mnt', n) /\ \A m : Used(mnt, m) => Used(mnt', m)
  BY <1>1, <1>2, <1>3, MountEffect DEF IInv
<1>5. /\ job'.step = "end" /\ job'.ok /\ job'.cmd = job.cmd /\ job'.cur = e
      /\ job'.entry = job.entry
  BY <1>0 DEF Ends, Job
<1>6. \A x \in Names, m \in Loops : x # e /\ Attached(m) /\ Device(x) = m => Device(x)' = m
  BY <1>0, <1>3 DEF Device
<1>7. LayersKnown' /\ TopKnown'
  <2>1. \A m \in Loops : Attached(m) => loop'[m] = loop[m]
    BY <1>3
  <2>2. Device(e)' = n
    BY <1>0, <1>3 DEF Device
  <2>3. ASSUME NEW x \in Names, x # e, Active(x) PROVE Device(x)' = Device(x)
    <3>1. CASE x \in Raw
      <4>1. Attached(Device(x)) /\ Device(x) \in Loops
        BY <2>3, <3>1, KnownLayers DEF IInv, Known, TopKnown, LayersKnown, Top
      <4> QED BY <1>6, <2>3, <4>1
    <3>2. CASE x \notin Raw
      BY <1>0, <3>2 DEF Device
    <3> QED BY <3>1, <3>2
  <2>4. left' = left /\ refused' = refused /\ lost' = lost
    BY <1>0 DEF past
  <2> QED BY <1>0, <1>1, <1>2, <1>3, <2>1, <2>2, <2>3, <2>4, MountedLayers
<1>8. LinksTrue'
  <2>1. ASSUME NEW x \in Raw, LiveRef(x)' PROVE loop'[ref'[x]].ref = x
    <3>1. CASE x = e
      BY <1>3, <3>1
    <3>2. CASE x # e
      <4>1. ref'[x] = ref[x] /\ ref[x] # n /\ ref[x] \in Loops /\ loop'[ref[x]] # NONE
        BY <1>3, <2>1, <3>2, ImagesAssumption DEF LiveRef, Attached, Names
      <4>2. loop'[ref[x]] = loop[ref[x]] /\ LiveRef(x)
        BY <1>3, <4>1 DEF LiveRef, Attached
      <4> QED BY <4>1, <4>2 DEF LinksTrue, IInv, Known
    <3> QED BY <3>1, <3>2
  <2> QED BY <2>1 DEF LinksTrue
<1>9. Bare' /\ InHand' /\ Elsewhere' /\ Sweeping'
  BY <1>1, <1>5 DEF Bare, InHand, Elsewhere, Sweeping, Mounting, At
<1>10. Presents'
  BY <1>0, <1>3, <1>4, <1>5 DEF Presents, Active, Top, At, wanted
<1>11. NoLeak'
  <2>1. ASSUME NEW m \in Loops, Attached(m)'
        PROVE  Used(mnt', m) \/ m \in left \/ \E x \in Names : Device(x)' = m
    <3>1. CASE m = n
      BY <1>4, <3>1
    <3>2. CASE m # n
      <4>1. Attached(m)
        BY <1>3, <2>1, <3>2 DEF Attached
      <4> QED BY <1>0, <1>4, <1>6, <4>1 DEF Elsewhere, IInv, Known, At
    <3> QED BY <3>1, <3>2
  <2> QED BY <1>0, <2>1 DEF NoLeak, past
<1> QED BY <1>7, <1>8, <1>9, <1>10, <1>11 DEF Known

\* An image mounted from a device that is attached: through its link, or the one set up
\* for it.
LEMMA DissectLoopKnown ==
  ASSUME IInv, NEW e \in Names, DissectLoop(e) \/ DissectKab(e)
  PROVE  Known'
<1> DEFINE n == Device(e)
<1>0. /\ job.step \in {"reuse", "dissect"} /\ job.cur = e /\ Mounting /\ job \in Job
      /\ UNCHANGED <<wanted, loop, ref, state, refused, left>> /\ Ends(TRUE)
      /\ lost' \in {lost, lost \ {e}}
  BY DEF DissectLoop, DissectKab, At, IInv, Typed, JobOK, Mounting, past
<1>1. /\ job.cmd # "sweep" /\ job.why # "drop" /\ job.entry.path \in Paths
      /\ job.entry.verity \in BOOLEAN
  BY <1>0, MountsNoSweep
<1>2. /\ MountOn(e, n, job.entry.verity) /\ Attached(n) /\ n \in Loops
      /\ loop[n].ref = IF e \in Raw THEN e ELSE NONE
      /\ job.moved \/ Shows(n)
  <2>1. CASE DissectLoop(e)
    <3>1. At("reuse") /\ e \in Raw
      BY <2>1 DEF DissectLoop, At, IInv, Typed, JobOK
    <3> QED BY <2>1, <3>1
            DEF DissectLoop, Device, LiveRef, Attached, IInv, Known, LinksTrue, InHand, At
  <2>2. CASE DissectKab(e)
    <3>1. At("dissect") /\ e \in Kab /\ e \notin Raw
      BY <2>2, ImagesAssumption DEF DissectKab, At, IInv, Typed, JobOK
    <3>2. n = job.dev /\ Attached(job.dev) /\ loop[job.dev].ref = NONE
          /\ (job.moved \/ Shows(job.dev))
      BY <2>2, <3>1 DEF DissectKab, Device, IInv, Known, InHand, At
    <3>3. MountOn(e, job.dev, job.entry.verity)
      BY <2>2 DEF DissectKab
    <3>4. job.dev \in Loops
      BY <3>2 DEF Attached
    <3> HIDE DEF n
    <3> QED BY <3>1, <3>2, <3>3, <3>4
  <2> QED BY <2>1, <2>2
<1>3. /\ mnt'[e] # <<>> /\ mnt'[e][Len(mnt'[e])].dev = n
      /\ mnt'[e][Len(mnt'[e])].verity = job.entry.verity
      /\ Used(mnt', n) /\ \A m : Used(mnt, m) => Used(mnt', m)
  BY <1>1, <1>2, MountEffect DEF IInv
<1>4. /\ job'.step = "end" /\ job'.ok /\ job'.cmd = job.cmd /\ job'.cur = e
      /\ job'.entry = job.entry /\ job'.moved = job.moved
  BY <1>0 DEF Ends, Job
<1>5. \A x \in Names : Device(x)' = Device(x)
  BY <1>0 DEF Device
<1>6. LayersKnown' /\ TopKnown'
  <2>1. loop'[n] # NONE /\ loop'[n].ref = IF e \in Raw THEN e ELSE NONE
    BY <1>0, <1>2 DEF Attached
  <2>2. Device(e)' = n
    BY <1>5
  <2>3. left' = left /\ refused' = refused /\ \A m \in Loops : Attached(m) => loop'[m] = loop[m]
    BY <1>0
  <2>4. \A x \in Names : x # e /\ Active(x) => Device(x)' = Device(x)
    BY <1>5
  <2> HIDE DEF n
  <2> QED BY <1>0, <1>1, <1>2, <2>1, <2>2, <2>3, <2>4, MountedLayers
<1>7. LinksTrue'
  BY <1>0 DEF LinksTrue, LiveRef, Attached, IInv, Known
<1>8. Bare' /\ InHand' /\ Elsewhere' /\ Sweeping'
  BY <1>1, <1>4 DEF Bare, InHand, Elsewhere, Sweeping, Mounting, At
<1>9. Presents'
  BY <1>0, <1>2, <1>3, <1>4 DEF Presents, Active, Top, At, wanted, Shows
<1>10. NoLeak'
  <2>1. ASSUME NEW m \in Loops, Attached(m)'
        PROVE  Used(mnt', m) \/ m \in left \/ \E x \in Names : Device(x)' = m
    BY <1>0, <1>3, <1>5, <2>1 DEF NoLeak, IInv, Known, At, Attached
  <2> QED BY <1>0, <2>1 DEF NoLeak
<1> QED BY <1>6, <1>7, <1>8, <1>9, <1>10 DEF Known

\* Before a .kab gets a new device the recorded one is released or left.
LEMMA MountKabKnown ==
  ASSUME IInv, NEW e \in Names, MountKab(e) \/ MountKabBeside(e)
  PROVE  Known'
<1>0. /\ UNCHANGED <<wanted, ref, mnt, state, refused, lost>> /\ job.step = "mount"
      /\ job.cur = e /\ e \in Kab /\ e \notin Raw /\ Mounting /\ job \in Job
  BY ImagesAssumption
     DEF MountKab, MountKabBeside, At, IInv, Typed, JobOK, Mounting, kernel
<1>1. job.cmd # "sweep"
  BY <1>0, MountsNoSweep
<1>2. \A x \in Names : Device(x)' = Device(x)
  BY <1>0 DEF Device
<1>3. ASSUME Ends(FALSE), disk[job.entry.path] \notin Lengths, UNCHANGED <<loop, left>>
      PROVE  Known'
  <2>1. /\ job'.step = "end" /\ job'.ok = FALSE /\ job'.cmd = job.cmd
        /\ job'.entry = job.entry
    BY <1>0, <1>3 DEF Ends, Job
  <2>2. Bare' /\ InHand' /\ Elsewhere' /\ Sweeping' /\ Presents'
    BY <1>0, <1>1, <1>3, <2>1
       DEF Bare, InHand, Elsewhere, Sweeping, Presents, Usable, Mounting, At, wanted
  <2> QED BY <1>0, <1>3, <2>2, StillKnown DEF At, kernel, past
<1>4. ASSUME job'.step = "setup", job'.cmd = job.cmd, job'.cur = e,
             \A n \in Loops : loop'[n] # loop[n] =>
               IF Used(mnt, n) THEN loop'[n] # NONE /\ loop'[n].ref = loop[n].ref
               ELSE loop'[n] = NONE,
             \A n \in Loops : Used(mnt, n) /\ n \in left => n \in left',
             \A n \in Loops : n \in left /\ loop'[n] # NONE => n \in left',
             \A n \in Loops : Attached(n) /\ loop'[n] # NONE /\ state[e] = n
                                => Used(mnt, n) \/ n \in left'
      PROVE  Known'
  <2>1. ASSUME NEW n \in Loops, Attached(n)' PROVE Attached(n) /\ loop'[n].ref = loop[n].ref
    <3>1. Used(mnt, n) => Attached(n)
      BY DEF Used, IInv, Known, LayersKnown
    <3>2. loop'[n] # NONE
      BY <2>1 DEF Attached
    <3> QED BY <1>4, <3>1, <3>2 DEF Attached
  <2>2. ASSUME NEW n \in Loops, Attached(n), Used(mnt, n)
        PROVE  Attached(n)' /\ loop'[n].ref = loop[n].ref
    BY <1>4, <2>2 DEF Attached
  <2>3. LinksTrue'
    <3>1. ASSUME NEW x \in Raw, LiveRef(x)' PROVE loop'[ref'[x]].ref = x
      <4>1. Attached(ref[x])' /\ ref[x] \in Loops
        BY <1>0, <3>1 DEF LiveRef, Attached
      <4> QED BY <1>0, <2>1, <4>1 DEF LinksTrue, LiveRef, IInv, Known
    <3> QED BY <3>1 DEF LinksTrue
  <2>4. ASSUME NEW x \in Names, NEW k \in DOMAIN mnt[x]
        PROVE  mnt[x][k].dev \in Loops /\ Used(mnt, mnt[x][k].dev)
    BY KnownLayers DEF IInv, Used
  <2>5. LayersKnown'
    BY <1>0, <1>2, <1>4, <2>2, <2>4 DEF LayersKnown, IInv, Known
  <2>6. TopKnown'
    BY <1>0, <1>2 DEF TopKnown, IInv, Known, Active, Top, At
  <2>7. Bare'
    BY <1>0, <1>4, <2>4 DEF Bare, IInv, Known, Mounting, Active, At
  <2>8. InHand' /\ Sweeping' /\ Presents'
    BY <1>1, <1>4 DEF InHand, Sweeping, Presents, At
  <2>9. ASSUME NEW n \in Loops, Attached(n)'
        PROVE  Used(mnt, n) \/ n \in left' \/ \E x \in Names \ {e} : Device(x)' = n
    <3>1. Attached(n) /\ loop'[n] # NONE
      BY <2>1, <2>9 DEF Attached
    <3>2. Device(e) = n => Used(mnt, n) \/ n \in left'
      BY <1>0, <1>4, <3>1 DEF Device
    <3> QED BY <1>0, <1>2, <1>4, <3>1, <3>2 DEF NoLeak, IInv, Known, At
  <2>10. Elsewhere' /\ NoLeak'
    BY <1>0, <1>4, <2>9 DEF Elsewhere, NoLeak
  <2> QED BY <2>3, <2>5, <2>6, <2>7, <2>8, <2>10 DEF Known
<1>5. CASE MountKab(e) /\ disk[job.entry.path] \in Lengths
  <2>1. /\ Go("setup") /\ loop' = IF Attached(state[e]) THEN Released(state[e]) ELSE loop
        /\ left' = left \ {n \in Loops : loop'[n] = NONE}
    BY <1>5 DEF MountKab
  <2>2. job'.step = "setup" /\ job'.cmd = job.cmd /\ job'.cur = e
    BY <1>0, <2>1 DEF Go, Job
  <2>3. \A n \in Loops : loop'[n] # loop[n] =>
          IF Used(mnt, n) THEN loop'[n] # NONE /\ loop'[n].ref = loop[n].ref
          ELSE loop'[n] = NONE
    <3>1. CASE Attached(state[e])
      BY <2>1, <3>1, ReleaseEffect, ImagesAssumption DEF IInv, Attached
    <3> QED BY <2>1, <3>1
  <2>4. \A n \in Loops : Used(mnt, n) => loop'[n] # NONE
    <3>1. \A n \in Loops : Used(mnt, n) => loop[n] # NONE
      BY DEF IInv, Known, LayersKnown, Used, Attached
    <3> QED BY <2>3, <3>1
  <2>5. \A n \in Loops : Attached(n) /\ loop'[n] # NONE /\ state[e] = n => Used(mnt, n)
    BY <2>1, ReleaseEffect DEF IInv, Attached
  <2> QED BY <1>4, <2>1, <2>2, <2>3, <2>4, <2>5
<1>6. CASE MountKabBeside(e)
  <2>1. /\ job'.step = "setup" /\ job'.cmd = job.cmd /\ job'.cur = e
        /\ loop' = loop /\ left' = left \cup {state[e]}
    BY <1>0, <1>6 DEF MountKabBeside, Job, kernel
  <2> QED BY <1>4, <2>1
<1> QED BY <1>3, <1>5, <1>6 DEF MountKab

\* The device set up for a .kab has no record yet but the job.
LEMMA SetupKnown ==
  ASSUME IInv, NEW e \in Names, Setup(e)
  PROVE  Known'
<1>0. /\ job.step = "setup" /\ job.cur = e /\ e \in Kab /\ e \notin Raw /\ Mounting /\ job \in Job
      /\ disk[job.entry.path] \in Lengths /\ UNCHANGED <<wanted, mnt, state, past>>
  BY ImagesAssumption DEF Setup, At, IInv, Typed, JobOK, Mounting
<1>1. job.cmd # "sweep" /\ job.entry.path \in Paths
  BY <1>0, MountsNoSweep
<1>2. PICK n \in Free : /\ Attach(e, n, job.entry.path)
                        /\ job' = [job EXCEPT !.step = "save", !.dev = n]
  BY DEF Setup
<1>3. /\ n \in Loops /\ ~Attached(n)
      /\ loop'[n] # NONE /\ loop'[n].path = job.entry.path /\ loop'[n].len = disk[job.entry.path]
      /\ ~loop'[n].gone /\ loop'[n].ref = NONE
      /\ \A m \in Loops : m # n => loop'[m] = loop[m]
      /\ \A x \in Names : ref'[x] = IF ref[x] = n THEN NONE ELSE ref[x]
  BY <1>0, <1>1, <1>2, AttachEffect DEF IInv
<1>4. /\ job'.step = "save" /\ job'.cmd = job.cmd /\ job'.cur = e /\ job'.dev = n
      /\ job'.entry = job.entry
  BY <1>0, <1>2 DEF Job
<1>5. \A x \in Names, m \in Loops : Attached(m) /\ Device(x) = m => Device(x)' = m
  BY <1>0, <1>3 DEF Device
<1>6. LinksTrue'
  <2>1. ASSUME NEW x \in Raw, LiveRef(x)' PROVE loop'[ref'[x]].ref = x
    <3>1. ref'[x] = ref[x] /\ ref[x] # n /\ ref[x] \in Loops /\ loop'[ref[x]] # NONE
      BY <1>3, <2>1, ImagesAssumption DEF LiveRef, Attached, Names
    <3>2. loop'[ref[x]] = loop[ref[x]] /\ LiveRef(x)
      BY <1>3, <3>1 DEF LiveRef, Attached
    <3> QED BY <3>1, <3>2 DEF LinksTrue, IInv, Known
  <2> QED BY <2>1 DEF LinksTrue
<1>7. ASSUME NEW x \in Names, NEW k \in DOMAIN mnt[x]
      PROVE  mnt[x][k].dev \in Loops /\ Attached(mnt[x][k].dev)
  BY KnownLayers DEF IInv, Known, LayersKnown
<1>8. LayersKnown'
  <2>1. ASSUME NEW x \in Names, NEW k \in DOMAIN mnt[x]
        PROVE  /\ Attached(mnt[x][k].dev)' /\ loop'[mnt[x][k].dev] = loop[mnt[x][k].dev]
               /\ mnt[x][k].dev = Device(x) => mnt[x][k].dev = Device(x)'
    <3> DEFINE d == mnt[x][k].dev
    <3>1. d \in Loops /\ Attached(d)
      BY <1>7
    <3>2. mnt[x][k].dev = Device(x) => mnt[x][k].dev = Device(x)'
      BY <1>5, <3>1
    <3> HIDE DEF d
    <3>3. loop'[d] = loop[d] /\ loop'[d] # NONE
      BY <1>3, <3>1 DEF Attached
    <3> QED BY <1>0, <3>1, <3>2, <3>3 DEF Attached, d
  <2> QED BY <1>0, <2>1 DEF LayersKnown, IInv, Known, past
<1>9. TopKnown'
  <2>1. ASSUME NEW x \in Names, Active(x) PROVE Device(x)' = Device(x)
    <3>1. CASE x \in Raw
      <4>1. Attached(Device(x)) /\ Device(x) \in Loops
        BY <2>1, <3>1, <1>7, KnownLayers DEF IInv, Known, TopKnown, Top
      <4> QED BY <1>5, <4>1
    <3>2. CASE x \notin Raw
      BY <1>0, <3>2 DEF Device
    <3> QED BY <3>1, <3>2
  <2> QED BY <1>0, <2>1 DEF TopKnown, IInv, Known, Active, Top, At, past
<1>10. Bare'
  BY <1>0, <1>4 DEF Bare, IInv, Known, Mounting, Active, At, past
<1>11. InHand'
  BY <1>0, <1>3, <1>4 DEF InHand, Shows, Attached, At, wanted
<1>12. ASSUME NEW m \in Loops, Attached(m)'
       PROVE  \/ Used(mnt, m) \/ m \in left \/ m = n
              \/ \E x \in Names \ {e} : Device(x)' = m
  <2>1. CASE m # n
    <3>1. Attached(m)
      BY <1>3, <1>12, <2>1 DEF Attached
    <3> QED BY <1>0, <1>5, <3>1 DEF Elsewhere, IInv, Known, At
  <2> QED BY <2>1
<1>13. Elsewhere' /\ NoLeak'
  BY <1>0, <1>4, <1>12 DEF Elsewhere, NoLeak, At, past
<1>14. Sweeping' /\ Presents'
  BY <1>1, <1>4 DEF Sweeping, Presents, At
<1> QED BY <1>6, <1>8, <1>9, <1>10, <1>11, <1>13, <1>14 DEF Known

\* The state file is written, or not, or truncated; the device has a record or is left.
LEMMA SaveKnown ==
  ASSUME IInv, NEW e \in Names, Save(e) \/ SaveFails(e)
  PROVE  Known'
<1>0. /\ UNCHANGED <<wanted, kernel, refused>> /\ job.step = "save" /\ job.cur = e /\ e \in Kab
      /\ e \notin Raw /\ Mounting /\ job \in Job
  BY ImagesAssumption DEF Save, SaveFails, At, IInv, Typed, JobOK, Mounting, past
<1>1. job.cmd # "sweep" /\ job.dev \in Loops /\ Attached(job.dev) /\ job.dev # NONE
  BY <1>0, MountsNoSweep, ImagesAssumption DEF IInv, Typed, JobOK, Known, InHand
<1>2. \/ /\ state' = [state EXCEPT ![e] = job.dev] /\ left' = left /\ lost' = lost
         /\ Go("dissect")
      \/ /\ left' = left \cup {job.dev} /\ EndsByFault
         /\ \/ state' = state /\ lost' = lost
            \/ /\ state' = [state EXCEPT ![e] = Empty]
               /\ lost' = IF Active(e) THEN lost \cup {e} ELSE lost
  BY DEF Save, SaveFails, past
<1>3. /\ job'.cmd = job.cmd /\ job'.entry = job.entry /\ job'.moved = job.moved /\ job'.cur = e
      /\ job'.dev = job.dev
      /\ \/ /\ job'.step = "dissect" /\ left' = left /\ lost' = lost
            /\ state' = [state EXCEPT ![e] = job.dev]
         \/ /\ job'.step = "end" /\ job'.faulted /\ ~job'.ok /\ left' = left \cup {job.dev}
            /\ \/ state' = state /\ lost' = lost
               \/ /\ state' = [state EXCEPT ![e] = Empty]
                  /\ lost' = IF Active(e) THEN lost \cup {e} ELSE lost
  BY <1>0, <1>2 DEF Go, EndsByFault, Job
<1>4. /\ \A x \in Names : x # e => Device(x)' = Device(x)
      /\ Device(e)' \in {Device(e), job.dev, Empty}
      /\ job'.step = "dissect" => Device(e)' = job.dev
  BY <1>0, <1>3 DEF Device, IInv, Typed, RecordsOK, kernel
<1>5. LinksTrue'
  BY <1>0 DEF LinksTrue, LiveRef, Attached, IInv, Known, kernel
<1>6. LayersKnown'
  <2>1. ASSUME NEW x \in Names, NEW k \in DOMAIN mnt[x]
        PROVE  mnt[x][k].dev \in left' \/ mnt[x][k].dev = Device(x)'
    <3>1. Active(x)
      BY BareMount DEF IInv
    <3> QED BY <1>0, <1>3, <1>4, <3>1 DEF LayersKnown, Bare, IInv, Known
  <2> QED BY <1>0, <2>1 DEF LayersKnown, Attached, IInv, Known, kernel
<1>7. TopKnown'
  <2>1. ASSUME NEW x \in Names, Active(x)
        PROVE  /\ x \in Raw => Device(x)' = Top(x).dev
               /\ Device(x)' = NONE => x \in refused
               /\ \/ Device(x)' \in {NONE, Top(x).dev}
                  \/ x \in lost'
                  \/ job'.step = "dissect" /\ x = e
    <3>1. CASE x # e
      BY <1>0, <1>3, <1>4, <2>1, <3>1 DEF TopKnown, IInv, Known, At
    <3>2. CASE x = e /\ job'.step = "dissect"
      BY <1>0, <1>1, <1>4, <3>2
    <3>3. CASE x = e /\ state' = state
      BY <1>0, <1>3, <2>1, <3>3 DEF TopKnown, IInv, Known, At, Device, kernel
    <3>4. CASE x = e /\ state' = [state EXCEPT ![e] = Empty] /\ e \in lost'
      BY <1>0, <3>4, ImagesAssumption DEF Device, IInv, Typed, RecordsOK
    <3> QED BY <1>3, <2>1, <3>1, <3>2, <3>3, <3>4
  <2> QED BY <1>0, <1>3, <2>1 DEF TopKnown, Active, Top, At, kernel
<1>8. Bare'
  BY <1>0, <1>3 DEF Bare, IInv, Known, Mounting, Active, At, kernel
<1>9. InHand'
  <2>1. job'.step = "dissect" => state'[e] = job.dev
    BY <1>0, <1>4 DEF Device
  <2> QED BY <1>0, <1>1, <1>3, <2>1
          DEF InHand, Shows, Attached, IInv, Known, At, kernel, wanted
<1>10. Elsewhere' /\ Sweeping' /\ Presents'
  BY <1>1, <1>3 DEF Elsewhere, Sweeping, Presents, At
<1>11. NoLeak'
  <2>1. ASSUME NEW n \in Loops, Attached(n)
        PROVE  Used(mnt, n) \/ n \in left' \/ \E x \in Names : Device(x)' = n
    <3>1. \/ Used(mnt, n) \/ n \in left \/ n = job.dev
          \/ \E x \in Names \ {e} : Device(x) = n
      BY <1>0, <2>1 DEF Elsewhere, IInv, Known, At
    <3>2. left \subseteq left' /\ (job.dev \in left' \/ Device(e)' = job.dev)
      BY <1>3, <1>4
    <3> QED BY <1>0, <1>4, <3>1, <3>2
  <2> QED BY <1>0, <2>1 DEF NoLeak, Attached, Used, kernel
<1> QED BY <1>5, <1>6, <1>7, <1>8, <1>9, <1>10, <1>11 DEF Known

\* A .kab that cannot be mounted gives up its device and its record.
LEMMA DissectKabFailsKnown ==
  ASSUME IInv, NEW e \in Names, DissectKabFails(e)
  PROVE  Known'
<1> DEFINE d == job.dev
<1>0. /\ UNCHANGED <<wanted, ref, mnt, past>> /\ job.step = "dissect" /\ job.cur = e /\ e \in Kab
      /\ e \notin Raw /\ Mounting /\ job \in Job
      /\ loop' = Released(d) /\ state' = [state EXCEPT ![e] = NONE]
  BY ImagesAssumption DEF DissectKabFails, At, IInv, Typed, JobOK, Mounting
<1>1. job.cmd # "sweep" /\ d \in Loops /\ Attached(d) /\ d # NONE /\ Device(e) = d
  BY <1>0, MountsNoSweep, ImagesAssumption DEF IInv, Typed, JobOK, Known, InHand, At, Device
<1>2. /\ job'.cmd = job.cmd /\ job'.entry = job.entry /\ job'.step = "end" /\ ~job'.ok
      /\ job'.faulted \/ ~Usable(job.entry)
  <2>1. EndsByFault \/ (Ends(FALSE) /\ ~Usable(job.entry))
    BY DEF DissectKabFails, Usable
  <2> QED BY <1>0, <2>1 DEF EndsByFault, Ends, Job
<1>3. /\ \A n \in Loops : n # d => loop'[n] = loop[n]
      /\ ~Used(mnt, d) => loop'[d] = NONE
      /\ Used(mnt, d) => loop'[d] # NONE /\ loop'[d].ref = loop[d].ref
  BY <1>0, <1>1, ReleaseEffect, ImagesAssumption DEF IInv
<1>4. /\ \A x \in Names : x # e => Device(x)' = Device(x)
      /\ Device(e)' = NONE
  BY <1>0 DEF Device, IInv, Typed, RecordsOK
<1> HIDE DEF d
<1>5. LinksTrue'
  <2>1. ASSUME NEW x \in Raw, LiveRef(x)' PROVE loop'[ref'[x]].ref = x
    <3>1. ref'[x] = ref[x] /\ ref[x] \in Loops /\ loop'[ref[x]] # NONE /\ LiveRef(x)
      BY <1>0, <1>1, <1>3, <2>1 DEF LiveRef, Attached
    <3> QED BY <1>3, <3>1 DEF LinksTrue, IInv, Known
  <2> QED BY <2>1 DEF LinksTrue
<1>6. LayersKnown'
  <2>1. ASSUME NEW x \in Names, NEW k \in DOMAIN mnt[x]
        PROVE  /\ mnt[x][k].dev \in Loops
               /\ loop'[mnt[x][k].dev] # NONE
               /\ loop'[mnt[x][k].dev].ref = loop[mnt[x][k].dev].ref
               /\ mnt[x][k].dev \in left \/ mnt[x][k].dev = Device(x)'
    <3>1. mnt[x][k].dev \in Loops /\ Used(mnt, mnt[x][k].dev) /\ Attached(mnt[x][k].dev)
      BY KnownLayers DEF IInv, Known, LayersKnown, Used
    <3>2. mnt[x][k].dev \in left \/ mnt[x][k].dev = Device(x)'
      <4>1. Active(x)
        BY BareMount DEF IInv
      <4> QED BY <1>0, <1>4, <4>1 DEF LayersKnown, Bare, IInv, Known
    <3> QED BY <1>3, <3>1, <3>2 DEF Attached
  <2> QED BY <1>0, <2>1 DEF LayersKnown, IInv, Known, Attached, past
<1>7. TopKnown'
  <2>1. ASSUME NEW x \in Names, Active(x)
        PROVE  /\ x \in Raw => Device(x)' = Top(x).dev
               /\ Device(x)' = NONE => x \in refused
               /\ Device(x)' \in {NONE, Top(x).dev} \/ x \in lost
    <3>1. CASE x # e
      BY <1>0, <1>4, <2>1, <3>1 DEF TopKnown, IInv, Known, At
    <3>2. CASE x = e
      BY <1>0, <1>4, <2>1, <3>2 DEF Bare, IInv, Known
    <3> QED BY <3>1, <3>2
  <2> QED BY <1>0, <2>1 DEF TopKnown, Active, Top, past
<1>8. Bare' /\ InHand' /\ Elsewhere' /\ Sweeping'
  BY <1>1, <1>2 DEF Bare, InHand, Elsewhere, Sweeping, Mounting, At
<1>9. Presents'
  BY <1>0, <1>2 DEF Presents, Usable, wanted
<1>10. NoLeak'
  <2>1. ASSUME NEW n \in Loops, Attached(n)'
        PROVE  Used(mnt, n) \/ n \in left \/ \E x \in Names : Device(x)' = n
    <3>1. Attached(n) /\ (n = d => Used(mnt, n))
      BY <1>1, <1>3, <2>1 DEF Attached
    <3> QED BY <1>0, <1>1, <1>4, <3>1 DEF NoLeak, IInv, Known, At
  <2> QED BY <1>0, <2>1 DEF NoLeak, past
<1> QED BY <1>5, <1>6, <1>7, <1>8, <1>9, <1>10 DEF Known

-----------------------------------------------------------------------------
(* Around the program *)

\* Activations and other kinds of scan change no device and no mount.
LEMMA OtherKnown ==
  ASSUME IInv, Turn \/ UNCHANGED vars \/ \E e \in Names : Activate(e)
  PROVE  Known'
<1>1. UNCHANGED <<disk, kernel, state, job, past>>
  BY DEF Turn, vars, Activate, wanted
<1>2. LinksTrue' /\ LayersKnown' /\ TopKnown'
  BY <1>1 DEF IInv, Known, LinksTrue, LayersKnown, TopKnown, LiveRef, Attached, Device, Active, Top,
              At, kernel, past
<1>3. Bare' /\ InHand' /\ Sweeping'
  BY <1>1 DEF IInv, Known, Bare, InHand, Sweeping, Shows, LiveRef, Attached, Active, Mounting,
              At, kernel, past
<1>4. Elsewhere' /\ NoLeak'
  BY <1>1 DEF IInv, Known, Elsewhere, NoLeak, Attached, Used, Device, At, kernel, past
<1>5. Presents'
  BY <1>1 DEF IInv, Known, Presents, Usable, Sealed, Active, Top, At, kernel, past
<1> QED BY <1>2, <1>3, <1>4, <1>5 DEF Known

\* A file rewritten: the devices of it no longer show it, and a scan that has it in
\* hand is excused.
LEMMA RewriteKnown ==
  ASSUME IInv, NEW p, Rewrite(p)
  PROVE  Known'
<1>0. /\ UNCHANGED <<ref, mnt, state, past>> /\ job \in Job
      /\ job' = [job EXCEPT !.moved = @ \/ (job.entry # NONE /\ job.entry.path = p)]
  BY DEF Rewrite, IInv, Typed, JobOK
<1>1. /\ job'.cmd = job.cmd /\ job'.drop = job.drop /\ job'.cur = job.cur /\ job'.step = job.step
      /\ job'.why = job.why /\ job'.entry = job.entry /\ job'.dev = job.dev /\ job'.ok = job.ok
      /\ job'.faulted = job.faulted
      /\ ~job'.moved => ~job.moved /\ (job.entry = NONE \/ job.entry.path # p)
  BY <1>0 DEF Job
<1>2. \A q \in Paths : q # p => disk'[q] = disk[q]
  BY DEF Rewrite, IInv, Typed, WantedOK
<1>3. ASSUME NEW n \in Loops
      PROVE  /\ Attached(n)' <=> Attached(n)
             /\ Attached(n) => loop'[n].ref = loop[n].ref
             /\ Attached(n) /\ loop[n].path # p => loop'[n] = loop[n]
  <2>1. \/ loop'[n] = loop[n]
        \/ Attached(n) /\ loop[n].path = p /\ loop'[n] = [loop[n] EXCEPT !.gone = TRUE]
    BY DEF Rewrite
  <2>2. Attached(n) => /\ [loop[n] EXCEPT !.gone = TRUE].ref = loop[n].ref
                       /\ [loop[n] EXCEPT !.gone = TRUE] # NONE
    BY ImagesAssumption DEF Attached, IInv, Typed, KernelOK, LoopStates
  <2> QED BY <2>1, <2>2 DEF Attached
<1>4. LinksTrue'
  BY <1>0, <1>3 DEF IInv, Known, LinksTrue, LiveRef, Attached
<1>5. ASSUME NEW x \in Names, NEW k \in DOMAIN mnt[x]
      PROVE  mnt[x][k].dev \in Loops
  BY KnownLayers DEF IInv
<1>6. LayersKnown'
  BY <1>0, <1>3, <1>5 DEF IInv, Known, LayersKnown, Device, past
<1>7. TopKnown' /\ Bare' /\ Sweeping'
  BY <1>0, <1>1 DEF IInv, Known, TopKnown, Bare, Sweeping, Device, Active, Top, Mounting, At, past
<1>8. ASSUME InTask, job.why # "drop", ~job'.moved
      PROVE  /\ ~job.moved /\ job.entry.path # p /\ disk'[job.entry.path] = disk[job.entry.path]
             /\ \A n \in Loops : Attached(n) /\ loop[n].path = job.entry.path => loop'[n] = loop[n]
  <2>1. job.entry # NONE /\ job.entry.path \in Paths
    BY <1>8, PathDisk, ImagesAssumption DEF IInv
  <2>2. ~job.moved /\ job.entry.path # p
    BY <1>1, <1>8, <2>1
  <2>3. disk'[job.entry.path] = disk[job.entry.path]
    BY <1>2, <2>1, <2>2
  <2>4. ASSUME NEW n \in Loops, Attached(n), loop[n].path = job.entry.path
        PROVE  loop'[n] = loop[n]
    BY <1>3, <2>2, <2>4
  <2> QED BY <2>2, <2>3, <2>4
<1>9. ASSUME NEW n \in Loops, Shows(n), Mounting, ~job'.moved PROVE Shows(n)'
  <2>1. InTask /\ job.why # "drop"
    BY <1>9, MountsNoSweep DEF InTask
  <2> QED BY <1>1, <1>3, <1>8, <1>9, <2>1 DEF Shows
<1>10. InHand'
  <2>1. ASSUME At("reuse") PROVE LiveRef(job.cur)' /\ (job'.moved \/ Shows(ref[job.cur])')
    <3>1. LiveRef(job.cur) /\ (job.moved \/ Shows(ref[job.cur])) /\ ref[job.cur] \in Loops
      BY <2>1 DEF IInv, Known, InHand, LiveRef, Attached
    <3>2. Mounting
      BY <2>1 DEF Mounting, At
    <3>3. job.moved => job'.moved
      BY <1>1
    <3>4. LiveRef(job.cur)'
      BY <1>0, <1>1, <1>3, <3>1 DEF LiveRef
    <3> QED BY <1>0, <1>9, <3>1, <3>2, <3>3, <3>4
  <2>2. ASSUME job.step \in {"save", "dissect"}
        PROVE  /\ Attached(job.dev)' /\ loop'[job.dev].ref = NONE
               /\ job'.moved \/ Shows(job.dev)'
    <3>1. /\ Attached(job.dev) /\ loop[job.dev].ref = NONE /\ job.dev \in Loops
          /\ job.moved \/ Shows(job.dev)
      BY <2>2 DEF IInv, Known, InHand, Attached
    <3>2. Mounting
      BY <2>2 DEF Mounting
    <3>3. job.moved => job'.moved
      BY <1>1
    <3>4. Attached(job.dev)' /\ loop'[job.dev].ref = NONE
      BY <1>1, <1>3, <3>1 DEF Attached
    <3>5. job'.moved \/ Shows(job.dev)'
      <4>1. CASE job.moved
        BY <3>3, <4>1
      <4>2. CASE Shows(job.dev)
        BY <1>1, <1>9, <3>1, <3>2, <4>2
      <4> QED BY <3>1, <4>1, <4>2
    <3> QED BY <3>4, <3>5
  <2>3. At("dissect") => state'[job.cur] = job.dev
    BY <1>0 DEF IInv, Known, InHand
  <2> QED BY <1>0, <1>1, <2>1, <2>2, <2>3 DEF InHand, At
<1>11. Elsewhere' /\ NoLeak'
  BY <1>0, <1>1, <1>3 DEF IInv, Known, Elsewhere, NoLeak, Device, At, past
<1>12. Presents'
  <2>1. SUFFICES ASSUME At("end"), job.why # "drop", ~job'.moved
                 PROVE  Presents'
    BY <1>1 DEF Presents, At
  <2>2. InTask
    BY <2>1 DEF InTask, At
  <2>3. /\ ~job.moved /\ disk'[job.entry.path] = disk[job.entry.path]
        /\ \A n \in Loops : Attached(n) /\ loop[n].path = job.entry.path => loop'[n] = loop[n]
    BY <1>8, <2>1, <2>2
  <2>4. CASE ~job.ok
    BY <1>0, <1>1, <2>1, <2>3, <2>4 DEF Presents, Usable, Sealed, IInv, Known, At
  <2>5. CASE job.ok /\ disk[job.entry.path] \in Lengths /\ job.cur \notin lost
    <3>1. /\ Active(job.cur) /\ Top(job.cur).verity = job.entry.verity
          /\ LET l == loop[Top(job.cur).dev]
             IN  l.path = job.entry.path /\ ~l.gone /\ l.len = disk[l.path]
      BY <2>1, <2>3, <2>5 DEF Presents, IInv, Known
    <3>2. job.cur \in Names
      BY <2>2 DEF IInv, Typed, JobOK
    <3>3. Attached(Top(job.cur).dev) /\ Top(job.cur).dev \in Loops
      BY <3>1, <3>2, KnownLayers DEF IInv, Known, LayersKnown, Top
    <3>4. loop'[Top(job.cur).dev] = loop[Top(job.cur).dev]
      BY <2>3, <3>1, <3>3
    <3> DEFINE t == mnt[job.cur][Len(mnt[job.cur])]
    <3>5. mnt'[job'.cur] = mnt[job.cur] /\ mnt'[job'.cur][Len(mnt'[job'.cur])] = t
      BY <1>0, <1>1
    <3>6. /\ mnt[job.cur] # <<>> /\ t.verity = job.entry.verity
          /\ loop[t.dev].path = job.entry.path /\ ~loop[t.dev].gone
          /\ loop[t.dev].len = disk[job.entry.path] /\ loop'[t.dev] = loop[t.dev]
      BY <3>1, <3>4 DEF Active, Top
    <3> HIDE DEF t
    <3> QED BY <1>1, <2>3, <2>5, <3>5, <3>6 DEF Presents, Active, Top
  <2>6. CASE job.ok /\ ~(disk[job.entry.path] \in Lengths /\ job.cur \notin lost)
    BY <1>0, <1>1, <2>3, <2>6 DEF Presents, past
  <2> QED BY <2>4, <2>5, <2>6
<1> QED BY <1>4, <1>6, <1>7, <1>10, <1>11, <1>12 DEF Known

\* udev removes only links to devices that are gone.
LEMMA UdevKnown ==
  ASSUME IInv, NEW e \in Names, Udev(e)
  PROVE  Known'
<1>0. /\ UNCHANGED <<wanted, loop, mnt, state, job, past>> /\ e \in Raw /\ ~LiveRef(e)
      /\ e \notin Kab
  BY ImagesAssumption DEF Udev, IInv, Typed, KernelOK, Known, LinksTrue, LiveRef, Names
<1>1. PICK n \in Loops \cup {NONE} : /\ ref' = [ref EXCEPT ![e] = n]
                                     /\ n # NONE => Attached(n) /\ loop[n].ref = e
  BY DEF Udev
<1>2. ref'[e] = n /\ \A x \in Names : x # e => ref'[x] = ref[x] /\ Device(x)' = Device(x)
  BY <1>0, <1>1 DEF IInv, Typed, KernelOK, Device
<1>3. ~Active(e)
  BY <1>0, KnownLayers DEF IInv, Known, TopKnown, LayersKnown, Device, LiveRef, Top
<1>4. LinksTrue'
  <2>1. ASSUME NEW x \in Raw, LiveRef(x)' PROVE loop'[ref'[x]].ref = x
    <3>1. CASE x = e
      BY <1>0, <1>1, <1>2, <2>1, <3>1, ImagesAssumption DEF LiveRef, Attached
    <3>2. CASE x # e
      BY <1>0, <1>2, <2>1, <3>2 DEF LinksTrue, LiveRef, Attached, IInv, Known, Names
    <3> QED BY <3>1, <3>2
  <2> QED BY <2>1 DEF LinksTrue
<1>5. LayersKnown' /\ TopKnown'
  <2>1. ASSUME NEW x \in Names, x = e PROVE DOMAIN mnt[x] = {} /\ ~Active(x)
    BY <1>3, <2>1, BareMount DEF IInv
  <2>2. LayersKnown'
    BY <1>0, <1>2, <2>1 DEF LayersKnown, IInv, Known, Attached, past
  <2>3. TopKnown'
    BY <1>0, <1>2, <2>1 DEF TopKnown, IInv, Known, Active, Top, At, past
  <2> QED BY <2>2, <2>3
<1>6. Bare' /\ Sweeping' /\ Presents'
  BY <1>0 DEF Bare, Sweeping, Presents, Usable, Sealed, IInv, Known, Active, Top, Mounting, At,
              past, wanted
<1>7. InHand'
  <2>1. At("reuse") => job.cur \in Names /\ job.cur # e
    BY <1>0 DEF IInv, Typed, JobOK, InTask, Mounting, Known, InHand, At
  <2> QED BY <1>0, <1>2, <2>1 DEF InHand, IInv, Known, LiveRef, Shows, Attached, At, wanted
<1>8. ASSUME NEW m \in Loops, NEW x \in Names, Attached(m), Device(x) = m PROVE Device(x)' = m
  <2>1. x # e
    BY <1>0, <1>8 DEF Device, LiveRef
  <2> QED BY <1>2, <1>8, <2>1
<1>9. Elsewhere'
  BY <1>0, <1>8 DEF Elsewhere, IInv, Known, Attached, At, past
<1>10. NoLeak'
  BY <1>0, <1>8 DEF NoLeak, IInv, Known, Attached, At, past
<1> QED BY <1>4, <1>5, <1>6, <1>7, <1>9, <1>10 DEF Known

\* A kill leaves the device that was not recorded, and loses the record of what a mount
\* would have covered.
LEMMA KillKnown ==
  ASSUME IInv, Kill
  PROVE  Known'
<1>0. /\ UNCHANGED <<wanted, kernel, state, refused>>
      /\ left' = IF At("save") THEN left \cup {job.dev} ELSE left
      /\ lost' = IF At("dissect") /\ Active(job.cur) THEN lost \cup {job.cur} ELSE lost
  BY DEF Kill
<1>1. job'.step = "next" /\ job'.cmd = "none"
  BY DEF Kill, Idle
<1>2. LinksTrue'
  BY <1>0 DEF LinksTrue, IInv, Known, LiveRef, Attached, kernel
<1>3. LayersKnown'
  BY <1>0 DEF LayersKnown, IInv, Known, Attached, Device, kernel
<1>4. TopKnown'
  BY <1>0 DEF TopKnown, IInv, Known, Active, Device, Top, kernel
<1>5. Bare' /\ InHand' /\ Elsewhere' /\ Sweeping' /\ Presents'
  BY <1>1 DEF Bare, InHand, Elsewhere, Sweeping, Presents, Mounting, At
<1>6. NoLeak'
  BY <1>0 DEF NoLeak, IInv, Known, Attached, Used, Device, kernel
<1> QED BY <1>2, <1>3, <1>4, <1>5, <1>6 DEF Known

-----------------------------------------------------------------------------
(* The theorems *)

\* The invariant is inductive.
LEMMA NextIInv == ASSUME IInv, [Next]_vars
                  PROVE  IInv'
<1>1. Typed'
  BY NextTyped DEF IInv, Known
<1>2. ASSUME NEW e \in Names, Task(e) PROVE Known'
  BY <1>2, CommandKnown, LookKnown, NothingKnown, MountRawKnown, FailsKnown, UmountKnown,
     UmountFailsKnown, DetachKnown, DetachKeptKnown, DissectFileKnown, DissectLoopKnown,
     MountKabKnown, SetupKnown, SaveKnown, DissectKabFailsKnown DEF Task
<1>3. Known'
  BY <1>2, CommandKnown, OtherKnown, RewriteKnown, UdevKnown, KillKnown DEF Next
<1> QED BY <1>1, <1>3 DEF IInv

\* It holds of every behaviour.
LEMMA Invariance == Spec => []IInv
<1>1. Init => IInv
  BY InitTyped, InitKnown DEF IInv
<1>2. IInv /\ [Next]_vars => IInv'
  BY NextIInv
<1> QED BY <1>1, <1>2, PTL DEF Spec

\* Every variable of the image adaptors has its type, and what is mounted is mounted
\* from an attached device.
THEOREM Typing == Spec => []TypeOK
<1>1. IInv => TypeOK
  BY DEF IInv, Typed, Known, LayersKnown, TypeOK, Used, Attached
<1> QED BY <1>1, Invariance, PTL

\* An extension that a scan presents shows the image in its file, under verity exactly
\* if its entry says so; a scan that could not present it met an image it cannot mount
\* or a command that was refused (RawAdaptor::mount, KabAdaptor::mount).
THEOREM Presented == Spec => []Presents
<1>1. IInv => Presents
  BY DEF IInv, Known
<1> QED BY <1>1, Invariance, PTL

\* A loop device stays attached only with a mount on it or a record that leads a later
\* unmount to it, unless the kernel or a crash left it so (KabAdaptor::mount).
THEOREM NothingLeaks == Spec => []NoLeak
<1>1. IInv => NoLeak
  BY DEF IInv, Known
<1> QED BY <1>1, Invariance, PTL

\* After a sweep an extension is mounted only if its own unmount was refused
\* (RawAdaptor::unmount_all).
THEOREM SweptAll == Spec => []SweepsAll
<1>1. IInv => SweepsAll
  BY DEF IInv, Typed, JobOK, Known, Sweeping, SweepsAll, At
<1> QED BY <1>1, Invariance, PTL
=============================================================================
