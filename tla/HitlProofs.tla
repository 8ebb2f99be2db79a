----------------------------- MODULE HitlProofs -----------------------------
(***************************************************************************)
(* What holds of Hitl for any extensions and callers and any number of     *)
(* requests, outages and faults: the types, and that every mount is        *)
(* watched, or about to be, or about to go, however processes cross; and   *)
(* of processes that do not cross, that the extensions are merged at rest, *)
(* from their images where nothing is mounted, with no drop-in of a mount  *)
(* that is gone and no socket lost.                                        *)
(***************************************************************************)
EXTENDS Hitl, TLAPS

UnmergePcs == {"unsys", "unconf", "unbind", "unstage", "unlink"}

\* The record r of process p is at a step of its task and has what that step needs:
\* a mount that is being set up has an extension; a request that unmounts has done so
\* by the time it merges; a fallback has its own extension among its targets.
Fits(p, r) ==
  /\ r.pc \in {"nfs", "watch", "undo"} => r.ext \in Exts
  /\ p \in Callers =>
       /\ r.task # "watch"
       /\ r.pc \in {"mkdir", "nfs", "watch", "undo", "reload"} => r.task = "mount"
       /\ r.pc \in {"lock", "stop", "umount"} => r.task = "unmount"
       /\ r.task = "unmount" => r.pc # "idle" /\ (r.pc \in MergePcs => r.exts = {})
  /\ p \in Exts =>
       /\ r.task \in {"watch", "none"}
       /\ r.task = "none" => r.pc = "idle"
       /\ r.pc \in {"lock", "sever", "umount"} \cup UnmergePcs => p \in r.exts

\* Process p with record r answers for the mount of e.
Covers(p, r, e) ==
  \/ p \in Callers /\ r.pc \in {"watch", "undo"} /\ r.ext = e
  \/ p \in Callers /\ r.task = "unmount" /\ e \in r.exts
  \/ p = e /\ r.task = "watch" /\ r.pc \notin MergePcs

Covered == "held" \notin lapses =>
             \A e \in nfs : \E p \in Procs : Covers(p, proc[p], e)

IInv == TypeOK /\ (\A p \in Procs : Fits(p, proc[p])) /\ Covered

\* The types of everything but the processes.
RestOK ==
  /\ alive \in BOOLEAN /\ staging \in BOOLEAN
  /\ dir \subseteq Exts /\ nfs \subseteq dir
  /\ rel \in [Layers -> {"none", "staged", "hollow", "orphan"}]
  /\ links \subseteq Layers
  /\ over \in [Kinds -> SUBSET Layers]
  /\ dropins \subseteq Exts /\ lost \subseteq Exts
  /\ lock \in Procs \cup {NONE}
  /\ lapses \subseteq Lapses
  /\ requests \in 0 .. MaxRequests /\ outages \in 0 .. MaxOutages /\ faults \in 0 .. MaxFaults

-----------------------------------------------------------------------------
\* Idle processes have their type.
LEMMA IdleType == Idle \in Proc /\ Watching \in Proc
<1>1. 0 \in 0 .. Failures - 1
  BY HitlAssumption
<1>2. Idle \in Proc
  BY <1>1 DEF Idle, Proc, Pcs
<1> QED BY <1>2 DEF Watching, Proc, Pcs

\* The invariant says that mounts are watched.
LEMMA CoveredMeansWatched == IInv => MountIsWatched
<1> SUFFICES ASSUME IInv, "held" \notin lapses, NEW e \in nfs
             PROVE  \/ proc[e].task = "watch" /\ proc[e].pc \notin MergePcs
                    \/ \E c \in Callers : Handles(c, e)
  BY DEF MountIsWatched
<1>1. PICK p \in Procs : Covers(p, proc[p], e)
  BY DEF IInv, Covered
<1> QED BY <1>1 DEF Covers, Handles

\* A device that has booted satisfies the invariant.
LEMMA InitIInv == Init => IInv
<1> SUFFICES ASSUME Init PROVE IInv
  OBVIOUS
<1>1. TypeOK
  BY HitlAssumption, IdleType DEF Init, TypeOK, Layers, Kinds, Lapses
<1>2. ASSUME NEW p \in Procs PROVE Fits(p, proc[p])
  BY <1>2 DEF Init, Fits, Idle, UnmergePcs
<1>3. Covered
  BY DEF Init, Covered
<1> QED BY <1>1, <1>2, <1>3 DEF IInv

-----------------------------------------------------------------------------
\* One process moves on: what it no longer answers for is not mounted any more.
LEMMA MoveIInv ==
  ASSUME IInv, NEW p \in Procs, NEW r \in Proc, proc' = [proc EXCEPT ![p] = r],
         RestOK', Fits(p, r), lapses \subseteq lapses',
         "held" \notin lapses' =>
           \A e \in nfs' : Covers(p, r, e) \/ (e \in nfs /\ ~Covers(p, proc[p], e))
  PROVE  IInv'
<1>1. proc'[p] = r /\ (\A q \in Procs \ {p} : proc'[q] = proc[q])
  BY DEF IInv, TypeOK
<1>2. TypeOK'
  BY DEF IInv, TypeOK, RestOK
<1>3. ASSUME NEW q \in Procs PROVE Fits(q, proc[q])'
  <2>1. CASE q = p
    BY <1>1, <2>1 DEF Fits
  <2>2. CASE q # p
    <3>1. proc'[q] = proc[q] /\ Fits(q, proc[q])
      BY <1>1, <2>2 DEF IInv
    <3> QED BY <3>1 DEF Fits
  <2> QED BY <2>1, <2>2
<1>4. Covered'
  <2> SUFFICES ASSUME "held" \notin lapses', NEW e \in nfs'
               PROVE  \E q \in Procs : Covers(q, proc'[q], e)
    BY DEF Covered, Covers
  <2>1. CASE Covers(p, r, e)
    BY <1>1, <2>1
  <2>2. CASE e \in nfs /\ ~Covers(p, proc[p], e)
    <3>1. PICK q \in Procs : Covers(q, proc[q], e)
      BY <2>2 DEF IInv, Covered
    <3>2. proc'[q] = proc[q]
      BY <1>1, <2>2, <3>1
    <3> QED BY <3>1, <3>2
  <2> QED BY <2>1, <2>2
<1> QED BY <1>2, <1>3, <1>4 DEF IInv

\* A process goes on to a step without mounting anything.
LEMMA GoIInv ==
  ASSUME IInv, NEW p \in Procs, NEW step \in Pcs, Go(p, step), RestOK',
         nfs' \subseteq nfs, lapses \subseteq lapses',
         proc[p].pc \notin {"idle", "watch", "undo"},
         step \notin {"idle", "nfs", "watch", "undo", "mkdir", "reload", "lock", "stop"},
         p \in Callers /\ step = "umount" => proc[p].task = "unmount",
         p \in Callers /\ step \in MergePcs /\ proc[p].task = "unmount"
           => proc[p].pc \in MergePcs,
         p \in Exts => (step \in MergePcs <=> proc[p].pc \in MergePcs),
         step \in {"sever", "umount"} \cup UnmergePcs /\ p \in Exts
           => proc[p].pc \in {"lock", "sever", "umount"} \cup UnmergePcs
  PROVE  IInv'
<1> DEFINE r == [proc[p] EXCEPT !.pc = step]
<1>1. /\ r \in Proc /\ proc' = [proc EXCEPT ![p] = r] /\ r.pc = step
      /\ r.task = proc[p].task /\ r.exts = proc[p].exts /\ r.ext = proc[p].ext
  BY DEF IInv, TypeOK, Proc, Go
<1>2. Fits(p, proc[p])
  BY DEF IInv
<1> HIDE DEF r
<1>3. Fits(p, r)
  BY <1>1, <1>2, HitlAssumption DEF Fits, UnmergePcs, MergePcs
<1>4. \A e : Covers(p, proc[p], e) => Covers(p, r, e)
  BY <1>1, <1>2, HitlAssumption DEF Covers, Fits, Procs
<1> QED BY <1>1, <1>3, <1>4, MoveIInv

\* A process ends that answers for no mount.
LEMMA EndIInv ==
  ASSUME IInv, NEW p \in Procs, End(p), RestOK', lapses \subseteq lapses',
         "held" \notin lapses' =>
           \A e \in nfs' : e \in nfs /\ ~Covers(p, proc[p], e)
  PROVE  IInv'
<1>1. proc' = [proc EXCEPT ![p] = Idle] /\ Idle \in Proc
  BY IdleType DEF End
<1>2. Fits(p, Idle)
  BY DEF Fits, Idle, UnmergePcs
<1> QED BY <1>1, <1>2, MoveIInv

\* A process at a merge, or at a step of a refresh, answers for no mount.
LEMMA AnswersForNone ==
  ASSUME IInv, NEW p \in Procs, NEW e \in Exts, Covers(p, proc[p], e),
         proc[p].pc \notin {"watch", "undo"}
  PROVE  /\ proc[p].pc \notin MergePcs
         /\ Unwound(p)
         /\ p \in Callers => proc[p].task = "unmount" /\ e \in proc[p].exts
         /\ p \in Exts => p = e
  BY HitlAssumption DEF IInv, Fits, Covers, Unwound, Procs

\* Extensions come off the tree, or are held there.
LEMMA TakenOff ==
  ASSUME TypeOK, NEW es, NEW what \in SUBSET Lapses, TakeOff(es, what)
  PROVE  /\ nfs' \subseteq nfs
         /\ rel' \in [Layers -> {"none", "staged", "hollow", "orphan"}]
         /\ lapses' \subseteq Lapses /\ lapses \subseteq lapses'
         /\ faults' \in 0 .. MaxFaults
         /\ "held" \notin lapses' => nfs' = nfs \ es
<1>1. PICK kept \in SUBSET (es \cap nfs) :
        /\ nfs' = nfs \ (es \ kept)
        /\ rel' = Unbound(es)
        /\ \/ kept = {} /\ Lapse(what) /\ UNCHANGED faults
           \/ kept # {} /\ Lapse(what \cup {"held"}) /\ Fault
  BY DEF TakeOff
<1>2. rel' \in [Layers -> {"none", "staged", "hollow", "orphan"}]
  BY <1>1 DEF TypeOK, Unbound
<1>3. /\ lapses' \subseteq Lapses /\ lapses \subseteq lapses'
      /\ "held" \notin lapses' => kept = {}
  BY <1>1 DEF TypeOK, Lapse, Lapses
<1>4. faults' \in 0 .. MaxFaults
  BY <1>1, HitlAssumption DEF TypeOK, Fault
<1> QED BY <1>1, <1>2, <1>3, <1>4

-----------------------------------------------------------------------------
\* Requests come to idle callers.
LEMMA RequestIInv == ASSUME IInv, NEW c \in Callers, Request(c) PROVE IInv'
<1> USE DEF Accepts, mounts, merged, units
<1>0. /\ c \in Procs /\ proc[c].pc = "idle" /\ Fits(c, proc[c])
      /\ \A e \in Exts : ~Covers(c, proc[c], e)
  BY HitlAssumption DEF Request, RequestMount, RequestUnmount, RequestRefresh, IInv, Fits, Covers, Procs
<1>1. RestOK' /\ nfs' = nfs /\ lapses \subseteq lapses' /\ nfs \subseteq Exts
  <2>1. \E what \in SUBSET Lapses : lapses' = lapses \/ lapses' = lapses \cup what
    BY DEF Request, RequestMount, RequestUnmount, RequestRefresh, Lapse, Crossing, Lapses
  <2>2. /\ UNCHANGED <<alive, mounts, merged, units, lock, outages, faults>>
        /\ requests < MaxRequests /\ requests' = requests + 1
    BY DEF Request, RequestMount, RequestUnmount, RequestRefresh
  <2> QED BY <2>1, <2>2, HitlAssumption DEF IInv, TypeOK, RestOK
<1>2. ASSUME NEW r \in Proc, Fits(c, r), proc' = [proc EXCEPT ![c] = r] PROVE IInv'
  BY <1>0, <1>1, <1>2, MoveIInv
<1>3. ASSUME NEW es \in (SUBSET Exts) \ {{}}, RequestMount(c, es) PROVE IInv'
  <2> DEFINE r == [Idle EXCEPT !.task = "mount", !.pc = "mkdir", !.exts = es]
  <2>1. r \in Proc /\ Fits(c, r)
    BY IdleType, HitlAssumption DEF Idle, Proc, Pcs, Tasks, Fits, MergePcs
  <2> QED BY <1>2, <1>3, <2>1 DEF RequestMount
<1>4. ASSUME NEW es \in (SUBSET Exts) \ {{}}, RequestUnmount(c, es) PROVE IInv'
  <2> DEFINE r == [Idle EXCEPT !.task = "unmount", !.pc = "lock", !.exts = es]
  <2>1. r \in Proc /\ Fits(c, r)
    BY IdleType, HitlAssumption DEF Idle, Proc, Pcs, Tasks, Fits, MergePcs
  <2> QED BY <1>2, <1>4, <2>1 DEF RequestUnmount
<1>5. ASSUME NEW task \in Requests, RequestRefresh(c, task) PROVE IInv'
  <2> DEFINE r == [Idle EXCEPT !.task = task,
                                  !.pc = IF task = "merge" THEN "prepare" ELSE "unsys"]
  <2>1. r \in Proc /\ Fits(c, r)
    BY <1>5, IdleType, HitlAssumption DEF RequestRefresh, Idle, Proc, Pcs, Tasks, Fits, MergePcs
  <2> QED BY <1>2, <1>5, <2>1 DEF RequestRefresh
<1> QED BY <1>3, <1>4, <1>5 DEF Request

-----------------------------------------------------------------------------
\* A mount makes the directory of its next extension.
LEMMA MakeDirIInv ==
  ASSUME IInv, NEW c \in Callers, NEW e \in Exts, MakeDir(c, e) PROVE IInv'
<1> USE DEF mounts, merged, units, counters
<1> DEFINE r == [proc[c] EXCEPT !.pc = "nfs", !.ext = e]
<1>1. c \in Procs /\ Fits(c, proc[c]) /\ proc[c] \in Proc /\ proc[c].pc = "mkdir"
  BY DEF MakeDir, IInv, TypeOK, Procs
<1>2. r \in Proc /\ Fits(c, r) /\ \A x \in Exts : ~Covers(c, proc[c], x)
  BY <1>1, HitlAssumption DEF Proc, Pcs, Fits, Covers
<1>3. RestOK' /\ nfs' = nfs /\ lapses' = lapses /\ nfs \subseteq Exts
  BY DEF MakeDir, IInv, TypeOK, RestOK
<1>4. proc' = [proc EXCEPT ![c] = r]
  BY DEF MakeDir
<1> QED BY <1>1, <1>2, <1>3, <1>4, MoveIInv

\* An extension that is mounted is its caller's; one that is not ends the request.
LEMMA MountOneIInv == ASSUME IInv, NEW c \in Callers, MountOne(c) PROVE IInv'
<1> USE DEF mounts, merged, units, counters
<1>1. /\ c \in Procs /\ Fits(c, proc[c]) /\ proc[c] \in Proc /\ proc[c].pc = "nfs"
      /\ proc[c].ext \in Exts
  BY DEF MountOne, IInv, TypeOK, Procs, Fits
<1>2. \A x \in Exts : ~Covers(c, proc[c], x)
  BY <1>1, HitlAssumption DEF Fits, Covers
<1>3. RestOK' /\ lapses' = lapses /\ nfs \subseteq Exts
  BY <1>1 DEF MountOne, IInv, TypeOK, RestOK, CreateDropins, End
<1>4. CASE nfs' = nfs \cup {proc[c].ext} /\ Go(c, "watch")
  <2> DEFINE r == [proc[c] EXCEPT !.pc = "watch"]
  <2>1. r \in Proc /\ Fits(c, r) /\ Covers(c, r, proc[c].ext)
    BY <1>1, HitlAssumption DEF Proc, Pcs, Fits, Covers
  <2>2. proc' = [proc EXCEPT ![c] = r]
    BY <1>4 DEF Go
  <2> HIDE DEF r
  <2> QED BY <1>1, <1>2, <1>3, <1>4, <2>1, <2>2, MoveIInv
<1>5. CASE End(c) /\ nfs' = nfs
  BY <1>1, <1>2, <1>3, <1>5, EndIInv
<1> QED BY <1>4, <1>5 DEF MountOne

\* The watchdog takes over from the caller that mounted, or the caller keeps the mount
\* to undo it; whatever the unit was at before, it answered for no other extension.
LEMMA StartWatchdogIInv ==
  ASSUME IInv, NEW c \in Callers, StartWatchdog(c) PROVE IInv'
<1> USE DEF mounts, merged, units
<1> DEFINE e == proc[c].ext
           rest == proc[c].exts \ {e}
           started == [proc[c] EXCEPT !.exts = rest, !.ext = NONE,
                                      !.pc = IF rest = {} THEN "reload" ELSE "mkdir"]
           failed == [proc[c] EXCEPT !.pc = "undo"]
<1>1. /\ c \in Procs /\ proc[c] \in Proc /\ Fits(c, proc[c]) /\ proc[c].pc = "watch"
      /\ proc[c].task = "mount" /\ e \in Exts /\ e \in Procs /\ e # c
  BY HitlAssumption DEF StartWatchdog, IInv, TypeOK, Fits, Procs
<1>2. RestOK' /\ nfs' = nfs /\ lapses' = lapses /\ nfs \subseteq Exts
  BY HitlAssumption DEF StartWatchdog, IInv, TypeOK, RestOK, Fault
<1>3. \/ proc' = [proc EXCEPT ![e] = Watching, ![c] = started]
      \/ proc' = [proc EXCEPT ![e] = Idle, ![c] = failed]
  BY <1>1 DEF StartWatchdog, IInv, TypeOK, Proc
<1>4. /\ started \in Proc /\ Fits(c, started) /\ failed \in Proc /\ Fits(c, failed)
      /\ Covers(c, failed, e)
      /\ Watching \in Proc /\ Fits(e, Watching) /\ Covers(e, Watching, e)
      /\ Idle \in Proc /\ Fits(e, Idle)
  <2>1. started \in Proc /\ failed \in Proc
    BY <1>1 DEF Proc, Pcs
  <2>2. /\ started.task = "mount" /\ started.pc \in {"reload", "mkdir"}
        /\ failed.task = "mount" /\ failed.pc = "undo" /\ failed.ext = e
    BY <1>1 DEF Proc
  <2>3. Fits(c, started) /\ Fits(c, failed) /\ Covers(c, failed, e)
    BY <1>1, <2>2, HitlAssumption DEF Fits, Covers
  <2>4. /\ Fits(e, Watching) /\ Covers(e, Watching, e) /\ Fits(e, Idle)
    BY <1>1, HitlAssumption DEF Fits, Covers, Watching, Idle, UnmergePcs, MergePcs
  <2> QED BY <2>1, <2>3, <2>4, IdleType
<1>5. \A x \in Exts \ {e} : ~Covers(e, proc[e], x) /\ ~Covers(c, proc[c], x)
  BY <1>1, HitlAssumption DEF Covers
<1> HIDE DEF started, failed
<1>6. PICK w \in {Watching, Idle}, r \in {started, failed} :
        /\ proc' = [proc EXCEPT ![e] = w, ![c] = r]
        /\ w = Watching \/ r = failed
  BY <1>3
<1>7. /\ proc'[e] = w /\ proc'[c] = r
      /\ \A q \in Procs \ {e, c} : proc'[q] = proc[q]
      /\ proc' \in [Procs -> Proc]
  BY <1>1, <1>4, <1>6 DEF IInv, TypeOK
<1> HIDE DEF e
<1>8. TypeOK'
  BY <1>2, <1>7 DEF TypeOK, RestOK
<1>9. ASSUME NEW q \in Procs PROVE Fits(q, proc[q])'
  <2>1. Fits(q, proc'[q])
    BY <1>4, <1>6, <1>7 DEF IInv
  <2> QED BY <2>1 DEF Fits
<1>10. Covered'
  <2> SUFFICES ASSUME "held" \notin lapses', NEW x \in nfs'
               PROVE  \E q \in Procs : Covers(q, proc'[q], x)
    BY DEF Covered, Covers
  <2>1. CASE x = e
    BY <1>1, <1>4, <1>6, <1>7, <2>1
  <2>2. CASE x # e
    <3>1. PICK q \in Procs : Covers(q, proc[q], x)
      BY <1>2 DEF IInv, Covered
    <3>2. q \notin {e, c}
      BY <1>2, <1>5, <2>2, <3>1
    <3> QED BY <1>7, <3>1, <3>2
  <2> QED BY <2>1, <2>2
<1> QED BY <1>8, <1>9, <1>10 DEF IInv

\* What an undo answered for is unmounted or held.
LEMMA UndoIInv == ASSUME IInv, NEW c \in Callers, Undo(c) PROVE IInv'
<1> USE DEF mounts, merged, units
<1>1. /\ c \in Procs /\ Fits(c, proc[c]) /\ proc[c].pc = "undo" /\ proc[c].task = "mount"
      /\ proc[c].ext \in Exts
  BY DEF Undo, IInv, Procs, Fits
<1>2. PICK what \in SUBSET Lapses : TakeOff({proc[c].ext}, what)
  BY DEF Undo, Lapses
<1>3. /\ nfs' \subseteq nfs /\ nfs \subseteq Exts
      /\ rel' \in [Layers -> {"none", "staged", "hollow", "orphan"}]
      /\ lapses' \subseteq Lapses /\ lapses \subseteq lapses' /\ faults' \in 0 .. MaxFaults
      /\ "held" \notin lapses' => nfs' = nfs \ {proc[c].ext}
  BY <1>2, TakenOff DEF IInv, TypeOK
<1>4. RestOK'
  BY <1>3 DEF Undo, IInv, TypeOK, RestOK, RemoveDirs, CleanupDropins, End
<1>5. \A x \in Exts \ {proc[c].ext} : ~Covers(c, proc[c], x)
  BY <1>1, HitlAssumption DEF Covers
<1> QED BY <1>1, <1>3, <1>4, <1>5, EndIInv DEF Undo

\* A mount that has set up all its watchdogs reloads and refreshes.
LEMMA ReloadMountedIInv ==
  ASSUME IInv, NEW c \in Callers, ReloadMounted(c) PROVE IInv'
<1> USE DEF mounts, merged, units, counters
<1>1. c \in Procs /\ proc[c].pc = "reload" /\ c \notin Exts /\ "unsys" \in Pcs
  BY HitlAssumption DEF ReloadMounted, Procs, Pcs
<1>2. RestOK' /\ lapses \subseteq lapses'
  BY DEF ReloadMounted, IInv, TypeOK, RestOK, Reloaded, Lapse, Crossing, Lapses
<1> QED BY <1>1, <1>2, GoIInv DEF ReloadMounted, MergePcs

-----------------------------------------------------------------------------
\* A round of a watchdog: it leaves nothing that is mounted, and takes its own extension
\* for a target.
LEMMA ProbeIInv == ASSUME IInv, NEW e \in Exts, Probe(e) PROVE IInv'
<1> USE DEF mounts, merged, units, counters
<1> DEFINE alone == [proc[e] EXCEPT !.fails = 0]
           missed == [proc[e] EXCEPT !.fails = proc[e].fails + 1]
           fallback == [proc[e] EXCEPT !.fails = 0, !.pc = "lock", !.exts = nfs]
<1>1. /\ e \in Procs /\ proc[e] \in Proc /\ Fits(e, proc[e]) /\ proc[e].pc = "probe"
      /\ proc[e].task = "watch" /\ e \notin Callers
  BY HitlAssumption DEF Probe, IInv, TypeOK, Fits, Procs
<1>2. RestOK' /\ nfs' = nfs /\ lapses' = lapses /\ nfs \subseteq Exts
  BY DEF Probe, IInv, TypeOK, RestOK
<1>3. \A x \in Exts : Covers(e, proc[e], x) <=> x = e
  BY <1>1 DEF Covers, MergePcs
<1>4. CASE e \notin nfs /\ proc' = [proc EXCEPT ![e] = Idle]
  <2>1. Fits(e, Idle)
    BY DEF Fits, Idle, UnmergePcs
  <2> QED BY <1>1, <1>2, <1>3, <1>4, <2>1, IdleType, MoveIInv
<1>5. ASSUME NEW r \in Proc, proc' = [proc EXCEPT ![e] = r], Fits(e, r), r.task = "watch",
             r.pc \in {"probe", "lock"}
      PROVE  IInv'
  <2>1. Covers(e, r, e)
    BY <1>5 DEF Covers, MergePcs
  <2> QED BY <1>1, <1>2, <1>3, <1>5, <2>1, MoveIInv
<1>6. CASE proc' = [proc EXCEPT ![e].fails = 0]
  <2>1. /\ alone \in Proc /\ alone.task = "watch" /\ alone.pc = "probe"
        /\ proc' = [proc EXCEPT ![e] = alone]
    BY <1>1, <1>6, HitlAssumption DEF Proc
  <2> HIDE DEF alone
  <2>2. Fits(e, alone)
    BY <1>1, <2>1 DEF Fits, UnmergePcs
  <2> QED BY <1>5, <2>1, <2>2
<1>7. CASE proc[e].fails + 1 < Failures /\ proc' = [proc EXCEPT ![e] = missed]
  <2>1. missed \in Proc /\ missed.task = "watch" /\ missed.pc = "probe"
    BY <1>1, <1>7, HitlAssumption DEF Proc
  <2> HIDE DEF missed
  <2>2. Fits(e, missed)
    BY <1>1, <2>1 DEF Fits, UnmergePcs
  <2> QED BY <1>5, <1>7, <2>1, <2>2
<1>8. CASE e \in nfs /\ proc' = [proc EXCEPT ![e] = fallback]
  <2>1. /\ fallback \in Proc /\ fallback.task = "watch" /\ fallback.pc = "lock"
        /\ fallback.exts = nfs
    <3>1. 0 \in 0 .. Failures - 1 /\ nfs \in SUBSET Exts /\ "lock" \in Pcs
      BY <1>2, HitlAssumption DEF Pcs
    <3> QED BY <1>1, <3>1 DEF Proc
  <2> HIDE DEF fallback
  <2>2. Fits(e, fallback)
    BY <1>1, <1>8, <2>1 DEF Fits, UnmergePcs
  <2> QED BY <1>5, <1>8, <2>1, <2>2
<1> QED BY <1>4, <1>6, <1>7, <1>8 DEF Probe

-----------------------------------------------------------------------------
\* Who gets on with an unmount or a fallback keeps its targets; who finds them swept has
\* none that is mounted.
LEMMA AcquireIInv == ASSUME IInv, NEW p \in Procs, Acquire(p) PROVE IInv'
<1> USE DEF mounts, merged, units
<1>1. /\ Fits(p, proc[p]) /\ proc[p] \in Proc /\ proc[p].pc = "lock"
      /\ p \in Callers => proc[p].task = "unmount"
      /\ p \in Exts => proc[p].task = "watch" /\ p \in proc[p].exts
      /\ p \in Exts <=> p \notin Callers
  BY HitlAssumption DEF Acquire, IInv, TypeOK, Fits, Procs
<1>2. faults' \in 0 .. MaxFaults
  BY HitlAssumption DEF Acquire, IInv, TypeOK, Fault
<1>3. RestOK' /\ nfs' = nfs /\ lapses \subseteq lapses' /\ nfs \subseteq Exts
  BY <1>2 DEF Acquire, IInv, TypeOK, RestOK, Lapse, Crossing, Lapses
<1>4. CASE /\ proc[p].task = "watch" /\ proc[p].exts \cap nfs = {}
           /\ proc' = [proc EXCEPT ![p] = Idle]
  <2>1. Fits(p, Idle)
    BY DEF Fits, Idle, UnmergePcs
  <2>2. \A x \in nfs : ~Covers(p, proc[p], x)
    BY <1>1, <1>4 DEF Covers
  <2> QED BY <1>3, <1>4, <2>1, <2>2, IdleType, MoveIInv
<1>5. CASE proc' = [proc EXCEPT ![p].pc = IF proc[p].task = "watch" THEN "sever" ELSE "stop"]
  <2> DEFINE r == [proc[p] EXCEPT !.pc = IF proc[p].task = "watch" THEN "sever" ELSE "stop"]
  <2>1. /\ r \in Proc /\ r.task = proc[p].task /\ r.exts = proc[p].exts
        /\ r.pc = IF proc[p].task = "watch" THEN "sever" ELSE "stop"
        /\ proc' = [proc EXCEPT ![p] = r]
    BY <1>1, <1>5 DEF Proc, Pcs
  <2> HIDE DEF r
  <2>2. Fits(p, r)
    BY <1>1, <2>1 DEF Fits, UnmergePcs, MergePcs
  <2>3. \A x \in Exts : Covers(p, proc[p], x) => Covers(p, r, x)
    BY <1>1, <2>1 DEF Covers, MergePcs
  <2> QED BY <1>3, <2>1, <2>2, <2>3, MoveIInv
<1> QED BY <1>4, <1>5 DEF Acquire

\* What the watchdogs that are stopped answered for, the unmount does.
LEMMA StopWatchdogsIInv ==
  ASSUME IInv, NEW c \in Callers, StopWatchdogs(c) PROVE IInv'
<1> USE DEF mounts, merged, units, counters
<1> DEFINE es == proc[c].exts
<1>1. /\ c \in Procs /\ c \notin Exts /\ proc[c] \in Proc /\ Fits(c, proc[c])
      /\ proc[c].pc = "stop" /\ proc[c].task = "unmount" /\ es \subseteq Exts
  BY HitlAssumption DEF StopWatchdogs, IInv, TypeOK, Fits, Procs, Proc
<1>2. RestOK' /\ nfs' = nfs /\ lapses \subseteq lapses' /\ nfs \subseteq Exts
  BY DEF StopWatchdogs, IInv, TypeOK, RestOK, Lapse, Lapses
<1>3. PICK svc \in SUBSET (es \cap nfs) :
        proc' = [q \in Procs |-> IF q \in es THEN Idle
                                 ELSE IF q = c THEN [proc[c] EXCEPT !.pc = "unsys", !.svc = svc]
                                 ELSE proc[q]]
  BY DEF StopWatchdogs
<1> DEFINE r == [proc[c] EXCEPT !.pc = "unsys", !.svc = svc]
<1>4. r \in Proc /\ r.pc = "unsys" /\ r.task = "unmount" /\ r.exts = es
  BY <1>1, <1>2 DEF Proc, Pcs
<1>5. /\ proc'[c] = r /\ \A q \in es : proc'[q] = Idle
      /\ \A q \in Procs \ (es \cup {c}) : proc'[q] = proc[q]
  BY <1>1, <1>3 DEF Procs
<1>6. proc' \in [Procs -> Proc]
  BY <1>3, <1>4, IdleType DEF IInv, TypeOK
<1> HIDE DEF r
<1>7. Fits(c, r) /\ (\A x \in es : Covers(c, r, x)) /\ (\A q \in es : Fits(q, Idle))
  BY <1>1, <1>4 DEF Fits, Covers, Idle, UnmergePcs, MergePcs
<1> HIDE DEF es
<1>8. TypeOK'
  BY <1>2, <1>6 DEF TypeOK, RestOK
<1>9. ASSUME NEW q \in Procs PROVE Fits(q, proc[q])'
  <2>1. Fits(q, proc'[q])
    BY <1>5, <1>7 DEF IInv
  <2> QED BY <2>1 DEF Fits
<1>10. Covered'
  <2> SUFFICES ASSUME "held" \notin lapses', NEW x \in nfs'
               PROVE  \E q \in Procs : Covers(q, proc'[q], x)
    BY DEF Covered, Covers
  <2>1. CASE x \in es
    BY <1>1, <1>5, <1>7, <2>1
  <2>2. CASE x \notin es
    <3>1. PICK q \in Procs : Covers(q, proc[q], x)
      BY <1>2 DEF IInv, Covered
    <3>2. q # c
      BY <1>1, <2>2, <3>1 DEF Covers, es
    <3>3. q \notin es
      BY <1>1, <2>2, <3>1, HitlAssumption DEF Covers, es
    <3> QED BY <1>5, <3>1, <3>2, <3>3
  <2> QED BY <2>1, <2>2
<1> QED BY <1>8, <1>9, <1>10 DEF IInv

\* A fallback keeps its targets when it detaches them.
LEMMA SeverIInv == ASSUME IInv, NEW e \in Exts, Sever(e) PROVE IInv'
<1> USE DEF mounts, merged, units
<1>1. /\ e \in Procs /\ e \notin Callers /\ proc[e] \in Proc /\ Fits(e, proc[e])
      /\ proc[e].pc = "sever" /\ proc[e].task = "watch" /\ e \in proc[e].exts
  BY HitlAssumption DEF Sever, IInv, TypeOK, Fits, Procs
<1>2. /\ nfs' \subseteq nfs /\ nfs \subseteq Exts
      /\ rel' \in [Layers -> {"none", "staged", "hollow", "orphan"}]
      /\ lapses' \subseteq Lapses /\ lapses \subseteq lapses' /\ faults' \in 0 .. MaxFaults
  <2>1. TypeOK /\ TakeOff(proc[e].exts, {})
    BY DEF Sever, IInv
  <2>2. nfs \subseteq Exts
    BY <2>1 DEF TypeOK
  <2> QED BY <2>1, <2>2, TakenOff
<1>3. RestOK'
  BY <1>2 DEF Sever, IInv, TypeOK, RestOK, DetachOverlays
<1> DEFINE r == [proc[e] EXCEPT !.pc = "unsys", !.svc = WithDropins(proc[e].exts)]
<1>4. /\ r \in Proc /\ r.pc = "unsys" /\ r.task = "watch" /\ r.exts = proc[e].exts
      /\ proc' = [proc EXCEPT ![e] = r]
  BY <1>1 DEF Sever, IInv, TypeOK, Proc, Pcs, WithDropins
<1> HIDE DEF r
<1>5. Fits(e, r) /\ (\A x \in Exts : Covers(e, proc[e], x) => Covers(e, r, x))
  BY <1>1, <1>4 DEF Fits, Covers, UnmergePcs, MergePcs
<1> QED BY <1>1, <1>2, <1>3, <1>4, <1>5, MoveIInv

\* Once it has unmounted its targets a process answers for none.
LEMMA UnmountIInv == ASSUME IInv, NEW p \in Procs, Unmount(p) PROVE IInv'
<1> USE DEF mounts, merged, units
<1>1. /\ proc[p] \in Proc /\ Fits(p, proc[p]) /\ proc[p].pc = "umount"
      /\ p \in Exts <=> p \notin Callers
  BY HitlAssumption DEF Unmount, IInv, TypeOK, Procs
<1>2. /\ nfs' \subseteq nfs /\ nfs \subseteq Exts
      /\ rel' \in [Layers -> {"none", "staged", "hollow", "orphan"}]
      /\ lapses' \subseteq Lapses /\ lapses \subseteq lapses' /\ faults' \in 0 .. MaxFaults
      /\ "held" \notin lapses' => nfs' = nfs \ proc[p].exts
  <2>1. TypeOK /\ TakeOff(proc[p].exts, {})
    BY DEF Unmount, IInv
  <2>2. nfs \subseteq Exts
    BY <2>1 DEF TypeOK
  <2> QED BY <2>1, <2>2, TakenOff
<1>3. RestOK'
  BY <1>2 DEF Unmount, IInv, TypeOK, RestOK, RemoveDirs, CleanupDropins
<1> DEFINE r == [proc[p] EXCEPT !.pc = "prepare", !.exts = {}, !.svc = {}]
<1>4. /\ r \in Proc /\ r.pc = "prepare" /\ r.task = proc[p].task /\ r.exts = {}
      /\ proc' = [proc EXCEPT ![p] = r]
  BY <1>1 DEF Unmount, IInv, TypeOK, Proc, Pcs
<1> HIDE DEF r
<1>5. Fits(p, r)
  BY <1>1, <1>4 DEF Fits, UnmergePcs, MergePcs
<1>6. \A x \in Exts \ proc[p].exts : ~Covers(p, proc[p], x)
  BY <1>1 DEF Covers, Fits
<1> QED BY <1>2, <1>3, <1>4, <1>5, <1>6, MoveIInv

-----------------------------------------------------------------------------
\* An unmerge that fails leads an unmount to its next step and ends the rest, which
\* answer for no mount.
LEMMA UnmergeFailsIInv ==
  ASSUME IInv, NEW p \in Procs, NEW what \in SUBSET Lapses, UnmergeFails(p, what),
         RestOK', nfs' = nfs, proc[p].pc \in UnmergePcs
  PROVE  IInv'
<1>1. lapses \subseteq lapses' /\ nfs \subseteq Exts /\ Fits(p, proc[p]) /\ "umount" \in Pcs
  BY DEF UnmergeFails, Lapse, IInv, TypeOK, Pcs
<1>2. CASE Unwound(p) /\ Go(p, "umount")
  BY <1>1, <1>2, GoIInv DEF UnmergePcs, MergePcs, Fits, Unwound
<1>3. CASE ~Unwound(p) /\ End(p)
  BY <1>1, <1>3, EndIInv, AnswersForNone DEF UnmergePcs
<1> QED BY <1>2, <1>3 DEF UnmergeFails

\* The unmerge of the sysext overlay.
LEMMA UnmergeSysIInv == ASSUME IInv, NEW p \in Procs, UnmergeSys(p) PROVE IInv'
<1> USE DEF mounts, units
<1>1. RestOK' /\ nfs' = nfs /\ proc[p].pc = "unsys" /\ "unconf" \in Pcs
  <2>1. over' \in [Kinds -> SUBSET Layers]
    BY DEF UnmergeSys, IInv, TypeOK
  <2>2. faults' \in 0 .. MaxFaults
    BY HitlAssumption DEF UnmergeSys, UnmergeFails, Fault, IInv, TypeOK
  <2>3. lapses' \subseteq Lapses /\ lock' \in Procs \cup {NONE}
    BY DEF UnmergeSys, UnmergeFails, Lapse, Lapses, End, IInv, TypeOK
  <2> QED BY <2>1, <2>2, <2>3 DEF UnmergeSys, IInv, TypeOK, RestOK, Pcs
<1>2. CASE Go(p, "unconf") /\ UNCHANGED lapses
  BY <1>1, <1>2, GoIInv DEF UnmergePcs, MergePcs
<1>3. CASE UnmergeFails(p, {})
  BY <1>1, <1>3, UnmergeFailsIInv DEF UnmergePcs
<1> QED BY <1>2, <1>3 DEF UnmergeSys

\* The unmerge of the confext overlay.
LEMMA UnmergeConfIInv == ASSUME IInv, NEW p \in Procs, UnmergeConf(p) PROVE IInv'
<1> USE DEF mounts, units
<1>1. RestOK' /\ nfs' = nfs /\ proc[p].pc = "unconf" /\ "unbind" \in Pcs
  <2>1. over' \in [Kinds -> SUBSET Layers]
    BY DEF UnmergeConf, IInv, TypeOK
  <2>2. faults' \in 0 .. MaxFaults
    BY HitlAssumption DEF UnmergeConf, UnmergeFails, Fault, IInv, TypeOK
  <2>3. lapses' \subseteq Lapses /\ lock' \in Procs \cup {NONE}
    BY DEF UnmergeConf, UnmergeFails, Lapse, Lapses, End, IInv, TypeOK
  <2> QED BY <2>1, <2>2, <2>3 DEF UnmergeConf, IInv, TypeOK, RestOK, Pcs
<1>2. CASE Go(p, "unbind") /\ UNCHANGED lapses
  BY <1>1, <1>2, GoIInv DEF UnmergePcs, MergePcs
<1>3. CASE UnmergeFails(p, {"broken"})
  BY <1>1, <1>3, UnmergeFailsIInv DEF UnmergePcs, Lapses
<1> QED BY <1>2, <1>3 DEF UnmergeConf

\* The release directories are unbound.
LEMMA UnbindIInv == ASSUME IInv, NEW p \in Procs, Unbind(p) PROVE IInv'
<1> USE DEF merged, units
<1>1. /\ nfs' = nfs /\ lapses' = lapses /\ proc[p].pc = "unbind"
      /\ "unlink" \in Pcs /\ "unstage" \in Pcs /\ (Go(p, "unlink") \/ Go(p, "unstage"))
  BY DEF Unbind, Pcs
<1>2. rel' \in [Layers -> {"none", "staged", "hollow", "orphan"}] /\ faults' \in 0 .. MaxFaults
  BY HitlAssumption DEF Unbind, Fault, IInv, TypeOK
<1>3. RestOK'
  BY <1>2 DEF Unbind, IInv, TypeOK, RestOK
<1> QED BY <1>1, <1>3, GoIInv DEF UnmergePcs, MergePcs

\* The staging tree is removed.
LEMMA UnstageIInv == ASSUME IInv, NEW p \in Procs, Unstage(p) PROVE IInv'
<1> USE DEF merged, units, counters
<1>1. nfs' = nfs /\ lapses' = lapses /\ proc[p].pc = "unstage" /\ "unlink" \in Pcs /\ Go(p, "unlink")
  BY DEF Unstage, Pcs
<1>2. RestOK'
  BY DEF Unstage, IInv, TypeOK, RestOK
<1> QED BY <1>1, <1>2, GoIInv DEF UnmergePcs, MergePcs

\* The links are removed; an unmount then unmounts, and nothing else that goes on has a mount.
LEMMA UnlinkIInv == ASSUME IInv, NEW p \in Procs, Unlink(p) PROVE IInv'
<1> USE DEF mounts, units, counters
<1>1. /\ nfs' = nfs /\ nfs \subseteq Exts /\ lapses' = lapses /\ proc[p].pc = "unlink"
      /\ Fits(p, proc[p]) /\ {"umount", "prepare"} \subseteq Pcs
  BY DEF Unlink, IInv, TypeOK, Pcs
<1>2. RestOK'
  BY DEF Unlink, End, IInv, TypeOK, RestOK
<1>3. CASE proc[p].task = "unmerge" /\ End(p)
  BY <1>1, <1>2, <1>3, EndIInv, AnswersForNone DEF Unwound
<1>4. CASE Unwound(p) /\ Go(p, "umount")
  BY <1>1, <1>2, <1>4, GoIInv DEF UnmergePcs, MergePcs, Fits, Unwound
<1>5. CASE ~Unwound(p) /\ Go(p, "prepare")
  <2>1. p \notin Exts /\ proc[p].task # "unmount"
    BY <1>1, <1>5 DEF Fits, Unwound
  <2> QED BY <1>1, <1>2, <1>5, <2>1, GoIInv DEF UnmergePcs, MergePcs
<1> QED BY <1>3, <1>4, <1>5 DEF Unlink

-----------------------------------------------------------------------------
\* A merge answers for no mount, so what it does and whether it fails is all the same.
LEMMA MergingIInv ==
  ASSUME IInv, NEW p \in Procs, RestOK', nfs' = nfs, lapses \subseteq lapses',
         proc[p].pc \in MergePcs,
         \/ End(p)
         \/ \E r \in Proc : /\ proc' = [proc EXCEPT ![p] = r]
                            /\ r.pc \in MergePcs
                            /\ r.task = proc[p].task /\ r.exts = proc[p].exts
  PROVE  IInv'
<1>1. Fits(p, proc[p]) /\ nfs \subseteq Exts /\ (\A e \in Exts : ~Covers(p, proc[p], e))
  BY AnswersForNone DEF IInv, TypeOK, MergePcs
<1>2. CASE End(p)
  BY <1>1, <1>2, EndIInv
<1>3. ASSUME NEW r \in Proc, proc' = [proc EXCEPT ![p] = r], r.pc \in MergePcs,
             r.task = proc[p].task, r.exts = proc[p].exts
      PROVE  IInv'
  <2>1. Fits(p, r)
    BY <1>1, <1>3 DEF Fits, UnmergePcs, MergePcs
  <2> QED BY <1>1, <1>3, <2>1, MoveIInv
<1> QED BY <1>2, <1>3

\* A step that changes only where a process is at.
LEMMA GoRecord ==
  ASSUME TypeOK, NEW p \in Procs, NEW step \in Pcs, Go(p, step)
  PROVE  \E r \in Proc : /\ proc' = [proc EXCEPT ![p] = r] /\ r.pc = step
                         /\ r.task = proc[p].task /\ r.exts = proc[p].exts
<1> DEFINE r == [proc[p] EXCEPT !.pc = step]
<1>1. r \in Proc /\ r.pc = step /\ r.task = proc[p].task /\ r.exts = proc[p].exts
  BY DEF TypeOK, Proc
<1>2. proc' = [proc EXCEPT ![p] = r]
  BY DEF Go
<1> QED BY <1>1, <1>2

\* A merge scans.
LEMMA PrepareIInv == ASSUME IInv, NEW p \in Procs, Prepare(p) PROVE IInv'
<1> USE DEF mounts, units
<1>1. /\ nfs' = nfs /\ lapses \subseteq lapses' /\ proc[p].pc \in MergePcs /\ proc[p] \in Proc
  BY DEF Prepare, Lapse, MergeFails, MergePcs, IInv, TypeOK
<1>2. RestOK'
  BY HitlAssumption DEF Prepare, MergeFails, End, Lapse, Lapses, Fault, IInv, TypeOK, RestOK
<1>3. \/ End(p)
      \/ \E plan \in SUBSET Layers :
           proc' = [proc EXCEPT ![p] = [proc[p] EXCEPT !.pc = "link", !.plan = plan]]
  <2>1. Scan \subseteq Layers /\ \A l : Scan \ {l} \subseteq Layers
    BY DEF Scan, Layers
  <2>2. CASE proc' = [proc EXCEPT ![p].pc = "link", ![p].plan = Scan]
    <3>1. proc' = [proc EXCEPT ![p] = [proc[p] EXCEPT !.pc = "link", !.plan = Scan]]
      BY <2>2 DEF IInv, TypeOK
    <3> QED BY <2>1, <3>1
  <2>3. ASSUME NEW l, proc' = [proc EXCEPT ![p].pc = "link", ![p].plan = Scan \ {l}]
        PROVE  \E plan \in SUBSET Layers :
                 proc' = [proc EXCEPT ![p] = [proc[p] EXCEPT !.pc = "link", !.plan = plan]]
    <3>1. proc' = [proc EXCEPT ![p] = [proc[p] EXCEPT !.pc = "link", !.plan = Scan \ {l}]]
      BY <2>3 DEF IInv, TypeOK
    <3> QED BY <2>1, <3>1
  <2> QED BY <2>2, <2>3 DEF Prepare, MergeFails
<1>4. ASSUME NEW plan \in SUBSET Layers
      PROVE  LET r == [proc[p] EXCEPT !.pc = "link", !.plan = plan]
             IN  /\ r \in Proc /\ r.pc \in MergePcs
                 /\ r.task = proc[p].task /\ r.exts = proc[p].exts
  BY <1>1 DEF Proc, Pcs, MergePcs
<1> QED BY <1>1, <1>2, <1>3, <1>4, MergingIInv

\* A merge stages and links.
LEMMA LinkIInv == ASSUME IInv, NEW p \in Procs, Link(p) PROVE IInv'
<1> USE DEF units, counters
<1> DEFINE r == [proc[p] EXCEPT !.pc = "sys", !.plan = {}]
<1>1. /\ nfs' = nfs /\ lapses \subseteq lapses' /\ proc[p].pc \in MergePcs /\ proc[p] \in Proc
      /\ proc[p].plan \subseteq Layers
  BY DEF Link, Lapse, MergeFails, MergePcs, IInv, TypeOK, Proc
<1>2. PICK unread \in SUBSET {l \in proc[p].plan : Unanswered(l)}, done \in SUBSET proc[p].plan :
        LET stage  == {l \in proc[p].plan \ unread : Released(l)}
            orphan == {l \in stage : rel[l] = "orphan"}
        IN /\ Stage(done \cap stage)
           /\ \/ /\ links' = proc[p].plan
                 /\ proc' = [proc EXCEPT ![p].pc = "sys", ![p].plan = {}]
                 /\ Lapse(IF unread = {} THEN {} ELSE {"unread"})
                 /\ UNCHANGED lock
              \/ /\ links' = links \cup done
                 /\ MergeFails(p)
  BY DEF Link
<1>3. /\ rel' \in [Layers -> {"none", "staged", "hollow", "orphan"}]
      /\ staging' \in BOOLEAN
  BY <1>2 DEF Stage, IInv, TypeOK
<1>4. /\ links' \subseteq Layers /\ lapses' \subseteq Lapses /\ lock' \in Procs \cup {NONE}
  BY <1>1, <1>2 DEF MergeFails, End, Lapse, Lapses, IInv, TypeOK
<1>5. RestOK'
  BY <1>3, <1>4 DEF Link, IInv, TypeOK, RestOK
<1>6. End(p) \/ proc' = [proc EXCEPT ![p] = r]
  BY <1>2 DEF MergeFails
<1>7. r \in Proc /\ r.pc \in MergePcs /\ r.task = proc[p].task /\ r.exts = proc[p].exts
  BY <1>1 DEF Proc, Pcs, MergePcs
<1> HIDE DEF r
<1> QED BY <1>1, <1>5, <1>6, <1>7, MergingIInv

\* The merge of the sysext overlay.
LEMMA MergeSysIInv == ASSUME IInv, NEW p \in Procs, MergeSys(p) PROVE IInv'
<1> USE DEF mounts, units
<1>1. /\ nfs' = nfs /\ lapses \subseteq lapses' /\ proc[p].pc \in MergePcs /\ "conf" \in Pcs
      /\ "conf" \in MergePcs /\ (End(p) \/ Go(p, "conf"))
  BY DEF MergeSys, MergeFails, Lapse, MergePcs, Pcs
<1>2. over' \in [Kinds -> SUBSET Layers]
  BY DEF MergeSys, Merge, IInv, TypeOK
<1>3. lapses' \subseteq Lapses /\ lock' \in Procs \cup {NONE} /\ faults' \in 0 .. MaxFaults
  <2>1. faults' \in 0 .. MaxFaults
    BY HitlAssumption DEF MergeSys, Fault, IInv, TypeOK
  <2>2. lapses' \subseteq Lapses /\ lock' \in Procs \cup {NONE}
    BY DEF MergeSys, MergeFails, Lapse, Lapses, End, IInv, TypeOK
  <2> QED BY <2>1, <2>2
<1>4. RestOK'
  BY <1>2, <1>3 DEF MergeSys, IInv, TypeOK, RestOK
<1> QED BY <1>1, <1>4, GoRecord, MergingIInv DEF IInv

\* The merge of the confext overlay.
LEMMA MergeConfIInv == ASSUME IInv, NEW p \in Procs, MergeConf(p) PROVE IInv'
<1> USE DEF mounts, units
<1>1. /\ nfs' = nfs /\ lapses \subseteq lapses' /\ proc[p].pc \in MergePcs /\ "post" \in Pcs
      /\ "post" \in MergePcs /\ (End(p) \/ Go(p, "post"))
  BY DEF MergeConf, MergeFails, Lapse, MergePcs, Pcs
<1>2. over' \in [Kinds -> SUBSET Layers]
  BY DEF MergeConf, Merge, IInv, TypeOK
<1>3. lapses' \subseteq Lapses /\ lock' \in Procs \cup {NONE} /\ faults' \in 0 .. MaxFaults
  <2>1. faults' \in 0 .. MaxFaults
    BY HitlAssumption DEF MergeConf, Fault, IInv, TypeOK
  <2>2. lapses' \subseteq Lapses /\ lock' \in Procs \cup {NONE}
    BY DEF MergeConf, MergeFails, Lapse, Lapses, End, IInv, TypeOK
  <2> QED BY <2>1, <2>2
<1>4. RestOK'
  BY <1>2, <1>3 DEF MergeConf, IInv, TypeOK, RestOK
<1> QED BY <1>1, <1>4, GoRecord, MergingIInv DEF IInv

\* The reload that ends a merge.
LEMMA PostMergeIInv == ASSUME IInv, NEW p \in Procs, PostMerge(p) PROVE IInv'
<1> USE DEF mounts, merged, units, counters
<1>1. nfs' = nfs /\ lapses' = lapses /\ proc[p].pc \in MergePcs /\ End(p)
  BY DEF PostMerge, MergePcs
<1>2. RestOK'
  BY <1>1 DEF PostMerge, Reloaded, End, IInv, TypeOK, RestOK
<1> QED BY <1>1, <1>2, MergingIInv

-----------------------------------------------------------------------------
\* A server that comes or goes, and stuttering, change nothing that is answered for.
LEMMA IdleIInv ==
  ASSUME IInv, UNCHANGED proc, RestOK', nfs' = nfs, lapses' = lapses
  PROVE  IInv'
<1>1. TypeOK'
  BY DEF IInv, TypeOK, RestOK
<1>2. (\A p \in Procs : Fits(p, proc[p])')
  BY DEF IInv, Fits
<1>3. Covered'
  BY DEF IInv, Covered, Covers
<1> QED BY <1>1, <1>2, <1>3 DEF IInv

\* Every step keeps the invariant.
LEMMA NextIInv == IInv /\ [Next]_vars => IInv'
<1> SUFFICES ASSUME IInv, [Next]_vars PROVE IInv'
  OBVIOUS
<1>1. ASSUME NEW c \in Callers, Request(c) PROVE IInv'
  BY <1>1, RequestIInv
<1>2. ASSUME NEW c \in Callers, Mounting(c) PROVE IInv'
  BY <1>2, MakeDirIInv, MountOneIInv, StartWatchdogIInv, UndoIInv, ReloadMountedIInv
     DEF Mounting
<1>3. ASSUME NEW c \in Callers, StopWatchdogs(c) PROVE IInv'
  BY <1>3, StopWatchdogsIInv
<1>4. ASSUME NEW e \in Exts, Probe(e) \/ Sever(e) PROVE IInv'
  BY <1>4, ProbeIInv, SeverIInv
<1>5. ASSUME NEW p \in Procs, Acquire(p) \/ Unmount(p) PROVE IInv'
  BY <1>5, AcquireIInv, UnmountIInv
<1>6. ASSUME NEW p \in Procs, Unmerging(p) PROVE IInv'
  BY <1>6, UnmergeSysIInv, UnmergeConfIInv, UnbindIInv, UnstageIInv, UnlinkIInv DEF Unmerging
<1>7. ASSUME NEW p \in Procs, Merging(p) PROVE IInv'
  BY <1>7, PrepareIInv, LinkIInv, MergeSysIInv, MergeConfIInv, PostMergeIInv DEF Merging
<1>8. CASE Outage \/ Return
  <2>1. RestOK' /\ UNCHANGED <<proc, nfs, lapses>>
    <3>1. alive' \in BOOLEAN
      BY <1>8 DEF Outage, Return
    <3>2. (outages < MaxOutages /\ outages' = outages + 1) \/ outages' = outages
      BY <1>8 DEF Outage, Return, counters
    <3>3. outages' \in 0 .. MaxOutages
      BY <3>2, HitlAssumption DEF IInv, TypeOK
    <3> QED BY <1>8, <3>1, <3>3 DEF Outage, Return, IInv, TypeOK, RestOK, mounts, merged, units, counters
  <2> QED BY <2>1, IdleIInv
<1>9. CASE UNCHANGED vars
  <2>1. RestOK' /\ UNCHANGED <<proc, nfs, lapses>>
    BY <1>9 DEF vars, IInv, TypeOK, RestOK, mounts, merged, units, counters
  <2> QED BY <2>1, IdleIInv
<1> QED BY <1>1, <1>2, <1>3, <1>4, <1>5, <1>6, <1>7, <1>8, <1>9 DEF Next, Step

-----------------------------------------------------------------------------
\* The inductive invariant of every behaviour.
THEOREM HitlInvariance == Spec => []IInv
  BY InitIInv, NextIInv, PTL DEF Spec

\* Mounts, layers, overlays and processes stay within their types, and nothing is
\* mounted but on a directory that is there (mount and unmount_one of service/hitl.rs).
THEOREM HitlTyping == Spec => []TypeOK
<1>1. IInv => TypeOK
  BY DEF IInv
<1> QED BY <1>1, HitlInvariance, PTL

\* However requests and fallbacks cross, an export that is mounted has a watchdog that
\* still looks after it, or a request that will start it, undo the mount or unmount it;
\* unless it could not be unmounted ("a mount with no watchdog is the exact hazard this
\* feature prevents").
THEOREM MountsWatched == Spec => []MountIsWatched
  BY HitlInvariance, CoveredMeansWatched, PTL

-----------------------------------------------------------------------------
\* What holds while at most one process is at work (SoleInv). It is said of a process p
\* that has the board for itself, the one at work or, at rest, any of them.

\* The export that p has mounted but not handed to a watchdog: no merge has seen it.
Fresh(p) == IF proc[p].pc \in {"watch", "undo"} THEN {proc[p].ext} ELSE {}

\* The exports that the overlays may be made of.
Held(p) == nfs \ Fresh(p)

\* p is taking its targets out of the overlays and off the tree.
Unwinding(p) == Unwound(p) /\ proc[p].pc \in UnmergePcs \cup {"umount"}

\* The directories p may leave without an export for the moment: it puts that right
\* when its mount fails, or at its unmount.
DirsOwed(p) == IF proc[p].pc = "nfs" THEN {proc[p].ext}
               ELSE IF Unwinding(p) THEN proc[p].exts ELSE {}

\* The drop-ins that p is going to remove.
DropinsOwed(p) == IF Unwinding(p) THEN proc[p].svc ELSE {}

\* The HITL root and the drop-ins follow the mounts, but for what p owes; what is bound
\* follows the mounts and the staging tree; a merge links what the tree shows.
Tidy(p) ==
  /\ dir \ nfs \subseteq DirsOwed(p)
  /\ "unread" \notin lapses =>
       /\ dropins \ nfs \subseteq DropinsOwed(p)
       /\ Unwinding(p) => dropins \cap proc[p].exts \subseteq proc[p].svc
  /\ \A e \in Exts \ Held(p) : rel[<<e, "hitl">>] = "none"
  /\ ~staging => \A l \in Layers : rel[l] \in {"none", "orphan"}
  /\ proc[p].pc = "link" /\ "broken" \notin lapses => proc[p].plan = Scan
  /\ Busy(p) /\ proc[p].task = "unmerge" => "asked" \in lapses

\* An unmerge failed on the way to a merge, and a release file was copied onto itself:
\* systemd does not know that layer any more.
Truncated == "stuck" \in lapses /\ Hollow

\* Hierarchy k is merged, or NeverUnmerged excuses that it is not.
Stands(p, k) == over[k] # {} \/ Truncated \/ ("unread" \in lapses /\ Held(p) # {})

\* What systemd would merge now.
Known == {l \in links : rel[l] = "staged"}

\* The links give systemd something to merge, or there is an excuse.
Ready == Known # {} \/ Truncated \/ ("unread" \in lapses /\ nfs # {})

\* p still has the merge of k ahead, and cannot end before it unless "broken".
Underway(p, k) ==
  \/ proc[p].pc \in {"unconf", "unbind", "unstage", "unlink", "umount", "prepare", "link"}
  \/ proc[p].pc = "unsys" /\ Unwound(p)
  \/ proc[p].pc = "sys" /\ Ready
  \/ proc[p].pc = "conf" /\ Ready /\ k = "confext"

\* A hierarchy that does not stand is going to be merged by p.
Merged(p) == Exts # {} /\ lapses \cap {"asked", "broken"} = {} =>
               \A k \in Kinds : Stands(p, k) \/ Underway(p, k)

\* The layers ls serve each extension that is not in held from its image, and every one
\* from somewhere unless its mount could not be read.
Serve(ls, held) ==
  /\ \A e \in Exts \ held : <<e, "image">> \in ls /\ <<e, "hitl">> \notin ls
  /\ "unread" \notin lapses => \A e \in Exts : \E s \in {"hitl", "image"} : <<e, s>> \in ls

\* Overlay k serves every extension, what is not held from its image.
Good(p, k) == Serve(over[k], Held(p))

\* So it does, or will once the links are merged.
Linked(p, k) == Good(p, k) \/ (over[k] = {} /\ Serve(Known, nfs))

\* Neither hierarchy is merged.
Stripped == over["sysext"] = {} /\ over["confext"] = {}

Whole(p) == Good(p, "sysext") /\ Good(p, "confext")

\* The steps of an unmerge and a merge between which the overlays are taken apart.
Apart == {"unconf", "unbind", "unstage", "unlink", "umount", "prepare", "link", "sys", "conf"}

\* How far each step of p has come with the overlays. A merge over one that was left
\* merged keeps it, a merge after an unmerge finds nothing bound.
Phase(p) ==
  LET pc == proc[p].pc IN
  /\ pc = "unconf" => over["sysext"] = {}
  /\ pc \in {"unbind", "unstage", "unlink", "umount"} => Stripped
  /\ pc \in {"unlink", "umount"} => ~staging
  /\ pc \in {"prepare", "link"} => Whole(p) \/ (Stripped /\ ~staging)
  /\ pc = "sys" => Linked(p, "sysext") /\ Linked(p, "confext")
  /\ pc = "conf" => Good(p, "sysext") /\ Linked(p, "confext")
  /\ pc \notin Apart => IF pc = "unsys" /\ proc[p].task = "watch" THEN Stripped ELSE Whole(p)

\* At each step every extension is served as far as it can be, and no reload has found
\* the confexts gone.
Served(p) == lapses \cap {"asked", "broken", "stuck"} = {} =>
               Phase(p) /\ ("unread" \notin lapses => lost = {})

\* All that holds of a process that has the board for itself.
Calm(p) == Tidy(p) /\ Merged(p) /\ Served(p)

\* No other process is at work.
Alone(p) == \A q \in Procs \ {p} : ~Busy(q)

\* Unless one began while another was at work, at most one process is at work, and
\* what holds of it alone holds of any process that is alone.
SoleInv == "crossed" \notin lapses =>
  /\ \A p, q \in Procs : Busy(p) /\ Busy(q) => p = q
  /\ \A p \in Procs : Alone(p) => Calm(p)

-----------------------------------------------------------------------------
\* The steps at which a process is not at work.
Calls == {"idle", "probe", "lock"}

\* What holds while nobody is at work names no process.
LEMMA RestFacts ==
  ASSUME NEW p, NEW r, proc'[p].pc \in Calls, proc'[r].pc \in Calls, Calm(p)'
  PROVE  Calm(r)'
<1>1. /\ Fresh(p)' = {} /\ Fresh(r)' = {} /\ ~Unwinding(p)' /\ ~Unwinding(r)'
      /\ ~Busy(p)' /\ ~Busy(r)'
  BY DEF Calls, Fresh, Unwinding, Unwound, UnmergePcs, Busy
<1>2. Held(p)' = nfs' /\ Held(r)' = nfs'
  BY <1>1 DEF Held
<1>3. DirsOwed(p)' = {} /\ DirsOwed(r)' = {} /\ DropinsOwed(p)' = {} /\ DropinsOwed(r)' = {}
  BY <1>1 DEF DirsOwed, DropinsOwed, Calls
<1>4. Tidy(r)'
  BY <1>1, <1>2, <1>3 DEF Calm, Tidy, Calls
<1>5. \A k \in Kinds : ~Underway(p, k)' /\ (Stands(p, k)' => Stands(r, k)')
  BY <1>2 DEF Underway, Stands, Calls
<1>6. Merged(r)'
  BY <1>5 DEF Calm, Merged
<1>7. Whole(p)' => Whole(r)'
  BY <1>2 DEF Whole, Good
<1>8. Served(r)'
  BY <1>7 DEF Calm, Served, Phase, Calls, Apart
<1> QED BY <1>4, <1>6, <1>8 DEF Calm

\* Nothing that is said of a process changes.
LEMMA SameCalm ==
  ASSUME NEW p, Calm(p), UNCHANGED <<mounts, merged, units, lapses>>,
         \/ proc'[p] = proc[p]
         \/ proc[p].pc \in Calls /\ proc'[p].pc \in Calls
  PROVE  Calm(p)'
<1>0. UNCHANGED <<dir, nfs, rel, staging, links, over, dropins, lost, lapses>>
  BY DEF mounts, merged, units
<1>1. /\ Fresh(p)' = Fresh(p) /\ Unwinding(p)' = Unwinding(p) /\ Busy(p)' = Busy(p)
  BY DEF Calls, Fresh, Unwinding, Unwound, UnmergePcs, Busy
<1>2. Held(p)' = Held(p) /\ Scan' = Scan
  BY <1>0, <1>1 DEF Held, Scan
<1>3. DirsOwed(p)' = DirsOwed(p) /\ DropinsOwed(p)' = DropinsOwed(p)
  BY <1>1 DEF DirsOwed, DropinsOwed, Unwinding, UnmergePcs, Calls
<1>4. Tidy(p)'
  BY <1>0, <1>1, <1>2, <1>3 DEF Calm, Tidy, Calls, Unwinding, UnmergePcs, Busy
<1>5. Truncated' = Truncated /\ Ready' = Ready /\ Known' = Known
  BY <1>0 DEF Truncated, Hollow, Ready, Known
<1>6. \A k \in Kinds : (Underway(p, k) => Underway(p, k)') /\ (Stands(p, k) => Stands(p, k)')
  BY <1>0, <1>2, <1>5 DEF Underway, Unwound, Stands, Calls
<1>7. Merged(p)'
  BY <1>0, <1>6 DEF Calm, Merged
<1>8. /\ \A k : Good(p, k) => Good(p, k)'
      /\ \A k : Linked(p, k) => Linked(p, k)'
      /\ Stripped = Stripped'
  BY <1>0, <1>2, <1>5 DEF Good, Linked, Serve, Stripped
<1>9. Whole(p) => Whole(p)'
  BY <1>8 DEF Whole
<1>10. Served(p)'
  BY <1>0, <1>8, <1>9 DEF Calm, Served, Phase, Calls, Apart
<1> QED BY <1>4, <1>7, <1>10 DEF Calm

\* A process that is at work, or begins when no other is.
LEMMA BusyStep ==
  ASSUME SoleInv, NEW p \in Procs, lapses \subseteq lapses',
         "crossed" \notin lapses' => Busy(p) \/ Alone(p),
         \A q \in Procs \ {p} : proc'[q] = proc[q] \/ proc'[q].pc \in Calls,
         Calm(p) => Calm(p)'
  PROVE  SoleInv'
<1> SUFFICES ASSUME "crossed" \notin lapses'
             PROVE  /\ \A q, r \in Procs : Busy(q)' /\ Busy(r)' => q = r
                    /\ \A r \in Procs : Alone(r)' => Calm(r)'
  BY DEF SoleInv
<1>1. Alone(p) /\ Calm(p)'
  BY DEF SoleInv, Alone
<1>2. \A q \in Procs \ {p} : proc'[q].pc \in Calls /\ ~Busy(q)'
  BY <1>1 DEF Alone, Busy, Calls
<1>3. ASSUME NEW r \in Procs, Alone(r)' PROVE Calm(r)'
  <2>1. CASE r = p
    BY <1>1, <2>1
  <2>2. CASE r # p
    <3>1. ~Busy(p)'
      BY <1>3, <2>2 DEF Alone
    <3>2. proc'[p].pc \in Calls /\ proc'[r].pc \in Calls
      BY <1>2, <2>2, <3>1 DEF Busy, Calls
    <3> QED BY <1>1, <3>2, RestFacts
  <2> QED BY <2>1, <2>2
<1> QED BY <1>2, <1>3

\* A watchdog or a caller that is not at work changes nothing but itself.
LEMMA AsideStep ==
  ASSUME SoleInv, NEW p \in Procs, proc[p].pc \in Calls, proc'[p].pc \in Calls,
         \A q \in Procs \ {p} : proc'[q] = proc[q],
         UNCHANGED <<mounts, merged, units, lapses>>
  PROVE  SoleInv'
<1> SUFFICES ASSUME "crossed" \notin lapses'
             PROVE  /\ \A q, r \in Procs : Busy(q)' /\ Busy(r)' => q = r
                    /\ \A r \in Procs : Alone(r)' => Calm(r)'
  BY DEF SoleInv
<1>1. \A q \in Procs : Busy(q)' = Busy(q)
  BY DEF Busy, Calls
<1>2. ASSUME NEW r \in Procs, Alone(r)' PROVE Calm(r)'
  <2>1. Alone(r)
    BY <1>1, <1>2 DEF Alone
  <2>2. Calm(r)
    BY <2>1 DEF SoleInv
  <2> QED BY <2>2, SameCalm
<1> QED BY <1>1, <1>2 DEF SoleInv

-----------------------------------------------------------------------------
\* The steps at which a process leaves everything as it would be at rest.
Plain == Calls \cup {"mkdir", "reload", "stop", "sever"}

\* What Go, an assignment to one process, and End do to the processes.
LEMMA GoFacts ==
  ASSUME IInv, NEW p \in Procs, NEW step, Go(p, step)
  PROVE  /\ proc'[p].pc = step /\ proc'[p].task = proc[p].task /\ proc'[p].exts = proc[p].exts
         /\ proc'[p].ext = proc[p].ext /\ proc'[p].svc = proc[p].svc
         /\ proc'[p].plan = proc[p].plan
         /\ \A q \in Procs \ {p} : proc'[q] = proc[q]
<1> DEFINE r == [proc[p] EXCEPT !.pc = step]
<1>1. /\ r.pc = step /\ r.task = proc[p].task /\ r.exts = proc[p].exts
      /\ r.ext = proc[p].ext /\ r.svc = proc[p].svc /\ r.plan = proc[p].plan
  BY DEF IInv, TypeOK, Proc
<1>2. proc' = [proc EXCEPT ![p] = r]
  BY DEF Go, IInv, TypeOK
<1> HIDE DEF r
<1>3. proc'[p] = r /\ \A q \in Procs \ {p} : proc'[q] = proc[q]
  BY <1>2 DEF IInv, TypeOK
<1> QED BY <1>1, <1>3

LEMMA SetFacts ==
  ASSUME IInv, NEW p \in Procs, NEW r, proc' = [proc EXCEPT ![p] = r]
  PROVE  proc'[p] = r /\ \A q \in Procs \ {p} : proc'[q] = proc[q]
  BY DEF IInv, TypeOK

LEMMA EndFacts ==
  ASSUME IInv, NEW p \in Procs, End(p)
  PROVE  /\ proc'[p].pc = "idle" /\ proc'[p].task = "none"
         /\ \A q \in Procs \ {p} : proc'[q] = proc[q]
<1>1. proc' = [proc EXCEPT ![p] = Idle] /\ Idle.pc = "idle" /\ Idle.task = "none"
  BY DEF End, Idle
<1> QED BY <1>1, SetFacts

\* Overlays that serve what is not held go on to, when no less is held.
LEMMA GoodKept ==
  ASSUME NEW p, NEW k, Good(p, k), over'[k] = over[k],
         \A e \in Exts : e \in Held(p) => e \in Held(p)', lapses \subseteq lapses'
  PROVE  Good(p, k)'
  BY DEF Good, Serve

\* A hierarchy that stands does so after a step that leaves it and its excuse.
LEMMA StandsKept ==
  ASSUME NEW p, NEW k, Stands(p, k), over'[k] = over[k], Truncated => Truncated',
         Held(p) \subseteq Held(p)', lapses \subseteq lapses'
  PROVE  Stands(p, k)'
  BY DEF Stands

\* A process that has changed nothing yet goes on, to an unmerge or a merge too.
LEMMA PlainStep ==
  ASSUME NEW p, Calm(p), proc[p].pc \in Plain,
         \/ proc'[p].pc \in Plain \cup {"prepare"}
         \/ proc'[p].pc = "unsys" /\ proc'[p].task \notin {"unmount", "watch"},
         proc'[p].task = "unmerge" => proc'[p].pc \in Calls \/ "asked" \in lapses',
         UNCHANGED <<mounts, merged, dropins>>, lapses \subseteq lapses',
         "unread" \notin lapses /\ Whole(p) => lost' = lost
  PROVE  Calm(p)'
<1>0. UNCHANGED <<dir, nfs, rel, staging, links, over, dropins>>
  BY DEF mounts, merged
<1>1. /\ Fresh(p) = {} /\ Fresh(p)' = {} /\ ~Unwinding(p) /\ ~Unwinding(p)'
      /\ proc[p].pc # "nfs" /\ proc'[p].pc \notin {"nfs", "link"}
  BY DEF Plain, Calls, Fresh, Unwinding, Unwound, UnmergePcs
<1>2. Held(p)' = nfs /\ Held(p) = nfs
  BY <1>0, <1>1 DEF Held
<1>3. DirsOwed(p)' = {} /\ DropinsOwed(p)' = {} /\ DirsOwed(p) = {} /\ DropinsOwed(p) = {}
  BY <1>1 DEF DirsOwed, DropinsOwed
<1>4. Tidy(p)'
  BY <1>0, <1>1, <1>2, <1>3 DEF Calm, Tidy, Busy, Calls
<1>5. Truncated => Truncated'
  BY <1>0 DEF Truncated, Hollow
<1>6. \A k \in Kinds : ~Underway(p, k) /\ (Stands(p, k) => Stands(p, k)')
  BY <1>0, <1>2, <1>5 DEF Underway, Plain, Calls, Stands
<1>7. Merged(p)'
  BY <1>6 DEF Calm, Merged
<1>8. Whole(p) => Whole(p)'
  BY <1>0, <1>2, GoodKept DEF Whole
<1>9. lapses' \cap {"asked", "broken", "stuck"} = {} => Whole(p) /\ ("unread" \notin lapses => lost = {})
  BY DEF Calm, Served, Phase, Plain, Calls, Apart
<1>10. Served(p)'
  BY <1>8, <1>9 DEF Served, Phase, Plain, Calls, Apart
<1> QED BY <1>4, <1>7, <1>10 DEF Calm

\* At boot nobody is at work, and the images are merged.
LEMMA InitSole == Init => SoleInv
<1> SUFFICES ASSUME Init, NEW p \in Procs PROVE Calm(p) /\ ~Busy(p)
  BY DEF SoleInv
<1>1. proc[p].pc = "idle" /\ proc[p].task = "none" /\ ~Busy(p)
  BY DEF Init, Idle, Busy
<1>2. Fresh(p) = {} /\ ~Unwinding(p) /\ DirsOwed(p) = {} /\ DropinsOwed(p) = {} /\ Held(p) = nfs
  BY <1>1 DEF Fresh, Unwinding, Unwound, DirsOwed, DropinsOwed, Held, UnmergePcs
<1>3. Tidy(p)
  BY <1>1, <1>2 DEF Tidy, Init, Layers
<1>4. \A k \in Kinds : over[k] = Exts \X {"image"}
  BY DEF Init
<1>5. Exts # {} => Exts \X {"image"} # {}
  <2>1. ASSUME NEW e \in Exts PROVE <<e, "image">> \in Exts \X {"image"}
    OBVIOUS
  <2> QED BY <2>1
<1>6. Merged(p)
  BY <1>4, <1>5 DEF Merged, Stands
<1>7. \A k \in Kinds : Good(p, k)
  BY <1>4 DEF Good, Serve
<1>8. Served(p)
  BY <1>1, <1>7 DEF Served, Phase, Apart, Whole, Kinds, Init
<1> QED BY <1>1, <1>3, <1>6, <1>8 DEF Calm

-----------------------------------------------------------------------------
\* A request that begins while another is at work has lapsed; one that is alone finds
\* the board at rest.
LEMMA RequestSole == ASSUME IInv, SoleInv, NEW c \in Callers, Request(c) PROVE SoleInv'
<1>1. /\ c \in Procs /\ proc[c].pc = "idle" /\ proc[c].pc \in Plain
      /\ UNCHANGED <<mounts, merged, units>>
  BY DEF Request, RequestMount, RequestUnmount, RequestRefresh, Accepts, Procs, Plain, Calls
<1>2. "crossed" \notin Crossing(c) => Alone(c)
  BY DEF Crossing, Alone
<1>3. ASSUME NEW es \in (SUBSET Exts) \ {{}}, RequestMount(c, es) PROVE SoleInv'
  <2> DEFINE r == [Idle EXCEPT !.task = "mount", !.pc = "mkdir", !.exts = es]
  <2>1. r.pc = "mkdir" /\ r.task = "mount"
    BY DEF Idle
  <2>2. proc' = [proc EXCEPT ![c] = r] /\ lapses' = lapses \cup Crossing(c)
    BY <1>3 DEF RequestMount, Lapse
  <2> HIDE DEF r
  <2>3. proc'[c] = r /\ \A q \in Procs \ {c} : proc'[q] = proc[q]
    BY <1>1, <2>2, SetFacts
  <2>4. Calm(c) => Calm(c)'
    BY <1>1, <2>1, <2>2, <2>3, PlainStep DEF Plain, units
  <2> QED BY <1>1, <1>2, <2>2, <2>3, <2>4, BusyStep
<1>4. ASSUME NEW es \in (SUBSET Exts) \ {{}}, RequestUnmount(c, es) PROVE SoleInv'
  <2> DEFINE r == [Idle EXCEPT !.task = "unmount", !.pc = "lock", !.exts = es]
  <2>1. r.pc = "lock"
    BY DEF Idle
  <2>2. proc' = [proc EXCEPT ![c] = r] /\ UNCHANGED lapses
    BY <1>4 DEF RequestUnmount
  <2> HIDE DEF r
  <2>3. proc'[c] = r /\ \A q \in Procs \ {c} : proc'[q] = proc[q]
    BY <1>1, <2>2, SetFacts
  <2> QED BY <1>1, <2>1, <2>2, <2>3, AsideStep DEF Calls
<1>5. ASSUME NEW task \in Requests, RequestRefresh(c, task) PROVE SoleInv'
  <2> DEFINE step == IF task = "merge" THEN "prepare" ELSE "unsys"
             r == [Idle EXCEPT !.task = task, !.pc = step]
  <2>1. r.pc = step /\ r.task = task
    BY DEF Idle
  <2>2. /\ proc' = [proc EXCEPT ![c] = r] /\ task \in {"refresh", "merge", "unmerge"}
        /\ lapses' = lapses \cup (Crossing(c) \cup (IF task = "unmerge" THEN {"asked"} ELSE {}))
    BY <1>5 DEF RequestRefresh, Lapse
  <2> HIDE DEF r
  <2>3. proc'[c] = r /\ \A q \in Procs \ {c} : proc'[q] = proc[q]
    BY <1>1, <2>2, SetFacts
  <2>4. Calm(c) => Calm(c)'
    BY <1>1, <2>1, <2>2, <2>3, PlainStep DEF Plain, units
  <2> QED BY <1>1, <1>2, <2>2, <2>3, <2>4, BusyStep
<1> QED BY <1>3, <1>4, <1>5 DEF Request

-----------------------------------------------------------------------------
\* With the steps that set up a mount, where the overlays stand as at rest.
Still == Plain \cup {"nfs", "watch", "undo"}

\* As long as a process sets up mounts, the overlays stand as they were.
LEMMA StillStep ==
  ASSUME NEW p, Calm(p), proc[p].pc \in Still, proc'[p].pc \in Still,
         UNCHANGED <<over, lost>>, Truncated => Truncated', Held(p) \subseteq Held(p)',
         lapses \subseteq lapses'
  PROVE  Merged(p)' /\ Served(p)'
<1>1. \A k \in Kinds : ~Underway(p, k) /\ (Stands(p, k) => Stands(p, k)')
  BY StandsKept DEF Underway, Still, Plain, Calls
<1>2. Merged(p)'
  BY <1>1 DEF Calm, Merged
<1>3. Whole(p) => Whole(p)'
  BY GoodKept DEF Whole
<1>4. lapses' \cap {"asked", "broken", "stuck"} = {} => Whole(p) /\ ("unread" \notin lapses => lost = {})
  BY DEF Calm, Served, Phase, Still, Plain, Calls, Apart
<1>5. Served(p)'
  BY <1>3, <1>4 DEF Served, Phase, Still, Plain, Calls, Apart
<1> QED BY <1>2, <1>5

\* The directory of the next export is owed until it is mounted.
LEMMA MakeDirSole ==
  ASSUME IInv, SoleInv, NEW c \in Callers, NEW e \in Exts, MakeDir(c, e) PROVE SoleInv'
<1> DEFINE r == [proc[c] EXCEPT !.pc = "nfs", !.ext = e]
<1>1. /\ proc[c].pc = "mkdir" /\ c \in Procs /\ dir' = dir \cup {e}
      /\ UNCHANGED <<nfs, rel, staging, links, over, dropins, lost, lapses>>
  BY DEF MakeDir, Procs, merged, units
<1>2. r.pc = "nfs" /\ r.ext = e /\ r.task = proc[c].task
  BY <1>1 DEF IInv, TypeOK, Proc
<1>3. proc' = [proc EXCEPT ![c] = r]
  BY DEF MakeDir, IInv, TypeOK
<1> HIDE DEF r
<1>4. proc'[c] = r /\ \A q \in Procs \ {c} : proc'[q] = proc[q]
  BY <1>1, <1>3, SetFacts
<1>5. Busy(c)
  BY <1>1 DEF Busy
<1>6. ASSUME Calm(c) PROVE Calm(c)'
  <2>1. /\ Fresh(c) = {} /\ Fresh(c)' = {} /\ ~Unwinding(c) /\ ~Unwinding(c)'
    BY <1>1, <1>2, <1>4 DEF Fresh, Unwinding, UnmergePcs
  <2>2. Held(c) = nfs /\ Held(c)' = nfs /\ Truncated' = Truncated
    BY <1>1, <2>1 DEF Held, Truncated, Hollow
  <2>3. /\ DirsOwed(c) = {} /\ DropinsOwed(c) = {} /\ DirsOwed(c)' = {e} /\ DropinsOwed(c)' = {}
    BY <1>1, <1>2, <1>4, <2>1 DEF DirsOwed, DropinsOwed
  <2>4. Tidy(c)'
    BY <1>1, <1>2, <1>4, <1>5, <1>6, <2>1, <2>2, <2>3 DEF Calm, Tidy
  <2>5. Merged(c)' /\ Served(c)'
    BY <1>1, <1>2, <1>4, <1>6, <2>2, StillStep DEF Still, Plain
  <2> QED BY <2>4, <2>5 DEF Calm
<1> QED BY <1>1, <1>4, <1>5, <1>6, BusyStep

\* A new mount has its drop-ins; one that fails leaves no directory that was not there.
LEMMA MountOneSole == ASSUME IInv, SoleInv, NEW c \in Callers, MountOne(c) PROVE SoleInv'
<1> DEFINE e == proc[c].ext
<1>1. /\ proc[c].pc = "nfs" /\ c \in Procs /\ e \in Exts
      /\ UNCHANGED <<rel, staging, links, over, lost, lapses>>
  BY DEF MountOne, Procs, merged, IInv, Fits
<1>2. Busy(c)
  BY <1>1 DEF Busy
<1>3. /\ Fresh(c) = {} /\ ~Unwinding(c) /\ Held(c) = nfs /\ DirsOwed(c) = {e} /\ DropinsOwed(c) = {}
  BY <1>1 DEF Fresh, Unwinding, UnmergePcs, Held, DirsOwed, DropinsOwed
<1>4. CASE e \notin nfs /\ nfs' = nfs \cup {e} /\ dir' = dir \cup {e} /\ CreateDropins(e) /\ Go(c, "watch")
  <2>1. /\ proc'[c].pc = "watch" /\ proc'[c].ext = e /\ proc'[c].task = proc[c].task
        /\ \A q \in Procs \ {c} : proc'[q] = proc[q]
    BY <1>1, <1>4, GoFacts
  <2>2. ASSUME Calm(c) PROVE Calm(c)'
    <3>1. /\ Fresh(c)' = {e} /\ ~Unwinding(c)' /\ Held(c)' = nfs
          /\ DirsOwed(c)' = {} /\ DropinsOwed(c)' = {} /\ Truncated' = Truncated
      BY <1>1, <1>4, <2>1 DEF Fresh, Unwinding, UnmergePcs, Held, DirsOwed, DropinsOwed, Truncated, Hollow
    <3>2. Tidy(c)'
      BY <1>1, <1>2, <1>3, <1>4, <2>1, <2>2, <3>1 DEF Calm, Tidy, CreateDropins
    <3>3. Merged(c)' /\ Served(c)'
      BY <1>1, <1>3, <2>1, <2>2, <3>1, StillStep DEF Still
    <3> QED BY <3>2, <3>3 DEF Calm
  <2> QED BY <1>1, <1>2, <2>1, <2>2, BusyStep
<1>5. CASE (dir' = IF e \in nfs THEN dir ELSE dir \ {e}) /\ End(c) /\ UNCHANGED <<nfs, dropins>>
  <2>1. /\ proc'[c].pc = "idle" /\ proc'[c].task = "none"
        /\ \A q \in Procs \ {c} : proc'[q] = proc[q]
    BY <1>1, <1>5, EndFacts
  <2>2. ASSUME Calm(c) PROVE Calm(c)'
    <3>1. /\ Fresh(c)' = {} /\ ~Unwinding(c)' /\ Held(c)' = nfs
          /\ DirsOwed(c)' = {} /\ DropinsOwed(c)' = {} /\ Truncated' = Truncated
      BY <1>1, <1>5, <2>1 DEF Fresh, Unwinding, UnmergePcs, Held, DirsOwed, DropinsOwed, Truncated, Hollow
    <3>2. Tidy(c)'
      BY <1>1, <1>2, <1>3, <1>5, <2>1, <2>2, <3>1 DEF Calm, Tidy
    <3>3. Merged(c)' /\ Served(c)'
      BY <1>1, <1>3, <2>1, <2>2, <3>1, StillStep DEF Still, Plain, Calls
    <3> QED BY <3>2, <3>3 DEF Calm
  <2> QED BY <1>1, <1>2, <2>1, <2>2, BusyStep
<1> QED BY <1>4, <1>5 DEF MountOne, Mountable

\* A watchdog takes over the mount, which may be merged from now on.
LEMMA StartWatchdogSole ==
  ASSUME IInv, SoleInv, NEW c \in Callers, StartWatchdog(c) PROVE SoleInv'
<1> DEFINE e == proc[c].ext
           rest == proc[c].exts \ {e}
           step == IF rest = {} THEN "reload" ELSE "mkdir"
           started == [proc[c] EXCEPT !.exts = rest, !.ext = NONE, !.pc = step]
           failed == [proc[c] EXCEPT !.pc = "undo"]
<1>1. /\ proc[c].pc = "watch" /\ c \in Procs /\ e \in Exts /\ e \in Procs /\ e # c
      /\ UNCHANGED <<dir, nfs, rel, staging, links, over, dropins, lost, lapses>>
  BY HitlAssumption DEF StartWatchdog, Procs, mounts, merged, units, IInv, Fits
<1>2. /\ started.pc = step /\ started.task = proc[c].task
      /\ failed.pc = "undo" /\ failed.ext = e /\ failed.task = proc[c].task
  BY <1>1 DEF IInv, TypeOK, Proc
<1>3. \/ proc' = [proc EXCEPT ![e] = Watching, ![c] = started]
      \/ proc' = [proc EXCEPT ![e] = Idle, ![c] = failed]
  BY <1>1 DEF StartWatchdog, IInv, TypeOK, Proc
<1> HIDE DEF started, failed
<1>4. /\ proc'[c] = started \/ proc'[c] = failed
      /\ proc'[e] \in {Watching, Idle}
      /\ \A q \in Procs \ {e, c} : proc'[q] = proc[q]
  BY <1>1, <1>3 DEF IInv, TypeOK
<1>5. Watching.pc = "probe" /\ Idle.pc = "idle"
  BY DEF Watching, Idle
<1>6. \A q \in Procs \ {c} : proc'[q] = proc[q] \/ proc'[q].pc \in Calls
  BY <1>4, <1>5 DEF Calls
<1>7. Busy(c) /\ proc'[c].task = proc[c].task /\ proc'[c].pc \in {"reload", "mkdir", "undo"}
  BY <1>1, <1>2, <1>4 DEF Busy
<1>8. ASSUME Calm(c) PROVE Calm(c)'
  <2>1. /\ ~Unwinding(c) /\ ~Unwinding(c)' /\ Truncated' = Truncated
        /\ Fresh(c) = {e} /\ Fresh(c)' \subseteq {e}
    BY <1>1, <1>2, <1>4, <1>7 DEF Unwinding, UnmergePcs, Truncated, Hollow, Fresh
  <2>2. Held(c) \subseteq Held(c)'
    BY <1>1, <2>1 DEF Held
  <2>3. DirsOwed(c) = {} /\ DirsOwed(c)' = {} /\ DropinsOwed(c) = {} /\ DropinsOwed(c)' = {}
    BY <1>1, <1>7, <2>1 DEF DirsOwed, DropinsOwed
  <2>4. Tidy(c)'
    BY <1>1, <1>7, <1>8, <2>1, <2>2, <2>3 DEF Calm, Tidy
  <2>5. Merged(c)' /\ Served(c)'
    BY <1>1, <1>7, <1>8, <2>1, <2>2, StillStep DEF Still, Plain
  <2> QED BY <2>4, <2>5 DEF Calm
<1> QED BY <1>1, <1>6, <1>7, <1>8, BusyStep

\* An undo leaves neither directory nor drop-ins, unless the export is held or unread.
LEMMA UndoSole == ASSUME IInv, SoleInv, NEW c \in Callers, Undo(c) PROVE SoleInv'
<1> DEFINE e == proc[c].ext
<1>1. /\ proc[c].pc = "undo" /\ c \in Procs /\ e \in Exts /\ Busy(c)
      /\ UNCHANGED <<staging, links, over, lost>>
  BY DEF Undo, Procs, merged, IInv, Fits, Busy
<1>2. /\ proc'[c].pc = "idle" /\ proc'[c].task = "none"
      /\ \A q \in Procs \ {c} : proc'[q] = proc[q]
  BY <1>1, EndFacts DEF Undo
<1>3. PICK kept \in SUBSET ({e} \cap nfs) : nfs' = nfs \ ({e} \ kept) /\ rel' = Unbound({e})
  BY DEF Undo, TakeOff
<1>4. lapses \subseteq lapses'
  BY DEF Undo, TakeOff, Lapse
<1>5. \/ dropins' = dropins \ {e}
      \/ "unread" \in lapses' /\ dropins' = dropins
  BY DEF Undo, TakeOff, Lapse, CleanupDropins
<1>6. dir' = dir \ ({e} \ nfs')
  BY DEF Undo, RemoveDirs
<1>7. /\ Fresh(c) = {e} /\ ~Unwinding(c) /\ Held(c) = nfs \ {e} /\ DirsOwed(c) = {} /\ DropinsOwed(c) = {}
  BY <1>1 DEF Fresh, Unwinding, UnmergePcs, Held, DirsOwed, DropinsOwed
<1>8. /\ Fresh(c)' = {} /\ ~Unwinding(c)' /\ Held(c)' = nfs' /\ DirsOwed(c)' = {} /\ DropinsOwed(c)' = {}
      /\ ~Busy(c)'
  BY <1>2 DEF Fresh, Unwinding, UnmergePcs, Held, DirsOwed, DropinsOwed, Busy
<1>9. ASSUME Calm(c) PROVE Calm(c)'
  <2>1. \A l \in Layers : rel'[l] = rel[l]
    <3>1. rel[<<e, "hitl">>] = "none"
      BY <1>1, <1>7, <1>9 DEF Calm, Tidy
    <3>2. ASSUME NEW l \in Layers, l[1] \in {e}, l[2] = "hitl" PROVE l = <<e, "hitl">>
      BY <3>2 DEF Layers
    <3> QED BY <1>3, <3>1, <3>2 DEF Unbound
  <2>2. Held(c) \subseteq Held(c)' /\ \A x \in Exts : <<x, "hitl">> \in Layers
    BY <1>3, <1>7, <1>8 DEF Layers
  <2>3. dir' \ nfs' = {}
    BY <1>3, <1>6, <1>7, <1>9 DEF Calm, Tidy
  <2>4. "unread" \notin lapses' => dropins' \ nfs' = {}
    BY <1>3, <1>4, <1>5, <1>7, <1>9 DEF Calm, Tidy
  <2>5. Tidy(c)'
    BY <1>1, <1>2, <1>8, <1>9, <2>1, <2>2, <2>3, <2>4 DEF Calm, Tidy
  <2>6. Truncated => Truncated'
    BY <1>4, <2>1 DEF Truncated, Hollow
  <2>7. Merged(c)' /\ Served(c)'
    BY <1>1, <1>2, <1>4, <1>9, <2>2, <2>6, StillStep DEF Still, Plain, Calls
  <2> QED BY <2>5, <2>7 DEF Calm
<1> QED BY <1>1, <1>2, <1>4, <1>9, BusyStep

\* The reload after a mount comes while the earlier overlays still serve everything.
LEMMA ReloadMountedSole ==
  ASSUME IInv, SoleInv, NEW c \in Callers, ReloadMounted(c) PROVE SoleInv'
<1>1. /\ proc[c].pc = "reload" /\ c \in Procs /\ proc[c].task = "mount" /\ Busy(c)
      /\ UNCHANGED <<mounts, merged, dropins>> /\ lapses \subseteq lapses'
      /\ lost' = Reloaded
  BY DEF ReloadMounted, Procs, IInv, Fits, Busy, Lapse
<1>2. /\ proc'[c].pc = "unsys" /\ proc'[c].task = "mount"
      /\ \A q \in Procs \ {c} : proc'[q] = proc[q]
  BY <1>1, GoFacts DEF ReloadMounted
<1>3. "unread" \notin lapses /\ Whole(c) => lost' = lost
  BY <1>1 DEF Whole, Good, Serve, Reloaded
<1>4. Calm(c) => Calm(c)'
  BY <1>1, <1>2, <1>3, PlainStep DEF Plain
<1> QED BY <1>1, <1>2, <1>4, BusyStep

-----------------------------------------------------------------------------
\* A watchdog that looks changes nothing but itself.
LEMMA ProbeSole == ASSUME IInv, SoleInv, NEW e \in Exts, Probe(e) PROVE SoleInv'
<1>1. /\ proc[e].pc = "probe" /\ e \in Procs /\ proc[e] \in Proc
      /\ UNCHANGED <<mounts, merged, units, lapses>>
  BY DEF Probe, Procs, IInv, TypeOK
<1>2. \E r : proc' = [proc EXCEPT ![e] = r] /\ r.pc \in Calls
  <2>1. CASE proc' = [proc EXCEPT ![e] = Idle]
    <3>1. Idle.pc \in Calls
      BY DEF Idle, Calls
    <3> QED BY <2>1, <3>1
  <2>2. CASE proc' = [proc EXCEPT ![e].fails = 0]
    <3> DEFINE r == [proc[e] EXCEPT !.fails = 0]
    <3>1. r.pc = "probe" /\ proc' = [proc EXCEPT ![e] = r]
      BY <1>1, <2>2 DEF Proc
    <3> QED BY <3>1 DEF Calls
  <2>3. CASE proc' = [proc EXCEPT ![e] = IF proc[e].fails + 1 < Failures
                                       THEN [@ EXCEPT !.fails = proc[e].fails + 1]
                                       ELSE [@ EXCEPT !.fails = 0, !.pc = "lock", !.exts = nfs]]
    <3> DEFINE r == IF proc[e].fails + 1 < Failures
                    THEN [proc[e] EXCEPT !.fails = proc[e].fails + 1]
                    ELSE [proc[e] EXCEPT !.fails = 0, !.pc = "lock", !.exts = nfs]
    <3>1. r.pc \in {"probe", "lock"} /\ proc' = [proc EXCEPT ![e] = r]
      BY <1>1, <2>3 DEF Proc, IInv, TypeOK
    <3> QED BY <3>1 DEF Calls
  <2> QED BY <2>1, <2>2, <2>3 DEF Probe
<1>3. proc'[e].pc \in Calls /\ \A q \in Procs \ {e} : proc'[q] = proc[q]
  BY <1>1, <1>2, SetFacts
<1> QED BY <1>1, <1>3, AsideStep DEF Calls

\* The lock is taken at rest, or the process has crossed another.
LEMMA AcquireSole == ASSUME IInv, SoleInv, NEW p \in Procs, Acquire(p) PROVE SoleInv'
<1>1. proc[p].pc = "lock" /\ proc[p] \in Proc /\ UNCHANGED <<mounts, merged, units>>
  BY DEF Acquire, IInv, TypeOK
<1>2. CASE proc' = [proc EXCEPT ![p] = Idle] /\ UNCHANGED lapses
  <2>1. proc'[p] = Idle /\ \A q \in Procs \ {p} : proc'[q] = proc[q]
    BY <1>2, SetFacts
  <2>2. proc'[p].pc \in Calls
    BY <2>1 DEF Idle, Calls
  <2> QED BY <1>1, <1>2, <2>1, <2>2, AsideStep DEF Calls
<1>3. CASE /\ proc' = [proc EXCEPT ![p].pc = IF proc[p].task = "watch" THEN "sever" ELSE "stop"]
           /\ Lapse(Crossing(p))
  <2> DEFINE step == IF proc[p].task = "watch" THEN "sever" ELSE "stop"
  <2>1. Go(p, step) /\ lapses' = lapses \cup Crossing(p)
    BY <1>3 DEF Go, Lapse
  <2> HIDE DEF step
  <2>2. /\ proc'[p].pc = step /\ proc'[p].task = proc[p].task
        /\ \A q \in Procs \ {p} : proc'[q] = proc[q]
    BY <2>1, GoFacts
  <2>3. step \in {"sever", "stop"} /\ proc[p].task # "unmerge"
    BY <1>1, HitlAssumption DEF step, IInv, Fits, Procs
  <2>4. Calm(p) => Calm(p)'
    BY <1>1, <2>1, <2>2, <2>3, PlainStep DEF Plain, Calls, units
  <2>5. "crossed" \notin lapses' => Alone(p)
    BY <2>1 DEF Crossing, Alone
  <2> QED BY <2>1, <2>2, <2>4, <2>5, BusyStep
<1> QED BY <1>2, <1>3 DEF Acquire

\* An unmount stops only processes that are not at work, and knows all drop-ins of its
\* targets unless it could not read a mount.
LEMMA StopWatchdogsSole ==
  ASSUME IInv, SoleInv, NEW c \in Callers, StopWatchdogs(c) PROVE SoleInv'
<1> DEFINE es == proc[c].exts
           there == es \cap nfs
<1>1. /\ proc[c].pc = "stop" /\ c \in Procs /\ proc[c].task = "unmount" /\ es \subseteq Exts
      /\ c \notin es /\ Busy(c) /\ proc[c] \in Proc
      /\ UNCHANGED <<dir, nfs, rel, staging, links, over, dropins, lost>>
  BY HitlAssumption DEF StopWatchdogs, Procs, IInv, TypeOK, Fits, Busy, mounts, merged, units, Proc
<1>2. PICK svc \in SUBSET there :
        /\ proc' = [q \in Procs |-> IF q \in es THEN Idle
                                    ELSE IF q = c THEN [proc[c] EXCEPT !.pc = "unsys", !.svc = svc]
                                    ELSE proc[q]]
        /\ Lapse(IF svc = there THEN {} ELSE {"unread"})
  BY DEF StopWatchdogs
<1>3. /\ proc'[c].pc = "unsys" /\ proc'[c].svc = svc /\ proc'[c].task = "unmount" /\ proc'[c].exts = es
  BY <1>1, <1>2 DEF Proc
<1>4. \A q \in Procs \ {c} : proc'[q] = proc[q] \/ proc'[q].pc \in Calls
  BY <1>2 DEF Idle, Calls
<1>5. lapses \subseteq lapses' /\ ("unread" \notin lapses' => svc = there)
  BY <1>2 DEF Lapse
<1>6. ASSUME Calm(c) PROVE Calm(c)'
  <2>1. /\ Fresh(c) = {} /\ Fresh(c)' = {} /\ ~Unwinding(c) /\ Unwinding(c)'
        /\ Held(c) = nfs /\ Held(c)' = nfs
    BY <1>1, <1>3 DEF Fresh, Unwinding, Unwound, UnmergePcs, Held
  <2>2. /\ DirsOwed(c) = {} /\ DropinsOwed(c) = {} /\ DropinsOwed(c)' = svc
    BY <1>1, <1>3, <2>1 DEF DirsOwed, DropinsOwed
  <2>3. Tidy(c)'
    BY <1>1, <1>3, <1>5, <1>6, <2>1, <2>2 DEF Calm, Tidy
  <2>4. Merged(c)'
    BY <1>3 DEF Merged, Underway, Unwound
  <2>5. Whole(c) => Whole(c)'
    BY <1>1, <1>5, <2>1, GoodKept DEF Whole
  <2>6. Served(c)'
    BY <1>1, <1>3, <1>5, <1>6, <2>5 DEF Calm, Served, Phase, Apart
  <2> QED BY <2>3, <2>4, <2>6 DEF Calm
<1> QED BY <1>1, <1>4, <1>5, <1>6, BusyStep

\* A fallback takes its targets out of the tree and out of the overlays at once.
LEMMA SeverSole == ASSUME IInv, SoleInv, NEW e \in Exts, Sever(e) PROVE SoleInv'
<1> DEFINE es == proc[e].exts
           svc == es \cap dropins
           r == [proc[e] EXCEPT !.pc = "unsys", !.svc = svc]
<1>1. /\ proc[e].pc = "sever" /\ e \in Procs /\ proc[e].task = "watch" /\ Busy(e)
      /\ proc[e] \in Proc /\ UNCHANGED <<dir, staging, links, dropins, lost>>
      /\ over' = [k \in Kinds |-> {}]
  BY DEF Sever, Procs, IInv, TypeOK, Fits, Busy, units, DetachOverlays
<1>2. proc' = [proc EXCEPT ![e] = r]
  BY <1>1 DEF Sever, WithDropins, IInv, TypeOK, Proc
<1>3. r.pc = "unsys" /\ r.svc = svc /\ r.task = "watch" /\ r.exts = es
  BY <1>1 DEF Proc
<1> HIDE DEF r
<1>4. proc'[e] = r /\ \A q \in Procs \ {e} : proc'[q] = proc[q]
  BY <1>1, <1>2, SetFacts
<1>5. PICK kept \in SUBSET (es \cap nfs) : nfs' = nfs \ (es \ kept) /\ rel' = Unbound(es)
  BY DEF Sever, TakeOff
<1>6. lapses \subseteq lapses'
  BY DEF Sever, TakeOff, Lapse
<1>7. ASSUME Calm(e) PROVE Calm(e)'
  <2>1. /\ Fresh(e) = {} /\ Fresh(e)' = {} /\ ~Unwinding(e) /\ Unwinding(e)'
        /\ Held(e) = nfs /\ Held(e)' = nfs'
    BY <1>1, <1>3, <1>4 DEF Fresh, Unwinding, Unwound, UnmergePcs, Held
  <2>2. /\ DirsOwed(e) = {} /\ DropinsOwed(e) = {} /\ DropinsOwed(e)' = svc /\ DirsOwed(e)' = es
    BY <1>1, <1>3, <1>4, <2>1 DEF DirsOwed, DropinsOwed
  <2>3. /\ \A x \in Exts \ nfs' : rel'[<<x, "hitl">>] = "none"
        /\ \A l \in Layers : rel'[l] \in {"none", rel[l]}
    <3>1. \A x \in Exts : <<x, "hitl">> \in Layers
      BY DEF Layers
    <3>2. \A x \in Exts \ nfs : rel[<<x, "hitl">>] = "none"
      BY <1>7, <2>1 DEF Calm, Tidy
    <3> QED BY <1>5, <3>1, <3>2 DEF Unbound
  <2>4. ~staging' => \A l \in Layers : rel'[l] \in {"none", "orphan"}
    BY <1>1, <1>7, <2>3 DEF Calm, Tidy
  <2>5. Tidy(e)'
    BY <1>1, <1>3, <1>4, <1>5, <1>6, <1>7, <2>1, <2>2, <2>3, <2>4 DEF Calm, Tidy
  <2>6. Merged(e)'
    BY <1>3, <1>4 DEF Merged, Underway, Unwound
  <2>7. Served(e)'
    BY <1>1, <1>3, <1>4, <1>6, <1>7 DEF Calm, Served, Phase, Stripped, Kinds
  <2> QED BY <2>5, <2>6, <2>7 DEF Calm
<1> QED BY <1>1, <1>4, <1>6, <1>7, BusyStep

\* After an unmount nothing is owed: no directory, no drop-in.
LEMMA UnmountSole == ASSUME IInv, SoleInv, NEW p \in Procs, Unmount(p) PROVE SoleInv'
<1> DEFINE es == proc[p].exts
           r == [proc[p] EXCEPT !.pc = "prepare", !.exts = {}, !.svc = {}]
<1>1. /\ proc[p].pc = "umount" /\ proc[p].task \in {"unmount", "watch"} /\ Busy(p)
      /\ proc[p] \in Proc /\ UNCHANGED <<staging, links, over, lost>>
      /\ dropins' = dropins \ proc[p].svc /\ dir' = dir \ (es \ nfs')
  BY DEF Unmount, Procs, IInv, TypeOK, Fits, Busy, merged, RemoveDirs, CleanupDropins
<1>2. proc' = [proc EXCEPT ![p] = r]
  BY <1>1 DEF Unmount, IInv, TypeOK, Proc
<1>3. r.pc = "prepare" /\ r.task = proc[p].task
  BY <1>1 DEF Proc
<1> HIDE DEF r
<1>4. proc'[p] = r /\ \A q \in Procs \ {p} : proc'[q] = proc[q]
  BY <1>1, <1>2, SetFacts
<1>5. PICK kept \in SUBSET (es \cap nfs) : nfs' = nfs \ (es \ kept) /\ rel' = Unbound(es)
  BY DEF Unmount, TakeOff
<1>6. lapses \subseteq lapses'
  BY DEF Unmount, TakeOff, Lapse
<1>7. ASSUME Calm(p) PROVE Calm(p)'
  <2>1. /\ Fresh(p) = {} /\ Fresh(p)' = {} /\ Unwinding(p) /\ ~Unwinding(p)'
        /\ Held(p) = nfs /\ Held(p)' = nfs'
    BY <1>1, <1>3, <1>4 DEF Fresh, Unwinding, Unwound, UnmergePcs, Held
  <2>2. /\ DirsOwed(p) = es /\ DropinsOwed(p) = proc[p].svc
        /\ DropinsOwed(p)' = {} /\ DirsOwed(p)' = {}
    BY <1>1, <1>3, <1>4, <2>1 DEF DirsOwed, DropinsOwed
  <2>3. /\ \A x \in Exts \ nfs' : rel'[<<x, "hitl">>] = "none"
        /\ \A l \in Layers : rel'[l] \in {"none", rel[l]}
    <3>1. \A x \in Exts : <<x, "hitl">> \in Layers
      BY DEF Layers
    <3>2. \A x \in Exts \ nfs : rel[<<x, "hitl">>] = "none"
      BY <1>7, <2>1 DEF Calm, Tidy
    <3> QED BY <1>5, <3>1, <3>2 DEF Unbound
  <2>4. ~staging' => \A l \in Layers : rel'[l] \in {"none", "orphan"}
    BY <1>1, <1>7, <2>3 DEF Calm, Tidy
  <2>5. dir' \ nfs' = {}
    <3>1. dir \ nfs \subseteq es
      BY <1>7, <2>2 DEF Calm, Tidy
    <3> QED BY <1>1, <1>5, <3>1
  <2>6. "unread" \notin lapses' => dropins' \ nfs' = {}
    <3>1. "unread" \notin lapses' =>
            dropins \ nfs \subseteq proc[p].svc /\ dropins \cap es \subseteq proc[p].svc
      BY <1>6, <1>7, <2>1, <2>2 DEF Calm, Tidy
    <3> QED BY <1>1, <1>5, <3>1
  <2>7. Tidy(p)'
    BY <1>1, <1>3, <1>4, <2>1, <2>3, <2>4, <2>5, <2>6 DEF Tidy
  <2>8. Merged(p)'
    BY <1>3, <1>4 DEF Merged, Underway
  <2>9. Stripped' = Stripped
    BY <1>1 DEF Stripped
  <2>10. Served(p)'
    BY <1>1, <1>3, <1>4, <1>6, <1>7, <2>9 DEF Calm, Served, Phase, Apart
  <2> QED BY <2>7, <2>8, <2>10 DEF Calm
<1> QED BY <1>1, <1>4, <1>6, <1>7, BusyStep

-----------------------------------------------------------------------------
\* What is tidy stays so at the steps of an unmerge and of a merge.
LEMMA TidyOn ==
  ASSUME NEW p, Tidy(p), UNCHANGED <<dir, nfs, dropins>>, lapses \subseteq lapses',
         \A e \in Exts : rel[<<e, "hitl">>] = "none" /\ e \notin Held(p)
                           => rel'[<<e, "hitl">>] = "none",
         ~staging' => \A l \in Layers : rel'[l] \in {"none", "orphan"},
         proc[p].pc \in UnmergePcs \cup MergePcs,
         proc'[p].pc \in UnmergePcs \cup {"umount"} \cup MergePcs \cup {"idle"},
         Unwinding(p)' <=> Unwinding(p),
         Unwinding(p) => proc'[p].exts = proc[p].exts /\ proc'[p].svc = proc[p].svc,
         proc'[p].pc = "link" /\ "broken" \notin lapses' => proc'[p].plan = Scan',
         proc'[p].pc # "idle" => proc'[p].task = proc[p].task
  PROVE  Tidy(p)'
<1>1. /\ Fresh(p) = {} /\ Fresh(p)' = {} /\ proc[p].pc # "nfs" /\ proc'[p].pc # "nfs"
      /\ Busy(p)
  BY DEF Fresh, UnmergePcs, MergePcs, Busy
<1>2. Held(p)' = Held(p)
  BY <1>1 DEF Held
<1>3. DirsOwed(p)' = DirsOwed(p) /\ DropinsOwed(p)' = DropinsOwed(p)
  BY <1>1 DEF DirsOwed, DropinsOwed
<1>4. Busy(p)' => proc'[p].task = proc[p].task
  BY DEF Busy
<1> QED BY <1>1, <1>2, <1>3, <1>4 DEF Tidy

\* A refresh that does not get its unmerge done gives up.
LEMMA UnmergeFailsSole ==
  ASSUME IInv, SoleInv, NEW p \in Procs, NEW what, proc[p].pc \in {"unsys", "unconf"},
         UnmergeFails(p, what), UNCHANGED <<mounts, merged, units>>,
         proc[p].pc = "unconf" => "broken" \in what
  PROVE  SoleInv'
<1>1. /\ UNCHANGED <<dir, nfs, rel, staging, links, over, dropins, lost>> /\ Busy(p)
      /\ Fresh(p) = {} /\ (Unwinding(p) <=> Unwound(p))
  BY DEF mounts, merged, units, Busy, Fresh, Unwinding, UnmergePcs
<1>2. CASE Unwound(p) /\ Go(p, "umount") /\ Lapse({"stuck"})
  <2>1. /\ proc'[p].pc = "umount" /\ proc'[p].task = proc[p].task /\ proc'[p].exts = proc[p].exts
        /\ proc'[p].svc = proc[p].svc /\ \A q \in Procs \ {p} : proc'[q] = proc[q]
    BY <1>2, GoFacts
  <2>2. lapses' = lapses \cup {"stuck"} /\ Unwinding(p) /\ Unwinding(p)'
    BY <1>1, <1>2, <2>1 DEF Lapse, Unwinding, Unwound
  <2>3. ASSUME Calm(p) PROVE Calm(p)'
    <3>1. Tidy(p)'
      <4>1. Tidy(p) /\ (~staging => \A l \in Layers : rel[l] \in {"none", "orphan"})
        BY <2>3 DEF Calm, Tidy
      <4> QED BY <1>1, <2>1, <2>2, <4>1, TidyOn DEF UnmergePcs
    <3>2. Merged(p)' /\ Served(p)'
      BY <2>1, <2>2 DEF Merged, Underway, Served
    <3> QED BY <3>1, <3>2 DEF Calm
  <2> QED BY <1>1, <2>1, <2>2, <2>3, BusyStep
<1>3. CASE ~Unwound(p) /\ End(p) /\ Lapse(what)
  <2>1. /\ proc'[p].pc = "idle" /\ proc'[p].task = "none" /\ lapses' = lapses \cup what
        /\ \A q \in Procs \ {p} : proc'[q] = proc[q]
    BY <1>3, EndFacts DEF Lapse
  <2>2. /\ ~Unwinding(p) /\ ~Unwinding(p)' /\ Held(p) = nfs /\ Held(p)' = nfs
        /\ (Truncated => Truncated')
    BY <1>1, <1>3, <2>1 DEF Unwinding, UnmergePcs, Held, Fresh, Truncated, Hollow
  <2>3. ASSUME Calm(p) PROVE Calm(p)'
    <3>1. Tidy(p)'
      <4>1. Tidy(p) /\ (~staging => \A l \in Layers : rel[l] \in {"none", "orphan"})
        BY <2>3 DEF Calm, Tidy
      <4> QED BY <1>1, <2>1, <2>2, <4>1, TidyOn DEF UnmergePcs
    <3>2. Merged(p)'
      <4>1. CASE proc[p].pc = "unconf"
        BY <2>1, <4>1 DEF Merged
      <4>2. CASE proc[p].pc = "unsys"
        <5>1. \A k \in Kinds : ~Underway(p, k) /\ (Stands(p, k) => Stands(p, k)')
          BY <1>1, <1>3, <2>1, <2>2, <4>2, StandsKept DEF Underway
        <5> QED BY <2>1, <2>3, <5>1 DEF Calm, Merged
      <4> QED BY <4>1, <4>2
    <3>3. Served(p)'
      <4>1. CASE proc[p].pc = "unconf"
        BY <2>1, <4>1 DEF Served
      <4>2. CASE proc[p].pc = "unsys"
        <5>1. Whole(p) => Whole(p)'
          BY <1>1, <2>1, <2>2, GoodKept DEF Whole
        <5> QED BY <1>1, <1>3, <2>1, <2>3, <4>2, <5>1 DEF Calm, Served, Phase, Apart, Unwound
      <4> QED BY <4>1, <4>2
    <3> QED BY <3>1, <3>2, <3>3 DEF Calm
  <2> QED BY <1>1, <2>1, <2>3, BusyStep
<1> QED BY <1>2, <1>3 DEF UnmergeFails

\* A process goes on from one step of an unmerge to another.
LEMMA UnmergingStep ==
  ASSUME IInv, SoleInv, NEW p \in Procs, NEW step \in {"unconf", "unbind", "unstage", "unlink"},
         proc[p].pc \in UnmergePcs, Go(p, step),
         UNCHANGED <<dir, nfs, units, lapses>>,
         \A e \in Exts : rel[<<e, "hitl">>] = "none" => rel'[<<e, "hitl">>] = "none",
         Calm(p) /\ ~staging' => \A l \in Layers : rel'[l] \in {"none", "orphan"},
         Phase(p) => Phase(p)'
  PROVE  SoleInv'
<1>1. /\ proc'[p].pc = step /\ proc'[p].task = proc[p].task /\ proc'[p].exts = proc[p].exts
      /\ proc'[p].svc = proc[p].svc /\ \A q \in Procs \ {p} : proc'[q] = proc[q]
  BY GoFacts
<1>2. UNCHANGED <<dropins, lost>> /\ Busy(p)
  BY DEF units, Busy, UnmergePcs
<1>3. Unwinding(p)' <=> Unwinding(p)
  BY <1>1 DEF Unwinding, Unwound, UnmergePcs
<1>4. ASSUME Calm(p) PROVE Calm(p)'
  <2>1. Tidy(p)'
    <3>1. Tidy(p)
      BY <1>4 DEF Calm
    <3> QED BY <1>1, <1>2, <1>3, <1>4, <3>1, TidyOn DEF UnmergePcs
  <2>2. Merged(p)'
    BY <1>1 DEF Merged, Underway
  <2>3. Served(p)'
    BY <1>2, <1>4 DEF Calm, Served
  <2> QED BY <2>1, <2>2, <2>3 DEF Calm
<1> QED BY <1>1, <1>2, <1>4, BusyStep

\* The steps of an unmerge, in order. A release file that is still bound when the staging
\* tree goes is an orphan.
LEMMA UnmergeSysSole == ASSUME IInv, SoleInv, NEW p \in Procs, UnmergeSys(p) PROVE SoleInv'
<1>1. proc[p].pc = "unsys" /\ UNCHANGED <<mounts, links, units>>
  BY DEF UnmergeSys
<1>2. CASE UnmergeFails(p, {}) /\ UNCHANGED over
  BY <1>1, <1>2, UnmergeFailsSole DEF merged
<1>3. CASE /\ over' = [over EXCEPT !["sysext"] = {}]
           /\ Go(p, "unconf") /\ UNCHANGED lapses
  <2>1. UNCHANGED <<dir, nfs, rel, staging>> /\ proc[p].pc \in UnmergePcs
    BY <1>1 DEF mounts, UnmergePcs
  <2>2. over'["sysext"] = {} /\ proc'[p].pc = "unconf"
    BY <1>3, GoFacts DEF IInv, TypeOK, Kinds
  <2>3. Phase(p)'
    BY <2>2 DEF Phase, Apart
  <2>4. Calm(p) /\ ~staging' => \A l \in Layers : rel'[l] \in {"none", "orphan"}
    BY <2>1 DEF Calm, Tidy
  <2> QED BY <1>1, <1>3, <2>1, <2>3, <2>4, UnmergingStep
<1> QED BY <1>2, <1>3 DEF UnmergeSys

LEMMA UnmergeConfSole == ASSUME IInv, SoleInv, NEW p \in Procs, UnmergeConf(p) PROVE SoleInv'
<1>1. proc[p].pc = "unconf" /\ UNCHANGED <<mounts, links, units>>
  BY DEF UnmergeConf
<1>2. CASE UnmergeFails(p, {"broken"}) /\ UNCHANGED over
  BY <1>1, <1>2, UnmergeFailsSole DEF merged
<1>3. CASE /\ over' = [over EXCEPT !["confext"] = {}]
           /\ Go(p, "unbind") /\ UNCHANGED lapses
  <2>1. UNCHANGED <<dir, nfs, rel, staging>> /\ proc[p].pc \in UnmergePcs
    BY <1>1 DEF mounts, UnmergePcs
  <2>2. over'["confext"] = {} /\ over'["sysext"] = over["sysext"] /\ proc'[p].pc = "unbind"
    BY <1>3, GoFacts DEF IInv, TypeOK, Kinds
  <2>3. Phase(p) => Phase(p)'
    BY <1>1, <2>2 DEF Phase, Apart, Stripped
  <2>4. Calm(p) /\ ~staging' => \A l \in Layers : rel'[l] \in {"none", "orphan"}
    BY <2>1 DEF Calm, Tidy
  <2> QED BY <1>1, <1>3, <2>1, <2>3, <2>4, UnmergingStep
<1> QED BY <1>2, <1>3 DEF UnmergeConf

LEMMA UnbindSole == ASSUME IInv, SoleInv, NEW p \in Procs, Unbind(p) PROVE SoleInv'
<1>1. /\ proc[p].pc = "unbind" /\ proc[p].pc \in UnmergePcs
      /\ UNCHANGED <<dir, nfs, staging, over, units, lapses>>
  BY DEF Unbind, UnmergePcs, merged
<1>2. \A e \in Exts : <<e, "hitl">> \in Layers
  BY DEF Layers
<1>3. CASE ~staging /\ Go(p, "unlink") /\ UNCHANGED rel
  <2>1. proc'[p].pc = "unlink"
    BY <1>3, GoFacts
  <2>2. Phase(p) => Phase(p)'
    BY <1>1, <1>3, <2>1 DEF Phase, Apart, Stripped
  <2>3. Calm(p) /\ ~staging' => \A l \in Layers : rel'[l] \in {"none", "orphan"}
    BY <1>1, <1>3 DEF Calm, Tidy
  <2> QED BY <1>1, <1>3, <2>2, <2>3, UnmergingStep
<1>4. CASE staging /\ Go(p, "unstage") /\ \A l \in Layers : rel'[l] \in {"none", rel[l]}
  <2>1. proc'[p].pc = "unstage"
    BY <1>4, GoFacts
  <2>2. Phase(p) => Phase(p)'
    BY <1>1, <2>1 DEF Phase, Apart, Stripped
  <2>3. \A e \in Exts : rel[<<e, "hitl">>] = "none" => rel'[<<e, "hitl">>] = "none"
    BY <1>2, <1>4
  <2> QED BY <1>1, <1>4, <2>2, <2>3, UnmergingStep
<1>5. ASSUME rel' = [l \in Layers |-> "none"]
             \/ \E kept \in Layers : rel' = [l \in Layers |-> IF l = kept THEN rel[l] ELSE "none"]
      PROVE  \A l \in Layers : rel'[l] \in {"none", rel[l]}
  BY <1>5
<1> QED BY <1>3, <1>4, <1>5 DEF Unbind

LEMMA UnstageSole == ASSUME IInv, SoleInv, NEW p \in Procs, Unstage(p) PROVE SoleInv'
<1>1. /\ proc[p].pc = "unstage" /\ proc[p].pc \in UnmergePcs /\ staging' = FALSE
      /\ UNCHANGED <<dir, nfs, over, units, lapses>> /\ Go(p, "unlink")
      /\ rel' = [l \in Layers |-> IF rel[l] = "none" THEN "none" ELSE "orphan"]
  BY DEF Unstage, UnmergePcs, merged
<1>2. \A e \in Exts : <<e, "hitl">> \in Layers
  BY DEF Layers
<1>3. proc'[p].pc = "unlink"
  BY <1>1, GoFacts
<1>4. Phase(p) => Phase(p)'
  BY <1>1, <1>3 DEF Phase, Apart, Stripped
<1> QED BY <1>1, <1>2, <1>4, UnmergingStep

LEMMA UnlinkSole == ASSUME IInv, SoleInv, NEW p \in Procs, Unlink(p) PROVE SoleInv'
<1>1. /\ proc[p].pc = "unlink" /\ proc[p].pc \in UnmergePcs /\ Busy(p)
      /\ UNCHANGED <<dir, nfs, rel, staging, over, dropins, lost, lapses>>
  BY DEF Unlink, UnmergePcs, mounts, units, Busy
<1>2. ASSUME Calm(p) PROVE Tidy(p) /\ (~staging => \A l \in Layers : rel[l] \in {"none", "orphan"})
  BY <1>2 DEF Calm, Tidy
<1>3. CASE proc[p].task = "unmerge" /\ End(p)
  <2>1. /\ proc'[p].pc = "idle" /\ proc'[p].task = "none"
        /\ \A q \in Procs \ {p} : proc'[q] = proc[q]
    BY <1>3, EndFacts
  <2>2. ASSUME Calm(p) PROVE Calm(p)'
    <3>1. Tidy(p)'
      <4>1. ~Unwinding(p) /\ ~Unwinding(p)'
        BY <1>3, <2>1 DEF Unwinding, Unwound, UnmergePcs
      <4> QED BY <1>1, <1>2, <2>1, <2>2, <4>1, TidyOn
    <3>2. "asked" \in lapses'
      BY <1>1, <1>3, <2>2 DEF Calm, Tidy
    <3>3. Merged(p)' /\ Served(p)'
      BY <3>2 DEF Merged, Served
    <3> QED BY <3>1, <3>3 DEF Calm
  <2> QED BY <1>1, <2>1, <2>2, BusyStep
<1>4. CASE Go(p, IF Unwound(p) THEN "umount" ELSE "prepare")
  <2> DEFINE step == IF Unwound(p) THEN "umount" ELSE "prepare"
  <2>1. /\ proc'[p].pc = step /\ proc'[p].task = proc[p].task /\ proc'[p].exts = proc[p].exts
        /\ proc'[p].svc = proc[p].svc /\ \A q \in Procs \ {p} : proc'[q] = proc[q]
    <3>1. Go(p, step)
      BY <1>4
    <3> HIDE DEF step
    <3> QED BY <3>1, GoFacts
  <2>2. ASSUME Calm(p) PROVE Calm(p)'
    <3>1. Tidy(p)'
      <4>1. Unwinding(p)' <=> Unwinding(p)
        BY <1>1, <2>1 DEF Unwinding, Unwound, UnmergePcs
      <4> QED BY <1>1, <1>2, <2>1, <2>2, <4>1, TidyOn DEF UnmergePcs, MergePcs
    <3>2. Merged(p)'
      BY <2>1 DEF Merged, Underway
    <3>3. Served(p)'
      BY <1>1, <2>1, <2>2 DEF Calm, Served, Phase, Apart, Stripped
    <3> QED BY <3>1, <3>2, <3>3 DEF Calm
  <2> QED BY <1>1, <2>1, <2>2, BusyStep
<1> QED BY <1>3, <1>4 DEF Unlink

-----------------------------------------------------------------------------
\* A process at a merge goes on or ends.
LEMMA MergingTidy ==
  ASSUME NEW p, Tidy(p), UNCHANGED <<dir, nfs, dropins>>, lapses \subseteq lapses',
         \A e \in Exts : rel[<<e, "hitl">>] = "none" /\ e \notin nfs
                           => rel'[<<e, "hitl">>] = "none",
         ~staging' => \A l \in Layers : rel'[l] \in {"none", "orphan"},
         proc[p].pc \in MergePcs, proc'[p].pc \in MergePcs \cup {"idle"},
         proc'[p].pc = "link" /\ "broken" \notin lapses' => proc'[p].plan = Scan',
         proc'[p].pc # "idle" => proc'[p].task = proc[p].task
  PROVE  Tidy(p)'
<1>1. /\ Fresh(p) = {} /\ ~Unwinding(p) /\ ~Unwinding(p)'
  BY DEF Fresh, Unwinding, UnmergePcs, MergePcs
<1>2. Held(p) = nfs
  BY <1>1 DEF Held
<1> QED BY <1>1, <1>2, TidyOn

\* A merge that fails has said so.
LEMMA MergeFailsSole ==
  ASSUME IInv, SoleInv, NEW p \in Procs, proc[p].pc \in MergePcs, MergeFails(p),
         UNCHANGED <<dir, nfs, dropins>>,
         \A e \in Exts : rel[<<e, "hitl">>] = "none" /\ e \notin nfs
                           => rel'[<<e, "hitl">>] = "none",
         Calm(p) /\ ~staging' => \A l \in Layers : rel'[l] \in {"none", "orphan"}
  PROVE  SoleInv'
<1>1. /\ proc'[p].pc = "idle" /\ proc'[p].task = "none" /\ lapses' = lapses \cup {"broken"}
      /\ \A q \in Procs \ {p} : proc'[q] = proc[q]
  BY EndFacts DEF MergeFails, Lapse
<1>2. Busy(p)
  BY DEF Busy, MergePcs
<1>3. ASSUME Calm(p) PROVE Calm(p)'
  <2>1. Tidy(p)'
    <3>1. Tidy(p)
      BY <1>3 DEF Calm
    <3> QED BY <1>1, <1>3, <3>1, MergingTidy
  <2>2. Merged(p)' /\ Served(p)'
    BY <1>1 DEF Merged, Served
  <2> QED BY <2>1, <2>2 DEF Calm
<1> QED BY <1>1, <1>2, <1>3, BusyStep

\* The plan of a merge is what the tree shows, or the merge is broken.
LEMMA PrepareSole == ASSUME IInv, SoleInv, NEW p \in Procs, Prepare(p) PROVE SoleInv'
<1>1. /\ proc[p].pc = "prepare" /\ proc[p].pc \in MergePcs /\ Busy(p) /\ proc[p] \in Proc
      /\ UNCHANGED <<dir, nfs, rel, staging, over, dropins, lost>>
  BY DEF Prepare, MergePcs, mounts, units, Busy, IInv, TypeOK
<1>2. ASSUME Calm(p) PROVE Tidy(p) /\ (~staging => \A l \in Layers : rel[l] \in {"none", "orphan"})
  BY <1>2 DEF Calm, Tidy
<1>3. CASE MergeFails(p)
  BY <1>1, <1>2, <1>3, MergeFailsSole
<1>4. ASSUME NEW plan, proc' = [proc EXCEPT ![p].pc = "link", ![p].plan = plan],
             \/ UNCHANGED lapses /\ plan = Scan
             \/ lapses' = lapses \cup {"broken"}
      PROVE  SoleInv'
  <2> DEFINE r == [proc[p] EXCEPT !.pc = "link", !.plan = plan]
  <2>1. r.pc = "link" /\ r.plan = plan /\ r.task = proc[p].task
    BY <1>1 DEF Proc
  <2>2. proc' = [proc EXCEPT ![p] = r]
    BY <1>1, <1>4 DEF IInv, TypeOK, Proc
  <2> HIDE DEF r
  <2>3. proc'[p] = r /\ \A q \in Procs \ {p} : proc'[q] = proc[q]
    BY <2>2, SetFacts
  <2>4. ASSUME Calm(p) PROVE Calm(p)'
    <3>1. Scan' = Scan /\ Held(p) = nfs /\ Held(p)' = nfs
      BY <1>1, <2>1, <2>3 DEF Scan, Held, Fresh
    <3>2. Tidy(p)'
      BY <1>1, <1>2, <1>4, <2>1, <2>3, <2>4, <3>1, MergingTidy DEF MergePcs
    <3>3. Merged(p)'
      BY <2>1, <2>3 DEF Merged, Underway
    <3>4. lapses \subseteq lapses'
      BY <1>4
    <3>5. Whole(p) => Whole(p)'
      BY <1>1, <3>1, <3>4, GoodKept DEF Whole
    <3>6. Served(p)'
      BY <1>1, <2>1, <2>3, <2>4, <3>4, <3>5 DEF Calm, Served, Phase, Apart, Stripped
    <3> QED BY <3>2, <3>3, <3>6 DEF Calm
  <2> QED BY <1>1, <1>4, <2>3, <2>4, BusyStep
<1> QED BY <1>3, <1>4 DEF Prepare, Lapse

\* After an unmerge, what is linked is known to systemd and serves everything that could
\* be read; over overlays that were left merged it changes nothing.
LEMMA LinkSole == ASSUME IInv, SoleInv, NEW p \in Procs, Link(p) PROVE SoleInv'
<1> DEFINE plan == proc[p].plan
<1>1. /\ proc[p].pc = "link" /\ proc[p].pc \in MergePcs /\ Busy(p) /\ proc[p] \in Proc
      /\ plan \subseteq Layers /\ rel \in [Layers -> {"none", "staged", "hollow", "orphan"}]
      /\ UNCHANGED <<dir, nfs, over, dropins, lost>>
  BY DEF Link, MergePcs, units, Busy, IInv, TypeOK, Proc
<1>2. PICK unread \in SUBSET {l \in plan : Unanswered(l)}, done \in SUBSET plan :
        LET stage  == {l \in plan \ unread : Released(l)}
            orphan == {l \in stage : rel[l] = "orphan"}
        IN
        /\ Stage(done \cap stage)
        /\ \/ /\ orphan = {} /\ done = plan
              /\ links' = plan
              /\ proc' = [proc EXCEPT ![p].pc = "sys", ![p].plan = {}]
              /\ Lapse(IF unread = {} THEN {} ELSE {"unread"})
              /\ UNCHANGED lock
           \/ /\ orphan # {} /\ done \cap orphan = {}
              /\ links' = links \cup done
              /\ MergeFails(p)
  BY <1>1 DEF Link
<1> DEFINE stage  == {l \in plan \ unread : Released(l)}
           orphan == {l \in stage : rel[l] = "orphan"}
<1>3. /\ staging' = (staging \/ done \cap stage # {})
      /\ \A l \in Layers : rel'[l] = IF l \notin done \cap stage THEN rel[l]
                                     ELSE IF rel[l] = "none" THEN "staged" ELSE "hollow"
  BY <1>2 DEF Stage
<1>4. \A e \in Exts : rel[<<e, "hitl">>] = "none" /\ e \notin nfs => rel'[<<e, "hitl">>] = "none"
  <2> SUFFICES ASSUME NEW e \in Exts, e \notin nfs, <<e, "hitl">> \in stage PROVE FALSE
    BY <1>3 DEF Layers
  <2> QED BY DEF Released
<1>5. ASSUME Calm(p), ~staging' PROVE \A l \in Layers : rel'[l] \in {"none", "orphan"}
  <2>1. ~staging /\ done \cap stage = {}
    BY <1>3, <1>5
  <2> QED BY <1>3, <1>5, <2>1 DEF Calm, Tidy
<1>6. CASE MergeFails(p)
  BY <1>1, <1>4, <1>5, <1>6, MergeFailsSole
<1>7. CASE /\ orphan = {} /\ done = plan
           /\ links' = plan
           /\ proc' = [proc EXCEPT ![p].pc = "sys", ![p].plan = {}]
           /\ Lapse(IF unread = {} THEN {} ELSE {"unread"})
  <2> DEFINE r == [proc[p] EXCEPT !.pc = "sys", !.plan = {}]
  <2>1. r.pc = "sys" /\ r.task = proc[p].task
    BY <1>1 DEF Proc
  <2>2. proc' = [proc EXCEPT ![p] = r]
    BY <1>1, <1>7 DEF IInv, TypeOK, Proc
  <2> HIDE DEF r
  <2>3. proc'[p] = r /\ \A q \in Procs \ {p} : proc'[q] = proc[q]
    BY <2>2, SetFacts
  <2>4. /\ lapses \subseteq lapses' /\ ("unread" \notin lapses' => unread = {})
        /\ (unread # {} => nfs # {})
        /\ ("broken" \notin lapses' => "broken" \notin lapses)
    BY <1>2, <1>7 DEF Lapse, Unanswered
  <2>5. \A l \in stage : l \in Layers /\ (rel[l] = "none" => l \in Known') /\ rel'[l] \in {"staged", "hollow"}
    BY <1>1, <1>3, <1>7 DEF Known
  <2>6. ASSUME Calm(p) PROVE Calm(p)'
    <3>1. Held(p) = nfs /\ Held(p)' = nfs /\ dir \subseteq nfs
      <4>1. /\ Fresh(p) = {} /\ Fresh(p)' = {} /\ ~Unwinding(p)
        BY <1>1, <2>1, <2>3 DEF Fresh, Unwinding, UnmergePcs
      <4>2. DirsOwed(p) = {}
        BY <1>1, <4>1 DEF DirsOwed
      <4> QED BY <1>1, <2>6, <4>1, <4>2 DEF Calm, Tidy, Held
    <3>2. Tidy(p)'
      <4>1. Tidy(p)
        BY <2>6 DEF Calm
      <4> QED BY <1>1, <1>4, <1>5, <2>1, <2>3, <2>4, <2>6, <4>1, MergingTidy DEF MergePcs
    <3>3. ASSUME "broken" \notin lapses'
          PROVE  /\ plan = Scan
                 /\ \A e \in Exts \ nfs : <<e, "image">> \in stage /\ <<e, "hitl">> \notin plan
                 /\ \A e \in Exts : \E s \in {"hitl", "image"} :
                      <<e, s>> \in plan /\ (<<e, s>> \in stage \/ <<e, s>> \in unread)
      <4>1. plan = Scan
        BY <1>1, <2>4, <2>6, <3>3 DEF Calm, Tidy
      <4>2. ASSUME NEW e \in Exts \ nfs
            PROVE  <<e, "image">> \in stage /\ <<e, "hitl">> \notin plan
        <5>1. e \notin dir
          BY <3>1
        <5>2. <<e, "image">> \in plan /\ <<e, "hitl">> \notin plan
          BY <4>1, <5>1 DEF Scan
        <5>3. <<e, "image">> \notin unread /\ Released(<<e, "image">>)
          BY DEF Unanswered, Released
        <5> QED BY <5>2, <5>3
      <4>3. ASSUME NEW e \in Exts
            PROVE  \E s \in {"hitl", "image"} :
                     <<e, s>> \in plan /\ (<<e, s>> \in stage \/ <<e, s>> \in unread)
        <5>1. CASE e \in nfs /\ e \in dir
          <6>1. <<e, "hitl">> \in plan /\ Released(<<e, "hitl">>)
            BY <4>1, <5>1 DEF Scan, Released
          <6> QED BY <6>1
        <5>2. CASE e \notin nfs
          BY <4>2, <5>2
        <5>3. nfs \subseteq dir
          BY DEF IInv, TypeOK
        <5> QED BY <5>1, <5>2, <5>3
      <4> QED BY <4>1, <4>2, <4>3
    <3>4. Merged(p)'
      <4> SUFFICES ASSUME Exts # {}, lapses' \cap {"asked", "broken"} = {}
                   PROVE  Ready' \/ \A k \in Kinds : Stands(p, k)'
        BY <2>1, <2>3, <3>1 DEF Merged, Underway
      <4>1. PICK e \in Exts : TRUE
        OBVIOUS
      <4>2. PICK s \in {"hitl", "image"} : <<e, s>> \in stage \/ <<e, s>> \in unread
        BY <3>3
      <4>3. CASE <<e, s>> \in unread
        BY <1>1, <2>4, <4>3 DEF Ready
      <4>4. CASE <<e, s>> \in stage
        <5>1. <<e, s>> \in Layers /\ <<e, s>> \in links' /\ rel'[<<e, s>>] \in {"staged", "hollow"}
          BY <1>7, <2>5, <4>4
        <5>2. CASE "stuck" \in lapses'
          BY <5>1, <5>2 DEF Ready, Known, Truncated, Hollow
        <5>3. CASE "stuck" \notin lapses'
          <6>1. Whole(p) \/ (Stripped /\ ~staging)
            BY <1>1, <2>4, <2>6, <5>3 DEF Calm, Served, Phase
          <6>2. CASE Whole(p)
            <7>1. \A k \in Kinds : Good(p, k)
              BY <6>2 DEF Whole, Kinds
            <7>2. \A k \in Kinds : Stands(p, k)
              BY <7>1 DEF Good, Serve, Stands
            <7> QED BY <1>1, <2>4, <3>1, <5>3, <7>2 DEF Stands, Truncated
          <6>3. CASE ~staging
            <7>1. rel[<<e, s>>] \in {"none", "orphan"}
              BY <2>6, <5>1, <6>3 DEF Calm, Tidy
            <7>2. <<e, s>> \in Known'
              BY <1>7, <2>5, <4>4, <7>1
            <7> QED BY <7>2 DEF Ready
          <6> QED BY <6>1, <6>2, <6>3
        <5> QED BY <5>2, <5>3
      <4> QED BY <4>2, <4>3, <4>4
    <3>5. Served(p)'
      <4> SUFFICES ASSUME lapses' \cap {"asked", "broken", "stuck"} = {}
                   PROVE  Linked(p, "sysext")' /\ Linked(p, "confext")' /\ ("unread" \notin lapses' => lost' = {})
        BY <2>1, <2>3 DEF Served, Phase, Apart
      <4>1. (Whole(p) \/ (Stripped /\ ~staging)) /\ ("unread" \notin lapses' => lost' = {})
        BY <1>1, <2>4, <2>6 DEF Calm, Served, Phase
      <4>2. CASE Whole(p)
        <5>1. Good(p, "sysext")' /\ Good(p, "confext")'
          BY <1>1, <2>4, <3>1, <4>2, GoodKept DEF Whole
        <5> QED BY <4>1, <5>1 DEF Linked
      <4>3. CASE Stripped /\ ~staging
        <5>1. \A l \in stage : l \in Known'
          <6>1. \A l \in Layers : rel[l] \in {"none", "orphan"}
            BY <2>6, <4>3 DEF Calm, Tidy
          <6> QED BY <1>7, <2>5, <6>1
        <5>2. \A l \in Known' : l \in plan
          BY <1>7 DEF Known
        <5>3. Serve(Known, nfs)'
          BY <1>1, <2>4, <3>3, <5>1, <5>2 DEF Serve
        <5>4. over'["sysext"] = {} /\ over'["confext"] = {}
          BY <1>1, <4>3 DEF Stripped
        <5> QED BY <4>1, <5>3, <5>4 DEF Linked
      <4> QED BY <4>1, <4>2, <4>3
    <3> QED BY <3>2, <3>4, <3>5 DEF Calm
  <2> QED BY <1>1, <2>3, <2>4, <2>6, BusyStep
<1> QED BY <1>2, <1>6, <1>7

\* A merged hierarchy is left as it is, one that is not becomes what systemd knows.
LEMMA MergeGood ==
  ASSUME IInv, NEW p, NEW k \in Kinds, Merge(k), Linked(p, k), Held(p) = nfs, Held(p)' = nfs,
         UNCHANGED <<nfs, links, rel, lapses>>
  PROVE  Good(p, k)'
<1>1. over'[k] = IF over[k] = {} THEN Known ELSE over[k]
  BY DEF Merge, IInv, TypeOK, Known
<1>2. CASE over[k] # {} \/ ~Good(p, k)
  BY <1>1, <1>2 DEF Linked, Good, Serve
<1>3. CASE over[k] = {} /\ Good(p, k)
  <2>1. Exts \subseteq nfs /\ ("unread" \notin lapses => Exts = {})
    BY <1>3 DEF Good, Serve
  <2> QED BY <2>1 DEF Good, Serve
<1> QED BY <1>2, <1>3

\* When there is something to merge, the hierarchy stands after it.
LEMMA MergeStands ==
  ASSUME IInv, NEW p, NEW k \in Kinds, Merge(k), Stands(p, k) \/ Ready, Held(p) = nfs,
         Held(p)' = nfs, UNCHANGED <<nfs, links, rel, lapses>>
  PROVE  Stands(p, k)'
<1>1. over'[k] = IF over[k] = {} THEN Known ELSE over[k]
  BY DEF Merge, IInv, TypeOK, Known
<1> QED BY <1>1 DEF Stands, Ready, Truncated, Hollow

\* The sysexts are merged, then the confexts, then the units reloaded.
LEMMA MergeSysSole == ASSUME IInv, SoleInv, NEW p \in Procs, MergeSys(p) PROVE SoleInv'
<1>1. /\ proc[p].pc = "sys" /\ proc[p].pc \in MergePcs /\ Busy(p)
      /\ UNCHANGED <<dir, nfs, rel, staging, links, dropins, lost>>
  BY DEF MergeSys, MergePcs, mounts, units, Busy
<1>2. ASSUME Calm(p) PROVE Tidy(p) /\ (~staging => \A l \in Layers : rel[l] \in {"none", "orphan"})
  BY <1>2 DEF Calm, Tidy
<1>3. CASE MergeFails(p)
  BY <1>1, <1>2, <1>3, MergeFailsSole
<1>4. CASE Merge("sysext") /\ Go(p, "conf") /\ UNCHANGED lapses
  <2>1. /\ proc'[p].pc = "conf" /\ proc'[p].task = proc[p].task
        /\ \A q \in Procs \ {p} : proc'[q] = proc[q]
    BY <1>4, GoFacts
  <2>2. /\ Held(p) = nfs /\ Held(p)' = nfs /\ over'["confext"] = over["confext"]
        /\ Truncated' = Truncated /\ (Ready <=> Ready') /\ Known' = Known
    BY <1>1, <1>4, <2>1 DEF Held, Fresh, Merge, IInv, TypeOK, Kinds, Truncated, Hollow, Ready, Known
  <2>3. ASSUME Calm(p) PROVE Calm(p)'
    <3>1. Tidy(p)'
      BY <1>1, <1>2, <1>4, <2>1, <2>3, MergingTidy DEF MergePcs
    <3>2. Merged(p)'
      <4> SUFFICES ASSUME Exts # {}, lapses \cap {"asked", "broken"} = {}
                   PROVE  Stands(p, "sysext")' /\ (Stands(p, "confext")' \/ Ready)
        BY <1>4, <2>1, <2>2 DEF Merged, Underway, Kinds
      <4>1. (Stands(p, "sysext") \/ Ready) /\ (Stands(p, "confext") \/ Ready)
        BY <1>1, <2>3 DEF Calm, Merged, Underway, Kinds
      <4>2. Stands(p, "sysext")'
        BY <1>1, <1>4, <2>2, <4>1, MergeStands DEF Kinds
      <4>3. Stands(p, "confext") => Stands(p, "confext")'
        BY <1>4, <2>2, StandsKept
      <4> QED BY <4>1, <4>2, <4>3
    <3>3. Served(p)'
      <4> SUFFICES ASSUME lapses \cap {"asked", "broken", "stuck"} = {}
                   PROVE  Good(p, "sysext")' /\ Linked(p, "confext")' /\ ("unread" \notin lapses => lost = {})
        BY <1>1, <1>4, <2>1 DEF Served, Phase, Apart
      <4>1. Linked(p, "sysext") /\ Linked(p, "confext") /\ ("unread" \notin lapses => lost = {})
        BY <1>1, <2>3 DEF Calm, Served, Phase
      <4>2. Good(p, "sysext")'
        BY <1>1, <1>4, <2>2, <4>1, MergeGood DEF Kinds
      <4>3. Linked(p, "confext")'
        BY <1>1, <1>4, <2>2, <4>1 DEF Linked, Good, Serve
      <4> QED BY <4>1, <4>2, <4>3
    <3> QED BY <3>1, <3>2, <3>3 DEF Calm
  <2> QED BY <1>1, <1>4, <2>1, <2>3, BusyStep
<1> QED BY <1>3, <1>4 DEF MergeSys

LEMMA MergeConfSole == ASSUME IInv, SoleInv, NEW p \in Procs, MergeConf(p) PROVE SoleInv'
<1>1. /\ proc[p].pc = "conf" /\ proc[p].pc \in MergePcs /\ Busy(p)
      /\ UNCHANGED <<dir, nfs, rel, staging, links, dropins, lost>>
  BY DEF MergeConf, MergePcs, mounts, units, Busy
<1>2. ASSUME Calm(p) PROVE Tidy(p) /\ (~staging => \A l \in Layers : rel[l] \in {"none", "orphan"})
  BY <1>2 DEF Calm, Tidy
<1>3. CASE MergeFails(p)
  BY <1>1, <1>2, <1>3, MergeFailsSole
<1>4. CASE Merge("confext") /\ Go(p, "post") /\ UNCHANGED lapses
  <2>1. /\ proc'[p].pc = "post" /\ proc'[p].task = proc[p].task
        /\ \A q \in Procs \ {p} : proc'[q] = proc[q]
    BY <1>4, GoFacts
  <2>2. /\ Held(p) = nfs /\ Held(p)' = nfs /\ over'["sysext"] = over["sysext"]
        /\ Truncated' = Truncated
    BY <1>1, <1>4, <2>1 DEF Held, Fresh, Merge, IInv, TypeOK, Kinds, Truncated, Hollow
  <2>3. ASSUME Calm(p) PROVE Calm(p)'
    <3>1. Tidy(p)'
      BY <1>1, <1>2, <1>4, <2>1, <2>3, MergingTidy DEF MergePcs
    <3>2. Merged(p)'
      <4> SUFFICES ASSUME Exts # {}, lapses \cap {"asked", "broken"} = {}
                   PROVE  Stands(p, "sysext")' /\ Stands(p, "confext")'
        BY <1>4 DEF Merged, Kinds
      <4>1. Stands(p, "sysext") /\ (Stands(p, "confext") \/ Ready)
        BY <1>1, <2>3 DEF Calm, Merged, Underway, Kinds
      <4>2. Stands(p, "confext")'
        BY <1>1, <1>4, <2>2, <4>1, MergeStands DEF Kinds
      <4>3. Stands(p, "sysext")'
        BY <1>4, <2>2, <4>1, StandsKept
      <4> QED BY <4>2, <4>3
    <3>3. Served(p)'
      <4> SUFFICES ASSUME lapses \cap {"asked", "broken", "stuck"} = {}
                   PROVE  Good(p, "sysext")' /\ Good(p, "confext")' /\ ("unread" \notin lapses => lost = {})
        BY <1>1, <1>4, <2>1 DEF Served, Phase, Apart, Whole
      <4>1. Good(p, "sysext") /\ Linked(p, "confext") /\ ("unread" \notin lapses => lost = {})
        BY <1>1, <2>3 DEF Calm, Served, Phase
      <4>2. Good(p, "confext")'
        BY <1>1, <1>4, <2>2, <4>1, MergeGood DEF Kinds
      <4>3. Good(p, "sysext")'
        BY <1>1, <1>4, <2>2, <4>1, GoodKept
      <4> QED BY <4>1, <4>2, <4>3
    <3> QED BY <3>1, <3>2, <3>3 DEF Calm
  <2> QED BY <1>1, <1>4, <2>1, <2>3, BusyStep
<1> QED BY <1>3, <1>4 DEF MergeConf

LEMMA PostMergeSole == ASSUME IInv, SoleInv, NEW p \in Procs, PostMerge(p) PROVE SoleInv'
<1>1. /\ proc[p].pc = "post" /\ proc[p].pc \in MergePcs /\ Busy(p)
      /\ lost' = Reloaded
      /\ UNCHANGED <<dir, nfs, rel, staging, links, over, dropins, lapses>>
  BY DEF PostMerge, MergePcs, mounts, merged, Busy
<1>2. /\ proc'[p].pc = "idle" /\ proc'[p].task = "none"
      /\ \A q \in Procs \ {p} : proc'[q] = proc[q]
  BY EndFacts DEF PostMerge
<1>3. /\ Held(p) = nfs /\ Held(p)' = nfs /\ Truncated' = Truncated
  BY <1>1, <1>2 DEF Held, Fresh, Truncated, Hollow
<1>4. ASSUME Calm(p) PROVE Calm(p)'
  <2>1. Tidy(p)'
    <3>1. Tidy(p) /\ (~staging => \A l \in Layers : rel[l] \in {"none", "orphan"})
      BY <1>4 DEF Calm, Tidy
    <3> QED BY <1>1, <1>2, <3>1, MergingTidy
  <2>2. Merged(p)'
    <3>1. \A k \in Kinds : ~Underway(p, k) /\ (Stands(p, k) => Stands(p, k)')
      BY <1>1, <1>3, StandsKept DEF Underway
    <3> QED BY <1>1, <1>4, <3>1 DEF Calm, Merged
  <2>3. Whole(p) => Whole(p)'
    BY <1>1, <1>3, GoodKept DEF Whole
  <2>4. "unread" \notin lapses /\ Whole(p) => lost' = lost
    BY <1>1 DEF Whole, Good, Serve, Reloaded
  <2>5. Served(p)'
    BY <1>1, <1>2, <1>4, <2>3, <2>4 DEF Calm, Served, Phase, Apart
  <2> QED BY <2>1, <2>2, <2>5 DEF Calm
<1> QED BY <1>1, <1>2, <1>4, BusyStep

-----------------------------------------------------------------------------
\* The developer's machine changes nothing of it.
LEMMA SameSole ==
  ASSUME SoleInv, UNCHANGED <<mounts, merged, units, lapses, proc>> PROVE SoleInv'
<1>1. \A q \in Procs : (Busy(q)' <=> Busy(q)) /\ (Alone(q)' <=> Alone(q))
  BY DEF Busy, Alone
<1>2. \A q \in Procs : Calm(q) => Calm(q)'
  BY SameCalm
<1> QED BY <1>1, <1>2 DEF SoleInv

\* Every step keeps it.
LEMMA NextSole == ASSUME IInv, SoleInv, [Next]_vars PROVE SoleInv'
<1>1. ASSUME NEW c \in Callers, Request(c) PROVE SoleInv'
  BY <1>1, RequestSole
<1>2. ASSUME NEW p \in Procs, Step(p) PROVE SoleInv'
  <2>1. ASSUME p \in Callers, Mounting(p) PROVE SoleInv'
    BY <2>1, MakeDirSole, MountOneSole, StartWatchdogSole, UndoSole, ReloadMountedSole
       DEF Mounting
  <2>2. ASSUME p \in Callers, StopWatchdogs(p) PROVE SoleInv'
    BY <2>2, StopWatchdogsSole
  <2>3. ASSUME p \in Exts, Probe(p) \/ Sever(p) PROVE SoleInv'
    BY <2>3, ProbeSole, SeverSole
  <2>4. ASSUME Acquire(p) \/ Unmount(p) PROVE SoleInv'
    BY <2>4, AcquireSole, UnmountSole
  <2>5. ASSUME Unmerging(p) PROVE SoleInv'
    BY <2>5, UnmergeSysSole, UnmergeConfSole, UnbindSole, UnstageSole, UnlinkSole DEF Unmerging
  <2>6. ASSUME Merging(p) PROVE SoleInv'
    BY <2>6, PrepareSole, LinkSole, MergeSysSole, MergeConfSole, PostMergeSole DEF Merging
  <2> QED BY <1>2, <2>1, <2>2, <2>3, <2>4, <2>5, <2>6 DEF Step
<1>3. CASE Outage \/ Return \/ UNCHANGED vars
  BY <1>3, SameSole DEF Outage, Return, vars
<1> QED BY <1>1, <1>2, <1>3 DEF Next

-----------------------------------------------------------------------------
\* Whatever requests, fallbacks, faults and outages come, one after another, each step
\* leaves the board as the process at work expects it, and a process that ends leaves it
\* as the next one expects it (service/hitl.rs, commands/ext.rs).
THEOREM AloneInvariance == Spec => [](IInv /\ SoleInv)
<1>1. Init => IInv /\ SoleInv
  BY InitIInv, InitSole
<1>2. IInv /\ SoleInv /\ [Next]_vars => (IInv /\ SoleInv)'
  BY NextIInv, NextSole
<1> QED BY <1>1, <1>2, PTL DEF Spec

\* At rest each process is alone: what holds of one that is alone can be said of all.
LEMMA QuietCalm ==
  ASSUME SoleInv, Quiet, "crossed" \notin lapses, NEW p \in Procs
  PROVE  /\ Calm(p) /\ Fresh(p) = {} /\ Held(p) = nfs /\ DirsOwed(p) = {} /\ DropinsOwed(p) = {}
         /\ proc[p].pc \in Calls
<1>1. Calm(p) /\ proc[p].pc \in Calls
  BY DEF SoleInv, Quiet, Alone, Busy, Calls
<1>2. Fresh(p) = {} /\ ~Unwinding(p) /\ proc[p].pc # "nfs"
  BY <1>1 DEF Calls, Fresh, Unwinding, UnmergePcs
<1> QED BY <1>1, <1>2 DEF Held, DirsOwed, DropinsOwed

\* With at least one extension, requests and fallbacks that do not cross leave both
\* hierarchies merged once nobody is at work, whatever of an unmount or a fallback failed
\* before its merge, but in the case NeverUnmerged names: systemd failed to unmerge, and
\* a release file is truncated. Without extensions there is nothing to merge.
THEOREM StaysMerged == ASSUME Exts # {} PROVE Spec => []NeverUnmerged
<1>1. ASSUME IInv, SoleInv PROVE NeverUnmerged
  <2> SUFFICES ASSUME Quiet, lapses \cap {"crossed", "asked", "broken"} = {},
                      ~("unread" \in lapses /\ nfs # {}), ~Truncated, NEW k \in Kinds
               PROVE  over[k] # {}
    BY DEF NeverUnmerged, Unmerged, Truncated
  <2>1. PICK p \in Procs : TRUE
    BY DEF Procs
  <2>2. Calm(p) /\ Held(p) = nfs /\ proc[p].pc \in Calls
    BY <1>1, QuietCalm
  <2>3. Stands(p, k)
    BY <2>2 DEF Calm, Merged, Underway, Calls
  <2> QED BY <2>2, <2>3 DEF Stands
<1> QED BY <1>1, AloneInvariance, PTL

\* Once nobody is at work, what is not mounted is served from its installed image in both
\* hierarchies and never from its empty HITL directory (unmount_one removes it before
\* merge_extensions_internal scans).
THEOREM ImagesRestored == Spec => []RestoredAtRest
<1>1. ASSUME IInv, SoleInv PROVE RestoredAtRest
  <2> SUFFICES ASSUME Quiet, lapses \cap {"crossed", "asked", "broken", "stuck"} = {},
                      NEW k \in Kinds, NEW e \in Exts \ nfs
               PROVE  <<e, "image">> \in over[k] /\ <<e, "hitl">> \notin over[k]
    BY DEF RestoredAtRest
  <2>1. e \in Procs
    BY DEF Procs
  <2>2. Calm(e) /\ Held(e) = nfs /\ proc[e].pc \in Calls
    BY <1>1, <2>1, QuietCalm
  <2>3. Whole(e)
    BY <2>2 DEF Calm, Served, Phase, Calls, Apart
  <2>4. Good(e, k)
    BY <2>3 DEF Whole, Kinds
  <2> QED BY <2>2, <2>4 DEF Good, Serve
<1> QED BY <1>1, AloneInvariance, PTL

\* Once nobody is at work, no service is bound to a mount that is gone, be it unmounted,
\* undone or left by a fallback (cleanup_service_dropins).
THEOREM DropinsGone == Spec => []DropinsFollowMount
<1>1. ASSUME IInv, SoleInv PROVE DropinsFollowMount
  <2> SUFFICES ASSUME Quiet, lapses \cap {"crossed", "unread"} = {}, NEW e \in dropins
               PROVE  e \in nfs
    BY DEF DropinsFollowMount
  <2>1. e \in Procs
    BY <1>1 DEF Procs, IInv, TypeOK
  <2>2. Calm(e) /\ DropinsOwed(e) = {}
    BY <1>1, <2>1, QuietCalm
  <2> QED BY <2>2 DEF Calm, Tidy
<1> QED BY <1>1, AloneInvariance, PTL

\* "No daemon-reload while unmerged": no reload, of a mount or after a merge, drops the
\* sockets of an extension, unless what the processes did lapsed.
THEOREM SocketsStay == Spec => []SocketsKept
<1>1. ASSUME IInv, SoleInv PROVE SocketsKept
  <2> SUFFICES ASSUME lapses \cap {"crossed", "asked", "broken", "stuck", "unread"} = {},
                      NEW e \in lost
               PROVE  FALSE
    BY DEF SocketsKept
  <2>1. e \in Procs
    BY <1>1 DEF Procs, IInv, TypeOK
  <2>2. PICK p \in Procs : Alone(p)
    <3>1. CASE \E q \in Procs : Busy(q)
      BY <1>1, <3>1 DEF SoleInv, Alone
    <3>2. CASE \A q \in Procs : ~Busy(q)
      BY <2>1, <3>2 DEF Alone
    <3> QED BY <3>1, <3>2
  <2>3. Calm(p)
    BY <1>1, <2>2 DEF SoleInv
  <2> QED BY <2>3 DEF Calm, Served
<1> QED BY <1>1, AloneInvariance, PTL
=============================================================================
