-------------------------- MODULE RuntimeStoreProofs -------------------------
(***************************************************************************)
(* What holds of RuntimeStore for any runtimes, images and threads and any *)
(* number of requests, crashes and faults: the types; that every image of  *)
(* a runtime whose manifest can be read is in the pool and whole, where a  *)
(* power failure loses nothing of an image the code has not synced (a torn *)
(* image stays in the pool under its name); and, with one request at a     *)
(* time, that the active link names a runtime that can be merged and that  *)
(* a collection leaves Retention runtimes, the active and the pending one  *)
(* among them.                                                             *)
(***************************************************************************)
EXTENDS RuntimeStore, FiniteSetTheorems, WellFoundedInduction, TLAPS

\* The thread works on the pool under the lock, or alone.
Busy(t) == proc[t].task \in {"update", "add", "collect"}

\* What StagedIsComplete asks of the requests, on a medium that tears no image
\* the code has not synced.
Guarded == ~LosesUnsynced /\ (serial \/ "add" \notin kinds)

\* What StagedIsComplete says, on such a medium.
Whole == Guarded => \A r \in Readable : Validated(r)

\* The steps that belong to a runtime.
Named == {"check", "install", "copy", "stage", "finish", "mark", "pend", "link",
          "symlink", "rename", "remove", "drop"}

\* Each thread is at a step of its task and has what that step needs; an update
\* pass and a collection hold the lock. Where the requests are guarded, what a
\* thread has installed is in the pool, and what it will not sweep is all that
\* the readable runtimes reference.
Fits(t) ==
  LET p == proc[t] IN
  /\ p.pc \in {"idle", "next"} <=> p.task = "none"
  /\ p.pc \in {"check", "install", "copy", "stage", "finish"}
       => p.task \in {"update", "add"}
  /\ p.pc \in {"list", "protect", "prune", "drop", "relist", "sweep"}
       <=> p.task = "collect"
  /\ p.pc \in Named => p.rt \in Runtimes
  /\ p.pc = "copy" => p.image \in p.todo
  /\ p.task \in {"update", "collect"} => lock = t
  /\ p.task = "add" => "add" \in kinds
  /\ Guarded =>
       /\ p.pc \in {"install", "copy"}
            => \A i \in ImagesOf[p.rt] \ p.todo : images[i] = "good"
       /\ p.pc = "stage" => Validated(p.rt)
       /\ p.pc = "sweep" => Referenced(Readable) \subseteq p.known

\* One request at a time means one thread that is not idle.
Alone ==
  serial => \A s, t \in Threads : proc[s].pc # "idle" /\ proc[t].pc # "idle" => s = t

IInv == TypeOK /\ (\A t \in Threads : Fits(t)) /\ Alone /\ Whole

-----------------------------------------------------------------------------
\* The types of what lies on the disk and of what does not change or counts.
RestOK ==
  /\ images \in [Images -> {"absent", "torn", "good"}] /\ fresh \subseteq Images
  /\ dirs \in [Runtimes -> {"none", "torn", "good"}]
  /\ active \in Runtimes /\ link \in Runtimes \cup {NONE}
  /\ pending \in Runtimes \cup {NONE}
  /\ up \in BOOLEAN
  /\ serial \in BOOLEAN /\ kinds \subseteq Kinds /\ restaged \in BOOLEAN
  /\ requests \in Nat /\ crashes \in Nat /\ faults \in Nat

\* The idle record has its type.
LEMMA IdleType == Idle \in Proc
  BY DEF Idle, Proc, Tasks, Pcs, Kinds

\* A store fresh from the factory satisfies the invariant.
LEMMA InitIInv == Init => IInv
<1> SUFFICES ASSUME Init PROVE IInv
  OBVIOUS
<1>1. TypeOK
  BY StoreAssumption, IdleType DEF Init, TypeOK
<1>2. ASSUME NEW t \in Threads PROVE Fits(t)
  BY DEF Init, Fits, Idle, Named, Kinds
<1>3. Alone
  BY DEF Init, Alone, Idle
<1>4. Whole
  BY StoreAssumption DEF Init, Whole, Guarded, Readable, Validated
<1> QED BY <1>1, <1>2, <1>3, <1>4 DEF IInv

-----------------------------------------------------------------------------
\* Guarded requests have one busy thread at a time: they come one by one, or
\* those that are busy hold the lock.
LEMMA Sole == ASSUME IInv, Guarded, NEW s \in Threads, NEW t \in Threads,
                     Busy(s), Busy(t)
              PROVE  s = t
<1>1. proc[s].pc # "idle" /\ proc[t].pc # "idle"
  BY DEF IInv, Fits, Busy
<1>2. CASE serial
  BY <1>1, <1>2 DEF IInv, Alone
<1>3. CASE "add" \notin kinds
  BY <1>3 DEF IInv, Fits, Busy
<1> QED BY <1>2, <1>3 DEF Guarded

\* A thread that moves alone, changing neither the pool nor what is readable,
\* disturbs no other one; nor does a busy one that keeps the store complete.
LEMMA StepIInv ==
  ASSUME IInv, NEW t \in Threads, TypeOK', UNCHANGED config,
         \A q \in Threads \ {t} : proc'[q] = proc[q] /\ (lock = q => lock' = q),
         \/ proc'[t].pc = "idle" \/ proc[t].pc # "idle"
         \/ serial => \A q \in Threads : proc[q].pc = "idle",
         Fits(t)',
         \/ images' = images /\ Readable' \subseteq Readable
         \/ Busy(t) /\ Whole'
  PROVE  IInv'
<1> USE DEF IInv
<1>1. serial' = serial /\ kinds' = kinds
  BY DEF config
<1>2. ASSUME NEW q \in Threads, q # t PROVE Fits(q)'
  <2>1. proc'[q] = proc[q] /\ (lock = q => lock' = q) /\ Fits(q)
    BY <1>2
  <2>2. CASE images' = images /\ Readable' \subseteq Readable
    BY <1>1, <2>1, <2>2 DEF Fits, Guarded, Validated, Referenced
  <2>3. CASE Busy(t)
    <3>1. Guarded => ~Busy(q)
      BY <1>2, <2>3, Sole
    <3> QED BY <1>1, <2>1, <3>1 DEF Fits, Guarded, Busy
  <2> QED BY <2>2, <2>3
<1>3. Alone'
  BY <1>1 DEF Alone
<1>4. Whole'
  BY <1>1 DEF Whole, Guarded, Validated
<1> QED BY <1>2, <1>3, <1>4

-----------------------------------------------------------------------------
\* A thread that turns to another part of a request, or takes one up.
LEMMA TurnIInv ==
  ASSUME IInv, NEW t \in Threads, NEW task \in Tasks, NEW step \in Pcs,
         NEW r \in Runtimes \cup {NONE}, NEW rest \in SUBSET {"refresh", "collect"},
         Turn(t, task, step, r, rest), RestOK', lock' \in Threads \cup {NONE},
         UNCHANGED <<images, config>>, Readable' \subseteq Readable,
         \A q \in Threads \ {t} : lock = q => lock' = q,
         step \in {"idle", "next"} <=> task = "none",
         step \notin {"check", "copy", "stage", "finish", "sweep"},
         step = "install" => task = "add" /\ (Guarded => Validated(r)),
         step \in {"list", "protect", "prune", "drop", "relist"} <=> task = "collect",
         step \in Named => r \in Runtimes,
         task \in {"update", "collect"} => lock' = t,
         task = "add" => "add" \in kinds,
         \/ step = "idle" \/ proc[t].pc # "idle"
         \/ serial => \A q \in Threads : proc[q].pc = "idle"
  PROVE  IInv'
<1> DEFINE p == [Idle EXCEPT !.task = task, !.pc = step, !.rt = r, !.rest = rest]
<1>1. p \in Proc /\ p.task = task /\ p.pc = step /\ p.rt = r /\ p.todo = {}
  BY IdleType DEF Proc, Idle
<1>2. proc' = [proc EXCEPT ![t] = p]
  BY DEF Turn
<1> HIDE DEF p
<1>3. /\ TypeOK' /\ proc'[t] = p
      /\ \A q \in Threads \ {t} : proc'[q] = proc[q]
  BY <1>1, <1>2 DEF IInv, TypeOK, RestOK
<1>4. Fits(t)'
  BY <1>1, <1>3 DEF Fits, Guarded, Validated, config, Named
<1> QED BY <1>1, <1>3, <1>4, StepIInv

\* A thread that goes on to a step that asks nothing of the pool.
LEMMA GoIInv ==
  ASSUME IInv, NEW t \in Threads, NEW step \in Pcs, Go(t, step), RestOK',
         UNCHANGED <<images, lock, config>>, Readable' \subseteq Readable,
         proc[t].pc # "idle",
         step \notin {"idle", "next", "check", "install", "copy", "stage", "sweep"},
         step = "finish" => proc[t].task = "update",
         step \in {"list", "protect", "prune", "drop", "relist"}
           <=> proc[t].task = "collect",
         proc[t].task # "none",
         step \in Named => proc[t].rt \in Runtimes
  PROVE  IInv'
<1> DEFINE p == [proc[t] EXCEPT !.pc = step]
<1>1. /\ p \in Proc /\ p.pc = step /\ p.task = proc[t].task /\ p.rt = proc[t].rt
      /\ proc' = [proc EXCEPT ![t] = p]
  BY DEF IInv, TypeOK, Proc, Go
<1> HIDE DEF p
<1>2. /\ TypeOK' /\ proc'[t] = p
      /\ \A q \in Threads \ {t} : proc'[q] = proc[q]
  BY <1>1 DEF IInv, TypeOK, RestOK
<1>3. Fits(t)'
  BY <1>1, <1>2 DEF IInv, Fits, Guarded, config, Named
<1> QED BY <1>1, <1>2, <1>3, StepIInv

\* The end of a request.
LEMMA EndIInv ==
  ASSUME IInv, NEW t \in Threads, End(t), RestOK',
         UNCHANGED <<images, config>>, Readable' \subseteq Readable
  PROVE  IInv'
<1>1. /\ proc' = [proc EXCEPT ![t] = Idle] /\ lock' = IF lock = t THEN NONE ELSE lock
  BY DEF End, Release
<1>2. /\ TypeOK' /\ proc'[t] = Idle
      /\ \A q \in Threads \ {t} : proc'[q] = proc[q] /\ (lock = q => lock' = q)
  BY <1>1, IdleType DEF IInv, TypeOK, RestOK
<1>3. Fits(t)'
  BY <1>2 DEF Fits, Idle, Named
<1> QED BY <1>2, <1>3, StepIInv DEF Idle

\* The end of a part of a request.
LEMMA LeaveIInv ==
  ASSUME IInv, NEW t \in Threads, NEW rest \in SUBSET {"refresh", "collect"},
         Leave(t, rest), RestOK', proc[t].pc # "idle",
         UNCHANGED <<images, config>>, Readable' \subseteq Readable
  PROVE  IInv'
<1>1. /\ Turn(t, "none", IF rest = {} THEN "idle" ELSE "next", NONE, rest)
      /\ lock' = IF lock = t THEN NONE ELSE lock
  BY DEF Leave, Release
<1>2. (IF rest = {} THEN "idle" ELSE "next") \in Pcs /\ "none" \in Tasks
  BY DEF Pcs, Tasks
<1>3. /\ lock' \in Threads \cup {NONE}
      /\ \A q \in Threads \ {t} : lock = q => lock' = q
  BY <1>1 DEF IInv, TypeOK
<1> QED BY <1>1, <1>2, <1>3, TurnIInv DEF Named

\* A failed activation or OS update, in whatever task.
LEMMA FailIInv ==
  ASSUME IInv, NEW t \in Threads, Fail(t), UNCHANGED <<images, config>>,
         proc[t].pc \in {"finish", "pend", "link", "symlink", "rename"},
         dirs' \in [Runtimes -> {"none", "torn", "good"}] => RestOK'
  PROVE  IInv'
<1>1. proc[t].rt \in Runtimes /\ proc[t].rest \in SUBSET {"refresh", "collect"}
  BY DEF IInv, Fits, Named, TypeOK, Proc
<1>2. dirs' = dirs \/ dirs' = [dirs EXCEPT ![proc[t].rt] = "none"]
  BY DEF Fail
<1>3. RestOK' /\ Readable' \subseteq Readable
  BY <1>1, <1>2 DEF IInv, TypeOK, Readable
<1>4. CASE proc[t].task = "merge"
  <2>1. Go(t, "clear") /\ UNCHANGED lock
    BY <1>4 DEF Fail
  <2> QED BY <1>3, <1>4, <2>1, GoIInv DEF Pcs, Named
<1>5. CASE proc[t].task = "fallback"
  <2>1. Leave(t, proc[t].rest)
    BY <1>5 DEF Fail
  <2> QED BY <1>1, <1>3, <2>1, LeaveIInv
<1>6. CASE proc[t].task \notin {"merge", "fallback"}
  <2>1. End(t)
    BY <1>6 DEF Fail
  <2> QED BY <1>3, <2>1, EndIInv
<1> QED BY <1>4, <1>5, <1>6

-----------------------------------------------------------------------------
\* The start of a merge, as a request or in a refresh.
LEMMA StartMergeIInv ==
  ASSUME IInv, NEW t \in Threads, NEW rest \in SUBSET {"refresh", "collect"},
         StartMerge(t, rest), RestOK', UNCHANGED <<images, lock, config>>,
         Readable' \subseteq Readable,
         \/ proc[t].pc # "idle"
         \/ serial => \A q \in Threads : proc[q].pc = "idle"
  PROVE  IInv'
<1>1. /\ {"merge", "fallback"} \subseteq Tasks
      /\ {"link", "clear", "fallback"} \subseteq Pcs
      /\ lock' \in Threads \cup {NONE} /\ NONE \in Runtimes \cup {NONE}
  BY DEF Tasks, Pcs, Kinds, IInv, TypeOK
<1>2. CASE pending \in Readable /\ Turn(t, "merge", "link", pending, rest)
  <2>1. pending \in Runtimes
    BY <1>2 DEF Readable
  <2> QED BY <1>1, <1>2, <2>1, TurnIInv DEF Named
<1>3. CASE Turn(t, "merge", "clear", NONE, rest)
  BY <1>1, <1>3, TurnIInv DEF Named
<1>4. CASE Turn(t, "merge", "fallback", NONE, rest)
  BY <1>1, <1>4, TurnIInv DEF Named
<1> QED BY <1>2, <1>3, <1>4 DEF StartMerge

-----------------------------------------------------------------------------
\* The requests as they are taken up.
LEMMA BeginUpdateIInv ==
  ASSUME IInv, NEW t \in Threads, NEW r \in Runtimes, BeginUpdate(t, r)
  PROVE  IInv'
<1> USE DEF BeginUpdate, Accepts, TakeLock, disk, config
<1> DEFINE p == [Idle EXCEPT !.task = "update", !.pc = "check", !.rt = r, !.known = Pool]
<1>1. p \in Proc /\ p.task = "update" /\ p.pc = "check" /\ p.rt = r
  BY IdleType DEF Proc, Idle, Tasks, Kinds, Pcs, Pool
<1>2. proc' = [proc EXCEPT ![t] = p]
  OBVIOUS
<1> HIDE DEF p
<1>3. TypeOK' /\ proc'[t] = p /\ (\A q \in Threads \ {t} : proc'[q] = proc[q])
  BY <1>1, <1>2 DEF IInv, TypeOK
<1>4. Fits(t)'
  BY <1>1, <1>3 DEF Fits, Named
<1>5. (\A q \in Threads \ {t} : lock = q => lock' = q) /\ Readable' = Readable
  BY StoreAssumption DEF Readable
<1> QED BY <1>3, <1>4, <1>5, StepIInv

\* Any request a thread takes up.
LEMMA BeginIInv ==
  ASSUME IInv, NEW t \in Threads, Begin(t)
  PROVE  IInv'
<1> USE DEF Accepts, TakeLock, disk, config
<1>0. /\ {"add", "activate", "remove", "merge", "collect"} \subseteq Tasks
      /\ {"install", "link", "mark", "remove", "list"} \subseteq Pcs
      /\ {} \in SUBSET {"refresh", "collect"}
  BY DEF Tasks, Kinds, Pcs
<1>1. ASSUME NEW r \in Runtimes, BeginUpdate(t, r) PROVE IInv'
  BY <1>1, BeginUpdateIInv
<1>2. ASSUME NEW r \in Runtimes, BeginAdd(t, r) PROVE IInv'
  <2>1. RestOK' /\ lock' \in Threads \cup {NONE} /\ Readable' = Readable
    BY <1>2 DEF BeginAdd, IInv, TypeOK, RestOK, Readable
  <2> QED BY <1>0, <1>2, <2>1, TurnIInv DEF BeginAdd, Named
<1>3. ASSUME NEW r \in Runtimes, BeginActivate(t, r) PROVE IInv'
  <2>1. RestOK' /\ lock' \in Threads \cup {NONE} /\ Readable' = Readable
    BY <1>3 DEF BeginActivate, IInv, TypeOK, RestOK, Readable
  <2> QED BY <1>0, <1>3, <2>1, TurnIInv DEF BeginActivate, Named
<1>4. ASSUME NEW r \in Runtimes, BeginRemove(t, r) PROVE IInv'
  <2>1. RestOK' /\ lock' \in Threads \cup {NONE} /\ Readable' = Readable
    BY <1>4 DEF BeginRemove, IInv, TypeOK, RestOK, Readable
  <2> QED BY <1>0, <1>4, <2>1, TurnIInv DEF BeginRemove, Named
<1>5. ASSUME BeginMerge(t) PROVE IInv'
  <2>1. RestOK' /\ lock' \in Threads \cup {NONE} /\ Readable' = Readable
    BY <1>5 DEF BeginMerge, IInv, TypeOK, RestOK, Readable
  <2>2. StartMerge(t, {})
    BY <1>5 DEF BeginMerge
  <2> QED BY <1>0, <1>5, <2>1, <2>2, StartMergeIInv DEF BeginMerge
<1>6. ASSUME BeginCollect(t) PROVE IInv'
  <2>1. RestOK' /\ lock' \in Threads \cup {NONE} /\ Readable' = Readable
    BY <1>6 DEF BeginCollect, IInv, TypeOK, RestOK, Readable
  <2>2. \A q \in Threads \ {t} : lock = q => lock' = q
    BY <1>6, StoreAssumption DEF BeginCollect
  <2> QED BY <1>0, <1>6, <2>1, <2>2, TurnIInv DEF BeginCollect, Named
<1> QED BY <1>1, <1>2, <1>3, <1>4, <1>5, <1>6 DEF Begin

-----------------------------------------------------------------------------
\* An update pass finds the device current or goes on to install.
LEMMA CheckIInv == ASSUME IInv, NEW t \in Threads, Check(t) PROVE IInv'
<1>1. RestOK' /\ images' = images /\ Readable' = Readable /\ UNCHANGED config
  BY DEF Check, IInv, TypeOK, RestOK, Readable, disk, config, Fault
<1>2. CASE End(t)
  BY <1>1, <1>2, EndIInv
<1>3. CASE /\ proc' = [proc EXCEPT ![t].pc = "install", ![t].todo = ImagesOf[proc[t].rt]]
           /\ UNCHANGED lock
  <2> DEFINE p == [proc[t] EXCEPT !.pc = "install", !.todo = ImagesOf[proc[t].rt]]
  <2>1. /\ proc[t].pc = "check" /\ proc[t].rt \in Runtimes /\ proc[t] \in Proc
        /\ proc[t].task \in {"update", "add"} /\ ImagesOf[proc[t].rt] \in SUBSET Images
    BY StoreAssumption DEF Check, IInv, TypeOK, Fits, Named
  <2>2. /\ p \in Proc /\ p.pc = "install" /\ p.rt = proc[t].rt /\ p.task = proc[t].task
        /\ p.todo = ImagesOf[p.rt]
    BY <2>1 DEF Proc, Pcs
  <2>3. proc' = [proc EXCEPT ![t] = p]
    BY <1>3 DEF IInv, TypeOK
  <2> HIDE DEF p
  <2>4. TypeOK' /\ proc'[t] = p /\ (\A q \in Threads \ {t} : proc'[q] = proc[q])
    BY <1>1, <1>3, <2>2, <2>3 DEF IInv, TypeOK, RestOK
  <2>5. Fits(t)'
    BY <1>1, <1>3, <2>1, <2>2, <2>4 DEF IInv, Fits, Guarded, config
  <2> QED BY <1>1, <1>3, <2>1, <2>4, <2>5, StepIInv
<1> QED BY <1>2, <1>3 DEF Check

\* Installing an image: it is there, it is given up, or it is to be copied.
LEMMA InstallIInv ==
  ASSUME IInv, NEW t \in Threads, NEW i \in Images, Install(t, i) PROVE IInv'
<1> USE DEF config
<1>1. /\ proc[t].pc = "install" /\ i \in proc[t].todo /\ UNCHANGED config
      /\ Readable' = Readable /\ dirs' = dirs
      /\ proc[t] \in Proc /\ proc[t].rt \in Runtimes /\ proc[t].task \in {"update", "add"}
  BY DEF Install, IInv, TypeOK, Fits, Named, Readable
<1>2. CASE /\ images[i] = "good" /\ UNCHANGED <<images, lock>>
           /\ proc' = [proc EXCEPT ![t].todo = @ \ {i}]
  <2> DEFINE p == [proc[t] EXCEPT !.todo = @ \ {i}]
  <2>1. /\ p \in Proc /\ p.pc = "install" /\ p.rt = proc[t].rt /\ p.task = proc[t].task
        /\ p.todo = proc[t].todo \ {i} /\ proc' = [proc EXCEPT ![t] = p]
    BY <1>1, <1>2 DEF IInv, TypeOK, Proc
  <2> HIDE DEF p
  <2>2. TypeOK' /\ proc'[t] = p /\ (\A q \in Threads \ {t} : proc'[q] = proc[q])
    BY <1>2, <2>1 DEF IInv, TypeOK, Install, counters
  <2>3. Fits(t)'
    BY <1>1, <1>2, <2>1, <2>2 DEF IInv, Fits, Guarded
  <2> QED BY <1>1, <1>2, <2>2, <2>3, StepIInv
<1>3. CASE End(t) /\ UNCHANGED images
  <2>1. RestOK'
    BY <1>3 DEF Install, IInv, TypeOK, RestOK, counters
  <2> QED BY <1>1, <1>3, <2>1, EndIInv
<1>4. CASE /\ images[i] = "absent" /\ images' = [images EXCEPT ![i] = "torn"]
           /\ proc' = [proc EXCEPT ![t].pc = "copy", ![t].image = i]
           /\ UNCHANGED lock
  <2> DEFINE p == [proc[t] EXCEPT !.pc = "copy", !.image = i]
  <2>1. /\ p \in Proc /\ p.pc = "copy" /\ p.rt = proc[t].rt /\ p.task = proc[t].task
        /\ p.todo = proc[t].todo /\ p.image = i /\ proc' = [proc EXCEPT ![t] = p]
    BY <1>1, <1>4 DEF IInv, TypeOK, Proc, Pcs
  <2> HIDE DEF p
  <2>2. TypeOK' /\ proc'[t] = p /\ (\A q \in Threads \ {t} : proc'[q] = proc[q])
    <3>1. images' \in [Images -> {"absent", "torn", "good"}]
      BY <1>4 DEF IInv, TypeOK
    <3>2. RestOK' /\ lock' = lock
      BY <1>4, <3>1 DEF IInv, TypeOK, RestOK, Install, counters
    <3> QED BY <2>1, <3>2 DEF IInv, TypeOK, RestOK
  <2>3. images \in [Images -> {"absent", "torn", "good"}]
    BY DEF IInv, TypeOK
  <2>4. Fits(t)'
    BY <1>1, <1>4, <2>1, <2>2, <2>3, StoreAssumption DEF IInv, Fits, Guarded
  <2>5. Whole'
    BY <1>1, <1>4, <2>3, StoreAssumption DEF IInv, Whole, Guarded, Validated, Readable
  <2> QED BY <1>1, <1>4, <2>2, <2>4, <2>5, StepIInv DEF Busy
<1> QED BY <1>2, <1>3, <1>4 DEF Install

\* The end of a copy.
LEMMA CopiedIInv == ASSUME IInv, NEW t \in Threads, Copied(t) PROVE IInv'
<1> USE DEF config
<1> DEFINE i == proc[t].image
<1>1. /\ proc[t].pc = "copy" /\ i \in proc[t].todo /\ UNCHANGED config
      /\ Readable' = Readable /\ proc[t] \in Proc /\ i \in Images
      /\ proc[t].rt \in Runtimes /\ proc[t].task \in {"update", "add"}
  BY DEF Copied, IInv, TypeOK, Fits, Named, Readable, Proc
<1>2. CASE /\ images' = [images EXCEPT ![i] = "good"] /\ fresh' = fresh \cup {i}
           /\ proc' = [proc EXCEPT ![t].pc = "install", ![t].image = NONE,
                                   ![t].todo = @ \ {i}]
           /\ UNCHANGED <<lock, faults>>
  <2> DEFINE p == [proc[t] EXCEPT !.pc = "install", !.image = NONE, !.todo = @ \ {i}]
  <2>1. /\ p \in Proc /\ p.pc = "install" /\ p.rt = proc[t].rt /\ p.task = proc[t].task
        /\ p.todo = proc[t].todo \ {i} /\ proc' = [proc EXCEPT ![t] = p]
    BY <1>1, <1>2 DEF IInv, TypeOK, Proc, Pcs
  <2> HIDE DEF p
  <2>2. TypeOK' /\ proc'[t] = p /\ (\A q \in Threads \ {t} : proc'[q] = proc[q])
    <3>1. /\ images' \in [Images -> {"absent", "torn", "good"}]
          /\ fresh' \subseteq Images
      BY <1>1, <1>2 DEF IInv, TypeOK
    <3>2. RestOK' /\ lock' = lock
      BY <1>2, <3>1 DEF IInv, TypeOK, RestOK, Copied
    <3> QED BY <2>1, <3>2 DEF IInv, TypeOK, RestOK
  <2>3. images \in [Images -> {"absent", "torn", "good"}]
    BY DEF IInv, TypeOK
  <2> HIDE DEF i
  <2>4. Fits(t)'
    BY <1>1, <1>2, <2>1, <2>2, <2>3, StoreAssumption DEF IInv, Fits, Guarded
  <2>5. Whole'
    BY <1>1, <1>2, <2>3, StoreAssumption DEF IInv, Whole, Guarded, Validated, Readable
  <2> QED BY <1>1, <1>2, <2>2, <2>4, <2>5, StepIInv DEF Busy
<1>3. CASE Fault /\ End(t) /\ UNCHANGED <<images, fresh>>
  <2>1. RestOK'
    BY <1>3 DEF Copied, IInv, TypeOK, RestOK, Fault
  <2> QED BY <1>1, <1>3, <2>1, EndIInv
<1> QED BY <1>2, <1>3 DEF Copied

\* The manifest is about to be written.
LEMMA BeginStageIInv == ASSUME IInv, NEW t \in Threads, BeginStage(t) PROVE IInv'
<1> USE DEF config
<1> DEFINE p == [proc[t] EXCEPT !.pc = "stage"]
<1>1. /\ proc[t].pc = "install" /\ proc[t].todo = {} /\ UNCHANGED <<images, lock, config>>
      /\ proc[t] \in Proc /\ proc[t].rt \in Runtimes /\ proc[t].task \in {"update", "add"}
      /\ dirs' = [dirs EXCEPT ![proc[t].rt] = "torn"]
  BY DEF BeginStage, IInv, TypeOK, Fits, Named
<1>2. /\ p \in Proc /\ p.pc = "stage" /\ p.rt = proc[t].rt /\ p.task = proc[t].task
      /\ proc' = [proc EXCEPT ![t] = p]
  BY <1>1 DEF BeginStage, Go, IInv, TypeOK, Proc, Pcs
<1> HIDE DEF p
<1>3. TypeOK' /\ proc'[t] = p /\ (\A q \in Threads \ {t} : proc'[q] = proc[q])
  BY <1>1, <1>2 DEF IInv, TypeOK, BeginStage, counters
<1>4. Readable' \subseteq Readable
  BY <1>1 DEF Readable, IInv, TypeOK
<1>5. Fits(t)'
  BY <1>1, <1>2, <1>3 DEF IInv, Fits, Guarded, Validated
<1> QED BY <1>1, <1>3, <1>4, <1>5, StepIInv

\* The manifest is written, of images that are all in the pool.
LEMMA EndStageIInv == ASSUME IInv, NEW t \in Threads, EndStage(t) PROVE IInv'
<1> USE DEF config
<1>1. /\ proc[t].pc = "stage" /\ UNCHANGED <<images, config>>
      /\ proc[t] \in Proc /\ proc[t].rt \in Runtimes /\ proc[t].task \in {"update", "add"}
  BY DEF EndStage, IInv, TypeOK, Fits, Named
<1>2. CASE /\ dirs' = [dirs EXCEPT ![proc[t].rt] = "good"] /\ Staged(t)
           /\ UNCHANGED <<lock, faults>>
  <2> DEFINE step == IF proc[t].task = "update" THEN "finish" ELSE "link"
             p == [proc[t] EXCEPT !.pc = step]
  <2>1. /\ p \in Proc /\ p.pc = step /\ p.rt = proc[t].rt /\ p.task = proc[t].task
        /\ proc' = [proc EXCEPT ![t] = p]
    BY <1>1, <1>2 DEF Staged, Go, IInv, TypeOK, Proc, Pcs
  <2> HIDE DEF p
  <2>2. TypeOK' /\ proc'[t] = p /\ (\A q \in Threads \ {t} : proc'[q] = proc[q])
    BY <1>1, <1>2, <2>1 DEF IInv, TypeOK, EndStage
  <2>3. Fits(t)'
    BY <1>1, <1>2, <2>1, <2>2 DEF IInv, Fits, Guarded
  <2>4. Readable' \subseteq Readable \cup {proc[t].rt}
    BY <1>1, <1>2 DEF Readable, IInv, TypeOK
  <2>5. Guarded => Validated(proc[t].rt)
    BY <1>1 DEF IInv, Fits
  <2>6. Whole'
    BY <1>1, <2>4, <2>5 DEF IInv, Whole, Guarded, Validated
  <2> QED BY <1>1, <1>2, <2>2, <2>3, <2>6, StepIInv DEF Busy
<1>3. CASE Fault /\ End(t) /\ UNCHANGED dirs
  <2>1. RestOK' /\ Readable' = Readable
    BY <1>3 DEF EndStage, IInv, TypeOK, RestOK, Fault, Readable
  <2> QED BY <1>1, <1>3, <2>1, EndIInv
<1> QED BY <1>2, <1>3 DEF EndStage

-----------------------------------------------------------------------------
\* The end of an update pass, up to the activation or the reboot.
LEMMA FinishIInv ==
  ASSUME IInv, NEW t \in Threads, Finish(t) \/ Mark(t) \/ Pend(t) PROVE IInv'
<1> USE DEF config
<1>1. /\ UNCHANGED <<images, config>> /\ {"link", "mark", "pend"} \subseteq Pcs
      /\ proc[t].pc \in {"finish", "mark", "pend"} /\ proc[t].rt \in Runtimes
      /\ proc[t].task \notin {"none", "collect"}
  BY DEF Finish, Mark, Pend, IInv, Fits, Named, Pcs
<1>2. RestOK' \/ (dirs' \in [Runtimes -> {"none", "torn", "good"}] => RestOK')
  BY <1>1 DEF Finish, Mark, Pend, Fault, IInv, TypeOK, RestOK, counters
<1>3. ASSUME NEW step \in {"link", "mark", "pend"}, Go(t, step), UNCHANGED <<dirs, lock>>
      PROVE  IInv'
  <2>1. RestOK' /\ Readable' = Readable
    BY <1>2, <1>3 DEF IInv, TypeOK, Readable
  <2> QED BY <1>1, <1>3, <2>1, GoIInv DEF Named
<1>4. CASE Finish(t)
  BY <1>1, <1>2, <1>3, <1>4, FailIInv DEF Finish
<1>5. CASE Mark(t)
  BY <1>3, <1>5 DEF Mark
<1>6. CASE Pend(t)
  <2>1. CASE End(t) /\ UNCHANGED dirs
    <3>1. RestOK' /\ Readable' = Readable
      BY <1>2, <2>1 DEF IInv, TypeOK, Readable
    <3> QED BY <1>1, <2>1, <3>1, EndIInv
  <2>2. CASE Fail(t)
    BY <1>1, <1>2, <1>6, <2>2, FailIInv DEF Pend
  <2> QED BY <1>6, <2>1, <2>2 DEF Pend
<1> QED BY <1>4, <1>5, <1>6

\* The steps of an activation.
LEMMA ActivationIInv ==
  ASSUME IInv, NEW t \in Threads, Link(t) \/ Symlink(t) \/ Rename(t) PROVE IInv'
<1> USE DEF config
<1>1. /\ UNCHANGED <<images, config>> /\ {"symlink", "rename", "clear"} \subseteq Pcs
      /\ proc[t].pc \in {"link", "symlink", "rename"} /\ proc[t].rt \in Runtimes
      /\ proc[t].task \notin {"none", "collect"}
      /\ proc[t].rest \in SUBSET {"refresh", "collect"}
  BY DEF Link, Symlink, Rename, IInv, TypeOK, Proc, Fits, Named, Pcs
<1>2. dirs' \in [Runtimes -> {"none", "torn", "good"}] => RestOK'
  BY <1>1 DEF Link, Symlink, Rename, IInv, TypeOK, RestOK, counters
<1>3. CASE Fail(t)
  BY <1>1, <1>2, <1>3, FailIInv
<1>4. CASE ~Fail(t)
  <2>1. UNCHANGED dirs /\ RestOK' /\ Readable' = Readable
    BY <1>2, <1>4 DEF Link, Symlink, Rename, IInv, TypeOK, Readable
  <2>2. \/ \E step \in {"symlink", "rename", "clear"} : Go(t, step) /\ UNCHANGED lock
        \/ \E rest \in SUBSET {"refresh", "collect"} : Leave(t, rest)
    BY <1>1, <1>4 DEF Link, Symlink, Rename
  <2> QED BY <1>1, <2>1, <2>2, GoIInv, LeaveIInv DEF Named
<1> QED BY <1>3, <1>4

\* The removal of a runtime.
LEMMA RemoveIInv == ASSUME IInv, NEW t \in Threads, Remove(t) PROVE IInv'
<1>1. End(t) /\ UNCHANGED <<images, config>>
  BY DEF Remove, config
<1>2. RestOK' /\ Readable' \subseteq Readable
  BY DEF Remove, IInv, TypeOK, RestOK, Readable, counters, config
<1> QED BY <1>1, <1>2, EndIInv

\* The steps of a merge and the refresh that leads to one.
LEMMA MergeIInv ==
  ASSUME IInv, NEW t \in Threads, Refresh(t) \/ Clear(t) \/ Fallback(t) PROVE IInv'
<1> USE DEF config
<1>1. /\ UNCHANGED <<images, config>> /\ {"fallback", "link"} \subseteq Pcs
      /\ proc[t].pc \in {"next", "clear", "fallback"}
      /\ proc[t].pc # "next" => proc[t].task \notin {"none", "collect"}
      /\ proc[t].rest \in SUBSET {"refresh", "collect"} /\ Readable' = Readable
  BY DEF Refresh, Clear, Fallback, IInv, TypeOK, Proc, Fits, Pcs, disk, Readable
<1>2. RestOK'
  BY <1>1 DEF Refresh, Clear, Fallback, IInv, TypeOK, RestOK, counters, disk, Fault
<1>3. ASSUME NEW rest \in SUBSET {"refresh", "collect"}, Leave(t, rest) PROVE IInv'
  BY <1>1, <1>2, <1>3, LeaveIInv
<1>4. CASE Refresh(t)
  <2>1. proc[t].rest \ {"refresh"} \in SUBSET {"refresh", "collect"}
    BY <1>1
  <2>2. CASE StartMerge(t, proc[t].rest \ {"refresh"}) /\ UNCHANGED lock
    BY <1>1, <1>2, <2>1, <2>2, StartMergeIInv
  <2> QED BY <1>3, <1>4, <2>1, <2>2 DEF Refresh
<1>5. CASE Clear(t)
  <2>1. CASE Go(t, "fallback") /\ UNCHANGED lock
    BY <1>1, <1>2, <1>5, <2>1, GoIInv DEF Clear, Named
  <2> QED BY <1>1, <1>3, <1>5, <2>1 DEF Clear
<1>6. CASE Fallback(t)
  <2>1. ASSUME NEW r \in Readable \ {active}, Turn(t, "fallback", "link", r, proc[t].rest),
               UNCHANGED lock
        PROVE  IInv'
    <3>1. r \in Runtimes /\ "fallback" \in Tasks /\ lock' \in Threads \cup {NONE}
      BY <2>1 DEF Readable, Tasks, IInv, TypeOK
    <3> QED BY <1>1, <1>2, <2>1, <3>1, <1>6, TurnIInv DEF Fallback, Named
  <2> QED BY <1>1, <1>3, <1>6, <2>1 DEF Fallback
<1> QED BY <1>4, <1>5, <1>6

-----------------------------------------------------------------------------
\* A collection after an activation starts if it gets the lock.
LEMMA AutoCollectIInv == ASSUME IInv, NEW t \in Threads, AutoCollect(t) PROVE IInv'
<1> USE DEF config
<1> DEFINE rest == proc[t].rest \ {"collect"}
<1>1. /\ UNCHANGED <<images, config>> /\ "list" \in Pcs /\ "collect" \in Tasks
      /\ proc[t].pc = "next" /\ rest \in SUBSET {"refresh", "collect"}
      /\ RestOK' /\ Readable' = Readable
  BY DEF AutoCollect, IInv, TypeOK, RestOK, Proc, Pcs, Tasks, Kinds, disk, counters, Readable
<1>2. CASE lock = NONE
  <2>1. /\ lock' = t /\ Turn(t, "collect", "list", NONE, rest)
        /\ \A q \in Threads : lock # q
    BY <1>2, StoreAssumption DEF AutoCollect, TakeLock
  <2> QED BY <1>1, <2>1, TurnIInv DEF Named
<1>3. CASE lock # NONE
  <2>1. Leave(t, rest)
    BY <1>3 DEF AutoCollect
  <2> QED BY <1>1, <2>1, LeaveIInv
<1> QED BY <1>2, <1>3

\* A thread that collects goes on to choose what to prune or not to sweep: what
\* it does not sweep is all that the readable runtimes reference.
LEMMA CollectIInv ==
  ASSUME IInv, NEW t \in Threads, NEW p \in Proc, proc' = [proc EXCEPT ![t] = p],
         proc[t].task = "collect", p.task = "collect",
         p.pc \in {"list", "protect", "prune", "drop", "relist", "sweep"},
         p.pc = "drop" => p.rt \in Runtimes,
         p.pc = "sweep" => Referenced(Readable) \subseteq p.known,
         RestOK', UNCHANGED <<images, lock, config>>, Readable' \subseteq Readable
  PROVE  IInv'
<1>1. TypeOK' /\ proc'[t] = p /\ (\A q \in Threads \ {t} : proc'[q] = proc[q])
  BY DEF IInv, TypeOK, RestOK
<1>2. proc[t].pc # "idle" /\ lock = t
  BY DEF IInv, Fits
<1>3. Referenced(Readable') \subseteq Referenced(Readable)
  BY DEF Referenced
<1>4. Referenced(Readable)' = Referenced(Readable')
  BY DEF Referenced
<1>5. Fits(t)'
  BY <1>1, <1>2, <1>3, <1>4 DEF Fits, Named
<1> QED BY <1>1, <1>2, <1>5, StepIInv

\* The steps of a collection up to the images.
LEMMA PruningIInv ==
  ASSUME IInv, NEW t \in Threads,
         List(t) \/ Protect(t) \/ Prune(t) \/ Drop(t) \/ Relist(t)
  PROVE  IInv'
<1> USE DEF config
<1>1. /\ UNCHANGED <<images, config>>
      /\ proc[t].pc \in {"list", "protect", "prune", "drop", "relist"}
      /\ proc[t].task = "collect" /\ proc[t] \in Proc
      /\ proc[t].rest \in SUBSET {"refresh", "collect"}
  BY DEF List, Protect, Prune, Drop, Relist, IInv, TypeOK, Proc, Fits, disk
<1>2. Readable' \subseteq Readable
  BY DEF List, Protect, Prune, Drop, Relist, IInv, TypeOK, disk, Readable
<1>3. RestOK'
  BY DEF List, Protect, Prune, Drop, Relist, IInv, TypeOK, RestOK, disk, counters
<1>4. CASE Leave(t, proc[t].rest)
  BY <1>1, <1>2, <1>3, <1>4, LeaveIInv
<1>5. Readable \subseteq Runtimes /\ Referenced(Readable) \subseteq Images
  BY StoreAssumption DEF Readable, Referenced
<1>6. CASE UNCHANGED lock /\ List(t) /\ active \in Readable
  <2> DEFINE s == [proc[t] EXCEPT !.pc = "sweep", !.known = Referenced(Readable)]
             c == [proc[t] EXCEPT !.pc = "protect", !.prune = Readable \ Kept(Readable)]
  <2>1. /\ s \in Proc /\ s.pc = "sweep" /\ s.task = "collect" /\ s.known = Referenced(Readable)
        /\ c \in Proc /\ c.pc = "protect" /\ c.task = "collect"
    BY <1>1, <1>5 DEF Proc, Pcs
  <2>2. proc' = [proc EXCEPT ![t] = s] \/ proc' = [proc EXCEPT ![t] = c]
    BY <1>6 DEF List, IInv, TypeOK
  <2> HIDE DEF s, c
  <2> QED BY <1>1, <1>2, <1>3, <1>6, <2>1, <2>2, CollectIInv
<1>7. CASE Protect(t)
  <2> DEFINE p == [proc[t] EXCEPT !.pc = "prune", !.prune = @ \ {pending}]
  <2>1. p \in Proc /\ p.pc = "prune" /\ p.task = "collect"
    BY <1>1 DEF Proc, Pcs
  <2>2. proc' = [proc EXCEPT ![t] = p] /\ UNCHANGED lock
    BY <1>7 DEF Protect, IInv, TypeOK
  <2> HIDE DEF p
  <2> QED BY <1>1, <1>2, <1>3, <2>1, <2>2, CollectIInv
<1>8. CASE UNCHANGED lock /\ Prune(t) /\ proc[t].prune = {} /\ Go(t, "relist")
  <2> DEFINE p == [proc[t] EXCEPT !.pc = "relist"]
  <2>1. p \in Proc /\ p.pc = "relist" /\ p.task = "collect"
    BY <1>1 DEF Proc, Pcs
  <2>2. proc' = [proc EXCEPT ![t] = p]
    BY <1>8 DEF Go, IInv, TypeOK
  <2> HIDE DEF p
  <2> QED BY <1>1, <1>2, <1>3, <1>8, <2>1, <2>2, CollectIInv
<1>9. ASSUME UNCHANGED lock, Prune(t), NEW r \in proc[t].prune,
             proc' = [proc EXCEPT ![t].pc = IF r = active THEN "prune" ELSE "drop",
                                  ![t].rt = r, ![t].prune = @ \ {r}]
      PROVE  IInv'
  <2> DEFINE step == IF r = active THEN "prune" ELSE "drop"
             p == [proc[t] EXCEPT !.pc = step, !.rt = r, !.prune = @ \ {r}]
  <2>1. r \in Runtimes /\ step \in {"prune", "drop"} /\ step \in Pcs
    BY <1>1 DEF Proc, Pcs
  <2>2. proc' = [proc EXCEPT ![t] = p]
    BY <1>9 DEF IInv, TypeOK
  <2> HIDE DEF step
  <2>3. p \in Proc /\ p.pc = step /\ p.task = "collect" /\ p.rt = r
    BY <1>1, <2>1 DEF Proc
  <2> HIDE DEF p
  <2> QED BY <1>1, <1>2, <1>3, <1>9, <2>1, <2>2, <2>3, CollectIInv
<1>10. CASE Drop(t)
  <2> DEFINE p == [proc[t] EXCEPT !.pc = "prune"]
  <2>1. p \in Proc /\ p.pc = "prune" /\ p.task = "collect"
    BY <1>1 DEF Proc, Pcs
  <2>2. proc' = [proc EXCEPT ![t] = p] /\ UNCHANGED lock
    BY <1>10 DEF Drop, Go, IInv, TypeOK
  <2> HIDE DEF p
  <2> QED BY <1>1, <1>2, <1>3, <2>1, <2>2, CollectIInv
<1>11. CASE UNCHANGED lock /\ Relist(t) /\ active \in Readable
  <2> DEFINE p == [proc[t] EXCEPT !.pc = "sweep", !.known = Referenced(Readable)]
  <2>1. p \in Proc /\ p.pc = "sweep" /\ p.task = "collect" /\ p.known = Referenced(Readable)
    BY <1>1, <1>5 DEF Proc, Pcs
  <2>2. proc' = [proc EXCEPT ![t] = p]
    BY <1>11 DEF Relist, IInv, TypeOK
  <2> HIDE DEF p
  <2> QED BY <1>1, <1>2, <1>3, <1>11, <2>1, <2>2, CollectIInv
<1>12. List(t) => Leave(t, proc[t].rest) \/ (UNCHANGED lock /\ active \in Readable)
  BY DEF List
<1>13. Relist(t) => Leave(t, proc[t].rest) \/ (UNCHANGED lock /\ active \in Readable)
  BY DEF Relist
<1>14. Prune(t) => Leave(t, proc[t].rest) \/ IInv'
  BY <1>8, <1>9 DEF Prune
<1> QED BY <1>4, <1>6, <1>7, <1>10, <1>11, <1>12, <1>13, <1>14

\* The images nothing readable references go.
LEMMA SweepIInv == ASSUME IInv, NEW t \in Threads, Sweep(t) PROVE IInv'
<1> USE DEF config
<1>1. /\ proc[t].pc = "sweep" /\ proc[t].task = "collect" /\ UNCHANGED config
      /\ proc[t].rest \in SUBSET {"refresh", "collect"}
      /\ Guarded => Referenced(Readable) \subseteq proc[t].known
      /\ dirs' = dirs /\ Readable' = Readable
  BY DEF Sweep, IInv, TypeOK, Proc, Fits, Readable
<1>2. CASE Pool \subseteq proc[t].known
  <2>1. Leave(t, proc[t].rest) /\ images' = images /\ RestOK'
    BY <1>2 DEF Sweep, IInv, TypeOK, RestOK, counters
  <2> QED BY <1>1, <2>1, LeaveIInv
<1>3. CASE ~(Pool \subseteq proc[t].known)
  <2>1. PICK i \in Pool \ proc[t].known :
          /\ images' = [images EXCEPT ![i] = "absent"] /\ fresh' = fresh \ {i}
          /\ UNCHANGED <<proc, lock>>
    BY <1>3 DEF Sweep
  <2>2. i \in Images /\ images \in [Images -> {"absent", "torn", "good"}]
    BY DEF Pool, IInv, TypeOK
  <2>3. TypeOK'
    BY <2>1, <2>2 DEF Sweep, IInv, TypeOK, counters
  <2>4. Guarded => i \notin Referenced(Readable)
    BY <1>1, <2>1
  <2>5. Whole'
    BY <1>1, <2>1, <2>2, <2>4
    DEF IInv, Whole, Guarded, Validated, Readable, Referenced
  <2>6. Fits(t)'
    BY <1>1, <2>1 DEF IInv, Fits, Guarded, Referenced, Readable
  <2> QED BY <1>1, <2>1, <2>3, <2>5, <2>6, StepIInv DEF Busy
<1> QED BY <1>2, <1>3

-----------------------------------------------------------------------------
\* A crash ends every request; where it can tear an image, nothing is said of the images.
LEMMA CrashIInv == ASSUME IInv, Crash PROVE IInv'
<1>1. /\ images \in [Images -> {"absent", "torn", "good"}]
      /\ proc' = [t \in Threads |-> Idle] /\ dirs' = dirs /\ UNCHANGED config
  BY DEF Crash, IInv, TypeOK
<1>2. PICK lost \in SUBSET fresh :
        /\ lost # {} => LosesUnsynced
        /\ images' = [i \in Images |-> IF i \in lost THEN "torn" ELSE images[i]]
  BY DEF Crash
<1>3. /\ images' \in [Images -> {"absent", "torn", "good"}]
      /\ ~LosesUnsynced => images' = images
  BY <1>1, <1>2
<1>4. TypeOK'
  <2>1. proc' \in [Threads -> Proc]
    BY <1>1, IdleType
  <2>2. /\ up' \in BOOLEAN /\ lock' = NONE /\ fresh' = {} /\ crashes' = crashes + 1
        /\ UNCHANGED <<active, link, pending, restaged, requests, faults>>
    BY DEF Crash
  <2> QED BY <1>1, <1>3, <2>1, <2>2 DEF IInv, TypeOK, config
<1>5. ASSUME NEW t \in Threads PROVE Fits(t)'
  BY <1>1 DEF Fits, Idle, Named
<1>6. Alone' /\ Whole'
  BY <1>1, <1>3 DEF Alone, Idle, IInv, Whole, Guarded, Readable, Validated, config
<1> QED BY <1>4, <1>5, <1>6 DEF IInv

\* The boot reads the store and moves the active link.
LEMMA BootIInv == ASSUME IInv, Boot PROVE IInv'
<1>1. UNCHANGED <<images, dirs, lock, proc, config>>
  BY DEF Boot
<1>2. TypeOK'
  <2>1. active' \in Runtimes /\ link' \in Runtimes \cup {NONE} /\ restaged' \in BOOLEAN
    BY DEF Boot, IInv, TypeOK, Readable
  <2>2. up' \in BOOLEAN /\ pending' = NONE /\ UNCHANGED <<fresh, counters>>
    BY DEF Boot
  <2> QED BY <1>1, <2>1, <2>2 DEF IInv, TypeOK, config, counters
<1>3. ASSUME NEW t \in Threads PROVE Fits(t)'
  BY <1>1 DEF IInv, Fits, Guarded, Validated, Referenced, Readable, config
<1>4. Alone' /\ Whole'
  BY <1>1 DEF Alone, IInv, Whole, Guarded, Readable, Validated, config
<1> QED BY <1>2, <1>3, <1>4 DEF IInv

\* Every step keeps the invariant.
LEMMA NextIInv == ASSUME IInv, [Next]_vars PROVE IInv'
<1>1. ASSUME NEW t \in Threads, Begin(t) PROVE IInv'
  BY <1>1, BeginIInv
<1>2. ASSUME NEW t \in Threads, Step(t) PROVE IInv'
  <2>1. CASE Check(t)
    BY <2>1, CheckIInv
  <2>2. CASE \E i \in Images : Install(t, i)
    BY <2>2, InstallIInv
  <2>3. CASE Copied(t)
    BY <2>3, CopiedIInv
  <2>4. CASE BeginStage(t)
    BY <2>4, BeginStageIInv
  <2>5. CASE EndStage(t)
    BY <2>5, EndStageIInv
  <2>6. CASE Finish(t) \/ Mark(t) \/ Pend(t)
    BY <2>6, FinishIInv
  <2>7. CASE Link(t) \/ Symlink(t) \/ Rename(t)
    BY <2>7, ActivationIInv
  <2>8. CASE Remove(t)
    BY <2>8, RemoveIInv
  <2>9. CASE Refresh(t) \/ Clear(t) \/ Fallback(t)
    BY <2>9, MergeIInv
  <2>10. CASE AutoCollect(t)
    BY <2>10, AutoCollectIInv
  <2>11. CASE List(t) \/ Protect(t) \/ Prune(t) \/ Drop(t) \/ Relist(t)
    BY <2>11, PruningIInv
  <2>12. CASE Sweep(t)
    BY <2>12, SweepIInv
  <2> QED BY <1>2, <2>1, <2>2, <2>3, <2>4, <2>5, <2>6, <2>7, <2>8, <2>9, <2>10,
             <2>11, <2>12 DEF Step
<1>3. CASE UNCHANGED vars
  <2>1. UNCHANGED <<images, dirs, lock, proc, serial, kinds>>
    BY <1>3 DEF vars, disk, config
  <2>2. TypeOK'
    BY <1>3 DEF IInv, TypeOK, vars, disk, config, counters
  <2>3. ASSUME NEW t \in Threads PROVE Fits(t)'
    BY <2>1 DEF IInv, Fits, Guarded, Validated, Referenced, Readable
  <2>4. Alone' /\ Whole'
    BY <2>1 DEF Alone, IInv, Whole, Guarded, Readable, Validated
  <2> QED BY <2>2, <2>3, <2>4 DEF IInv
<1> QED BY <1>1, <1>2, <1>3, CrashIInv, BootIInv DEF Next

-----------------------------------------------------------------------------
\* The inductive invariant holds of every behaviour.
THEOREM StoreInvariance == Spec => []IInv
<1>1. IInv /\ [Next]_vars => IInv'
  BY NextIInv
<1> QED BY InitIInv, <1>1, PTL DEF Spec

\* The variables have their types, whatever the runtimes, images and threads and
\* however many requests, faults and crashes.
THEOREM StoreTyping == Spec => []TypeOK
<1>1. IInv => TypeOK
  BY DEF IInv
<1> QED BY StoreInvariance, <1>1, PTL

\* Update passes, removals, activations, merges and collections in any order and
\* at any number of threads leave every image of every readable runtime in the
\* pool and whole; so do additions that come one request at a time.
THEOREM StagedComplete == ASSUME LosesUnsynced = FALSE PROVE Spec => []StagedIsComplete
<1>1. IInv => StagedIsComplete
  BY DEF IInv, Whole, Guarded, StagedIsComplete
<1> QED BY StoreInvariance, <1>1, PTL

-----------------------------------------------------------------------------
(* With one request at a time: what holds of the active link and of a     *)
(* collection. A collection keeps the active and the pending runtime only  *)
(* because neither can change under it.                                    *)

\* A thread on its way to an activation has staged, or found, a runtime that can
\* be read; a removal has looked at the active link.
Certain(t) ==
  LET p == proc[t] IN
  /\ p.pc = "stage" /\ p.rt = active => restaged
  /\ p.pc \in {"finish", "mark", "pend", "link", "symlink", "rename"} =>
       p.rt \in Readable /\ (p.task = "update" /\ p.rt = active => restaged)
  /\ p.pc = "rename" => link = p.rt
  /\ p.pc = "remove" => p.rt # active

\* The runtimes a collection has still to remove.
Going(t) == proc[t].prune \cup IF proc[t].pc = "drop" THEN {proc[t].rt} ELSE {}

\* From the listing on, a collection will leave no more than Retention runtimes
\* and the pending one, the active one among them; once it has looked at the
\* marker, the pending one too.
Sparing(t) ==
  LET p == proc[t] IN
  /\ p.pc \in {"list", "relist", "sweep"} => p.prune = {}
  /\ p.pc \in {"protect", "prune", "drop", "relist", "sweep"} =>
       /\ Cardinality(Readable \ (Going(t) \cup {pending})) <= Retention
       /\ active \notin Going(t)
       /\ p.pc = "protect" \/ pending \notin Going(t)

\* The active runtime can be merged, or was staged over itself. Cardinality says
\* something of a finite set only, and what is readable was staged one by one.
Settled == /\ IsFiniteSet(Readable)
           /\ active \in Readable \/ restaged

\* The invariant of the three theorems below.
SerialInv == serial => Settled /\ \A t \in Threads : Certain(t) /\ Sparing(t)

\* A set of numbers has a least member.
LEMMA LeastIn == ASSUME NEW S \in SUBSET Nat, S # {}
                 PROVE  \E n \in S : \A m \in S : n <= m
<1>1. \E n \in S : \A m \in S : ~(<<m, n>> \in OpToRel(<, Nat))
  BY WFMin, NatLessThanWellFounded
<1>2. PICK n \in S : \A m \in S : ~(<<m, n>> \in OpToRel(<, Nat))
  BY <1>1
<1>3. ASSUME NEW m \in S PROVE n <= m
  <2>1. <<m, n>> \in Nat \X Nat /\ <<m, n>>[1] = m /\ <<m, n>>[2] = n
    OBVIOUS
  <2>2. m < n => <<m, n>> \in OpToRel(<, Nat)
    BY <2>1 DEF OpToRel
  <2>3. ~(m < n)
    BY <1>2, <2>2
  <2> QED BY <2>3
<1> QED BY <1>3

\* What a collection keeps is no more than Retention, which is at least one: the
\* oldest it keeps beside the active runtime has less than Retention - 1 newer.
LEMMA KeptSize ==
  ASSUME NEW rs \in SUBSET Runtimes, IsFiniteSet(rs)
  PROVE  IsFiniteSet(Kept(rs)) /\ Cardinality(Kept(rs)) <= Retention
<1> DEFINE S == {r \in rs \ {active} : Cardinality(Newer(r, rs)) + 1 < Retention}
<1>1. Kept(rs) = S \cup {active} /\ S \subseteq rs /\ active \notin S
  BY DEF Kept
<1>2. IsFiniteSet(S) /\ Cardinality(S) \in Nat
  BY <1>1, FS_Subset, FS_CardinalityType
<1>3. S = {} \/ Cardinality(S) + 1 <= Retention
  <2> SUFFICES ASSUME S # {} PROVE Cardinality(S) + 1 <= Retention
    OBVIOUS
  <2>1. S \in SUBSET Nat
    BY <1>1, StoreAssumption
  <2>2. PICK n \in S : \A m \in S : n <= m
    BY <2>1, LeastIn
  <2>3. S \ {n} \subseteq Newer(n, rs)
    <3>1. ASSUME NEW m \in S, m # n PROVE m \in rs \ {active} /\ m > n
      BY <2>1, <2>2, <3>1
    <3> QED BY <3>1 DEF Newer
  <2>4. IsFiniteSet(Newer(n, rs)) /\ Cardinality(Newer(n, rs)) \in Nat
    BY FS_Subset, FS_CardinalityType DEF Newer
  <2>5. Cardinality(S \ {n}) <= Cardinality(Newer(n, rs))
    BY <2>3, <2>4, FS_Subset
  <2>6. Cardinality(S \ {n}) = Cardinality(S) - 1
    BY <1>2, <2>2, FS_RemoveElement
  <2>7. Cardinality(Newer(n, rs)) + 1 < Retention
    BY <2>2
  <2> HIDE DEF S
  <2> QED BY <1>2, <2>4, <2>5, <2>6, <2>7, StoreAssumption
<1> HIDE DEF S
<1>4. Cardinality(S) + 1 <= Retention
  BY <1>2, <1>3, FS_EmptySet, StoreAssumption
<1>5. IsFiniteSet(S \cup {active}) /\ Cardinality(S \cup {active}) = Cardinality(S) + 1
  BY <1>1, <1>2, FS_AddElement
<1> QED BY <1>1, <1>4, <1>5

-----------------------------------------------------------------------------
\* What a thread that goes on, turns to another part or ends leaves of its state.
LEMMA GoFacts ==
  ASSUME IInv, NEW t \in Threads, NEW step, Go(t, step)
  PROVE  /\ proc'[t].pc = step /\ proc'[t].rt = proc[t].rt /\ proc'[t].task = proc[t].task
         /\ proc'[t].prune = proc[t].prune
         /\ \A q \in Threads \ {t} : proc'[q] = proc[q]
<1>1. proc[t] \in Proc
  BY DEF IInv, TypeOK
<1> DEFINE p == [proc[t] EXCEPT !.pc = step]
<1>2. p.pc = step /\ p.rt = proc[t].rt /\ p.task = proc[t].task /\ p.prune = proc[t].prune
  BY <1>1 DEF Proc
<1>3. proc' = [proc EXCEPT ![t] = p]
  BY DEF Go
<1> HIDE DEF p
<1> QED BY <1>2, <1>3 DEF IInv, TypeOK

LEMMA TurnFacts ==
  ASSUME IInv, NEW t \in Threads, NEW task, NEW step, NEW r, NEW rest,
         Turn(t, task, step, r, rest)
  PROVE  /\ proc'[t].pc = step /\ proc'[t].rt = r /\ proc'[t].task = task
         /\ proc'[t].prune = {}
         /\ \A q \in Threads \ {t} : proc'[q] = proc[q]
<1> DEFINE p == [Idle EXCEPT !.task = task, !.pc = step, !.rt = r, !.rest = rest]
<1>1. p.pc = step /\ p.rt = r /\ p.task = task /\ p.prune = {}
  BY DEF Idle
<1>2. proc' = [proc EXCEPT ![t] = p]
  BY DEF Turn
<1> HIDE DEF p
<1> QED BY <1>1, <1>2 DEF IInv, TypeOK

LEMMA EndFacts ==
  ASSUME IInv, NEW t \in Threads, NEW rest, End(t) \/ Leave(t, rest)
  PROVE  /\ proc'[t].pc \in {"idle", "next"}
         /\ \A q \in Threads \ {t} : proc'[q] = proc[q]
<1>1. CASE End(t)
  BY <1>1 DEF End, Idle, IInv, TypeOK
<1>2. CASE Leave(t, rest)
  BY <1>2, TurnFacts DEF Leave
<1> QED BY <1>1, <1>2

\* One thread moves.
LEMMA SerialStep ==
  ASSUME IInv, SerialInv, NEW t \in Threads, serial' = serial,
         \A q \in Threads \ {t} : proc'[q] = proc[q],
         proc[t].pc # "idle" \/ (serial => \A q \in Threads : proc[q].pc = "idle"),
         serial => Settled' /\ Certain(t)' /\ Sparing(t)'
  PROVE  SerialInv'
<1> SUFFICES ASSUME serial PROVE \A q \in Threads : Certain(q)' /\ Sparing(q)'
  BY DEF SerialInv
<1>1. ASSUME NEW q \in Threads, q # t PROVE Certain(q)' /\ Sparing(q)'
  <2>1. proc'[q].pc = "idle"
    BY <1>1 DEF IInv, Alone
  <2> QED BY <2>1 DEF Certain, Sparing
<1> QED BY <1>1

\* A thread goes on to a step of which nothing is said.
LEMMA CalmStep ==
  ASSUME IInv, SerialInv, NEW t \in Threads, UNCHANGED <<dirs, active, restaged, serial>>,
         \A q \in Threads \ {t} : proc'[q] = proc[q],
         proc[t].pc # "idle" \/ (serial => \A q \in Threads : proc[q].pc = "idle"),
         proc'[t].pc \in {"idle", "next", "check", "install", "copy", "clear", "fallback"}
  PROVE  SerialInv'
<1>1. serial => Settled'
  BY DEF SerialInv, Settled, Readable
<1>2. Certain(t)' /\ Sparing(t)'
  BY DEF Certain, Sparing
<1> QED BY <1>1, <1>2, SerialStep

\* A thread goes on with the activation of a runtime.
LEMMA OnwardStep ==
  ASSUME IInv, SerialInv, NEW t \in Threads, UNCHANGED <<dirs, active, restaged, serial>>,
         \A q \in Threads \ {t} : proc'[q] = proc[q],
         proc[t].pc # "idle" \/ (serial => \A q \in Threads : proc[q].pc = "idle"),
         proc'[t].pc \in {"mark", "pend", "link", "symlink", "rename"},
         serial => /\ proc'[t].rt \in Readable
                   /\ proc'[t].task = "update" /\ proc'[t].rt = active => restaged,
         proc'[t].pc = "rename" => link' = proc'[t].rt
  PROVE  SerialInv'
<1>1. Readable' = Readable
  BY DEF Readable
<1>2. serial => Settled'
  BY <1>1 DEF SerialInv, Settled
<1>3. serial => Certain(t)' /\ Sparing(t)'
  BY <1>1 DEF Certain, Sparing
<1> QED BY <1>2, <1>3, SerialStep

\* An activation or an OS update fails.
LEMMA FailStep ==
  ASSUME IInv, SerialInv, NEW t \in Threads, Fail(t), UNCHANGED <<active, restaged, serial>>,
         proc[t].pc \in {"finish", "pend", "link", "symlink", "rename"}
  PROVE  SerialInv'
<1>1. /\ proc'[t].pc \in {"idle", "next", "clear"}
      /\ \A q \in Threads \ {t} : proc'[q] = proc[q]
  BY GoFacts, EndFacts DEF Fail
<1>2. dirs' = dirs \/ (proc[t].task = "update" /\ dirs' = [dirs EXCEPT ![proc[t].rt] = "none"])
  BY DEF Fail
<1>3. Certain(t)' /\ Sparing(t)'
  BY <1>1 DEF Certain, Sparing
<1>4. serial => Settled'
  <2>1. Readable' \subseteq Readable /\ \A r \in Readable : r \in Readable' \/ r = proc[t].rt
    BY <1>2 DEF IInv, TypeOK, Readable
  <2>2. serial => IsFiniteSet(Readable')
    BY <2>1, FS_Subset DEF SerialInv, Settled
  <2>3. CASE dirs' = dirs
    BY <2>2, <2>3 DEF SerialInv, Settled, Readable
  <2>4. CASE proc[t].task = "update"
    <3>1. serial => (proc[t].rt = active => restaged)
      BY <2>4 DEF SerialInv, Certain
    <3> QED BY <2>1, <2>2, <3>1 DEF SerialInv, Settled
  <2> QED BY <1>2, <2>3, <2>4
<1> QED BY <1>1, <1>3, <1>4, SerialStep

-----------------------------------------------------------------------------
\* A merge promotes the pending runtime, whose manifest it has read.
LEMMA StartMergeSerial ==
  ASSUME IInv, SerialInv, NEW t \in Threads, NEW rest, StartMerge(t, rest),
         UNCHANGED <<dirs, active, restaged, serial>>,
         proc[t].pc # "idle" \/ (serial => \A q \in Threads : proc[q].pc = "idle")
  PROVE  SerialInv'
<1>1. CASE pending \in Readable /\ Turn(t, "merge", "link", pending, rest)
  <2>1. /\ proc'[t].pc = "link" /\ proc'[t].rt = pending /\ proc'[t].task = "merge"
        /\ \A q \in Threads \ {t} : proc'[q] = proc[q]
    BY <1>1, TurnFacts
  <2> QED BY <1>1, <2>1, OnwardStep
<1>2. CASE Turn(t, "merge", "clear", NONE, rest) \/ Turn(t, "merge", "fallback", NONE, rest)
  <2>1. /\ proc'[t].pc \in {"clear", "fallback"}
        /\ \A q \in Threads \ {t} : proc'[q] = proc[q]
    BY <1>2, TurnFacts
  <2> QED BY <2>1, CalmStep
<1> QED BY <1>1, <1>2 DEF StartMerge

\* A request is taken up with every thread idle.
LEMMA BeginSerial == ASSUME IInv, SerialInv, NEW t \in Threads, Begin(t) PROVE SerialInv'
<1>1. /\ UNCHANGED <<dirs, active, restaged, serial>>
      /\ serial => \A q \in Threads : proc[q].pc = "idle"
  BY DEF Begin, BeginUpdate, BeginAdd, BeginActivate, BeginRemove, BeginMerge, BeginCollect,
     Accepts, disk, config
<1>2. ASSUME NEW r \in Runtimes, BeginUpdate(t, r) PROVE SerialInv'
  <2> DEFINE p == [Idle EXCEPT !.task = "update", !.pc = "check", !.rt = r, !.known = Pool]
  <2>1. p.pc = "check"
    BY DEF Idle
  <2>2. proc' = [proc EXCEPT ![t] = p]
    BY <1>2 DEF BeginUpdate
  <2> HIDE DEF p
  <2>3. proc'[t].pc = "check" /\ \A q \in Threads \ {t} : proc'[q] = proc[q]
    BY <2>1, <2>2 DEF IInv, TypeOK
  <2> QED BY <1>1, <2>3, CalmStep
<1>3. ASSUME NEW r \in Runtimes, BeginAdd(t, r) PROVE SerialInv'
  <2>1. proc'[t].pc = "install" /\ \A q \in Threads \ {t} : proc'[q] = proc[q]
    BY <1>3, TurnFacts DEF BeginAdd
  <2> QED BY <1>1, <2>1, CalmStep
<1>4. ASSUME NEW r \in Runtimes, BeginActivate(t, r) PROVE SerialInv'
  <2>1. /\ proc'[t].pc \in {"link", "mark"} /\ proc'[t].rt = r /\ proc'[t].task = "activate"
        /\ \A q \in Threads \ {t} : proc'[q] = proc[q]
    BY <1>4, TurnFacts DEF BeginActivate
  <2>2. r \in Readable
    BY <1>4 DEF BeginActivate
  <2> QED BY <1>1, <2>1, <2>2, OnwardStep
<1>5. ASSUME NEW r \in Runtimes, BeginRemove(t, r) PROVE SerialInv'
  <2>1. /\ proc'[t].pc = "remove" /\ proc'[t].rt = r
        /\ \A q \in Threads \ {t} : proc'[q] = proc[q]
    BY <1>5, TurnFacts DEF BeginRemove
  <2>2. serial => Settled' /\ Certain(t)' /\ Sparing(t)'
    BY <1>1, <1>5, <2>1 DEF BeginRemove, SerialInv, Settled, Readable, Certain, Sparing
  <2> QED BY <1>1, <2>1, <2>2, SerialStep
<1>6. ASSUME BeginMerge(t) PROVE SerialInv'
  <2>1. StartMerge(t, {})
    BY <1>6 DEF BeginMerge
  <2> QED BY <1>1, <2>1, StartMergeSerial
<1>7. ASSUME BeginCollect(t) PROVE SerialInv'
  <2>1. /\ proc'[t].pc = "list" /\ proc'[t].prune = {}
        /\ \A q \in Threads \ {t} : proc'[q] = proc[q]
    BY <1>7, TurnFacts DEF BeginCollect
  <2>2. serial => Settled' /\ Certain(t)' /\ Sparing(t)'
    BY <1>1, <2>1 DEF SerialInv, Settled, Readable, Certain, Sparing
  <2> QED BY <1>1, <2>1, <2>2, SerialStep
<1> QED BY <1>2, <1>3, <1>4, <1>5, <1>6, <1>7 DEF Begin

\* An update pass, up to the images it installs, says nothing of the runtimes.
LEMMA InstallSerial ==
  ASSUME IInv, SerialInv, NEW t \in Threads,
         Check(t) \/ (\E i \in Images : Install(t, i)) \/ Copied(t)
  PROVE  SerialInv'
<1>1. /\ UNCHANGED <<dirs, active, restaged, serial>>
      /\ proc[t].pc # "idle" /\ proc[t] \in Proc
  BY DEF Check, Install, Copied, disk, config, IInv, TypeOK
<1>2. \/ End(t)
      \/ \E p : p.pc \in {"install", "copy"} /\ proc' = [proc EXCEPT ![t] = p]
  <2>1. CASE Check(t)
    <3> DEFINE p == [proc[t] EXCEPT !.pc = "install", !.todo = ImagesOf[proc[t].rt]]
    <3>1. p.pc = "install"
      BY <1>1 DEF Proc
    <3>2. End(t) \/ proc' = [proc EXCEPT ![t] = p]
      BY <2>1 DEF Check
    <3> HIDE DEF p
    <3> QED BY <3>1, <3>2
  <2>2. ASSUME NEW i \in Images, Install(t, i)
        PROVE  \/ End(t)
               \/ \E p : p.pc \in {"install", "copy"} /\ proc' = [proc EXCEPT ![t] = p]
    <3> DEFINE p == [proc[t] EXCEPT !.todo = @ \ {i}]
               c == [proc[t] EXCEPT !.pc = "copy", !.image = i]
    <3>1. p.pc = "install" /\ c.pc = "copy"
      BY <1>1, <2>2 DEF Proc, Install
    <3>2. End(t) \/ proc' = [proc EXCEPT ![t] = p] \/ proc' = [proc EXCEPT ![t] = c]
      BY <2>2 DEF Install
    <3> HIDE DEF p, c
    <3> QED BY <3>1, <3>2
  <2>3. CASE Copied(t)
    <3> DEFINE p == [proc[t] EXCEPT !.pc = "install", !.image = NONE,
                                    !.todo = @ \ {proc[t].image}]
    <3>1. p.pc = "install"
      BY <1>1 DEF Proc
    <3>2. End(t) \/ proc' = [proc EXCEPT ![t] = p]
      BY <2>3 DEF Copied
    <3> HIDE DEF p
    <3> QED BY <3>1, <3>2
  <2> QED BY <2>1, <2>2, <2>3
<1>3. /\ proc'[t].pc \in {"idle", "next", "install", "copy"}
      /\ \A q \in Threads \ {t} : proc'[q] = proc[q]
  <2>1. CASE End(t)
    BY <2>1, EndFacts
  <2>2. ASSUME NEW p, p.pc \in {"install", "copy"}, proc' = [proc EXCEPT ![t] = p]
        PROVE  /\ proc'[t].pc \in {"install", "copy"}
               /\ \A q \in Threads \ {t} : proc'[q] = proc[q]
    BY <2>2 DEF IInv, TypeOK
  <2> QED BY <1>2, <2>1, <2>2
<1> QED BY <1>1, <1>3, CalmStep

\* The staging of a manifest tears it and makes it whole, or marks the active one.
LEMMA StageSerial ==
  ASSUME IInv, SerialInv, NEW t \in Threads, BeginStage(t) \/ EndStage(t)
  PROVE  SerialInv'
<1>1. /\ UNCHANGED <<active, serial>> /\ proc[t].pc \in {"install", "stage"}
      /\ proc[t].rt \in Runtimes /\ dirs \in [Runtimes -> {"none", "torn", "good"}]
  BY DEF BeginStage, EndStage, config, IInv, TypeOK, Fits, Named
<1>2. CASE BeginStage(t)
  <2>1. /\ dirs' = [dirs EXCEPT ![proc[t].rt] = "torn"]
        /\ restaged' = (restaged \/ proc[t].rt = active) /\ Go(t, "stage")
    BY <1>2 DEF BeginStage
  <2>2. /\ proc'[t].pc = "stage" /\ proc'[t].rt = proc[t].rt
        /\ \A q \in Threads \ {t} : proc'[q] = proc[q]
    BY <2>1, GoFacts
  <2>3. Readable' \subseteq Readable /\ \A r \in Readable : r \in Readable' \/ r = proc[t].rt
    BY <1>1, <2>1 DEF Readable
  <2>4. serial => Settled'
    BY <1>1, <2>1, <2>3, FS_Subset DEF SerialInv, Settled
  <2>5. Certain(t)' /\ Sparing(t)'
    BY <1>1, <2>1, <2>2 DEF Certain, Sparing
  <2> QED BY <1>1, <2>2, <2>4, <2>5, SerialStep
<1>3. CASE EndStage(t) /\ End(t) /\ UNCHANGED dirs
  <2>1. /\ proc'[t].pc \in {"idle", "next"} /\ restaged' = restaged
        /\ \A q \in Threads \ {t} : proc'[q] = proc[q]
    BY <1>3, EndFacts DEF EndStage
  <2> QED BY <1>1, <1>3, <2>1, CalmStep
<1>4. CASE EndStage(t) /\ dirs' = [dirs EXCEPT ![proc[t].rt] = "good"] /\ Staged(t)
  <2>1. restaged' = restaged /\ proc[t].pc = "stage"
    BY <1>4 DEF EndStage
  <2>2. /\ proc'[t].pc \in {"finish", "link"} /\ proc'[t].rt = proc[t].rt
        /\ proc'[t].task = proc[t].task
        /\ \A q \in Threads \ {t} : proc'[q] = proc[q]
    BY <1>4, GoFacts DEF Staged
  <2>3. Readable' = Readable \cup {proc[t].rt}
    BY <1>1, <1>4 DEF Readable
  <2>4. serial => Settled'
    <3>1. serial => IsFiniteSet(Readable')
      BY <2>3, FS_AddElement DEF SerialInv, Settled
    <3> QED BY <1>1, <2>1, <2>3, <3>1 DEF SerialInv, Settled
  <2>5. serial => (proc[t].rt = active => restaged)
    BY <2>1 DEF SerialInv, Certain
  <2>6. serial => Certain(t)' /\ Sparing(t)'
    BY <1>1, <2>1, <2>2, <2>3, <2>5 DEF Certain, Sparing
  <2> QED BY <1>1, <2>2, <2>4, <2>6, SerialStep
<1> QED BY <1>2, <1>3, <1>4 DEF EndStage

\* A pass that fails at the OS removes what it staged, the active runtime too.
LEMMA FinishSerial ==
  ASSUME IInv, SerialInv, NEW t \in Threads, Finish(t) \/ Mark(t) \/ Pend(t)
  PROVE  SerialInv'
<1>1. /\ UNCHANGED <<active, restaged, serial>> /\ proc[t].pc \in {"finish", "mark", "pend"}
  BY DEF Finish, Mark, Pend, config
<1>2. serial => /\ proc[t].rt \in Readable
                /\ proc[t].task = "update" /\ proc[t].rt = active => restaged
  BY <1>1 DEF SerialInv, Certain
<1>3. ASSUME NEW step \in {"link", "mark", "pend"}, Go(t, step), UNCHANGED dirs
      PROVE  SerialInv'
  <2>1. /\ proc'[t].pc = step /\ proc'[t].rt = proc[t].rt /\ proc'[t].task = proc[t].task
        /\ \A q \in Threads \ {t} : proc'[q] = proc[q]
    BY <1>3, GoFacts
  <2> QED BY <1>1, <1>2, <1>3, <2>1, OnwardStep
<1>4. CASE End(t) /\ UNCHANGED dirs
  BY <1>1, <1>4, EndFacts, CalmStep
<1>5. CASE Fail(t) /\ proc[t].pc \in {"finish", "pend"}
  BY <1>1, <1>5, FailStep
<1>6. Finish(t) => SerialInv'
  BY <1>3, <1>5 DEF Finish
<1>7. Mark(t) => SerialInv'
  BY <1>3 DEF Mark
<1>8. Pend(t) => SerialInv'
  BY <1>4, <1>5 DEF Pend
<1> QED BY <1>6, <1>7, <1>8

\* The link that is renamed names the runtime the activation is of.
LEMMA ActivationSerial ==
  ASSUME IInv, SerialInv, NEW t \in Threads, Link(t) \/ Symlink(t) \/ Rename(t)
  PROVE  SerialInv'
<1>1. /\ UNCHANGED serial /\ proc[t].pc \in {"link", "symlink", "rename"}
  BY DEF Link, Symlink, Rename, config
<1>2. serial => /\ proc[t].rt \in Readable
                /\ proc[t].task = "update" /\ proc[t].rt = active => restaged
  BY <1>1 DEF SerialInv, Certain
<1>3. CASE Fail(t) /\ UNCHANGED <<active, restaged>>
  BY <1>1, <1>3, FailStep
<1>4. ASSUME UNCHANGED <<dirs, active, restaged>>, NEW step \in {"symlink", "rename"}, Go(t, step),
             step = "rename" => link' = proc[t].rt
      PROVE  SerialInv'
  <2>1. /\ proc'[t].pc = step /\ proc'[t].rt = proc[t].rt /\ proc'[t].task = proc[t].task
        /\ \A q \in Threads \ {t} : proc'[q] = proc[q]
    BY <1>4, GoFacts
  <2> QED BY <1>1, <1>2, <1>4, <2>1, OnwardStep
<1>5. CASE Rename(t) /\ link # NONE
  <2>1. active' = link /\ restaged' = FALSE /\ dirs' = dirs
    BY <1>5 DEF Rename
  <2>2. /\ proc'[t].pc \in {"clear", "idle", "next"}
        /\ \A q \in Threads \ {t} : proc'[q] = proc[q]
    BY <1>5, GoFacts, EndFacts DEF Rename
  <2>3. serial => link \in Readable
    BY <1>2, <1>5 DEF Rename, SerialInv, Certain
  <2>4. serial => Settled'
    BY <2>1, <2>3 DEF SerialInv, Settled, Readable
  <2>5. Certain(t)' /\ Sparing(t)'
    BY <2>2 DEF Certain, Sparing
  <2> QED BY <1>1, <2>2, <2>4, <2>5, SerialStep
<1>6. Link(t) => SerialInv'
  BY <1>3, <1>4 DEF Link
<1>7. Symlink(t) => SerialInv'
  BY <1>3, <1>4 DEF Symlink
<1>8. Rename(t) => SerialInv'
  BY <1>3, <1>5 DEF Rename
<1> QED BY <1>6, <1>7, <1>8

\* The runtime removed is not the active one.
LEMMA RemoveSerial == ASSUME IInv, SerialInv, NEW t \in Threads, Remove(t) PROVE SerialInv'
<1>1. /\ proc[t].pc = "remove" /\ dirs' = [dirs EXCEPT ![proc[t].rt] = "none"] /\ End(t)
      /\ UNCHANGED <<active, restaged, serial>>
  BY DEF Remove, config
<1>2. serial => proc[t].rt # active
  BY <1>1 DEF SerialInv, Certain
<1>3. /\ proc'[t].pc \in {"idle", "next"}
      /\ \A q \in Threads \ {t} : proc'[q] = proc[q]
  BY <1>1, EndFacts
<1>4. Readable' \subseteq Readable /\ \A r \in Readable : r \in Readable' \/ r = proc[t].rt
  BY <1>1 DEF IInv, TypeOK, Readable
<1>5. serial => Settled'
  BY <1>1, <1>2, <1>4, FS_Subset DEF SerialInv, Settled
<1>6. Certain(t)' /\ Sparing(t)'
  BY <1>3 DEF Certain, Sparing
<1> QED BY <1>1, <1>3, <1>5, <1>6, SerialStep

\* A merge or a fallback activates a runtime it can read.
LEMMA MergeSerial ==
  ASSUME IInv, SerialInv, NEW t \in Threads, Refresh(t) \/ Clear(t) \/ Fallback(t)
  PROVE  SerialInv'
<1>1. UNCHANGED <<dirs, active, restaged, serial>> /\ proc[t].pc # "idle"
  BY DEF Refresh, Clear, Fallback, disk, config
<1>2. ASSUME NEW rest, Leave(t, rest) PROVE SerialInv'
  BY <1>1, <1>2, EndFacts, CalmStep
<1>3. ASSUME NEW rest, StartMerge(t, rest) PROVE SerialInv'
  BY <1>1, <1>3, StartMergeSerial
<1>4. CASE Go(t, "fallback")
  BY <1>1, <1>4, GoFacts, CalmStep
<1>5. ASSUME NEW r \in Readable, NEW rest, Turn(t, "fallback", "link", r, rest) PROVE SerialInv'
  <2>1. /\ proc'[t].pc = "link" /\ proc'[t].rt = r /\ proc'[t].task = "fallback"
        /\ \A q \in Threads \ {t} : proc'[q] = proc[q]
    BY <1>5, TurnFacts
  <2> QED BY <1>1, <2>1, OnwardStep
<1> QED BY <1>2, <1>3, <1>4, <1>5 DEF Refresh, Clear, Fallback

-----------------------------------------------------------------------------
\* A collection moves on, the disk as it was.
LEMMA SparingStep ==
  ASSUME IInv, SerialInv, NEW t \in Threads, UNCHANGED <<dirs, active, restaged, serial>>,
         \A q \in Threads \ {t} : proc'[q] = proc[q], proc[t].pc # "idle",
         proc'[t].pc \in {"list", "protect", "prune", "drop", "relist", "sweep"},
         serial => Sparing(t)'
  PROVE  SerialInv'
<1>1. serial => Settled'
  BY DEF SerialInv, Settled, Readable
<1>2. Certain(t)'
  BY DEF Certain
<1> QED BY <1>1, <1>2, SerialStep

\* The state a thread is given is its next one.
LEMMA CollectTypes ==
  ASSUME IInv, NEW t \in Threads, NEW p, proc' = [proc EXCEPT ![t] = p]
  PROVE  proc'[t] = p /\ \A q \in Threads \ {t} : proc'[q] = proc[q]
  BY DEF IInv, TypeOK

\* A collection begins with nothing to remove.
LEMMA AutoCollectSerial ==
  ASSUME IInv, SerialInv, NEW t \in Threads, AutoCollect(t) PROVE SerialInv'
<1> DEFINE rest == proc[t].rest \ {"collect"}
<1>1. UNCHANGED <<dirs, active, restaged, serial>> /\ proc[t].pc # "idle"
  BY DEF AutoCollect, disk, config
<1>2. CASE Leave(t, rest)
  BY <1>1, <1>2, EndFacts, CalmStep
<1>3. CASE Turn(t, "collect", "list", NONE, rest)
  <2>1. /\ proc'[t].pc = "list" /\ proc'[t].prune = {}
        /\ \A q \in Threads \ {t} : proc'[q] = proc[q]
    BY <1>3, TurnFacts
  <2>2. Sparing(t)'
    BY <2>1 DEF Sparing
  <2> QED BY <1>1, <2>1, <2>2, SparingStep
<1> QED BY <1>2, <1>3 DEF AutoCollect

\* The list: what is kept, and the pending one, are within bounds already.
LEMMA ListSerial == ASSUME IInv, SerialInv, NEW t \in Threads, List(t) PROVE SerialInv'
<1>1. /\ UNCHANGED <<dirs, active, pending, restaged, serial>> /\ proc[t].pc = "list"
      /\ proc[t] \in Proc
  BY DEF List, disk, config, IInv, TypeOK
<1>2. CASE Leave(t, proc[t].rest)
  BY <1>1, <1>2, EndFacts, CalmStep
<1>3. Readable' = Readable /\ Readable \in SUBSET Runtimes
  BY <1>1 DEF Readable
<1>4. ASSUME serial PROVE IsFiniteSet(Readable) /\ proc[t].prune = {}
  BY <1>1, <1>4 DEF SerialInv, Settled, Sparing
<1>5. CASE /\ Cardinality(Readable) <= Retention
           /\ proc' = [proc EXCEPT ![t].pc = "sweep", ![t].known = Referenced(Readable)]
  <2> DEFINE p == [proc[t] EXCEPT !.pc = "sweep", !.known = Referenced(Readable)]
  <2>1. p.pc = "sweep" /\ p.prune = proc[t].prune
    BY <1>1 DEF Proc
  <2>2. proc' = [proc EXCEPT ![t] = p]
    BY <1>5
  <2> HIDE DEF p
  <2>3. proc'[t] = p /\ \A q \in Threads \ {t} : proc'[q] = proc[q]
    BY <2>2, CollectTypes
  <2>4. ASSUME serial PROVE Sparing(t)'
    <3>1. Going(t)' = {}
      BY <1>4, <2>1, <2>3, <2>4 DEF Going
    <3>2. Cardinality(Readable \ {pending}) <= Retention
      <4>1. /\ Cardinality(Readable \ {pending}) <= Cardinality(Readable)
            /\ IsFiniteSet(Readable \ {pending})
        BY <1>4, <2>4, FS_Subset
      <4>2. Cardinality(Readable) \in Nat /\ Cardinality(Readable \ {pending}) \in Nat
        BY <1>4, <2>4, <4>1, FS_CardinalityType
      <4> QED BY <1>5, <4>1, <4>2, StoreAssumption
    <3>3. Readable' \ (Going(t)' \cup {pending'}) = Readable \ {pending}
      BY <1>1, <1>3, <3>1
    <3>4. proc'[t].pc = "sweep" /\ proc'[t].prune = {}
      BY <1>4, <2>1, <2>3, <2>4
    <3> QED BY <3>1, <3>2, <3>3, <3>4 DEF Sparing
  <2> QED BY <1>1, <2>1, <2>3, <2>4, SparingStep
<1>6. CASE proc' = [proc EXCEPT ![t].pc = "protect", ![t].prune = Readable \ Kept(Readable)]
  <2> DEFINE p == [proc[t] EXCEPT !.pc = "protect", !.prune = Readable \ Kept(Readable)]
             K == Kept(Readable)
             R == Readable \ ((Readable \ K) \cup {pending})
  <2>1. p.pc = "protect" /\ p.prune = Readable \ K
    BY <1>1 DEF Proc
  <2>2. proc' = [proc EXCEPT ![t] = p]
    BY <1>6
  <2> HIDE DEF p
  <2>3. proc'[t] = p /\ \A q \in Threads \ {t} : proc'[q] = proc[q]
    BY <2>2, CollectTypes
  <2>4. active \in K
    BY DEF Kept
  <2> HIDE DEF K
  <2>5. Going(t)' = Readable \ K
    BY <2>1, <2>3 DEF Going
  <2>6. ASSUME serial PROVE Sparing(t)'
    <3>1. IsFiniteSet(K) /\ Cardinality(K) <= Retention
      BY <1>3, <1>4, <2>6, KeptSize DEF K
    <3>2. R \subseteq K
      OBVIOUS
    <3> HIDE DEF R
    <3>3. Cardinality(R) <= Cardinality(K) /\ IsFiniteSet(R)
      BY <3>1, <3>2, FS_Subset
    <3>4. Cardinality(R) \in Nat /\ Cardinality(K) \in Nat
      BY <3>1, <3>3, FS_CardinalityType
    <3>5. Cardinality(R) <= Retention
      BY <3>1, <3>3, <3>4, StoreAssumption
    <3>6. Readable' \ (Going(t)' \cup {pending'}) = R
      BY <1>1, <1>3, <2>5 DEF R
    <3> QED BY <1>1, <2>1, <2>3, <2>4, <2>5, <3>5, <3>6 DEF Sparing
  <2> QED BY <1>1, <2>1, <2>3, <2>6, SparingStep
<1> QED BY <1>2, <1>5, <1>6 DEF List

\* A removal of a collection looks at one runtime, and changes nothing.
LEMMA PruneFacts ==
  ASSUME IInv, NEW t \in Threads, Prune(t)
  PROVE  proc[t].pc = "prune" /\ UNCHANGED <<disk, up, config, restaged, counters>>
<1>1. proc[t].pc = "prune"
  BY DEF Prune, IInv, TypeOK
<1>2. UNCHANGED <<disk, up, config, restaged, counters>>
  BY DEF Prune, IInv, TypeOK
<1> QED BY <1>1, <1>2

\* The marker is looked at, and each runtime taken off the list in turn.
LEMMA PruneSerial ==
  ASSUME IInv, SerialInv, NEW t \in Threads, Protect(t) \/ Prune(t) \/ Relist(t)
  PROVE  SerialInv'
<1>1. /\ UNCHANGED <<dirs, active, pending, restaged, serial>>
      /\ proc[t].pc \in {"protect", "prune", "relist"} /\ proc[t] \in Proc
  <2>1. proc[t] \in Proc
    BY DEF IInv, TypeOK
  <2>2. CASE Protect(t)
    BY <2>1, <2>2 DEF Protect, disk, config
  <2>3. CASE Prune(t)
    <3>1. UNCHANGED <<disk, config, restaged>> /\ proc[t].pc = "prune"
      BY <2>3, PruneFacts
    <3> QED BY <2>1, <3>1 DEF disk, config
  <2>4. CASE Relist(t)
    BY <2>1, <2>4 DEF Relist, disk, config
  <2> QED BY <2>2, <2>3, <2>4
<1>2. CASE Leave(t, proc[t].rest)
  BY <1>1, <1>2, EndFacts, CalmStep
<1>3. Readable' = Readable
  BY <1>1 DEF Readable
<1>4. serial => Sparing(t)
  BY DEF SerialInv
<1>5. ASSUME NEW p, proc' = [proc EXCEPT ![t] = p],
             p.pc \in {"prune", "drop", "relist", "sweep"},
             p.pc \in {"relist", "sweep"} => p.prune = {},
             serial => /\ (p.prune \cup IF p.pc = "drop" THEN {p.rt} ELSE {}) \cup {pending}
                            = proc[t].prune \cup {pending}
                       /\ pending \notin p.prune \cup IF p.pc = "drop" THEN {p.rt} ELSE {}
      PROVE  SerialInv'
  <2>1. proc'[t] = p /\ \A q \in Threads \ {t} : proc'[q] = proc[q]
    BY <1>5, CollectTypes
  <2>2. Going(t)' = p.prune \cup IF p.pc = "drop" THEN {p.rt} ELSE {}
    BY <2>1 DEF Going
  <2>3. Going(t) = proc[t].prune
    BY <1>1 DEF Going
  <2>4. serial => Going(t)' \cup {pending} = Going(t) \cup {pending} /\ pending \notin Going(t)'
    BY <1>5, <2>2, <2>3
  <2>5. serial => active \notin Going(t)'
    BY <1>1, <1>4, <2>4 DEF Sparing
  <2>6. serial => Sparing(t)'
    BY <1>1, <1>3, <1>4, <1>5, <2>1, <2>4, <2>5 DEF Sparing
  <2> QED BY <1>1, <1>5, <2>1, <2>6, SparingStep
<1>6. CASE Protect(t)
  <2> DEFINE p == [proc[t] EXCEPT !.pc = "prune", !.prune = @ \ {pending}]
  <2>1. p.pc = "prune" /\ p.prune = proc[t].prune \ {pending}
    BY <1>1 DEF Proc
  <2>2. proc' = [proc EXCEPT ![t] = p]
    BY <1>6 DEF Protect
  <2> HIDE DEF p
  <2> QED BY <1>5, <2>1, <2>2
<1>7. CASE Prune(t) /\ proc[t].prune = {} /\ Go(t, "relist")
  <2> DEFINE p == [proc[t] EXCEPT !.pc = "relist"]
  <2>1. p.pc = "relist" /\ p.prune = {} /\ proc[t].pc = "prune"
    BY <1>1, <1>7 DEF Proc, Prune
  <2>2. proc' = [proc EXCEPT ![t] = p]
    BY <1>7 DEF Go
  <2> HIDE DEF p
  <2> QED BY <1>5, <1>7, <2>1, <2>2
<1>8. ASSUME proc[t].pc = "prune", NEW r \in proc[t].prune,
             proc' = [proc EXCEPT ![t].pc = IF r = active THEN "prune" ELSE "drop",
                                  ![t].rt = r, ![t].prune = @ \ {r}]
      PROVE  SerialInv'
  <2> DEFINE step == IF r = active THEN "prune" ELSE "drop"
             p == [proc[t] EXCEPT !.pc = step, !.rt = r, !.prune = @ \ {r}]
  <2>1. step \in {"prune", "drop"} /\ (step = "prune" => r = active)
    OBVIOUS
  <2>2. proc' = [proc EXCEPT ![t] = p]
    BY <1>8
  <2> HIDE DEF step
  <2>3. p.pc = step /\ p.rt = r /\ p.prune = proc[t].prune \ {r}
    BY <1>1 DEF Proc
  <2> HIDE DEF p
  <2>4. ASSUME serial PROVE r # active /\ pending \notin proc[t].prune
    <3>1. proc[t].pc = "prune"
      BY <1>8
    <3>2. active \notin Going(t) /\ pending \notin Going(t) /\ Going(t) = proc[t].prune
      BY <1>4, <2>4, <3>1 DEF Sparing, Going
    <3> QED BY <3>2, <1>8
  <2>5. serial => step = "drop"
    BY <2>1, <2>4
  <2>6. serial => /\ (p.prune \cup IF p.pc = "drop" THEN {p.rt} ELSE {}) = proc[t].prune
                  /\ pending \notin proc[t].prune
    BY <2>3, <2>4, <2>5, <1>8
  <2> QED BY <1>5, <2>1, <2>2, <2>3, <2>6
<1>9. CASE Relist(t) /\ proc' = [proc EXCEPT ![t].pc = "sweep", ![t].known = Referenced(Readable)]
  <2> DEFINE p == [proc[t] EXCEPT !.pc = "sweep", !.known = Referenced(Readable)]
  <2>1. p.pc = "sweep" /\ p.prune = proc[t].prune /\ proc[t].pc = "relist"
    BY <1>1, <1>9 DEF Proc, Relist
  <2>2. proc' = [proc EXCEPT ![t] = p]
    BY <1>9
  <2> HIDE DEF p
  <2>3. serial => proc[t].prune = {}
    BY <1>4, <2>1 DEF Sparing
  <2>4. serial => SerialInv'
    BY <1>5, <2>1, <2>2, <2>3
  <2> QED BY <1>1, <2>4 DEF SerialInv
<1>10. Prune(t) => SerialInv'
  BY <1>2, <1>7, <1>8 DEF Prune
<1>11. Relist(t) => SerialInv'
  BY <1>2, <1>9 DEF Relist
<1> QED BY <1>6, <1>10, <1>11

\* What is to remain stays, whatever goes.
LEMMA DropSerial == ASSUME IInv, SerialInv, NEW t \in Threads, Drop(t) PROVE SerialInv'
<1>1. /\ proc[t].pc = "drop" /\ dirs' = [dirs EXCEPT ![proc[t].rt] = "none"] /\ Go(t, "prune")
      /\ UNCHANGED <<active, pending, restaged, serial>>
  BY DEF Drop, config
<1>2. /\ proc'[t].pc = "prune" /\ proc'[t].prune = proc[t].prune
      /\ \A q \in Threads \ {t} : proc'[q] = proc[q]
  BY <1>1, GoFacts
<1>3. Readable' = Readable \ {proc[t].rt}
  BY <1>1 DEF IInv, TypeOK, Readable
<1>4. Going(t) = proc[t].prune \cup {proc[t].rt} /\ Going(t)' = proc[t].prune
  BY <1>1, <1>2 DEF Going
<1>5. serial => /\ Cardinality(Readable \ (Going(t) \cup {pending})) <= Retention
                /\ active \notin Going(t) /\ pending \notin Going(t)
  BY <1>1 DEF SerialInv, Sparing
<1>6. Readable' \ (Going(t)' \cup {pending}) = Readable \ (Going(t) \cup {pending})
  BY <1>3, <1>4
<1>7. serial => Settled'
  <2>1. serial => IsFiniteSet(Readable')
    BY <1>3, FS_Subset DEF SerialInv, Settled
  <2> QED BY <1>1, <1>3, <1>4, <1>5, <2>1 DEF SerialInv, Settled
<1>8. serial => Sparing(t)'
  BY <1>1, <1>2, <1>4, <1>5, <1>6 DEF Sparing
<1>9. Certain(t)'
  BY <1>2 DEF Certain
<1> QED BY <1>1, <1>2, <1>7, <1>8, <1>9, SerialStep

\* The sweep removes images only.
LEMMA SweepSerial == ASSUME IInv, SerialInv, NEW t \in Threads, Sweep(t) PROVE SerialInv'
<1>1. UNCHANGED <<dirs, active, pending, restaged, serial>> /\ proc[t].pc = "sweep"
  BY DEF Sweep, config
<1>2. CASE Leave(t, proc[t].rest)
  BY <1>1, <1>2, EndFacts, CalmStep
<1>3. CASE UNCHANGED proc
  <2>1. serial => Sparing(t)'
    BY <1>1, <1>3 DEF SerialInv, Sparing, Going, Readable
  <2> QED BY <1>1, <1>3, <2>1, SparingStep
<1> QED BY <1>2, <1>3 DEF Sweep

-----------------------------------------------------------------------------
\* Only the factory runtime is there.
LEMMA InitSerialInv == Init => SerialInv
<1> SUFFICES ASSUME Init PROVE SerialInv
  OBVIOUS
<1>1. Readable = {Factory}
  BY StoreAssumption DEF Init, Readable
<1>2. IsFiniteSet(Readable) /\ active \in Readable
  BY <1>1, FS_Singleton DEF Init
<1>3. ASSUME NEW t \in Threads PROVE Certain(t) /\ Sparing(t)
  BY DEF Init, Idle, Certain, Sparing
<1> QED BY <1>2, <1>3 DEF SerialInv, Settled

\* Nothing runs while the power is off.
Asleep == ~up => \A t \in Threads : proc[t].pc = "idle"

\* It begins with a request, and ends with the power.
LEMMA NextAsleep == ASSUME IInv, Asleep, [Next]_vars PROVE Asleep'
<1>1. ASSUME NEW t \in Threads, Begin(t) PROVE up'
  <2>1. UNCHANGED up /\ up
    <3>1. ASSUME NEW r \in Runtimes, BeginUpdate(t, r) \/ BeginAdd(t, r) PROVE UNCHANGED up /\ up
      BY <3>1 DEF Accepts, BeginUpdate, BeginAdd
    <3>2. ASSUME NEW r \in Runtimes, BeginActivate(t, r) \/ BeginRemove(t, r)
          PROVE  UNCHANGED up /\ up
      BY <3>2 DEF Accepts, BeginActivate, BeginRemove
    <3>3. CASE BeginMerge(t) \/ BeginCollect(t)
      BY <3>3 DEF Accepts, BeginMerge, BeginCollect
    <3> QED BY <1>1, <3>1, <3>2, <3>3 DEF Begin
  <2> QED BY <2>1
<1>2. ASSUME NEW t \in Threads, Step(t) PROVE up'
  <2>1. UNCHANGED up /\ proc[t].pc # "idle"
    <3>1. CASE Check(t) \/ (\E i \in Images : Install(t, i)) \/ Copied(t) \/ BeginStage(t)
               \/ EndStage(t) \/ Finish(t) \/ Mark(t) \/ Pend(t)
      BY <3>1 DEF Check, Install, Copied, BeginStage, EndStage, Finish, Mark, Pend
    <3>2. CASE Link(t) \/ Symlink(t) \/ Rename(t) \/ Remove(t)
      BY <3>2 DEF Link, Symlink, Rename, Remove
    <3>3. CASE Refresh(t) \/ Clear(t) \/ Fallback(t) \/ AutoCollect(t) \/ List(t)
      BY <3>3 DEF Refresh, Clear, Fallback, AutoCollect, List
    <3>4. CASE Protect(t) \/ Drop(t) \/ Relist(t) \/ Sweep(t)
      BY <3>4 DEF Protect, Drop, Relist, Sweep
    <3>5. CASE Prune(t)
      BY <3>5, PruneFacts
    <3> QED BY <1>2, <3>1, <3>2, <3>3, <3>4, <3>5 DEF Step
  <2> QED BY <2>1 DEF Asleep
<1>3. CASE Crash
  BY <1>3 DEF Crash, Idle, Asleep
<1>4. CASE Boot
  BY <1>4 DEF Boot, Asleep
<1>5. CASE UNCHANGED vars
  BY <1>5 DEF vars, Asleep
<1> QED BY <1>1, <1>2, <1>3, <1>4, <1>5 DEF Next, Asleep

\* Every step keeps the invariant: a crash leaves the disk, and what a boot makes
\* active it has read.
LEMMA NextSerialInv == ASSUME IInv, Asleep, SerialInv, [Next]_vars PROVE SerialInv'
<1>1. ASSUME NEW t \in Threads, Begin(t) PROVE SerialInv'
  BY <1>1, BeginSerial
<1>2. ASSUME NEW t \in Threads, Step(t) PROVE SerialInv'
  <2>1. CASE Check(t) \/ (\E i \in Images : Install(t, i)) \/ Copied(t)
    BY <2>1, InstallSerial
  <2>2. CASE BeginStage(t) \/ EndStage(t)
    BY <2>2, StageSerial
  <2>3. CASE Finish(t) \/ Mark(t) \/ Pend(t)
    BY <2>3, FinishSerial
  <2>4. CASE Link(t) \/ Symlink(t) \/ Rename(t)
    BY <2>4, ActivationSerial
  <2>5. CASE Refresh(t) \/ Clear(t) \/ Fallback(t)
    BY <2>5, MergeSerial
  <2>6. CASE Protect(t) \/ Prune(t) \/ Relist(t)
    BY <2>6, PruneSerial
  <2> QED BY <1>2, <2>1, <2>2, <2>3, <2>4, <2>5, <2>6, RemoveSerial, AutoCollectSerial,
             ListSerial, DropSerial, SweepSerial DEF Step
<1>3. CASE Crash
  <2>1. /\ \A t \in Threads : proc'[t].pc = "idle"
        /\ UNCHANGED <<dirs, active, restaged, serial>>
    BY <1>3 DEF Crash, Idle, config
  <2>2. \A t \in Threads : Certain(t)' /\ Sparing(t)'
    BY <2>1 DEF Certain, Sparing
  <2> QED BY <2>1, <2>2 DEF SerialInv, Settled, Readable
<1>4. CASE Boot
  <2>1. UNCHANGED <<dirs, proc, serial>>
    BY <1>4 DEF Boot, config
  <2>2. active' \in Readable \/ UNCHANGED <<active, restaged>>
    BY <1>4 DEF Boot
  <2>3. \A t \in Threads : proc[t].pc = "idle"
    BY <1>4 DEF Boot, Asleep
  <2>4. \A t \in Threads : Certain(t)' /\ Sparing(t)'
    BY <2>1, <2>3 DEF Certain, Sparing
  <2>5. serial => Settled'
    BY <2>1, <2>2 DEF SerialInv, Settled, Readable
  <2> QED BY <2>1, <2>4, <2>5 DEF SerialInv
<1>5. CASE UNCHANGED vars
  BY <1>5 DEF vars, disk, config, SerialInv, Settled, Readable, Certain, Sparing, Going
<1> QED BY <1>1, <1>2, <1>3, <1>4, <1>5 DEF Next

-----------------------------------------------------------------------------
\* What holds of the active link and of a collection in every reachable state.
THEOREM SerialStore == Spec => [](IInv /\ Asleep /\ SerialInv)
<1>1. Init => Asleep
  BY DEF Init, Asleep
<1>2. IInv /\ Asleep /\ SerialInv /\ [Next]_vars => IInv' /\ Asleep' /\ SerialInv'
  BY NextIInv, NextAsleep, NextSerialInv
<1> QED BY InitIInv, InitSerialInv, <1>1, <1>2, PTL DEF Spec

\* With one request at a time, crashes anywhere, the active link always names a
\* runtime that can be merged, unless it was staged over itself.
THEOREM ActiveReadable == Spec => []ActiveIsReadable
<1>1. SerialInv => ActiveIsReadable
  BY DEF SerialInv, Settled, ActiveIsReadable
<1> QED BY SerialStore, <1>1, PTL

\* A collection that has reached the images left no more than Retention runtimes,
\* the pending one aside, whatever Retention and however many there were.
THEOREM RetentionKept == Spec => []RetentionHolds
<1>1. SerialInv => RetentionHolds
  <2> SUFFICES ASSUME SerialInv, NEW t \in Threads, serial, proc[t].pc = "sweep"
               PROVE  Cardinality(Readable \ {pending}) <= Retention
    BY DEF RetentionHolds
  <2>1. Sparing(t)
    BY DEF SerialInv
  <2>2. Going(t) \cup {pending} = {pending}
    BY <2>1 DEF Sparing, Going
  <2> QED BY <2>1, <2>2 DEF Sparing
<1> QED BY SerialStore, <1>1, PTL

\* A collection never removes the active nor the pending runtime, as they are at
\* that step: with one request at a time nothing moves them under it.
THEOREM ProtectedKept == Spec => KeepsProtected
<1>1. SerialInv =>
        [\A t \in Threads : serial /\ Drop(t) => proc[t].rt \notin {active, pending}]_vars
  <2> SUFFICES ASSUME SerialInv, NEW t \in Threads, serial, Drop(t)
               PROVE  proc[t].rt \notin {active, pending}
    OBVIOUS
  <2>1. Sparing(t) /\ proc[t].pc = "drop"
    BY DEF SerialInv, Drop
  <2>2. proc[t].rt \in Going(t)
    BY <2>1 DEF Going
  <2> QED BY <2>1, <2>2 DEF Sparing
<1> QED BY SerialStore, <1>1, PTL DEF KeepsProtected
=============================================================================
