--------------------------- MODULE SelectionProofs ---------------------------
(***************************************************************************)
(* What holds of Selection for any extensions, runtimes and defaults, and  *)
(* any number of threads and changes: the types; that overrides.json is    *)
(* whole until requests have crossed; and that a merge takes what it was   *)
(* told to take.                                                           *)
(***************************************************************************)
EXTENDS Selection, TLAPS

FamilyOf(a) ==
  CASE a = "idle"                                -> "none"
    [] a \in {"load", "write", "fill", "rename"} -> "override"
    [] a \in {"pick", "merged"}                  -> "merge"
    [] OTHER                                     -> "legacy"

\* A request that has begun stands where it can be: one on the overrides has a
\* runtime, and one on the links has their directory.
Placed(t) ==
  LET p == proc[t]
  IN /\ p.family = FamilyOf(p.at)
     /\ p.family = "override" => p.of \in Runtimes /\ active \in Runtimes
     /\ p.at \in {"find", "unlink", "link", "dir", "raw", "all"} => links # None

\* What nothing has crossed works on the active runtime, and as its only writer.
Apart(t) ==
  LET p == proc[t]
  IN p.alone => /\ p.family \in {"override", "merge"} => p.of = active
                /\ p.family = "override" =>
                     \A u \in Threads \ {t} : proc[u].family # "override"

\* The one writer's draft is the change it was asked for, and the temporary file its own.
Drafted(t) ==
  LET p == proc[t]
  IN p.alone =>
       /\ p.at \in {"write", "fill", "rename"} =>
            p.ov = Changed(p.of, Loaded(p.of), p.names, p.on)
       /\ p.at \in {"fill", "rename"} => p.dir = p.of
       /\ p.at = "fill" => p.inode = "tmp" /\ tmp[p.of] = Torn
       /\ p.at = "rename" => tmp[p.of] = p.ov

\* What is sure of an extension is what overrides.json says of it.
Told(r, e) ==
  LET o == overrides[r][e]
      listed == e \in DOMAIN Defaults[r]
  IN said[r][e] # "unsure" =>
       /\ overrides[r] # Torn
       /\ said[r][e] = "default" => o = "unset"
       /\ said[r][e] = "on" /\ listed => o = "on" \/ (o = "unset" /\ Defaults[r][e])
       /\ said[r][e] = "off" /\ listed => ~(o = "on" \/ (o = "unset" /\ Defaults[r][e]))

\* What is sure of an extension is what the links say of it.
Linked(e) ==
  /\ said[None][e] = "default" => links = None \/ \A f \in Forms : <<e, f>> \notin links
  /\ said[None][e] = "off" => links # None /\ \A f \in Forms : <<e, f>> \notin links
  /\ said[None][e] = "on" => links # None /\ \E f \in Forms : <<e, f>> \in links \cap images

Alone == \A t \in Threads : Placed(t) /\ Apart(t) /\ Drafted(t)
Trusted == \A r \in Runtimes, e \in Exts : Told(r, e)
Reached == \A e \in Exts : Linked(e)

IInv == TypeOK /\ Alone /\ Trusted /\ Reached

-----------------------------------------------------------------------------
(* What the helpers return *)

\* No override is an overrides.json with nothing in it.
LEMMA NoOverrideType == NoOverride \in Overrides
  BY DEF NoOverride, Overrides

\* A thread at rest.
LEMMA IdleType ==
  /\ Idle \in Proc /\ Idle.at = "idle" /\ Idle.family = "none"
<1>1. /\ Idle.at = "idle" /\ Idle.family = "none" /\ Idle.names = {} /\ Idle.on = FALSE
      /\ Idle.of = None /\ Idle.ov = NoOverride /\ Idle.dir = None /\ Idle.inode = "none"
      /\ Idle.found = FALSE /\ Idle.alone = TRUE
  BY DEF Idle
<1>2. Idle \in Proc
  BY NoOverrideType DEF Idle, Proc, Ats, Families, Forms
<1> QED BY <1>1, <1>2

\* Crossing takes nothing from a request but its certainty.
LEMMA CrossedType ==
  ASSUME NEW p \in Proc, NEW f
  PROVE  LET q == Crossed(p, f)
         IN /\ q \in Proc
            /\ q.at = p.at /\ q.family = p.family /\ q.names = p.names /\ q.on = p.on
            /\ q.of = p.of /\ q.ov = p.ov /\ q.dir = p.dir /\ q.inode = p.inode
            /\ q.alone => p.alone /\ ~Spoils(f, p.family)
<1> DEFINE b == p.alone /\ ~Spoils(f, p.family)
           q == [p EXCEPT !.alone = b]
<1>1. Crossed(p, f) = q
  BY DEF Crossed
<1>2. b \in BOOLEAN
  OBVIOUS
<1>3. q.alone = b
  <2> HIDE DEF b
  <2> QED BY <1>2 DEF Proc
<1>4. /\ q \in Proc /\ q.at = p.at /\ q.family = p.family /\ q.names = p.names /\ q.on = p.on
      /\ q.of = p.of /\ q.ov = p.ov /\ q.dir = p.dir /\ q.inode = p.inode
  <2> HIDE DEF b
  <2> QED BY <1>2 DEF Proc
<1> QED BY <1>1, <1>3, <1>4

\* What is loaded is a set of overrides, also from a torn file.
LEMMA LoadedType == ASSUME TypeOK, NEW r \in Runtimes PROVE Loaded(r) \in Overrides
  BY NoOverrideType DEF TypeOK, Loaded, Files

\* Every extension has a default, listed or not.
LEMMA DefaultType == ASSUME NEW r \in Runtimes, NEW e PROVE Default(r, e) \in BOOLEAN
<1>1. PICK S \in SUBSET Exts : Defaults[r] \in [S -> BOOLEAN]
  BY DefaultsAssumption
<1> QED BY <1>1 DEF Default

\* A change says of each extension what it was asked to, and of the others nothing new.
LEMMA ChangedType ==
  ASSUME NEW r, NEW ov \in Overrides, NEW names, NEW on
  PROVE  Changed(r, ov, names, on) \in Overrides
<1>1. \A e \in Exts : ov[e] \in {"unset", "on", "off"}
  BY DEF Overrides
<1>2. Word(on) \in {"unset", "on", "off"}
  BY DEF Word
<1> QED BY <1>1, <1>2 DEF Changed, Overrides

\* A request that begins takes nothing from the others but their certainty.
LEMMA StartSays ==
  ASSUME TypeOK, NEW t \in Threads, NEW p \in Proc, Start(t, p)
  PROVE  /\ proc[t].at = "idle"
         /\ proc' \in [Threads -> Proc]
         /\ \A u \in Threads \ {t} : proc'[u] = Crossed(proc[u], p.family)
         /\ LET q == proc'[t]
            IN /\ q.at = p.at /\ q.family = p.family /\ q.names = p.names /\ q.on = p.on
               /\ q.of = p.of /\ q.ov = p.ov /\ q.dir = p.dir /\ q.inode = p.inode
               /\ q.alone => \A v \in Threads : ~Spoils(proc[v].family, p.family)
<1> DEFINE b == ~\E v \in Threads : Spoils(proc[v].family, p.family)
           q == [p EXCEPT !.alone = b]
<1>1. /\ proc[t].at = "idle"
      /\ proc' = [u \in Threads |-> IF u = t THEN q ELSE Crossed(proc[u], p.family)]
  BY DEF Start
<1>2. b \in BOOLEAN
  OBVIOUS
<1>3. q.alone = b
  <2> HIDE DEF b
  <2> QED BY <1>2 DEF Proc
<1>4. /\ q \in Proc /\ q.at = p.at /\ q.family = p.family /\ q.names = p.names /\ q.on = p.on
      /\ q.of = p.of /\ q.ov = p.ov /\ q.dir = p.dir /\ q.inode = p.inode
  <2> HIDE DEF b
  <2> QED BY <1>2 DEF Proc
<1>5. \A u \in Threads : proc[u] \in Proc
  BY DEF TypeOK
<1>6. \A u \in Threads : Crossed(proc[u], p.family) \in Proc
  BY <1>5, CrossedType
<1>7. \A u \in Threads : proc'[u] = IF u = t THEN q ELSE Crossed(proc[u], p.family)
  BY <1>1
<1>8. proc' \in [Threads -> Proc]
  <2> HIDE DEF q
  <2> QED BY <1>1, <1>4, <1>6
<1> QED BY <1>1, <1>3, <1>4, <1>7, <1>8

\* A step of one thread.
LEMMA GoType ==
  ASSUME TypeOK, NEW t \in Threads, NEW p \in Proc, Go(t, p)
  PROVE  /\ proc' \in [Threads -> Proc] /\ proc'[t] = p
         /\ \A u \in Threads \ {t} : proc'[u] = proc[u]
  BY DEF TypeOK, Go

\* A step within a request.
LEMMA ToType ==
  ASSUME TypeOK, NEW t \in Threads, NEW a \in Ats, To(t, a)
  PROVE  LET q == proc'[t]
             p == proc[t]
         IN /\ proc' \in [Threads -> Proc]
            /\ \A u \in Threads \ {t} : proc'[u] = proc[u]
            /\ q.at = a /\ q.family = p.family /\ q.names = p.names /\ q.on = p.on
            /\ q.of = p.of /\ q.ov = p.ov /\ q.dir = p.dir /\ q.inode = p.inode
            /\ q.alone = p.alone
<1> DEFINE p == proc[t]
           q == [p EXCEPT !.at = a]
<1>1. p \in Proc
  BY DEF TypeOK
<1>2. /\ q \in Proc
      /\ q.at = a /\ q.family = p.family /\ q.names = p.names /\ q.on = p.on
      /\ q.of = p.of /\ q.ov = p.ov /\ q.dir = p.dir /\ q.inode = p.inode
      /\ q.alone = p.alone
  <2> HIDE DEF p
  <2> QED BY <1>1 DEF Proc
<1>3. Go(t, q)
  BY DEF To
<1> HIDE DEF q
<1>4. /\ proc' \in [Threads -> Proc] /\ proc'[t] = q
      /\ \A u \in Threads \ {t} : proc'[u] = proc[u]
  BY <1>2, <1>3, GoType
<1> QED BY <1>2, <1>4

\* A word at one place is a word there only.
LEMMA SaysType ==
  ASSUME TypeOK, NEW t \in Threads, NEW r \in Runtimes \cup {None}, NEW S, NEW x \in Words,
         Says(t, r, S, x)
  PROVE  /\ said' \in [Runtimes \cup {None} -> [Exts -> Words]]
         /\ \A q \in (Runtimes \cup {None}) \ {r} : said'[q] = said[q]
         /\ \A e \in Exts : said'[r][e] = IF ~proc[t].alone THEN "unsure"
                                          ELSE IF e \in S THEN x ELSE said[r][e]
<1> DEFINE g == [e \in Exts |-> IF ~proc[t].alone THEN "unsure"
                                ELSE IF e \in S THEN x ELSE said[r][e]]
<1>1. said' = [said EXCEPT ![r] = g]
  BY DEF Says
<1>2. said \in [Runtimes \cup {None} -> [Exts -> Words]]
  BY DEF TypeOK
<1>3. g \in [Exts -> Words]
  BY <1>2 DEF Words
<1>4. \A e \in Exts : g[e] = IF ~proc[t].alone THEN "unsure"
                             ELSE IF e \in S THEN x ELSE said[r][e]
  OBVIOUS
<1> HIDE DEF g
<1> QED BY <1>1, <1>2, <1>3, <1>4

\* The bound on changes is kept.
LEMMA CountType == ASSUME TypeOK, Counted PROVE made' \in 0 .. MaxChanges
  BY BoundAssumption DEF TypeOK, Counted

\* A rename leaves the other requests as they were, but for what they have open.
LEMMA MovedType ==
  ASSUME TypeOK, NEW t \in Threads, Moved(t)
  PROVE  /\ proc' \in [Threads -> Proc] /\ proc'[t] = Idle
         /\ \A u \in Threads \ {t} :
              /\ proc'[u].at = proc[u].at /\ proc'[u].family = proc[u].family
              /\ proc'[u].names = proc[u].names /\ proc'[u].on = proc[u].on
              /\ proc'[u].of = proc[u].of /\ proc'[u].ov = proc[u].ov
              /\ proc'[u].dir = proc[u].dir /\ proc'[u].alone = proc[u].alone
<1> DEFINE to(p, i) == [p EXCEPT !.inode = i]
           n(u) == IF u = t THEN Idle
                   ELSE CASE proc[u].dir = active /\ proc[u].inode = "tmp"  -> to(proc[u], "file")
                          [] proc[u].dir = active /\ proc[u].inode = "file" -> to(proc[u], "gone")
                          [] OTHER -> proc[u]
<1>1. proc' = [u \in Threads |-> n(u)]
  BY DEF Moved
<1>2. \A p \in Proc, i \in {"file", "gone"} :
        LET q == to(p, i)
        IN /\ q \in Proc /\ q.at = p.at /\ q.family = p.family /\ q.names = p.names
           /\ q.on = p.on /\ q.of = p.of /\ q.ov = p.ov /\ q.dir = p.dir
           /\ q.alone = p.alone
  BY DEF Proc
<1>3. \A u \in Threads : proc[u] \in Proc
  BY DEF TypeOK
<1> HIDE DEF to
<1>4. n(t) = Idle
  OBVIOUS
<1>5. \A u \in Threads \ {t} :
        \/ n(u) = proc[u]
        \/ \E i \in {"file", "gone"} : n(u) = to(proc[u], i)
  OBVIOUS
<1> HIDE DEF n
<1>6. \A u \in Threads : n(u) \in Proc
  BY <1>2, <1>3, <1>4, <1>5, IdleType
<1>7. proc' \in [Threads -> Proc] /\ \A u \in Threads : proc'[u] = n(u)
  BY <1>1, <1>6
<1> QED BY <1>2, <1>3, <1>4, <1>5, <1>7

-----------------------------------------------------------------------------
(* Types *)

\* A new request, with what it is asked for.
LEMMA RequestType ==
  ASSUME NEW a \in Ats, NEW f \in Families, NEW S \in SUBSET Exts, NEW on \in BOOLEAN,
         NEW r \in Runtimes \cup {None}
  PROVE  LET p == [Idle EXCEPT !.at = a, !.family = f, !.names = S, !.on = on, !.of = r]
         IN p \in Proc /\ p.at = a /\ p.family = f /\ p.of = r
<1>1. Idle \in Proc
  BY IdleType
<1> QED BY <1>1 DEF Proc

\* Types: set_extensions_enabled and the save of its overrides.
LEMMA OverrideTypes ==
  ASSUME TypeOK, Alone, NEW t \in Threads
  PROVE  /\ \A S \in SUBSET Exts, on \in BOOLEAN : SetEnabled(t, S, on) => TypeOK'
         /\ Load(t) => TypeOK'
         /\ Truncate(t) => TypeOK'
         /\ Fill(t) => TypeOK'
         /\ FillFails(t) => TypeOK'
         /\ Rename(t) => TypeOK'
         /\ RenameFails(t) => TypeOK'
<1>1. ASSUME NEW S \in SUBSET Exts, NEW on \in BOOLEAN, SetEnabled(t, S, on) PROVE TypeOK'
  <2> DEFINE p == [Idle EXCEPT !.at = "load", !.family = "override",
                               !.names = S, !.on = on, !.of = active]
  <2>1. p \in Proc
    <3>1. "load" \in Ats /\ "override" \in Families /\ active \in Runtimes \cup {None}
      BY DEF Ats, Families, TypeOK
    <3> QED BY <3>1, RequestType
  <2>2. Start(t, p) /\ Counted
    BY <1>1 DEF SetEnabled, Request
  <2>3. UNCHANGED <<active, overrides, tmp, hitl, images, links, merged, said>>
    BY <1>1 DEF SetEnabled
  <2> HIDE DEF p
  <2>4. proc' \in [Threads -> Proc] /\ made' \in 0 .. MaxChanges
    BY <2>1, <2>2, StartSays, CountType
  <2> QED BY <2>3, <2>4 DEF TypeOK
<1>2. ASSUME Load(t) PROVE TypeOK'
  <2> DEFINE p == proc[t]
             o == Changed(p.of, Loaded(active), p.names, p.on)
             q == [p EXCEPT !.at = "write", !.ov = o]
  <2>1. p \in Proc /\ p.at = "load"
    BY <1>2 DEF Load, At, TypeOK
  <2>2. active \in Runtimes
    BY <2>1 DEF Alone, Placed, FamilyOf
  <2>3. o \in Overrides
    BY <2>2, LoadedType, ChangedType
  <2>4. q \in Proc
    <3> HIDE DEF o, p
    <3> QED BY <2>1, <2>3 DEF Proc, Ats
  <2>5. Go(t, q)
    BY <1>2 DEF Load
  <2> HIDE DEF q
  <2>6. proc' \in [Threads -> Proc]
    BY <2>4, <2>5, GoType
  <2> QED BY <1>2, <2>6 DEF Load, TypeOK
<1>3. ASSUME Truncate(t) PROVE TypeOK'
  <2> DEFINE p == proc[t]
             q == [p EXCEPT !.at = "fill", !.dir = active, !.inode = "tmp"]
  <2>1. p \in Proc /\ active \in Runtimes \cup {None}
    BY DEF TypeOK
  <2>2. q \in Proc
    <3> HIDE DEF p
    <3> QED BY <2>1 DEF Proc, Ats
  <2>3. Go(t, q)
    BY <1>3 DEF Truncate
  <2> HIDE DEF q
  <2>4. proc' \in [Threads -> Proc]
    BY <2>2, <2>3, GoType
  <2>5. tmp' \in [Runtimes -> Files \cup {None}]
    BY <1>3 DEF Truncate, TypeOK, Files
  <2> QED BY <1>3, <2>4, <2>5 DEF Truncate, TypeOK
<1>4. ASSUME Fill(t) PROVE TypeOK'
  <2> DEFINE p == proc[t]
  <2>1. p \in Proc
    BY DEF TypeOK
  <2>2. p.ov \in Files /\ Torn \in Files /\ p.dir \in Runtimes \cup {None}
    BY <2>1 DEF Proc, Files
  <2>3. proc' \in [Threads -> Proc]
    BY <1>4, ToType DEF Fill, Ats
  <2>4. overrides' \in [Runtimes -> Files] /\ tmp' \in [Runtimes -> Files \cup {None}]
    BY <1>4, <2>2 DEF Fill, TypeOK
  <2>5. said' \in [Runtimes \cup {None} -> [Exts -> Words]]
    <3>1. CASE Says(t, p.dir, {}, "unsure")
      BY <3>1, <2>2, SaysType DEF Words
    <3>2. CASE UNCHANGED said
      BY <3>2 DEF TypeOK
    <3> QED BY <1>4, <3>1, <3>2 DEF Fill
  <2> QED BY <1>4, <2>3, <2>4, <2>5 DEF Fill, TypeOK
<1>5. ASSUME FillFails(t) PROVE TypeOK'
  <2>1. proc' \in [Threads -> Proc]
    BY <1>5, IdleType, GoType DEF FillFails
  <2> QED BY <1>5, <2>1 DEF FillFails, TypeOK
<1>6. ASSUME Rename(t) PROVE TypeOK'
  <2>1. proc' \in [Threads -> Proc]
    BY <1>6, MovedType DEF Rename
  <2>2. overrides' \in [Runtimes -> Files] /\ tmp' \in [Runtimes -> Files \cup {None}]
    BY <1>6 DEF Rename, TypeOK
  <2>3. said' \in [Runtimes \cup {None} -> [Exts -> Words]]
    <3>1. Says(t, active, proc[t].names, Word(proc[t].on)) /\ active \in Runtimes \cup {None}
      BY <1>6 DEF Rename, TypeOK
    <3>2. Word(proc[t].on) \in Words
      BY DEF Word, Words
    <3> QED BY <3>1, <3>2, SaysType
  <2> QED BY <1>6, <2>1, <2>2, <2>3 DEF Rename, TypeOK
<1>7. ASSUME RenameFails(t) PROVE TypeOK'
  <2>1. proc' \in [Threads -> Proc]
    BY <1>7, IdleType, GoType DEF RenameFails
  <2> QED BY <1>7, <2>1 DEF RenameFails, TypeOK
<1> QED BY <1>1, <1>2, <1>3, <1>4, <1>5, <1>6, <1>7

\* Types: enable_extensions and disable_extensions.
LEMMA LegacyTypes ==
  ASSUME TypeOK, Alone, NEW t \in Threads
  PROVE  /\ \A e \in Exts : Enable(t, e) => TypeOK'
         /\ Mkdir(t) => TypeOK'
         /\ Find(t) => TypeOK'
         /\ EnableFails(t) => TypeOK'
         /\ Unlink(t) => TypeOK'
         /\ Link(t) => TypeOK'
         /\ \A e \in Exts : Disable(t, e) => TypeOK'
         /\ DropDir(t) => TypeOK'
         /\ DropRaw(t) => TypeOK'
         /\ DisableAll(t) => TypeOK'
         /\ DropNext(t) => TypeOK'
         /\ DropEnds(t) => TypeOK'
<1> DEFINE p == proc[t]
<1>p. p \in Proc /\ p.names \in SUBSET Exts /\ p.form \in Forms
  BY DEF TypeOK, Proc
<1>l. p.at \in {"find", "unlink", "link", "dir", "raw", "all"} => links \in Links
  BY DEF TypeOK, Alone, Placed
<1>s. /\ "default" \in Words /\ "on" \in Words /\ "off" \in Words /\ "unsure" \in Words
      /\ None \in Runtimes \cup {None}
  BY DEF Words
<1>a. /\ "mkdir" \in Ats /\ "dir" \in Ats /\ "all" \in Ats /\ "find" \in Ats
      /\ "unlink" \in Ats /\ "link" \in Ats
      /\ "legacy" \in Families
  BY DEF Ats, Families
<1>i. Idle.names = {} /\ Idle.on = FALSE /\ Idle.of = None
  BY DEF Idle
<1>1. ASSUME NEW e \in Exts, Enable(t, e) PROVE TypeOK'
  <2> DEFINE q == [Idle EXCEPT !.at = "mkdir", !.family = "legacy", !.names = {e}, !.on = TRUE]
  <2>1. q \in Proc
    BY IdleType, <1>a DEF Proc
  <2>2. Start(t, q) /\ Counted
    BY <1>1 DEF Enable, Request
  <2> HIDE DEF q
  <2>3. proc' \in [Threads -> Proc] /\ made' \in 0 .. MaxChanges
    BY <2>1, <2>2, StartSays, CountType
  <2> QED BY <1>1, <2>3 DEF Enable, TypeOK
<1>2. ASSUME Mkdir(t) PROVE TypeOK'
  <2>1. proc' \in [Threads -> Proc]
    BY <1>2, <1>a, ToType DEF Mkdir
  <2>2. links' \in Links
    BY <1>2 DEF Mkdir, TypeOK, Links
  <2> QED BY <1>2, <2>1, <2>2 DEF Mkdir, TypeOK
<1>b. ASSUME Find(t) PROVE TypeOK'
  <2>1. PICK e \in p.names : Go(t, [p EXCEPT !.at = "unlink", !.form = Form(e)])
    BY <1>b DEF Find
  <2> DEFINE f == Form(e)
             q == [p EXCEPT !.at = "unlink", !.form = f]
  <2>2. q \in Proc
    <3>1. f \in Forms
      BY DEF Form, Forms
    <3> HIDE DEF f, p
    <3> QED BY <1>p, <1>a, <3>1 DEF Proc
  <2> HIDE DEF q
  <2>3. proc' \in [Threads -> Proc]
    BY <2>1, <2>2, GoType DEF q
  <2> QED BY <1>b, <2>3 DEF Find, TypeOK
<1>3. ASSUME EnableFails(t) PROVE TypeOK'
  <2>1. proc' \in [Threads -> Proc]
    BY <1>3, IdleType, GoType DEF EnableFails
  <2> QED BY <1>3, <2>1 DEF EnableFails, TypeOK
<1>4. ASSUME Unlink(t) PROVE TypeOK'
  <2>1. proc' \in [Threads -> Proc]
    BY <1>4, <1>a, ToType DEF Unlink
  <2>2. links' \in Links
    BY <1>4, <1>l DEF Unlink, At, Links
  <2>3. said' \in [Runtimes \cup {None} -> [Exts -> Words]]
    <3>1. UNCHANGED said \/ \E e \in p.names : Says(t, None, {e}, "unsure")
      BY <1>4 DEF Unlink
    <3>2. CASE UNCHANGED said
      BY <3>2 DEF TypeOK
    <3> QED BY <1>s, <3>1, <3>2, SaysType
  <2> QED BY <1>4, <2>1, <2>2, <2>3 DEF Unlink, TypeOK
<1>5. ASSUME Link(t) PROVE TypeOK'
  <2>1. proc' \in [Threads -> Proc]
    BY <1>5, IdleType, GoType DEF Link
  <2>2. PICK e \in p.names :
           /\ links' = links \cup {<<e, p.form>>}
           /\ Says(t, None, {e}, IF <<e, p.form>> \in images THEN "on" ELSE "unsure")
    BY <1>5 DEF Link
  <2>3. links' \in Links
    BY <1>5, <1>l, <1>p, <2>2 DEF Link, At, Links
  <2>4. said' \in [Runtimes \cup {None} -> [Exts -> Words]]
    BY <1>s, <2>2, SaysType
  <2> QED BY <1>5, <2>1, <2>3, <2>4 DEF Link, TypeOK
<1>6. ASSUME NEW e \in Exts, Disable(t, e) PROVE TypeOK'
  <2> DEFINE q == [Idle EXCEPT !.at = "dir", !.family = "legacy", !.names = {e}]
  <2>1. q \in Proc
    BY IdleType, <1>a DEF Proc
  <2>2. Start(t, q) /\ Counted
    BY <1>6 DEF Disable, Request
  <2> HIDE DEF q
  <2>3. proc' \in [Threads -> Proc] /\ made' \in 0 .. MaxChanges
    BY <2>1, <2>2, StartSays, CountType
  <2> QED BY <1>6, <2>3 DEF Disable, TypeOK
<1>7. ASSUME DropDir(t) PROVE TypeOK'
  <2> DEFINE b == links' # links
             q == [p EXCEPT !.at = "raw", !.found = b]
  <2>1. q \in Proc
    <3>1. b \in BOOLEAN
      OBVIOUS
    <3> HIDE DEF b, p
    <3> QED BY <1>p, <3>1 DEF Proc, Ats
  <2>2. Go(t, q)
    BY <1>7 DEF DropDir
  <2> HIDE DEF q
  <2>3. proc' \in [Threads -> Proc]
    BY <2>1, <2>2, GoType
  <2>4. links' \in Links
    BY <1>7, <1>l DEF DropDir, At, Links
  <2>5. said' \in [Runtimes \cup {None} -> [Exts -> Words]]
    <3>1. UNCHANGED said \/ \E e \in p.names : Says(t, None, {e}, "unsure")
      BY <1>7 DEF DropDir
    <3>2. CASE UNCHANGED said
      BY <3>2 DEF TypeOK
    <3> QED BY <1>s, <3>1, <3>2, SaysType
  <2> QED BY <1>7, <2>3, <2>4, <2>5 DEF DropDir, TypeOK
<1>8. ASSUME DropRaw(t) PROVE TypeOK'
  <2>1. proc' \in [Threads -> Proc]
    BY <1>8, IdleType, GoType DEF DropRaw
  <2>2. links' \in Links
    BY <1>8, <1>l DEF DropRaw, At, Links
  <2>3. said' \in [Runtimes \cup {None} -> [Exts -> Words]]
    <3>1. \/ UNCHANGED said
          \/ \E e \in p.names, x \in {"unsure", "off"} : Says(t, None, {e}, x)
      BY <1>8 DEF DropRaw
    <3>2. CASE UNCHANGED said
      BY <3>2 DEF TypeOK
    <3> QED BY <1>s, <3>1, <3>2, SaysType
  <2> QED BY <1>8, <2>1, <2>2, <2>3 DEF DropRaw, TypeOK
<1>9. ASSUME DisableAll(t) PROVE TypeOK'
  <2> DEFINE q == [Idle EXCEPT !.at = "all", !.family = "legacy"]
  <2>1. q \in Proc
    BY IdleType, <1>a DEF Proc
  <2>2. Start(t, q) /\ Counted
    BY <1>9 DEF DisableAll, Request
  <2> HIDE DEF q
  <2>3. proc' \in [Threads -> Proc] /\ made' \in 0 .. MaxChanges
    BY <2>1, <2>2, StartSays, CountType
  <2> QED BY <1>9, <2>3 DEF DisableAll, TypeOK
<1>10. ASSUME DropNext(t) PROVE TypeOK'
  <2>1. PICK l \in links : links' = links \ {l} /\ Says(t, None, {l[1]}, "unsure")
    BY <1>10 DEF DropNext
  <2>2. links' \in Links
    BY <1>10, <1>l, <2>1 DEF DropNext, At, Links
  <2>3. said' \in [Runtimes \cup {None} -> [Exts -> Words]]
    BY <1>s, <2>1, SaysType
  <2> QED BY <1>10, <2>2, <2>3 DEF DropNext, TypeOK
<1>11. ASSUME DropEnds(t) PROVE TypeOK'
  <2>1. proc' \in [Threads -> Proc]
    BY <1>11, IdleType, GoType DEF DropEnds
  <2>2. said' \in [Runtimes \cup {None} -> [Exts -> Words]]
    BY <1>11, <1>s, SaysType DEF DropEnds
  <2> QED BY <1>11, <2>1, <2>2 DEF DropEnds, TypeOK
<1> QED BY <1>1, <1>2, <1>b, <1>3, <1>4, <1>5, <1>6, <1>7, <1>8, <1>9, <1>10, <1>11

\* Types: the scan of a merge.
LEMMA MergeTypes ==
  ASSUME TypeOK, Alone, NEW t \in Threads
  PROVE  /\ Merge(t) => TypeOK'
         /\ Pick(t) => TypeOK'
         /\ Done(t) => TypeOK'
<1>1. ASSUME Merge(t) PROVE TypeOK'
  <2> DEFINE q == [Idle EXCEPT !.at = "pick", !.family = "merge", !.of = active]
  <2>1. q \in Proc
    <3>1. active \in Runtimes \cup {None} /\ "pick" \in Ats /\ "merge" \in Families
      BY DEF TypeOK, Ats, Families
    <3> QED BY IdleType, <3>1 DEF Proc
  <2>2. Start(t, q)
    BY <1>1 DEF Merge
  <2> HIDE DEF q
  <2>3. proc' \in [Threads -> Proc]
    BY <2>1, <2>2, StartSays
  <2> QED BY <1>1, <2>3 DEF Merge, TypeOK
<1>2. ASSUME Pick(t) PROVE TypeOK'
  <2>1. proc' \in [Threads -> Proc]
    BY <1>2, ToType DEF Pick, Ats
  <2>2. merged' \subseteq Exts
    <3>1. \A r \in Runtimes : DOMAIN Defaults[r] \subseteq Exts
      BY DefaultsAssumption
    <3>2. Legacy \subseteq Exts
      BY DEF Legacy
    <3>3. proc[t].of \in Runtimes \cup {None} /\ hitl \subseteq Exts
      BY DEF TypeOK, Proc
    <3> QED BY <1>2, <3>1, <3>2, <3>3 DEF Pick, Effective
  <2> QED BY <1>2, <2>1, <2>2 DEF Pick, TypeOK
<1>3. ASSUME Done(t) PROVE TypeOK'
  <2>1. proc' \in [Threads -> Proc]
    BY <1>3, IdleType, GoType DEF Done
  <2> QED BY <1>3, <2>1 DEF Done, TypeOK
<1> QED BY <1>1, <1>2, <1>3

\* Types: activations, images that come and go, and kills.
LEMMA AroundTypes ==
  ASSUME TypeOK
  PROVE  /\ \A r \in Runtimes : Activate(r) => TypeOK'
         /\ \A l \in Exts \X Forms : Provide(l) => TypeOK'
         /\ Kill => TypeOK'
<1>1. \A f : [u \in Threads |-> Crossed(proc[u], f)] \in [Threads -> Proc]
  BY CrossedType DEF TypeOK
<1>2. ASSUME NEW r \in Runtimes, Activate(r) PROVE TypeOK'
  <2>1. proc' \in [Threads -> Proc] /\ made' \in 0 .. MaxChanges
    BY <1>1, <1>2, CountType DEF Activate
  <2> QED BY <1>2, <2>1 DEF Activate, TypeOK
<1>3. ASSUME NEW l \in Exts \X Forms, Provide(l) PROVE TypeOK'
  <2>1. proc' \in [Threads -> Proc] /\ made' \in 0 .. MaxChanges
    BY <1>1, <1>3, CountType DEF Provide
  <2>2. images' \in Links
    BY <1>3 DEF Provide, TypeOK, Links
  <2>3. said' \in [Runtimes \cup {None} -> [Exts -> Words]]
    BY <1>3 DEF Provide, TypeOK, Words
  <2> QED BY <1>3, <2>1, <2>2, <2>3 DEF Provide, TypeOK
<1>4. ASSUME Kill PROVE TypeOK'
  BY <1>4, IdleType DEF Kill, TypeOK
<1> QED BY <1>2, <1>3, <1>4

\* Every variable keeps its type in every step.
LEMMA NextTypes == ASSUME TypeOK, Alone, [Next]_vars PROVE TypeOK'
<1>1. CASE UNCHANGED vars
  BY <1>1 DEF vars, TypeOK
<1>2. CASE Next
  BY <1>2, OverrideTypes, LegacyTypes, MergeTypes, AroundTypes DEF Next
<1> QED BY <1>1, <1>2

-----------------------------------------------------------------------------
(* Where requests stand *)

\* A step of one thread leaves what the others know: it writes only when its request is
\* on the overrides, and then no other of that kind is certain.
LEMMA StepAlone ==
  ASSUME TypeOK, Alone, NEW t \in Threads,
         \A u \in Threads \ {t} :
           /\ proc'[u].at = proc[u].at /\ proc'[u].family = proc[u].family
           /\ proc'[u].names = proc[u].names /\ proc'[u].on = proc[u].on
           /\ proc'[u].of = proc[u].of /\ proc'[u].ov = proc[u].ov
           /\ proc'[u].dir = proc[u].dir /\ proc'[u].alone = proc[u].alone,
         \/ proc[t].family = "override"
         \/ UNCHANGED <<overrides, tmp>> /\ \A u \in Threads \ {t} : proc'[u] = proc[u],
         proc'[t].family \in {proc[t].family, "none"},
         active' = active, links # None => links' # None,
         Placed(t)', Apart(t)', Drafted(t)'
  PROVE  Alone'
<1> SUFFICES ASSUME NEW u \in Threads \ {t} PROVE Placed(u)' /\ Apart(u)' /\ Drafted(u)'
  BY DEF Alone
<1>1. Placed(u) /\ Apart(u) /\ Drafted(u)
  BY DEF Alone
<1>2. Placed(u)'
  BY <1>1 DEF Placed
<1>3. Apart(u)'
  BY <1>1 DEF Apart
<1>4. Drafted(u)'
  <2>1. CASE proc[t].family = "override"
    <3>1. proc[u].alone => proc[u].family # "override"
      BY <1>1, <2>1 DEF Apart
    <3>2. proc'[u].alone => proc'[u].at \notin {"write", "fill", "rename"}
      BY <1>1, <3>1 DEF Placed, FamilyOf
    <3> QED BY <3>2 DEF Drafted
  <2>2. CASE UNCHANGED <<overrides, tmp>> /\ proc'[u] = proc[u]
    BY <1>1, <2>2 DEF Drafted, Loaded, Changed, Default
  <2> QED BY <2>1, <2>2
<1> QED BY <1>2, <1>3, <1>4

\* A request that ends leaves the others as they are.
LEMMA EndAlone ==
  ASSUME TypeOK, Alone, NEW t \in Threads, Go(t, Idle),
         UNCHANGED <<active, overrides, tmp>>, links # None => links' # None
  PROVE  Alone'
<1>1. proc'[t] = Idle /\ \A u \in Threads \ {t} : proc'[u] = proc[u]
  BY IdleType, GoType
<1>2. Placed(t)' /\ Apart(t)' /\ Drafted(t)'
  BY <1>1, IdleType DEF Placed, FamilyOf, Apart, Drafted
<1> QED BY <1>1, <1>2, IdleType, StepAlone

\* A step within a request on the links or a merge.
LEMMA AheadAlone ==
  ASSUME TypeOK, Alone, NEW t \in Threads, NEW a \in Ats,
         proc[t].family \in {"legacy", "merge"}, FamilyOf(a) = proc[t].family,
         \A u \in Threads \ {t} : proc'[u] = proc[u],
         /\ proc'[t].at = a /\ proc'[t].family = proc[t].family
         /\ proc'[t].of = proc[t].of /\ proc'[t].alone = proc[t].alone,
         UNCHANGED <<active, overrides, tmp>>, links # None => links' # None,
         a \in {"find", "unlink", "link", "dir", "raw", "all"} => links' # None
  PROVE  Alone'
<1>1. Placed(t) /\ Apart(t)
  BY DEF Alone
<1>2. Placed(t)' /\ Apart(t)'
  BY <1>1 DEF Placed, Apart
<1>3. Drafted(t)'
  BY <1>2 DEF Placed, FamilyOf, Drafted
<1> QED BY <1>2, <1>3, StepAlone

\* A request that begins takes their certainty from those it crosses, and has none
\* itself beside one of them.
LEMMA StartAlone ==
  ASSUME TypeOK, Alone, NEW t \in Threads, NEW p \in Proc, Start(t, p),
         p.family = FamilyOf(p.at), p.at \in {"load", "mkdir", "dir", "all", "pick"},
         p.at = "load" => active # None, p.at \in {"load", "pick"} => p.of = active,
         p.at \in {"dir", "all"} => links # None,
         UNCHANGED <<active, overrides, tmp, links>>
  PROVE  Alone'
<1> DEFINE q == proc'[t]
<1>1. /\ q.at = p.at /\ q.family = p.family /\ q.of = p.of
      /\ q.alone => \A v \in Threads : ~Spoils(proc[v].family, p.family)
      /\ \A u \in Threads \ {t} : proc'[u] = Crossed(proc[u], p.family)
      /\ proc[t].at = "idle"
  BY StartSays
<1>2. \A u \in Threads : proc[u] \in Proc /\ Placed(u) /\ Apart(u) /\ Drafted(u)
  BY DEF TypeOK, Alone
<1>3. \A u \in Threads \ {t} :
        /\ proc'[u].at = proc[u].at /\ proc'[u].family = proc[u].family
        /\ proc'[u].names = proc[u].names /\ proc'[u].on = proc[u].on
        /\ proc'[u].of = proc[u].of /\ proc'[u].ov = proc[u].ov
        /\ proc'[u].dir = proc[u].dir /\ proc'[u].inode = proc[u].inode
        /\ proc'[u].alone => proc[u].alone /\ ~Spoils(p.family, proc[u].family)
  BY <1>1, <1>2, CrossedType
<1>4. Placed(t)' /\ Drafted(t)'
  <2>1. Placed(t)'
    <3>1. p.family = "override" => active \in Runtimes /\ p.of = active
      BY DEF TypeOK, FamilyOf
    <3> QED BY <1>1, <3>1 DEF Placed
  <2>2. Drafted(t)'
    BY <1>1 DEF Drafted
  <2> QED BY <2>1, <2>2
<1>5. Apart(t)'
  <2>1. q.family \in {"override", "merge"} => q.of = active
    BY <1>1 DEF FamilyOf
  <2>2. q.alone /\ q.family = "override" =>
          \A u \in Threads \ {t} : proc'[u].family # "override"
    BY <1>1, <1>3 DEF Spoils
  <2> QED BY <2>1, <2>2 DEF Apart
<1>6. ASSUME NEW u \in Threads \ {t} PROVE Placed(u)' /\ Apart(u)' /\ Drafted(u)'
  <2>1. Placed(u)'
    BY <1>2, <1>3 DEF Placed
  <2>2. Apart(u)'
    BY <1>1, <1>2, <1>3 DEF Apart, Spoils
  <2>3. Drafted(u)'
    <3>1. \A r : Loaded(r)' = Loaded(r)
      BY DEF Loaded
    <3>2. Drafted(u)
      BY <1>2
    <3> QED BY <1>3, <3>1, <3>2 DEF Drafted
  <2> QED BY <2>1, <2>2, <2>3
<1> QED BY <1>4, <1>5, <1>6 DEF Alone

\* Each step of set_extensions_enabled keeps its writer apart and its draft its own.
LEMMA OverrideAlone ==
  ASSUME TypeOK, Alone, NEW t \in Threads
  PROVE  /\ \A S \in SUBSET Exts, on \in BOOLEAN : SetEnabled(t, S, on) => Alone'
         /\ Load(t) => Alone'
         /\ Truncate(t) => Alone'
         /\ Fill(t) => Alone'
         /\ FillFails(t) => Alone'
         /\ Rename(t) => Alone'
         /\ RenameFails(t) => Alone'
<1> DEFINE p == proc[t]
<1>p. /\ p \in Proc /\ Placed(t) /\ Apart(t) /\ Drafted(t)
      /\ active \in Runtimes \cup {None}
  BY DEF TypeOK, Alone
<1>o. p.at \in {"load", "write", "fill", "rename"} => p.family = "override" /\ active \in Runtimes
  BY <1>p DEF Placed, FamilyOf
<1>a. p.alone /\ p.family = "override" => p.of = active
  BY <1>p DEF Apart
<1>1. ASSUME NEW S \in SUBSET Exts, NEW on \in BOOLEAN, SetEnabled(t, S, on) PROVE Alone'
  <2> DEFINE q == [Idle EXCEPT !.at = "load", !.family = "override",
                               !.names = S, !.on = on, !.of = active]
  <2>2. q \in Proc /\ q.at = "load" /\ q.family = "override" /\ q.of = active
    BY <1>p, IdleType DEF Proc, Ats, Families
  <2>3. /\ Start(t, q) /\ active # None
        /\ UNCHANGED <<active, overrides, tmp, links>>
    BY <1>1 DEF SetEnabled, Request
  <2> HIDE DEF q
  <2> QED BY <2>2, <2>3, StartAlone DEF FamilyOf
<1>2. ASSUME Load(t) PROVE Alone'
  <2> DEFINE o == Changed(p.of, Loaded(active), p.names, p.on)
             q == [p EXCEPT !.at = "write", !.ov = o]
  <2>1. p.at = "load" /\ Go(t, q) /\ UNCHANGED <<active, overrides, tmp, links>>
    BY <1>2 DEF Load, At
  <2>2. o \in Overrides
    BY <1>o, <2>1, LoadedType, ChangedType
  <2>3. /\ q \in Proc /\ q.at = "write" /\ q.family = p.family /\ q.of = p.of /\ q.ov = o
        /\ q.names = p.names /\ q.on = p.on /\ q.alone = p.alone
    <3> HIDE DEF o, p
    <3> QED BY <1>p, <2>2 DEF Proc, Ats
  <2> HIDE DEF q
  <2>4. proc'[t] = q /\ \A u \in Threads \ {t} : proc'[u] = proc[u]
    BY <2>1, <2>3, GoType
  <2>5. Placed(t)'
    BY <1>p, <1>o, <2>1, <2>3, <2>4 DEF Placed, FamilyOf
  <2>6. Apart(t)'
    BY <1>p, <2>1, <2>3, <2>4 DEF Apart
  <2>7. Drafted(t)'
    <3>1. Loaded(active)' = Loaded(active)
      BY <2>1 DEF Loaded
    <3>2. p.alone => p.of = active
      BY <1>o, <1>a, <2>1
    <3> QED BY <2>1, <2>3, <2>4, <3>1, <3>2 DEF Drafted
  <2> QED BY <1>o, <2>1, <2>3, <2>4, <2>5, <2>6, <2>7, StepAlone
<1>3. ASSUME Truncate(t) PROVE Alone'
  <2> DEFINE q == [p EXCEPT !.at = "fill", !.dir = active, !.inode = "tmp"]
  <2>1. /\ p.at = "write" /\ Go(t, q) /\ UNCHANGED <<active, overrides, links>>
        /\ tmp' = [tmp EXCEPT ![active] = Torn]
    BY <1>3 DEF Truncate, At
  <2>2. /\ q \in Proc /\ q.at = "fill" /\ q.family = p.family /\ q.of = p.of /\ q.ov = p.ov
        /\ q.names = p.names /\ q.on = p.on /\ q.alone = p.alone /\ q.dir = active
        /\ q.inode = "tmp"
    <3> HIDE DEF p
    <3> QED BY <1>p DEF Proc, Ats
  <2> HIDE DEF q
  <2>3. proc'[t] = q /\ \A u \in Threads \ {t} : proc'[u] = proc[u]
    BY <2>1, <2>2, GoType
  <2>4. Placed(t)'
    BY <1>p, <1>o, <2>1, <2>2, <2>3 DEF Placed, FamilyOf
  <2>5. Apart(t)'
    BY <1>p, <2>1, <2>2, <2>3 DEF Apart
  <2>6. Drafted(t)'
    <3>1. (\A r : Loaded(r)' = Loaded(r)) /\ tmp'[active] = Torn
      BY <1>o, <2>1 DEF Loaded, TypeOK
    <3>2. p.alone => p.of = active
      BY <1>o, <1>a, <2>1
    <3>3. p.alone => p.ov = Changed(p.of, Loaded(p.of), p.names, p.on)
      BY <1>p, <2>1 DEF Drafted
    <3> QED BY <2>2, <2>3, <3>1, <3>2, <3>3 DEF Drafted
  <2> QED BY <1>o, <2>1, <2>2, <2>3, <2>4, <2>5, <2>6, StepAlone
<1>4. ASSUME Fill(t) PROVE Alone'
  <2> DEFINE q == proc'[t]
  <2>1. p.at = "fill" /\ To(t, "rename") /\ UNCHANGED <<active, links>>
    BY <1>4 DEF Fill, At
  <2>2. /\ \A u \in Threads \ {t} : proc'[u] = proc[u]
        /\ q.at = "rename" /\ q.family = p.family /\ q.of = p.of /\ q.ov = p.ov
        /\ q.names = p.names /\ q.on = p.on /\ q.alone = p.alone /\ q.dir = p.dir
    BY <2>1, ToType DEF Ats
  <2>3. Placed(t)'
    BY <1>p, <1>o, <2>1, <2>2 DEF Placed, FamilyOf
  <2>4. Apart(t)'
    BY <1>p, <2>1, <2>2 DEF Apart
  <2>5. Drafted(t)'
    <3> SUFFICES ASSUME p.alone PROVE Drafted(t)'
      BY <2>2 DEF Drafted
    <3>1. /\ p.of = active /\ p.dir = active /\ active \in Runtimes
          /\ p.inode = "tmp" /\ tmp[active] = Torn
          /\ p.ov = Changed(p.of, Loaded(p.of), p.names, p.on)
      BY <1>p, <1>o, <1>a, <2>1 DEF Drafted
    <3>2. UNCHANGED overrides /\ tmp' = [tmp EXCEPT ![active] = p.ov]
      <4>1. /\ UNCHANGED overrides
            /\ \E c \in {p.ov, Torn} \ {Torn} : tmp' = [tmp EXCEPT ![active] = c]
        BY <1>4, <3>1 DEF Fill
      <4> QED BY <4>1
    <3>3. (\A r : Loaded(r)' = Loaded(r)) /\ tmp'[active] = p.ov
      BY <3>1, <3>2 DEF Loaded, TypeOK
    <3> QED BY <2>2, <3>1, <3>3 DEF Drafted
  <2> QED BY <1>o, <2>1, <2>2, <2>3, <2>4, <2>5, StepAlone
<1>5. ASSUME FillFails(t) PROVE Alone'
  BY <1>5, EndAlone DEF FillFails
<1>6. ASSUME Rename(t) PROVE Alone'
  <2>1. p.at = "rename" /\ Moved(t) /\ UNCHANGED <<active, links>>
    BY <1>6 DEF Rename, At
  <2>2. Placed(t)' /\ Apart(t)' /\ Drafted(t)' /\ proc'[t].family = "none"
    BY <2>1, IdleType, MovedType DEF Placed, FamilyOf, Apart, Drafted
  <2> QED BY <1>o, <2>1, <2>2, MovedType, StepAlone
<1>7. ASSUME RenameFails(t) PROVE Alone'
  BY <1>7, EndAlone DEF RenameFails
<1> QED BY <1>1, <1>2, <1>3, <1>4, <1>5, <1>6, <1>7

\* Requests on the links do not touch the overrides, and never lose the directory.
LEMMA LegacyAlone ==
  ASSUME TypeOK, Alone, NEW t \in Threads
  PROVE  /\ \A e \in Exts : Enable(t, e) => Alone'
         /\ Mkdir(t) => Alone'
         /\ Find(t) => Alone'
         /\ EnableFails(t) => Alone'
         /\ Unlink(t) => Alone'
         /\ Link(t) => Alone'
         /\ \A e \in Exts : Disable(t, e) => Alone'
         /\ DropDir(t) => Alone'
         /\ DropRaw(t) => Alone'
         /\ DisableAll(t) => Alone'
         /\ DropNext(t) => Alone'
         /\ DropEnds(t) => Alone'
<1> DEFINE p == proc[t]
<1>p. p \in Proc /\ Placed(t)
  BY DEF TypeOK, Alone
<1>f. p.at \in {"mkdir", "find", "unlink", "link", "dir", "raw", "all"} => p.family = "legacy"
  BY <1>p DEF Placed, FamilyOf
<1>l. p.at \in {"find", "unlink", "link", "dir", "raw", "all"} => links \in Links
  BY <1>p DEF Placed, TypeOK
<1>n. \A S \in Links : S # None
  BY NamesAssumption
<1>1. ASSUME NEW e \in Exts, Enable(t, e) PROVE Alone'
  <2> DEFINE q == [Idle EXCEPT !.at = "mkdir", !.family = "legacy", !.names = {e}, !.on = TRUE]
  <2>1. q \in Proc /\ q.at = "mkdir" /\ q.family = "legacy"
    BY IdleType DEF Proc, Ats, Families
  <2>2. Start(t, q) /\ UNCHANGED <<active, overrides, tmp, links>>
    BY <1>1 DEF Enable, Request
  <2> HIDE DEF q
  <2> QED BY <2>1, <2>2, StartAlone DEF FamilyOf
<1>2. ASSUME Mkdir(t) PROVE Alone'
  <2>1. p.at = "mkdir" /\ To(t, "find") /\ UNCHANGED <<active, overrides, tmp>>
    BY <1>2 DEF Mkdir, At
  <2>2. links' # None
    BY <1>2, <1>n DEF Mkdir, Links
  <2>3. "find" \in Ats /\ FamilyOf("find") = "legacy"
    BY DEF Ats, FamilyOf
  <2> QED BY <1>f, <2>1, <2>2, <2>3, ToType, AheadAlone
<1>b. ASSUME Find(t) PROVE Alone'
  <2>1. PICK e \in p.names : Go(t, [p EXCEPT !.at = "unlink", !.form = Form(e)])
    BY <1>b DEF Find
  <2>2. p.at = "find" /\ UNCHANGED <<active, overrides, tmp, links>>
    BY <1>b DEF Find, At
  <2> DEFINE f == Form(e)
             q == [p EXCEPT !.at = "unlink", !.form = f]
  <2>3. /\ q \in Proc /\ q.at = "unlink" /\ q.family = p.family /\ q.of = p.of
        /\ q.alone = p.alone
    <3>1. f \in Forms
      BY DEF Form, Forms
    <3> HIDE DEF f, p
    <3> QED BY <1>p, <3>1 DEF Proc, Ats
  <2>4. Go(t, q)
    BY <2>1
  <2> HIDE DEF q
  <2>5. "unlink" \in Ats /\ FamilyOf("unlink") = "legacy" /\ links' # None
    BY <1>l, <1>n, <2>2 DEF Ats, FamilyOf
  <2> QED BY <1>f, <2>2, <2>3, <2>4, <2>5, GoType, AheadAlone
<1>3. ASSUME EnableFails(t) PROVE Alone'
  BY <1>3, EndAlone DEF EnableFails
<1>4. ASSUME Unlink(t) PROVE Alone'
  <2>1. p.at = "unlink" /\ To(t, "link") /\ UNCHANGED <<active, overrides, tmp>>
    BY <1>4 DEF Unlink, At
  <2>2. links' # None
    BY <1>4, <1>l, <1>n, <2>1 DEF Unlink, Links
  <2>3. "link" \in Ats /\ FamilyOf("link") = "legacy"
    BY DEF Ats, FamilyOf
  <2> QED BY <1>f, <2>1, <2>2, <2>3, ToType, AheadAlone
<1>5. ASSUME Link(t) PROVE Alone'
  <2>1. p.at = "link" /\ Go(t, Idle) /\ UNCHANGED <<active, overrides, tmp>>
    BY <1>5 DEF Link, At
  <2>2. links' # None
    <3>1. PICK e \in p.names : links' = links \cup {<<e, p.form>>}
      BY <1>5 DEF Link
    <3>2. e \in Exts /\ p.form \in Forms /\ links \in Links
      BY <1>p, <1>l, <2>1 DEF Proc
    <3> QED BY <1>n, <3>1, <3>2 DEF Links
  <2> QED BY <2>1, <2>2, EndAlone
<1>6. ASSUME NEW e \in Exts, Disable(t, e) PROVE Alone'
  <2> DEFINE q == [Idle EXCEPT !.at = "dir", !.family = "legacy", !.names = {e}]
  <2>1. q \in Proc /\ q.at = "dir" /\ q.family = "legacy"
    BY IdleType DEF Proc, Ats, Families
  <2>2. Start(t, q) /\ links # None /\ UNCHANGED <<active, overrides, tmp, links>>
    BY <1>6 DEF Disable, Request
  <2> HIDE DEF q
  <2> QED BY <2>1, <2>2, StartAlone DEF FamilyOf
<1>7. ASSUME DropDir(t) PROVE Alone'
  <2> DEFINE b == links' # links
             q == [p EXCEPT !.at = "raw", !.found = b]
  <2>1. p.at = "dir" /\ Go(t, q) /\ UNCHANGED <<active, overrides, tmp>>
    BY <1>7 DEF DropDir, At
  <2>2. /\ q \in Proc /\ q.at = "raw" /\ q.family = p.family /\ q.of = p.of
        /\ q.alone = p.alone
    <3>1. b \in BOOLEAN
      OBVIOUS
    <3> HIDE DEF b, p
    <3> QED BY <1>p, <3>1 DEF Proc, Ats
  <2>3. links' # None
    BY <1>7, <1>l, <1>n, <2>1 DEF DropDir, Links
  <2>4. "raw" \in Ats /\ FamilyOf("raw") = "legacy"
    BY DEF Ats, FamilyOf
  <2> HIDE DEF q
  <2> QED BY <1>f, <2>1, <2>2, <2>3, <2>4, GoType, AheadAlone
<1>8. ASSUME DropRaw(t) PROVE Alone'
  <2>1. p.at = "raw" /\ Go(t, Idle) /\ UNCHANGED <<active, overrides, tmp>>
    BY <1>8 DEF DropRaw, At
  <2>2. links' # None
    BY <1>8, <1>l, <1>n, <2>1 DEF DropRaw, Links
  <2> QED BY <2>1, <2>2, EndAlone
<1>9. ASSUME DisableAll(t) PROVE Alone'
  <2> DEFINE q == [Idle EXCEPT !.at = "all", !.family = "legacy"]
  <2>1. q \in Proc /\ q.at = "all" /\ q.family = "legacy"
    BY IdleType DEF Proc, Ats, Families
  <2>2. Start(t, q) /\ links # None /\ UNCHANGED <<active, overrides, tmp, links>>
    BY <1>9 DEF DisableAll, Request
  <2> HIDE DEF q
  <2> QED BY <2>1, <2>2, StartAlone DEF FamilyOf
<1>10. ASSUME DropNext(t) PROVE Alone'
  <2>1. p.at = "all" /\ UNCHANGED <<active, overrides, tmp, proc>>
    BY <1>10 DEF DropNext, At
  <2>2. links' # None
    BY <1>10, <1>l, <1>n, <2>1 DEF DropNext, Links
  <2>3. "all" \in Ats /\ FamilyOf("all") = "legacy"
    BY DEF Ats, FamilyOf
  <2> QED BY <1>f, <2>1, <2>2, <2>3, AheadAlone
<1>11. ASSUME DropEnds(t) PROVE Alone'
  BY <1>11, EndAlone DEF DropEnds
<1> QED BY <1>1, <1>2, <1>b, <1>3, <1>4, <1>5, <1>6, <1>7, <1>8, <1>9, <1>10, <1>11

\* A merge reads only.
LEMMA MergeAlone ==
  ASSUME TypeOK, Alone, NEW t \in Threads
  PROVE  /\ Merge(t) => Alone'
         /\ Pick(t) => Alone'
         /\ Done(t) => Alone'
<1>1. ASSUME Merge(t) PROVE Alone'
  <2> DEFINE q == [Idle EXCEPT !.at = "pick", !.family = "merge", !.of = active]
  <2>1. q \in Proc /\ q.at = "pick" /\ q.family = "merge" /\ q.of = active
    <3>1. active \in Runtimes \cup {None}
      BY DEF TypeOK
    <3> QED BY IdleType, <3>1 DEF Proc, Ats, Families
  <2>2. Start(t, q) /\ UNCHANGED <<active, overrides, tmp, links>>
    BY <1>1 DEF Merge
  <2> HIDE DEF q
  <2> QED BY <2>1, <2>2, StartAlone DEF FamilyOf
<1>2. ASSUME Pick(t) PROVE Alone'
  <2>1. proc[t].at = "pick" /\ To(t, "merged") /\ UNCHANGED <<active, overrides, tmp, links>>
    BY <1>2 DEF Pick, At
  <2>2. "merged" \in Ats /\ FamilyOf("merged") = "merge"
    BY DEF Ats, FamilyOf
  <2>3. proc[t].family = "merge"
    BY <2>1 DEF Alone, Placed, FamilyOf
  <2> QED BY <2>1, <2>2, <2>3, ToType, AheadAlone
<1>3. ASSUME Done(t) PROVE Alone'
  BY <1>3, EndAlone DEF Done
<1> QED BY <1>1, <1>2, <1>3

\* An activation takes the certainty of what works on the runtime before.
LEMMA AroundAlone ==
  ASSUME TypeOK, Alone
  PROVE  /\ \A r \in Runtimes : Activate(r) => Alone'
         /\ \A l \in Exts \X Forms : Provide(l) => Alone'
         /\ Kill => Alone'
<1>1. \A u \in Threads : proc[u] \in Proc /\ Placed(u) /\ Apart(u) /\ Drafted(u)
  BY DEF TypeOK, Alone
<1>2. ASSUME UNCHANGED <<overrides, tmp, links>> PROVE \A r : Loaded(r)' = Loaded(r)
  BY <1>2 DEF Loaded
<1>3. ASSUME NEW r \in Runtimes, Activate(r), NEW u \in Threads
      PROVE  Placed(u)' /\ Apart(u)' /\ Drafted(u)'
  <2>1. /\ active' = r /\ UNCHANGED <<overrides, tmp, links>>
        /\ \A v \in Threads : proc'[v] = Crossed(proc[v], "activation")
    BY <1>3 DEF Activate
  <2>2. \A v \in Threads :
        /\ proc'[v].at = proc[v].at /\ proc'[v].family = proc[v].family
        /\ proc'[v].names = proc[v].names /\ proc'[v].on = proc[v].on
        /\ proc'[v].of = proc[v].of /\ proc'[v].ov = proc[v].ov
        /\ proc'[v].dir = proc[v].dir /\ proc'[v].inode = proc[v].inode
        /\ proc'[v].alone => proc[v].alone /\ ~Spoils("activation", proc[v].family)
    BY <1>1, <2>1, CrossedType
  <2>3. Placed(u)'
    BY <1>1, <2>1, <2>2 DEF Placed
  <2>4. Apart(u)'
    BY <2>2 DEF Apart, Spoils
  <2>5. Drafted(u)'
    BY <1>1, <1>2, <2>1, <2>2 DEF Drafted
  <2> QED BY <2>3, <2>4, <2>5
<1>4. ASSUME NEW l \in Exts \X Forms, Provide(l), NEW u \in Threads
      PROVE  Placed(u)' /\ Apart(u)' /\ Drafted(u)'
  <2>1. /\ UNCHANGED <<active, overrides, tmp, links>>
        /\ \A v \in Threads : proc'[v] = Crossed(proc[v], "legacy")
    BY <1>4 DEF Provide
  <2>2. \A v \in Threads :
        /\ proc'[v].at = proc[v].at /\ proc'[v].family = proc[v].family
        /\ proc'[v].names = proc[v].names /\ proc'[v].on = proc[v].on
        /\ proc'[v].of = proc[v].of /\ proc'[v].ov = proc[v].ov
        /\ proc'[v].dir = proc[v].dir /\ proc'[v].inode = proc[v].inode
        /\ proc'[v].alone => proc[v].alone
    BY <1>1, <2>1, CrossedType
  <2>3. Placed(u)' /\ Apart(u)'
    BY <1>1, <2>1, <2>2 DEF Placed, Apart
  <2>4. Drafted(u)'
    BY <1>1, <1>2, <2>1, <2>2 DEF Drafted
  <2> QED BY <2>3, <2>4
<1>5. ASSUME Kill PROVE Alone'
  <2>1. \A u \in Threads : proc'[u] = Idle
    BY <1>5 DEF Kill
  <2> QED BY <2>1, IdleType DEF Alone, Placed, FamilyOf, Apart, Drafted
<1> QED BY <1>3, <1>4, <1>5 DEF Alone

\* Every step leaves requests where they can be.
LEMMA NextAlone == ASSUME TypeOK, Alone, [Next]_vars PROVE Alone'
<1>1. CASE UNCHANGED vars
  <2>1. \A r : Loaded(r)' = Loaded(r)
    BY <1>1 DEF Loaded, vars
  <2> QED BY <1>1, <2>1 DEF vars, Alone, Placed, Apart, Drafted
<1>2. CASE Next
  BY <1>2, OverrideAlone, LegacyAlone, MergeAlone, AroundAlone DEF Next
<1> QED BY <1>1, <1>2

-----------------------------------------------------------------------------
(* What overrides.json says *)

\* A step that writes no overrides.json and says nothing about a runtime.
LEMMA QuietTrusted ==
  ASSUME Trusted, UNCHANGED overrides, \A r \in Runtimes : said'[r] = said[r]
  PROVE  Trusted'
  BY DEF Trusted, Told

\* A word about the links is none about a runtime.
LEMMA LinksTrusted ==
  ASSUME TypeOK, Trusted, NEW t \in Threads, NEW S, NEW x \in Words,
         Says(t, None, S, x), UNCHANGED overrides
  PROVE  Trusted'
  BY SaysType, NamesAssumption, QuietTrusted

\* The descriptor of another writer is in the file only when the two have crossed.
LEMMA FillTrusted ==
  ASSUME TypeOK, Alone, Trusted, NEW t \in Threads, Fill(t) PROVE Trusted'
<1> DEFINE p == proc[t]
<1>1. p \in Proc /\ Placed(t) /\ Drafted(t) /\ p.at = "fill"
  BY DEF TypeOK, Alone, Fill, At
<1>2. CASE UNCHANGED <<overrides, said>>
  BY <1>2, QuietTrusted
<1>3. CASE /\ p.inode = "file" /\ Says(t, p.dir, {}, "unsure")
           /\ \E c : overrides' = [overrides EXCEPT ![p.dir] = c]
  <2>1. ~p.alone
    BY <1>1, <1>3 DEF Drafted
  <2>2. p.dir \in Runtimes \cup {None} /\ "unsure" \in Words
    BY <1>1 DEF Proc, Words
  <2>3. /\ \A q \in (Runtimes \cup {None}) \ {p.dir} : said'[q] = said[q]
        /\ \A e \in Exts : said'[p.dir][e] = "unsure"
    BY <1>3, <2>1, <2>2, SaysType
  <2>4. \A r \in Runtimes \ {p.dir} : overrides'[r] = overrides[r]
    BY <1>3 DEF TypeOK
  <2>5. ASSUME NEW r \in Runtimes, NEW e \in Exts PROVE Told(r, e)'
    <3>1. CASE r = p.dir
      BY <2>3, <3>1 DEF Told
    <3>2. CASE r # p.dir
      BY <2>3, <2>4, <3>2 DEF Told, Trusted
    <3> QED BY <3>1, <3>2
  <2> QED BY <2>5 DEF Trusted
<1> QED BY <1>2, <1>3 DEF Fill

\* A rename beside no other puts in place what the request changed.
LEMMA RenameTrusted ==
  ASSUME TypeOK, Alone, Trusted, NEW t \in Threads, Rename(t) PROVE Trusted'
<1> DEFINE p == proc[t]
<1>1. p \in Proc /\ Placed(t) /\ Apart(t) /\ Drafted(t) /\ p.at = "rename"
  BY DEF TypeOK, Alone, Rename, At
<1>2. p.family = "override" /\ active \in Runtimes
  BY <1>1 DEF Placed, FamilyOf
<1>3. /\ overrides' = [overrides EXCEPT ![active] = tmp[active]]
      /\ Says(t, active, p.names, Word(p.on))
  BY DEF Rename
<1>4. Word(p.on) \in Words
  BY DEF Word, Words
<1>5. /\ \A q \in (Runtimes \cup {None}) \ {active} : said'[q] = said[q]
      /\ \A e \in Exts : said'[active][e] = IF ~p.alone THEN "unsure"
                          ELSE IF e \in p.names THEN Word(p.on) ELSE said[active][e]
  BY <1>2, <1>3, <1>4, SaysType
<1>6. /\ \A r \in Runtimes \ {active} : overrides'[r] = overrides[r]
      /\ overrides'[active] = tmp[active]
  BY <1>2, <1>3 DEF TypeOK
<1>7. ASSUME NEW r \in Runtimes \ {active}, NEW e \in Exts PROVE Told(r, e)'
  BY <1>5, <1>6 DEF Told, Trusted
<1>8. ASSUME NEW r, r = active, NEW e \in Exts PROVE Told(r, e)'
  <2>1. CASE ~p.alone
    BY <1>5, <1>8, <2>1 DEF Told
  <2>2. CASE p.alone
    <3> DEFINE o == Changed(active, Loaded(active), p.names, p.on)
    <3>1. overrides'[active] = o
      BY <1>1, <1>2, <1>6, <2>2 DEF Apart, Drafted
    <3>2. overrides'[active] # Torn
      BY <1>2, <3>1, LoadedType, ChangedType, NamesAssumption
    <3>3. CASE e \in p.names
      <4>1. o[e] = IF Default(active, e) = p.on THEN "unset" ELSE Word(p.on)
        BY <3>3 DEF Changed
      <4>2. said'[active][e] = Word(p.on)
        BY <1>5, <2>2, <3>3
      <4>3. Default(active, e) \in BOOLEAN /\ p.on \in BOOLEAN
        BY <1>1, <1>2, DefaultType DEF Proc
      <4>4. e \in DOMAIN Defaults[active] => Default(active, e) = Defaults[active][e]
        BY DEF Default
      <4> HIDE DEF o
      <4>5. CASE p.on
        BY <1>8, <3>1, <3>2, <4>1, <4>2, <4>3, <4>4, <4>5 DEF Told, Word
      <4>6. CASE ~p.on
        BY <1>8, <3>1, <3>2, <4>1, <4>2, <4>3, <4>4, <4>6 DEF Told, Word
      <4> QED BY <4>5, <4>6
    <3>4. CASE e \notin p.names
      <4>1. o[e] = Loaded(active)[e] /\ said'[active][e] = said[active][e]
        BY <1>5, <2>2, <3>4 DEF Changed
      <4>2. Told(active, e)
        BY <1>2 DEF Trusted
      <4>3. said[active][e] # "unsure" => Loaded(active) = overrides[active]
        BY <4>2 DEF Told, Loaded
      <4> HIDE DEF o
      <4> QED BY <1>8, <3>1, <3>2, <4>1, <4>2, <4>3 DEF Told
    <3> QED BY <3>3, <3>4
  <2> QED BY <2>1, <2>2
<1> QED BY <1>7, <1>8 DEF Trusted

\* Every step leaves the words on runtimes true.
LEMMA NextTrusted == ASSUME TypeOK, Alone, Trusted, [Next]_vars PROVE Trusted'
<1>w. "on" \in Words /\ "off" \in Words /\ "unsure" \in Words
  BY DEF Words
<1>1. CASE UNCHANGED vars
  BY <1>1, QuietTrusted DEF vars
<1>2. ASSUME NEW t \in Threads, NEW S \in (SUBSET Exts) \ {{}}, NEW on \in BOOLEAN,
             SetEnabled(t, S, on)
      PROVE  Trusted'
  BY <1>2, QuietTrusted DEF SetEnabled
<1>3. ASSUME NEW t \in Threads,
             \/ Load(t) \/ Truncate(t) \/ FillFails(t) \/ RenameFails(t) \/ Mkdir(t)
             \/ Find(t) \/ EnableFails(t) \/ DisableAll(t) \/ Merge(t) \/ Pick(t) \/ Done(t)
             \/ \E e \in Exts : Enable(t, e) \/ Disable(t, e)
      PROVE  Trusted'
  <2>1. UNCHANGED <<overrides, said>>
    BY <1>3 DEF Load, Truncate, FillFails, RenameFails, Mkdir, Find, EnableFails, DisableAll,
                Merge, Pick, Done, Enable, Disable
  <2> QED BY <2>1, QuietTrusted
<1>4. ASSUME NEW t \in Threads,
             Unlink(t) \/ Link(t) \/ DropDir(t) \/ DropRaw(t) \/ DropNext(t) \/ DropEnds(t)
      PROVE  Trusted'
  <2>1. \/ UNCHANGED <<overrides, said>>
        \/ UNCHANGED overrides /\ \E S : \E x \in Words : Says(t, None, S, x)
    <3>1. CASE Unlink(t) \/ DropDir(t)
      BY <1>w, <3>1 DEF Unlink, DropDir
    <3>2. CASE Link(t) \/ DropNext(t) \/ DropEnds(t)
      BY <1>w, <3>2 DEF Link, DropNext, DropEnds
    <3>3. CASE DropRaw(t)
      BY <1>w, <3>3 DEF DropRaw
    <3> QED BY <1>4, <3>1, <3>2, <3>3
  <2> QED BY <2>1, QuietTrusted, LinksTrusted
<1>5. ASSUME NEW r \in Runtimes, Activate(r) PROVE Trusted'
  BY <1>5, QuietTrusted DEF Activate
<1>6. ASSUME NEW l \in Exts \X Forms, Provide(l) PROVE Trusted'
  <2>1. \A r \in Runtimes : said'[r] = said[r]
    BY <1>6, NamesAssumption DEF Provide, TypeOK
  <2> QED BY <1>6, <2>1, QuietTrusted DEF Provide
<1>7. ASSUME Kill PROVE Trusted'
  BY <1>7, QuietTrusted DEF Kill
<1> QED BY <1>1, <1>2, <1>3, <1>4, <1>5, <1>6, <1>7, FillTrusted, RenameTrusted DEF Next

-----------------------------------------------------------------------------
(* What the links say *)

\* A step that changes neither links nor images and says nothing about them.
LEMMA QuietReached ==
  ASSUME Reached, UNCHANGED <<links, images>>, said'[None] = said[None]
  PROVE  Reached'
  BY DEF Reached, Linked

\* A word about one extension, or about what is gone, leaves the words on the others true.
LEMMA SaidReached ==
  ASSUME TypeOK, Reached, NEW t \in Threads, NEW S, NEW x \in Words, Says(t, None, S, x),
         UNCHANGED images, links \in Links, links' \in Links,
         \A e \in Exts \ S, f \in Forms : <<e, f>> \in links' <=> <<e, f>> \in links,
         x # "default",
         x = "off" => \A e \in S, f \in Forms : <<e, f>> \notin links',
         x = "on" => \A e \in S : \E f \in Forms : <<e, f>> \in links' \cap images
  PROVE  Reached'
<1>1. \A e \in Exts : said'[None][e] = IF ~proc[t].alone THEN "unsure"
                                       ELSE IF e \in S THEN x ELSE said[None][e]
  BY SaysType
<1>2. links # None /\ links' # None
  BY NamesAssumption
<1>3. ASSUME NEW e \in Exts PROVE Linked(e)'
  <2>1. CASE ~proc[t].alone
    BY <1>1, <2>1 DEF Linked
  <2>2. CASE proc[t].alone /\ e \in S
    BY <1>1, <1>2, <2>2 DEF Linked
  <2>3. CASE proc[t].alone /\ e \notin S
    <3>1. said'[None][e] = said[None][e] /\ Linked(e)
      BY <1>1, <2>3 DEF Reached
    <3>2. \A f \in Forms : <<e, f>> \in links' <=> <<e, f>> \in links
      BY <2>3
    <3> QED BY <1>2, <3>1, <3>2 DEF Linked
  <2> QED BY <2>1, <2>2, <2>3
<1> QED BY <1>3 DEF Reached

\* Each step on the links says what it did to them.
LEMMA LegacyReached ==
  ASSUME TypeOK, Alone, Reached, NEW t \in Threads
  PROVE  /\ Mkdir(t) => Reached'
         /\ Unlink(t) => Reached'
         /\ Link(t) => Reached'
         /\ DropDir(t) => Reached'
         /\ DropRaw(t) => Reached'
         /\ DropNext(t) => Reached'
         /\ DropEnds(t) => Reached'
<1> DEFINE p == proc[t]
<1>w. "on" \in Words /\ "off" \in Words /\ "unsure" \in Words
  BY DEF Words
<1>p. p.names \in SUBSET Exts /\ p.form \in Forms
  BY DEF TypeOK, Proc
<1>l. p.at \in {"find", "unlink", "link", "dir", "raw", "all"} => links \in Links
  BY DEF Alone, Placed, TypeOK
<1>1. ASSUME Mkdir(t) PROVE Reached'
  <2>1. /\ UNCHANGED <<said, images>>
        /\ links' = IF links = None THEN {} ELSE links
    BY <1>1 DEF Mkdir
  <2>2. {} # None
    BY NamesAssumption DEF Links
  <2> QED BY <2>1, <2>2 DEF Reached, Linked
<1>2. ASSUME Unlink(t) PROVE Reached'
  <2>1. p.at = "unlink" /\ UNCHANGED images
    BY <1>2 DEF Unlink, At
  <2>2. PICK e \in p.names :
           /\ links' = links \ {l \in {<<e, p.form>>} : Exists(l)}
           /\ IF links' = links THEN UNCHANGED said ELSE Says(t, None, {e}, "unsure")
    BY <1>2 DEF Unlink
  <2>3. CASE links' = links
    BY <2>1, <2>2, <2>3, QuietReached
  <2>4. CASE links' # links
    <3>1. links \in Links /\ links' \in Links
      BY <1>l, <2>1, <2>2 DEF Links
    <3>2. \A d \in Exts \ {e}, f \in Forms : <<d, f>> \in links' <=> <<d, f>> \in links
      BY <1>p, <2>2
    <3> QED BY <1>w, <2>1, <2>2, <2>4, <3>1, <3>2, SaidReached
  <2> QED BY <2>3, <2>4
<1>3. ASSUME Link(t) PROVE Reached'
  <2>1. p.at = "link" /\ UNCHANGED images
    BY <1>3 DEF Link, At
  <2>2. PICK e \in p.names :
           /\ links' = links \cup {<<e, p.form>>}
           /\ Says(t, None, {e}, IF <<e, p.form>> \in images THEN "on" ELSE "unsure")
    BY <1>3 DEF Link
  <2>3. links \in Links /\ links' \in Links
    BY <1>l, <1>p, <2>1, <2>2 DEF Links
  <2>4. \A d \in Exts \ {e}, f \in Forms : <<d, f>> \in links' <=> <<d, f>> \in links
    BY <1>p, <2>2
  <2>5. <<e, p.form>> \in images => \E f \in Forms : <<e, f>> \in links' \cap images
    BY <1>p, <2>2 DEF Forms
  <2>6. CASE <<e, p.form>> \in images
    BY <1>w, <2>1, <2>2, <2>3, <2>4, <2>5, <2>6, SaidReached
  <2>7. CASE <<e, p.form>> \notin images
    BY <1>w, <2>1, <2>2, <2>3, <2>4, <2>7, SaidReached
  <2> QED BY <2>6, <2>7
<1>4. ASSUME DropDir(t) PROVE Reached'
  <2>1. p.at = "dir" /\ UNCHANGED images
    BY <1>4 DEF DropDir, At
  <2>2. PICK e \in p.names :
           /\ links' = IF Exists(<<e, "dir">>) THEN links \ {<<e, "dir">>} ELSE links
           /\ IF links' = links THEN UNCHANGED said ELSE Says(t, None, {e}, "unsure")
    BY <1>4 DEF DropDir
  <2>3. CASE links' = links
    BY <2>1, <2>2, <2>3, QuietReached
  <2>4. CASE links' # links
    <3>1. links \in Links /\ links' \in Links
      BY <1>l, <2>1, <2>2 DEF Links
    <3>2. \A d \in Exts \ {e}, f \in Forms : <<d, f>> \in links' <=> <<d, f>> \in links
      BY <2>2
    <3> QED BY <1>w, <2>1, <2>2, <2>4, <3>1, <3>2, SaidReached
  <2> QED BY <2>3, <2>4
<1>5. ASSUME DropRaw(t) PROVE Reached'
  <2>1. p.at = "raw" /\ UNCHANGED images
    BY <1>5 DEF DropRaw, At
  <2>2. PICK e \in p.names :
           /\ links' = IF Exists(<<e, "raw">>) THEN links \ {<<e, "raw">>} ELSE links
           /\ IF links' = links /\ ~p.found THEN UNCHANGED said
              ELSE Says(t, None, {e},
                        IF \E f \in Forms : <<e, f>> \in links' THEN "unsure" ELSE "off")
    BY <1>5 DEF DropRaw
  <2>3. CASE links' = links /\ ~p.found
    BY <2>1, <2>2, <2>3, QuietReached
  <2>4. CASE ~(links' = links /\ ~p.found)
    <3>1. links \in Links /\ links' \in Links
      BY <1>l, <2>1, <2>2 DEF Links
    <3>2. \A d \in Exts \ {e}, f \in Forms : <<d, f>> \in links' <=> <<d, f>> \in links
      BY <2>2
    <3>3. CASE \E f \in Forms : <<e, f>> \in links'
      <4>1. Says(t, None, {e}, "unsure")
        BY <2>2, <2>4, <3>3
      <4> QED BY <1>w, <2>1, <3>1, <3>2, <4>1, SaidReached
    <3>4. CASE ~\E f \in Forms : <<e, f>> \in links'
      <4>1. Says(t, None, {e}, "off")
        BY <2>2, <2>4, <3>4
      <4> QED BY <1>w, <2>1, <3>1, <3>2, <3>4, <4>1, SaidReached
    <3> QED BY <3>3, <3>4
  <2> QED BY <2>3, <2>4
<1>6. ASSUME DropNext(t) PROVE Reached'
  <2>1. p.at = "all" /\ UNCHANGED images
    BY <1>6 DEF DropNext, At
  <2>2. PICK l \in links : links' = links \ {l} /\ Says(t, None, {l[1]}, "unsure")
    BY <1>6 DEF DropNext
  <2>3. links \in Links /\ links' \in Links
    BY <1>l, <2>1, <2>2 DEF Links
  <2>4. \A d \in Exts \ {l[1]}, f \in Forms : <<d, f>> \in links' <=> <<d, f>> \in links
    BY <2>2
  <2> QED BY <1>w, <2>1, <2>2, <2>3, <2>4, SaidReached
<1>7. ASSUME DropEnds(t) PROVE Reached'
  <2>1. p.at = "all" /\ links = {} /\ UNCHANGED <<links, images>> /\ Says(t, None, Exts, "off")
    BY <1>7 DEF DropEnds, At
  <2>2. links \in Links /\ links' \in Links
    BY <1>l, <2>1
  <2> QED BY <1>w, <2>1, <2>2, SaidReached
<1> QED BY <1>1, <1>2, <1>3, <1>4, <1>5, <1>6, <1>7

\* An image that comes or goes under a link makes the link's extension unsure.
LEMMA ProvideReached ==
  ASSUME TypeOK, Reached, NEW l \in Exts \X Forms, Provide(l) PROVE Reached'
<1>1. /\ images' = IF l \in images THEN images \ {l} ELSE images \cup {l}
      /\ said' = IF links # None /\ l \in links
                 THEN [said EXCEPT ![None][l[1]] = "unsure"] ELSE said
      /\ UNCHANGED links
  BY DEF Provide
<1>2. said \in [Runtimes \cup {None} -> [Exts -> Words]]
  BY DEF TypeOK
<1>3. l[1] \in Exts /\ l = <<l[1], l[2]>>
  OBVIOUS
<1>4. ASSUME NEW e \in Exts PROVE Linked(e)'
  <2>1. Linked(e)
    BY DEF Reached
  <2>2. CASE links # None /\ l \in links /\ e = l[1]
    <3>1. said'[None][e] = "unsure"
      BY <1>1, <1>2, <1>3, <2>2
    <3> QED BY <3>1 DEF Linked
  <2>3. CASE ~(links # None /\ l \in links) \/ e # l[1]
    <3>1. said'[None][e] = said[None][e]
      BY <1>1, <1>2, <1>3, <2>3
    <3>2. \A f \in Forms : links # None /\ <<e, f>> \in links \cap images =>
                             <<e, f>> \in links \cap images'
      BY <1>1, <1>3, <2>3
    <3> QED BY <1>1, <2>1, <3>1, <3>2 DEF Linked
  <2> QED BY <2>2, <2>3
<1> QED BY <1>4 DEF Reached

\* The overrides of a request say nothing of the links, unless it was crossed.
LEMMA OverrideReached ==
  ASSUME TypeOK, Alone, Reached, NEW t \in Threads, Fill(t) \/ Rename(t) PROVE Reached'
<1> DEFINE p == proc[t]
<1>1. p \in Proc /\ Placed(t) /\ Drafted(t) /\ "unsure" \in Words /\ Word(p.on) \in Words
  BY DEF TypeOK, Alone, Word, Words
<1>2. UNCHANGED <<links, images>>
  BY DEF Fill, Rename
<1>3. CASE Fill(t)
  <2>1. CASE UNCHANGED said
    BY <1>2, <2>1, QuietReached
  <2>2. CASE p.inode = "file" /\ Says(t, p.dir, {}, "unsure")
    <3>1. ~p.alone
      BY <1>1, <1>3, <2>2 DEF Fill, At, Drafted
    <3>2. p.dir \in Runtimes \cup {None}
      BY <1>1 DEF Proc
    <3>3. CASE p.dir = None
      <4>1. \A e \in Exts : said'[None][e] = "unsure"
        BY <1>1, <2>2, <3>1, <3>2, <3>3, SaysType
      <4> QED BY <4>1 DEF Reached, Linked
    <3>4. CASE p.dir # None
      BY <1>1, <1>2, <2>2, <3>2, <3>4, SaysType, QuietReached
    <3> QED BY <3>3, <3>4
  <2> QED BY <1>3, <2>1, <2>2 DEF Fill
<1>4. CASE Rename(t)
  <2>1. Says(t, active, p.names, Word(p.on))
    BY <1>4 DEF Rename
  <2>2. active \in Runtimes /\ active # None
    BY <1>1, <1>4, NamesAssumption DEF Rename, At, Placed, FamilyOf
  <2> QED BY <1>1, <1>2, <2>1, <2>2, SaysType, QuietReached
<1> QED BY <1>3, <1>4

\* Every step leaves the words on the links true.
LEMMA NextReached == ASSUME TypeOK, Alone, Reached, [Next]_vars PROVE Reached'
<1>1. CASE UNCHANGED vars
  BY <1>1, QuietReached DEF vars
<1>2. ASSUME NEW t \in Threads, NEW S \in (SUBSET Exts) \ {{}}, NEW on \in BOOLEAN,
             SetEnabled(t, S, on)
      PROVE  Reached'
  BY <1>2, QuietReached DEF SetEnabled
<1>3. ASSUME NEW t \in Threads,
             \/ Load(t) \/ Truncate(t) \/ FillFails(t) \/ RenameFails(t)
             \/ Find(t) \/ EnableFails(t) \/ DisableAll(t) \/ Merge(t) \/ Pick(t) \/ Done(t)
             \/ \E e \in Exts : Enable(t, e) \/ Disable(t, e)
      PROVE  Reached'
  <2>1. UNCHANGED <<links, images, said>>
    BY <1>3 DEF Load, Truncate, FillFails, RenameFails, Find, EnableFails, DisableAll,
                Merge, Pick, Done, Enable, Disable
  <2> QED BY <2>1, QuietReached
<1>4. ASSUME (\E r \in Runtimes : Activate(r)) \/ Kill PROVE Reached'
  BY <1>4, QuietReached DEF Activate, Kill
<1> QED BY <1>1, <1>2, <1>3, <1>4, LegacyReached, OverrideReached, ProvideReached DEF Next

-----------------------------------------------------------------------------
(* Theorems *)

\* On a fresh daemon nothing has been said yet.
LEMMA InitIInv == Init => IInv
<1> SUFFICES ASSUME Init PROVE IInv
  OBVIOUS
<1>1. /\ \A t \in Threads : proc[t] = Idle
      /\ \A r \in Runtimes : overrides[r] = NoOverride
      /\ \A r \in Runtimes \cup {None}, e \in Exts : said[r][e] = "default"
      /\ links = None
  BY DEF Init
<1>2. TypeOK
  <2>1. images \in Links /\ links \in Links \cup {None}
    BY DEF Init, Links, Forms
  <2>2. overrides \in [Runtimes -> Files] /\ tmp \in [Runtimes -> Files \cup {None}]
    BY NoOverrideType DEF Init, Files
  <2>3. proc \in [Threads -> Proc]
    BY IdleType DEF Init
  <2>4. said \in [Runtimes \cup {None} -> [Exts -> Words]]
    BY DEF Init, Words
  <2>5. active \in Runtimes \cup {None} /\ hitl \subseteq Exts /\ merged \subseteq Exts
    BY DEF Init
  <2>6. made \in 0 .. MaxChanges
    BY BoundAssumption DEF Init
  <2> QED BY <2>1, <2>2, <2>3, <2>4, <2>5, <2>6 DEF TypeOK
<1>3. Alone
  BY <1>1, IdleType DEF Alone, Placed, FamilyOf, Apart, Drafted
<1>4. Trusted
  <2>1. NoOverride # Torn /\ \A e \in Exts : NoOverride[e] = "unset"
    BY NoOverrideType, NamesAssumption DEF NoOverride
  <2> QED BY <1>1, <2>1 DEF Trusted, Told
<1>5. Reached
  BY <1>1 DEF Reached, Linked
<1> QED BY <1>2, <1>3, <1>4, <1>5 DEF IInv

\* The invariant is inductive.
LEMMA NextIInv == IInv /\ [Next]_vars => IInv'
  BY NextTypes, NextAlone, NextTrusted, NextReached DEF IInv

\* In every reachable state, whatever the runtimes and their defaults: a request that
\* nothing has crossed is the only writer of overrides.json, and what is sure of an
\* extension is what overrides.json or the links say of it (set_extensions_enabled,
\* RuntimeOverrides::save, enable_extensions, disable_extensions).
THEOREM SelectionInvariant == Spec => []IInv
  BY InitIInv, NextIInv, PTL DEF Spec

\* Every variable keeps its type: overrides.json is never removed once it is there.
THEOREM SelectionTyping == Spec => []TypeOK
<1>1. IInv => TypeOK
  BY DEF IInv
<1> QED BY <1>1, SelectionInvariant, PTL

\* However many requests, kills and full disks there are, overrides.json parses until
\* two requests, or a request and an activation, have crossed.
THEOREM OverridesStayWhole == Spec => []OverridesWhole
<1>1. IInv => OverridesWhole
  BY DEF IInv, Trusted, Told, OverridesWhole
<1> QED BY <1>1, SelectionInvariant, PTL

\* Only the scan itself takes a merge past it.
LEMMA OnlyPick ==
  ASSUME TypeOK, Next, NEW t \in Threads, At(t, "pick"), proc'[t].at = "merged"
  PROVE  Pick(t)
<1>1. proc[t].at = "pick"
  BY DEF At
<1>2. \A f : Crossed(proc[t], f).at = "pick"
  BY <1>1, CrossedType DEF TypeOK
<1>3. ASSUME NEW u \in Threads, NEW p, Start(u, p) PROVE FALSE
  <2>1. proc[u].at = "idle" /\ u # t
    BY <1>1, <1>3 DEF Start
  <2>2. proc'[t] = Crossed(proc[t], p.family)
    BY <1>3, <2>1 DEF Start
  <2> QED BY <1>2, <2>2
<1>4. ASSUME NEW u \in Threads \ {t}, NEW p, Go(u, p) PROVE FALSE
  BY <1>1, <1>4 DEF Go, TypeOK
<1>5. ASSUME NEW u \in Threads \ {t}, NEW a, To(u, a) PROVE FALSE
  BY <1>4, <1>5 DEF To
<1>6. ASSUME NEW u \in Threads \ {t}, Moved(u) PROVE FALSE
  BY <1>1, <1>6, MovedType
<1>7. ASSUME proc' = proc PROVE FALSE
  BY <1>1, <1>7
<1>8. ASSUME NEW f, proc' = [u \in Threads |-> Crossed(proc[u], f)] PROVE FALSE
  BY <1>2, <1>8
<1>9. ASSUME NEW u \in Threads,
             \/ \E S \in (SUBSET Exts) \ {{}}, on \in BOOLEAN : SetEnabled(u, S, on)
             \/ \E e \in Exts : Enable(u, e) \/ Disable(u, e)
             \/ DisableAll(u) \/ Merge(u)
      PROVE  FALSE
  BY <1>3, <1>9 DEF SetEnabled, Enable, Disable, DisableAll, Merge, Request
<1>10. ASSUME NEW u \in Threads,
              \/ Load(u) \/ Truncate(u) \/ Fill(u) \/ FillFails(u) \/ Rename(u) \/ RenameFails(u)
       PROVE  FALSE
  <2>1. u # t
    BY <1>1, <1>10 DEF Load, Truncate, Fill, FillFails, Rename, RenameFails, At
  <2> QED BY <1>4, <1>5, <1>6, <1>10, <2>1
          DEF Load, Truncate, Fill, FillFails, Rename, RenameFails
<1>11. ASSUME NEW u \in Threads,
              \/ Mkdir(u) \/ Find(u) \/ EnableFails(u) \/ Unlink(u) \/ Link(u)
              \/ DropDir(u) \/ DropRaw(u) \/ DropEnds(u) \/ Done(u)
       PROVE  FALSE
  <2>1. u # t
    BY <1>1, <1>11 DEF Mkdir, Find, EnableFails, Unlink, Link, DropDir, DropRaw, DropEnds,
                       Done, At
  <2> QED BY <1>4, <1>5, <1>11, <2>1
          DEF Mkdir, Find, EnableFails, Unlink, Link, DropDir, DropRaw, DropEnds, Done
<1>12. ASSUME NEW u \in Threads, DropNext(u) PROVE FALSE
  BY <1>7, <1>12 DEF DropNext
<1>13. ASSUME NEW u \in Threads, Pick(u) PROVE Pick(t)
  BY <1>5, <1>13 DEF Pick
<1>14. ASSUME NEW r \in Runtimes, Activate(r) PROVE FALSE
  BY <1>8, <1>14 DEF Activate
<1>15. ASSUME NEW l \in Exts \X Forms, Provide(l) PROVE FALSE
  BY <1>8, <1>15 DEF Provide
<1>16. ASSUME Kill PROVE FALSE
  BY <1>16, IdleType DEF Kill
<1> QED BY <1>9, <1>10, <1>11, <1>12, <1>13, <1>14, <1>15, <1>16 DEF Next

\* A merge beside which no runtime is activated takes what it was told, for any
\* defaults and however the requests before it were interleaved.
THEOREM MergesAsTold == Spec => MergedAsTold
<1> DEFINE Step(t) == At(t, "pick") /\ proc[t].alone /\ proc'[t].at = "merged" =>
                        LET r == proc[t].of
                            Known == IF r = None THEN Exts ELSE DOMAIN Defaults[r]
                        IN \A e \in Known \ hitl : Obeys(r, e)
<1>1. ASSUME IInv, Next, NEW t \in Threads PROVE Step(t)
  <2> SUFFICES ASSUME At(t, "pick"), proc[t].alone, proc'[t].at = "merged" PROVE Step(t)
    OBVIOUS
  <2> DEFINE r == proc[t].of
  <2>1. Pick(t)
    BY <1>1, OnlyPick DEF IInv
  <2>2. r = active /\ active \in Runtimes \cup {None}
    BY <1>1 DEF IInv, TypeOK, Alone, Placed, FamilyOf, Apart, At
  <2>3. merged' = hitl \cup (IF r = None THEN Legacy ELSE Effective(r, Loaded(active)))
    BY <2>1 DEF Pick
  <2>4. CASE r = None
    <3>1. \A e \in Exts \ hitl : e \in merged' <=> e \in Legacy
      BY <2>3, <2>4
    <3>2. ASSUME NEW e \in Exts \ hitl PROVE Obeys(None, e)
      <4>1. Linked(e) /\ said[None][e] \in Words
        BY <1>1 DEF IInv, Reached, TypeOK
      <4>2. e \in Legacy <=> \E f \in Forms :
              IF links = None THEN <<e, f>> \in images
              ELSE <<e, f>> \in links /\ <<e, f>> \in images
        BY DEF Legacy, Exists
      <4> QED BY <3>1, <4>1, <4>2 DEF Linked, Obeys, Words
    <3> QED BY <2>4, <3>2
  <2>5. CASE r # None
    <3>1. r \in Runtimes /\ DOMAIN Defaults[r] \subseteq Exts
      BY <2>2, <2>5, DefaultsAssumption
    <3>2. \A e \in DOMAIN Defaults[r] \ hitl : e \in merged' <=>
            \/ Loaded(r)[e] = "on"
            \/ Loaded(r)[e] = "unset" /\ Defaults[r][e]
      BY <2>2, <2>3, <2>5 DEF Effective
    <3>3. ASSUME NEW e \in DOMAIN Defaults[r] \ hitl PROVE Obeys(r, e)
      <4>1. Told(r, e) /\ said[r][e] \in Words
        BY <1>1, <3>1 DEF IInv, Trusted, TypeOK
      <4>2. said[r][e] # "unsure" => Loaded(r) = overrides[r]
        BY <4>1 DEF Told, Loaded
      <4> QED BY <2>5, <3>2, <4>1, <4>2 DEF Told, Obeys, Words
    <3> QED BY <2>5, <3>3
  <2> QED BY <2>4, <2>5
<1>2. IInv /\ [Next]_vars => [\A t \in Threads : Step(t)]_vars
  BY <1>1
<1> QED BY <1>2, SelectionInvariant, PTL DEF Spec, MergedAsTold
=============================================================================
