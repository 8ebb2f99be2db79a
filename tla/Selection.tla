------------------------------ MODULE Selection ------------------------------
(* Which extensions a merge takes.                                           *)
(*                                                                           *)
(* On a device with an active runtime the manifest lists the extensions with *)
(* their build-time default and overrides.json beside it holds the choices   *)
(* of the user (src/overrides.rs); on one without, the symbolic links under  *)
(* os-releases/<VERSION_ID> decide, and while that directory does not exist  *)
(* everything installed is taken.  Requests run as threads of one daemon.    *)
EXTENDS Naturals, FiniteSets

CONSTANTS Exts, Runtimes, Threads,
          None,          \* no runtime, no file, no directory
          Torn,          \* a file that does not parse
          Defaults,      \* per runtime: its extensions with `enabled`
          MaxChanges     \* bound: requests, activations and installations

ASSUME DefaultsAssumption ==
  \A r \in Runtimes : \E S \in SUBSET Exts : Defaults[r] \in [S -> BOOLEAN]

VARIABLES
  active,    \* the runtime the active link names
  overrides, \* per runtime: overrides.json
  tmp,       \* per runtime: overrides.json.tmp
  hitl,      \* the extensions mounted from a developer's machine
  images,    \* the extensions directory: extension and form
  links,     \* os-releases/<VERSION_ID>: None, or its links
  merged,    \* what the scan of a merge took, until it is mounted
  proc,      \* the request each thread serves
  said,      \* history: the last word of a request on each extension
  made       \* the number of changes so far

vars == <<active, overrides, tmp, hitl, images, links, merged, proc, said, made>>

Forms == {"dir", "raw"}
Words == {"default", "on", "off", "unsure"}
Overrides == [Exts -> {"unset", "on", "off"}]
NoOverride == [e \in Exts |-> "unset"]
Ats == {"idle", "load", "write", "fill", "rename", "mkdir", "find", "unlink", "link",
        "dir", "raw", "all", "pick", "merged"}
Families == {"none", "override", "legacy", "merge"}

Proc == [at : Ats, family : Families, names : SUBSET Exts, on : BOOLEAN,
         of : Runtimes \cup {None},    \* the manifest it has loaded
         ov : Overrides,               \* the overrides it will save
         dir : Runtimes \cup {None},   \* where it opened overrides.json.tmp
         inode : {"none", "tmp", "file", "gone"},  \* what that has become
         form : Forms,                 \* what an enable found to link
         found : BOOLEAN,              \* a disable removed a link
         alone : BOOLEAN]              \* history: nothing has crossed it

Idle == [at |-> "idle", family |-> "none", names |-> {}, on |-> FALSE,
         of |-> None, ov |-> NoOverride, dir |-> None, inode |-> "none",
         form |-> "raw", found |-> FALSE, alone |-> TRUE]

Files == Overrides \cup {Torn}
Links == SUBSET (Exts \X Forms)

ASSUME BoundAssumption == MaxChanges \in Nat
ASSUME NamesAssumption ==
  None \notin Runtimes /\ (\A S \in Links : None # S) /\ Torn \notin Overrides

-----------------------------------------------------------------------------
(* Overrides *)

\* A file that is missing or does not parse is no override at all.
Loaded(r) == IF overrides[r] = Torn THEN NoOverride ELSE overrides[r]

\* The default of an extension the manifest does not list is TRUE.
Default(r, e) == IF e \in DOMAIN Defaults[r] THEN Defaults[r][e] ELSE TRUE

Word(on) == IF on THEN "on" ELSE "off"

\* Mutant: what equals the default is left as it is instead of being cleared.
ChangedKept(r, ov, names, on) ==
  [e \in Exts |-> IF e \notin names \/ Default(r, e) = on THEN ov[e] ELSE Word(on)]

\* A choice that equals the default clears the entry.
Changed(r, ov, names, on) ==
  [e \in Exts |-> IF e \notin names THEN ov[e]
                  ELSE IF Default(r, e) = on THEN "unset" ELSE Word(on)]

Effective(r, ov) ==
  {e \in DOMAIN Defaults[r] : ov[e] = "on" \/ (ov[e] = "unset" /\ Defaults[r][e])}

-----------------------------------------------------------------------------
(* Requests: what crosses what is only recorded for the properties *)

\* A request of family f deprives one of family g of its certainty.
Spoils(f, g) == \/ f = g /\ f \in {"override", "legacy"}
                \/ f = "legacy" /\ g = "merge"
                \/ f = "activation" /\ g \in {"override", "merge"}

Crossed(p, f) == [p EXCEPT !.alone = @ /\ ~Spoils(f, p.family)]

Start(t, p) ==
  /\ proc[t].at = "idle"
  /\ proc' = [u \in Threads |->
       IF u = t
       THEN [p EXCEPT !.alone = ~\E v \in Threads : Spoils(proc[v].family, p.family)]
       ELSE Crossed(proc[u], p.family)]

Counted == made < MaxChanges /\ made' = made + 1

Request(t, p) == Start(t, p) /\ Counted

Go(t, p) == proc' = [proc EXCEPT ![t] = p]
At(t, a) == proc[t].at = a
To(t, a) == Go(t, [proc[t] EXCEPT !.at = a])

\* The word of t on the extensions of S at place r.
Says(t, r, S, w) ==
  said' = [said EXCEPT ![r] = [e \in Exts |->
             IF ~proc[t].alone THEN "unsure" ELSE IF e \in S THEN w ELSE @[e]]]

-----------------------------------------------------------------------------
(* set_extensions_enabled *)

\* Without an active runtime the request is an error.
SetEnabled(t, names, on) ==
  /\ active # None
  /\ Request(t, [Idle EXCEPT !.at = "load", !.family = "override",
                             !.names = names, !.on = on, !.of = active])
  /\ UNCHANGED <<active, overrides, tmp, hitl, images, links, merged, said>>

\* The overrides are read through the active link, after the manifest.
Load(t) ==
  /\ At(t, "load")
  /\ Go(t, [proc[t] EXCEPT !.at = "write", !.ov =
       Changed(proc[t].of, Loaded(active), proc[t].names, proc[t].on)])
  /\ UNCHANGED <<active, overrides, tmp, hitl, images, links, merged, said, made>>

\* Mutant: the file is written in place.
TruncateInPlace(t) ==
  /\ At(t, "write")
  /\ overrides' = [overrides EXCEPT ![active] = Torn]
  /\ Go(t, [proc[t] EXCEPT !.at = "fill", !.dir = active, !.inode = "file"])
  /\ UNCHANGED <<active, tmp, hitl, images, links, merged, said, made>>

\* Opening the temporary file empties it, whoever else has it open.
Truncate(t) ==
  /\ At(t, "write")
  /\ tmp' = [tmp EXCEPT ![active] = Torn]
  /\ Go(t, [proc[t] EXCEPT !.at = "fill", !.dir = active, !.inode = "tmp"])
  /\ UNCHANGED <<active, overrides, hitl, images, links, merged, said, made>>

\* Over the content of another writer, a shorter text leaves the tail of it.
Fill(t) ==
  LET p == proc[t]
      Written(old) == IF old = Torn THEN {p.ov, Torn} \ (IF p.alone THEN {Torn} ELSE {})
                      ELSE {p.ov, Torn}
  IN /\ At(t, "fill")
     /\ \/ /\ p.inode = "tmp"
           /\ \E c \in Written(tmp[p.dir]) : tmp' = [tmp EXCEPT ![p.dir] = c]
           /\ UNCHANGED <<overrides, said>>
        \/ /\ p.inode = "file"
           /\ \E c \in Written(overrides[p.dir]) :
                overrides' = [overrides EXCEPT ![p.dir] = c]
           /\ Says(t, p.dir, {}, "unsure")
           /\ UNCHANGED tmp
        \/ p.inode = "gone" /\ UNCHANGED <<overrides, tmp, said>>
     /\ To(t, "rename")
     /\ UNCHANGED <<active, hitl, images, links, merged, made>>

\* The disk is full: what was opened stays empty.
FillFails(t) ==
  /\ At(t, "fill")
  /\ Go(t, Idle)
  /\ UNCHANGED <<active, overrides, tmp, hitl, images, links, merged, said, made>>

\* The rename replaces the file; another writer's descriptor follows its inode.
Moved(t) ==
  proc' = [u \in Threads |->
    IF u = t THEN Idle
    ELSE CASE proc[u].dir = active /\ proc[u].inode = "tmp"  -> [proc[u] EXCEPT !.inode = "file"]
           [] proc[u].dir = active /\ proc[u].inode = "file" -> [proc[u] EXCEPT !.inode = "gone"]
           [] OTHER -> proc[u]]

\* Mutant: a rename that does not fail when the temporary file is gone.
RenameBlind(t) ==
  /\ At(t, "rename")
  /\ overrides' = [overrides EXCEPT ![active] = tmp[active]]
  /\ tmp' = [tmp EXCEPT ![active] = None]
  /\ Moved(t)
  /\ Says(t, active, proc[t].names, Word(proc[t].on))
  /\ UNCHANGED <<active, hitl, images, links, merged, made>>

Rename(t) ==
  /\ At(t, "rename")
  /\ tmp[active] # None
  /\ overrides' = [overrides EXCEPT ![active] = tmp[active]]
  /\ tmp' = [tmp EXCEPT ![active] = None]
  /\ Moved(t)
  /\ Says(t, active, proc[t].names, Word(proc[t].on))
  /\ UNCHANGED <<active, hitl, images, links, merged, made>>

\* Another request has renamed the file, or the runtime is another one now.
RenameFails(t) ==
  /\ At(t, "rename")
  /\ tmp[active] = None
  /\ Go(t, Idle)
  /\ UNCHANGED <<active, overrides, tmp, hitl, images, links, merged, said, made>>

-----------------------------------------------------------------------------
(* enable_extensions and disable_extensions: the links *)

\* A directory is taken before an image file.
Form(e) == IF <<e, "dir">> \in images THEN "dir" ELSE "raw"

\* Path::exists follows a link: one whose image is gone does not exist.
Exists(l) == links # None /\ l \in links /\ l \in images

Enable(t, e) ==
  /\ Request(t, [Idle EXCEPT !.at = "mkdir", !.family = "legacy", !.names = {e}, !.on = TRUE])
  /\ UNCHANGED <<active, overrides, tmp, hitl, images, links, merged, said>>

\* The first enable creates the directory; from then on only links count.
Mkdir(t) ==
  /\ At(t, "mkdir")
  /\ links' = IF links = None THEN {} ELSE links
  /\ To(t, "find")
  /\ UNCHANGED <<active, overrides, tmp, hitl, images, merged, said, made>>

\* What is to be linked is looked for once.
Find(t) ==
  /\ At(t, "find")
  /\ \E e \in proc[t].names :
       <<e, Form(e)>> \in images /\ Go(t, [proc[t] EXCEPT !.at = "unlink", !.form = Form(e)])
  /\ UNCHANGED <<active, overrides, tmp, hitl, images, links, merged, said, made>>

\* Nothing of that name is installed, or the link to be made is already there.
EnableFails(t) ==
  /\ \/ At(t, "find") /\ \E e \in proc[t].names : <<e, Form(e)>> \notin images
     \/ At(t, "link") /\ \E e \in proc[t].names : <<e, proc[t].form>> \in links
  /\ Go(t, Idle)
  /\ UNCHANGED <<active, overrides, tmp, hitl, images, links, merged, said, made>>

\* A link that is there is removed before it is made again.
Unlink(t) ==
  /\ At(t, "unlink")
  /\ \E e \in proc[t].names :
       /\ links' = links \ {l \in {<<e, proc[t].form>>} : Exists(l)}
       /\ IF links' = links THEN UNCHANGED said
          ELSE Says(t, None, {e}, "unsure")
  /\ To(t, "link")
  /\ UNCHANGED <<active, overrides, tmp, hitl, images, merged, made>>

Link(t) ==
  /\ At(t, "link")
  /\ \E e \in proc[t].names :
       LET l == <<e, proc[t].form>> IN
       /\ l \notin links /\ links' = links \cup {l}
       /\ Says(t, None, {e}, IF l \in images THEN "on" ELSE "unsure")
  /\ Go(t, Idle)
  /\ UNCHANGED <<active, overrides, tmp, hitl, images, merged, made>>

\* Without the directory a disable is an error.
Disable(t, e) ==
  /\ links # None
  /\ Request(t, [Idle EXCEPT !.at = "dir", !.family = "legacy", !.names = {e}])
  /\ UNCHANGED <<active, overrides, tmp, hitl, images, links, merged, said>>

DropDir(t) ==
  /\ At(t, "dir")
  /\ \E e \in proc[t].names :
       /\ links' = IF Exists(<<e, "dir">>) THEN links \ {<<e, "dir">>} ELSE links
       /\ IF links' = links THEN UNCHANGED said
          ELSE Says(t, None, {e}, "unsure")
  /\ Go(t, [proc[t] EXCEPT !.at = "raw", !.found = links' # links])
  /\ UNCHANGED <<active, overrides, tmp, hitl, images, merged, made>>

\* Nothing removed is a failure: the extension "is not enabled".
DropRaw(t) ==
  /\ At(t, "raw")
  /\ \E e \in proc[t].names :
       /\ links' = IF Exists(<<e, "raw">>) THEN links \ {<<e, "raw">>} ELSE links
       /\ IF links' = links /\ ~proc[t].found THEN UNCHANGED said
          ELSE Says(t, None, {e},
                    IF \E f \in Forms : <<e, f>> \in links' THEN "unsure" ELSE "off")
  /\ Go(t, Idle)
  /\ UNCHANGED <<active, overrides, tmp, hitl, images, merged, made>>

\* --all removes whatever is a link, one after another, without following it.
DisableAll(t) ==
  /\ links # None
  /\ Request(t, [Idle EXCEPT !.at = "all", !.family = "legacy"])
  /\ UNCHANGED <<active, overrides, tmp, hitl, images, links, merged, said>>

DropNext(t) ==
  /\ At(t, "all")
  /\ \E l \in links :
       links' = links \ {l} /\ Says(t, None, {l[1]}, "unsure")
  /\ UNCHANGED <<active, overrides, tmp, hitl, images, merged, proc, made>>

DropEnds(t) ==
  /\ At(t, "all")
  /\ links = {}
  /\ Says(t, None, Exts, "off")
  /\ Go(t, Idle)
  /\ UNCHANGED <<active, overrides, tmp, hitl, images, links, merged, made>>

-----------------------------------------------------------------------------
(* The scan of a merge *)

\* The manifest is loaded through the active link.
Merge(t) ==
  /\ Start(t, [Idle EXCEPT !.at = "pick", !.family = "merge", !.of = active])
  /\ UNCHANGED <<active, overrides, tmp, hitl, images, links, merged, said, made>>

\* A mounted extension is taken whatever the manifest or the links say.
Legacy == {e \in Exts : \E f \in Forms :
             IF links = None THEN <<e, f>> \in images ELSE Exists(<<e, f>>)}

\* The overrides are read through the active link again.
Pick(t) ==
  /\ At(t, "pick")
  /\ merged' = hitl \cup (IF proc[t].of = None THEN Legacy
                          ELSE Effective(proc[t].of, Loaded(active)))
  /\ To(t, "merged")
  /\ UNCHANGED <<active, overrides, tmp, hitl, images, links, said, made>>

Done(t) ==
  /\ At(t, "merged")
  /\ merged' = {}
  /\ Go(t, Idle)
  /\ UNCHANGED <<active, overrides, tmp, hitl, images, links, said, made>>

-----------------------------------------------------------------------------
(* The surroundings *)

Activate(r) ==
  /\ r # active
  /\ Counted
  /\ active' = r
  /\ proc' = [u \in Threads |-> Crossed(proc[u], "activation")]
  /\ UNCHANGED <<overrides, tmp, hitl, images, links, merged, said>>

\* An image appears in the extensions directory or goes; a link to it dangles.
Provide(l) ==
  /\ Counted
  /\ images' = IF l \in images THEN images \ {l} ELSE images \cup {l}
  /\ said' = IF links # None /\ l \in links
             THEN [said EXCEPT ![None][l[1]] = "unsure"] ELSE said
  /\ proc' = [u \in Threads |-> Crossed(proc[u], "legacy")]
  /\ UNCHANGED <<active, overrides, tmp, hitl, links, merged>>

\* The daemon is killed: every thread ends where it is.
Kill ==
  /\ proc' = [t \in Threads |-> Idle]
  /\ UNCHANGED <<active, overrides, tmp, hitl, images, links, merged, said, made>>

Init ==
  /\ active \in Runtimes \cup {None}
  /\ overrides = [r \in Runtimes |-> NoOverride]
  /\ tmp = [r \in Runtimes |-> None]
  /\ hitl \in {S \in SUBSET Exts : Cardinality(S) <= 1}
  /\ images = Exts \X {"raw"}
  /\ links = None
  /\ merged = {}
  /\ proc = [t \in Threads |-> Idle]
  /\ said = [p \in Runtimes \cup {None} |-> [e \in Exts |-> "default"]]
  /\ made = 0

Next ==
  \/ \E t \in Threads :
       \/ \E names \in (SUBSET Exts) \ {{}}, on \in BOOLEAN : SetEnabled(t, names, on)
       \/ Load(t) \/ Truncate(t) \/ Fill(t) \/ FillFails(t) \/ Rename(t) \/ RenameFails(t)
       \/ \E e \in Exts : Enable(t, e) \/ Disable(t, e)
       \/ Mkdir(t) \/ Find(t) \/ EnableFails(t) \/ Unlink(t) \/ Link(t)
       \/ DropDir(t) \/ DropRaw(t) \/ DisableAll(t) \/ DropNext(t) \/ DropEnds(t)
       \/ Merge(t) \/ Pick(t) \/ Done(t)
  \/ \E r \in Runtimes : Activate(r)
  \/ \E l \in Exts \X Forms : Provide(l)
  \/ Kill

Spec == Init /\ [][Next]_vars

-----------------------------------------------------------------------------
(* Properties *)

\* Every variable keeps its type: overrides.json is replaced, never removed,
\* and its temporary file may be absent, empty or whole.
TypeOK ==
  /\ active \in Runtimes \cup {None}
  /\ overrides \in [Runtimes -> Files]
  /\ tmp \in [Runtimes -> Files \cup {None}]
  /\ hitl \subseteq Exts /\ merged \subseteq Exts
  /\ images \in Links /\ links \in Links \cup {None}
  /\ proc \in [Threads -> Proc]
  /\ said \in [Runtimes \cup {None} -> [Exts -> Words]]
  /\ made \in 0 .. MaxChanges

\* overrides.json is whole, through kills, full disks and abandoned temporary
\* files, until two requests or a request and an activation have crossed
\* (RuntimeOverrides::save: write beside, rename).
OverridesWhole ==
  \A r \in Runtimes : overrides[r] = Torn => \A e \in Exts : said[r][e] = "unsure"

\* A merge takes what the last word of a request or else the default says of
\* each extension, whatever runs beside it except an activation or a change of
\* the links (scan_extensions_from_all_sources_with_verbosity, effective_enabled).
Obeys(r, e) ==
  CASE said[r][e] = "unsure" -> TRUE
    [] said[r][e] = "on"     -> e \in merged'
    [] said[r][e] = "off"    -> e \notin merged'
    [] OTHER -> e \in merged' <=>
                  IF r # None THEN Defaults[r][e]
                  ELSE links = None /\ \E f \in Forms : <<e, f>> \in images

MergedAsTold ==
  [][\A t \in Threads :
       At(t, "pick") /\ proc[t].alone /\ proc'[t].at = "merged" =>
         LET r == proc[t].of
             Known == IF r = None THEN Exts ELSE DOMAIN Defaults[r]
         IN \A e \in Known \ hitl : Obeys(r, e)]_vars
=============================================================================
