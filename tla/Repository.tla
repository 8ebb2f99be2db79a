------------------------------ MODULE Repository -----------------------------
(***************************************************************************)
(* Update passes against an update repository (update.rs): the chain of    *)
(* signed metadata, the downloads with their resumption, and the           *)
(* installation of what they brought (staging.rs).                         *)
(*                                                                         *)
(*   newest    the newest release the server offers                        *)
(*   stream    stream_os_to_partition: images are downloaded straight into *)
(*             images/, and OS bundles not at all                          *)
(*   ranges    the server honours Range requests                           *)
(*   current   the running OS is the one the bundles hold                  *)
(*   pass      the pass that holds .update.lock: the step it is at, the    *)
(*             release its snapshot.json and targets.json are of, the      *)
(*             delegations left to fetch, the images its targets list, and *)
(*             which of targets.json and delegations list a manifest.json  *)
(*             that is still to be downloaded; the images left to do, the  *)
(*             one it downloads, and whether one was missing               *)
(*   body      the blocks of the response that are still to come, whether  *)
(*             they are the image's, and whether any has come              *)
(*   part      each .part file: its length, and whether it is a prefix of  *)
(*             the image. The empty file is as good as none                *)
(*   file      each image in .update-staging                               *)
(*   pool      each image in images/                                       *)
(*   fresh     the images copied into images/ that nothing has synced      *)
(*   manifest  the release of the manifest.json in .update-staging; a torn *)
(*             one is as good as none                                      *)
(*   staged    the releases that a pass has staged                         *)
(*                                                                         *)
(* An image is Blocks blocks long. What is not its content is not told     *)
(* apart: a hash tells it from the content, and a length from another      *)
(* length. Documents of releases outside 1..newest, and old ones, come     *)
(* from a server or a cache that is at fault.                              *)
(***************************************************************************)
EXTENDS Naturals, FiniteSets

CONSTANTS
  Newest,          \* releases are 1..Newest, and Strays that are never offered
  Strays,
  Images,
  Inline,          \* the images each release's targets.json lists itself
  Names,           \* of delegations
  DelegationsOf,   \* the delegations each release's targets.json names
  Delegated,       \* the images each of a release's delegations lists
  Manifested,      \* which of "targets" and the delegations list its manifest.json
  Bundle,          \* the release's OS bundle, one of its images, or NONE
  Roles,           \* of root.json
  Authorised,      \* the keys root.json gives each role, and how many must sign
  Threshold,
  SignedBy,        \* the keys of the signatures each document of a release carries
  ContentKeys,     \* the keys a release's targets.json names for each delegation,
  ContentThreshold,  \* and how many must sign
  Blocks,
  Modes, Servers, Systems,  \* values of stream, ranges and current to consider
  MaxFaults, MaxCrashes,
  NONE

Releases == 1..Newest \cup Strays

Lists == [r \in Releases |-> Inline[r] \cup UNION {Delegated[r][d] : d \in DelegationsOf[r]}]

ASSUME RepositoryAssumption ==
  /\ {Newest, MaxFaults, MaxCrashes} \subseteq Nat /\ Newest > 0
  /\ Blocks \in Nat \ {0}
  /\ Inline \in [Releases -> SUBSET Images]
  /\ DelegationsOf \in [Releases -> SUBSET Names]
  /\ Delegated \in [Releases -> [Names -> SUBSET Images]]
  /\ Manifested \in [Releases -> SUBSET ({"targets"} \cup Names)] /\ "targets" \notin Names
  /\ \A r \in Releases : Bundle[r] \in Lists[r] \cup {NONE}
  /\ Modes \cup Servers \cup Systems \subseteq BOOLEAN
  /\ NONE \notin Images /\ NONE \notin Releases
  /\ {"timestamp", "snapshot", "targets"} \subseteq Roles
  /\ Threshold \in [Roles -> Nat] /\ \A role \in Roles : IsFiniteSet(Authorised[role])
  /\ Strays \subseteq Nat

\* The keys that signed a document and have the role for it.
Signers(role, r) ==
  {SignedBy[r][role][n] : n \in DOMAIN SignedBy[r][role]} \cap Authorised[role]

\* The releases are signed as the trust anchor wants it, and the strays are not.
ASSUME SignersAssumption ==
  /\ \A r \in 1..Newest, role \in Roles : Cardinality(Signers(role, r)) >= Threshold[role]
  /\ \A r \in Strays, role \in Roles : Cardinality(Signers(role, r)) < Threshold[role]

VARIABLES newest, stream, ranges, current, pass, body, part, file, pool, fresh,
          manifest, staged, faults, crashes

offer  == <<newest, stream, ranges, current>>
device == <<part, file, pool, fresh, manifest, staged>>
counters == <<faults, crashes>>
vars == <<offer, pass, body, device, counters>>

Pcs == {"idle", "timestamp", "snapshot", "targets", "delegation", "manifest", "choose",
        "fetch", "ask", "fresh", "read", "decide", "install", "finish"}

Idle == [pc |-> "idle", snap |-> NONE, targ |-> NONE, roles |-> {}, listed |-> {},
         want |-> {}, todo |-> {}, image |-> NONE, missing |-> FALSE]

NoBody == [left |-> 0, clean |-> TRUE, any |-> FALSE]
NoPart == [len |-> 0, clean |-> TRUE]

Fault == faults < MaxFaults /\ faults' = faults + 1 /\ UNCHANGED crashes

Go(step) == pass' = [pass EXCEPT !.pc = step]

\* The pass ends with an error, and leaves what it has downloaded.
GiveUp == pass' = Idle /\ body' = NoBody

-----------------------------------------------------------------------------
(* The metadata chain *)

\* verify_signatures: it counts the signatures of keys that have the role. Keys
\* that are not in root.json sign nothing (extract_trusted_keys).
Trusted(role, r) ==
  LET signers == SignedBy[r][role] IN
  Cardinality({n \in DOMAIN signers : signers[n] \in Authorised[role]}) >= Threshold[role]

\* A delegation's file is the one whose hash snapshot.json has, and the keys and
\* their number are those of targets.json.
DelegationTrusted(d, r, snap, targ) ==
  LET signers == SignedBy[r][d] IN
  /\ d \in DelegationsOf[snap] /\ r = snap
  /\ Cardinality({n \in DOMAIN signers : signers[n] \in ContentKeys[targ][d]})
       >= ContentThreshold[targ][d]

\* What a server without fault has at a path of the repository.
Served(candidates) == CHOOSE r \in candidates : \A q \in candidates : q <= r

\* The document of release r arrives.
Arrives(r, candidates) ==
  /\ r \in candidates
  /\ IF r \in 1..newest /\ r = Served(candidates \cap 1..newest)
       THEN UNCHANGED counters ELSE r \notin newest+1..Newest /\ Fault

\* perform_update takes the lock and reads root.json. A second pass meanwhile is
\* refused, and changes nothing.
Begin ==
  /\ pass.pc = "idle" /\ newest > 0
  /\ Go("timestamp")
  /\ UNCHANGED <<offer, body, device, counters>>

\* timestamp.json has only to be signed: nothing is taken from it.
FetchTimestamp(r) ==
  /\ pass.pc = "timestamp" /\ Arrives(r, Releases)
  /\ IF Trusted("timestamp", r) THEN Go("snapshot") /\ UNCHANGED body ELSE GiveUp
  /\ UNCHANGED <<offer, device>>

FetchSnapshot(r) ==
  /\ pass.pc = "snapshot" /\ Arrives(r, Releases)
  /\ IF Trusted("snapshot", r)
       THEN pass' = [pass EXCEPT !.pc = "targets", !.snap = r] /\ UNCHANGED body
       ELSE GiveUp
  /\ UNCHANGED <<offer, device>>

\* What targets.json lists itself, and the delegations it names.
FetchTargets(r) ==
  /\ pass.pc = "targets" /\ Arrives(r, Releases)
  /\ IF Trusted("targets", r)
       THEN /\ pass' = [pass EXCEPT
                 !.pc = IF DelegationsOf[r] = {} THEN "manifest" ELSE "delegation",
                 !.targ = r, !.roles = DelegationsOf[r], !.listed = Inline[r],
                 !.want = Manifested[r] \cap {"targets"}]
            /\ UNCHANGED body
       ELSE GiveUp
  /\ UNCHANGED <<offer, device>>

\* The delegations are fetched one by one; one that lists nothing is only warned of.
FetchDelegation(d, r) ==
  /\ pass.pc = "delegation" /\ d \in pass.roles
  /\ Arrives(r, {q \in Releases : d \in DelegationsOf[q]})
  /\ IF DelegationTrusted(d, r, pass.snap, pass.targ)
       THEN /\ pass' = [pass EXCEPT
                 !.pc = IF pass.roles = {d} THEN "manifest" ELSE "delegation",
                 !.roles = @ \ {d}, !.listed = @ \cup Delegated[r][d],
                 !.want = @ \cup IF d \in Manifested[r] THEN {"delegation"} ELSE {}]
            /\ UNCHANGED body
       ELSE GiveUp
  /\ UNCHANGED <<offer, device>>

\* The manifest.json that is downloaded next: what targets.json lists itself comes
\* first, and what a delegation lists replaces it.
NextManifest ==
  IF "targets" \in pass.want THEN [by |-> "targets", of |-> pass.targ]
                             ELSE [by |-> "delegation", of |-> pass.snap]

\* Mutant: a manifest.json that is there already is not downloaded again.
FetchManifestOnce(r) ==
  /\ pass.pc = "manifest" /\ pass.want # {} /\ Arrives(r, Releases)
  /\ IF r = NextManifest.of
       THEN /\ manifest' = IF manifest = NONE THEN r ELSE manifest
            /\ pass' = [pass EXCEPT !.want = @ \ {NextManifest.by}] /\ UNCHANGED body
       ELSE GiveUp /\ UNCHANGED manifest
  /\ UNCHANGED <<offer, part, file, pool, fresh, staged>>

\* It is downloaded in memory and written when it has the hash.
FetchManifest(r) ==
  /\ pass.pc = "manifest" /\ pass.want # {} /\ Arrives(r, Releases)
  /\ IF r = NextManifest.of
       THEN /\ manifest' = r
            /\ pass' = [pass EXCEPT !.want = @ \ {NextManifest.by}] /\ UNCHANGED body
       ELSE GiveUp /\ UNCHANGED manifest
  /\ UNCHANGED <<offer, part, file, pool, fresh, staged>>

\* Passed over are the images on disk and, by the manifest.json that is there, the
\* bundle when the OS is current or the bundle is streamed. When nothing listed a
\* manifest.json, that is the one an earlier pass left, or none.
ReadManifest ==
  LET bundle == IF manifest # NONE /\ (stream \/ current) THEN {Bundle[manifest]} ELSE {} IN
  /\ pass.pc = "manifest" /\ pass.want = {}
  /\ pass' = [pass EXCEPT !.pc = "choose",
                !.todo = {i \in pass.listed : pool[i] = "absent"} \ bundle]
  /\ UNCHANGED <<offer, body, device, counters>>

-----------------------------------------------------------------------------
(* Downloads *)

\* Where an image is downloaded to: download_target.
Dest(i) == IF stream THEN pool[i] ELSE file[i]

PutDest(i, state) ==
  IF stream THEN pool' = [pool EXCEPT ![i] = state] /\ UNCHANGED file
            ELSE file' = [file EXCEPT ![i] = state] /\ UNCHANGED pool

SetPart(i, p) == part' = [part EXCEPT ![i] = p]

Done(i) == pass' = [pass EXCEPT !.pc = "choose", !.image = NONE, !.todo = @ \ {i}]

\* An image that is to be downloaded, and whose destination is not good already.
Wanted(i) ==
  /\ pass.pc = "choose" /\ i \in pass.todo /\ Dest(i) # "good"

AlreadyThere(i) ==
  /\ pass.pc = "choose" /\ i \in pass.todo /\ Dest(i) = "good"
  /\ Done(i)
  /\ UNCHANGED <<offer, body, device, counters>>

\* Mutant: a .part of the right length is not hashed.
CompletePartUnhashed(i) ==
  /\ Wanted(i) /\ part[i].len = Blocks
  /\ PutDest(i, IF part[i].clean THEN "good" ELSE "bad") /\ SetPart(i, NoPart)
  /\ Done(i)
  /\ UNCHANGED <<offer, body, fresh, manifest, staged, counters>>

\* The .part of an earlier attempt is the whole image. A destination with the
\* wrong content goes in any case.
CompletePart(i) ==
  /\ Wanted(i) /\ part[i] = [len |-> Blocks, clean |-> TRUE]
  /\ PutDest(i, "good") /\ SetPart(i, NoPart)
  /\ Done(i)
  /\ UNCHANGED <<offer, body, fresh, manifest, staged, counters>>

\* Mutant: a .part that is longer than the image is resumed.
StartOverFull(i) ==
  /\ Wanted(i) /\ part[i].len >= Blocks /\ part[i] # [len |-> Blocks, clean |-> TRUE]
  /\ PutDest(i, "absent")
  /\ SetPart(i, IF part[i].len = Blocks THEN NoPart ELSE part[i])
  /\ pass' = [pass EXCEPT !.pc = IF part[i].len = Blocks THEN "fresh" ELSE "ask", !.image = i]
  /\ UNCHANGED <<offer, body, fresh, manifest, staged, counters>>

\* A .part as long as the image with another hash, or a longer one, is removed.
StartOver(i) ==
  /\ Wanted(i)
  /\ part[i].len >= Blocks /\ part[i] # [len |-> Blocks, clean |-> TRUE]
  /\ PutDest(i, "absent") /\ SetPart(i, NoPart)
  /\ pass' = [pass EXCEPT !.pc = "fresh", !.image = i]
  /\ UNCHANGED <<offer, body, fresh, manifest, staged, counters>>

Resume(i) ==
  /\ Wanted(i) /\ part[i].len < Blocks
  /\ PutDest(i, "absent")
  /\ pass' = [pass EXCEPT !.pc = IF part[i].len > 0 THEN "ask" ELSE "fresh", !.image = i]
  /\ UNCHANGED <<offer, body, part, fresh, manifest, staged, counters>>

\* A response is there, with the blocks from one on: those of the image, or
\* whatever a server at fault sends.
Answer(from) ==
  \/ /\ body' = [left |-> Blocks - from, clean |-> TRUE, any |-> FALSE]
     /\ UNCHANGED counters
  \/ /\ Fault
     /\ \E n \in 0..Blocks + 1 - from, c \in BOOLEAN :
          body' = [left |-> n, clean |-> c, any |-> FALSE]

\* 206 from where the .part ends: append.
Resumed ==
  /\ pass.pc = "ask" /\ ranges
  /\ Answer(part[pass.image].len) /\ Go("read")
  /\ UNCHANGED <<offer, device>>

\* 200: the .part is replaced, now that all of it is on its way.
IgnoresRange ==
  /\ pass.pc = "ask" /\ ~ranges
  /\ Answer(0) /\ Go("read") /\ SetPart(pass.image, NoPart)
  /\ UNCHANGED <<offer, file, pool, fresh, manifest, staged>>

\* Mutant: the .part is truncated before there is a response.
AskAgainTruncated ==
  /\ pass.pc = "ask" /\ Fault /\ Go("fresh") /\ SetPart(pass.image, NoPart)
  /\ UNCHANGED <<offer, body, file, pool, fresh, manifest, staged>>

\* 416, or 206 from elsewhere: ask again without a range.
AskAgain ==
  /\ pass.pc = "ask" /\ Fault /\ Go("fresh")
  /\ UNCHANGED <<offer, body, device>>

AnsweredWhole ==
  /\ pass.pc = "fresh"
  /\ Answer(0) /\ Go("read") /\ SetPart(pass.image, NoPart)
  /\ UNCHANGED <<offer, file, pool, fresh, manifest, staged>>

\* A transport error or any other status ends the pass; the .part stays.
Refused ==
  /\ pass.pc \in {"timestamp", "snapshot", "targets", "delegation", "manifest", "ask", "fresh"}
  /\ pass.pc = "manifest" => pass.want # {}
  /\ Fault /\ GiveUp
  /\ UNCHANGED <<offer, device>>

Read ==
  LET p == part[pass.image] IN
  /\ pass.pc = "read" /\ body.left > 0
  /\ SetPart(pass.image, [len   |-> p.len + 1,
                          clean |-> p.clean /\ body.clean /\ p.len < Blocks])
  /\ body' = [body EXCEPT !.left = @ - 1, !.any = TRUE]
  /\ UNCHANGED <<offer, pass, file, pool, fresh, manifest, staged, counters>>

\* Mutant: an error throws the .part away.
BreaksAfresh ==
  /\ pass.pc = "read" /\ body.left > 0
  /\ IF body.any THEN UNCHANGED counters ELSE Fault
  /\ GiveUp /\ SetPart(pass.image, NoPart)
  /\ UNCHANGED <<offer, file, pool, fresh, manifest, staged>>

\* The connection breaks: it may do so time and again, as long as each brings
\* something.
Breaks ==
  /\ pass.pc = "read" /\ body.left > 0
  /\ IF body.any THEN UNCHANGED counters ELSE Fault
  /\ GiveUp
  /\ UNCHANGED <<offer, device>>

\* The body has ended. A short one is kept as a prefix; a longer one, and one with
\* another hash, is removed.
Verify ==
  LET i == pass.image IN
  /\ pass.pc = "read" /\ body.left = 0
  /\ body' = NoBody
  /\ IF part[i] = [len |-> Blocks, clean |-> TRUE]
       THEN PutDest(i, "good") /\ SetPart(i, NoPart) /\ Done(i)
       ELSE /\ SetPart(i, IF part[i].len < Blocks THEN part[i] ELSE NoPart)
            /\ pass' = Idle
            /\ UNCHANGED <<file, pool>>
  /\ UNCHANGED <<offer, fresh, manifest, staged, counters>>

-----------------------------------------------------------------------------
(* Installation *)

ClearStaging ==
  /\ file' = [i \in Images |-> "absent"] /\ manifest' = NONE
  /\ part' = IF stream THEN part ELSE [i \in Images |-> NoPart]

Downloaded == pass.pc = "choose" /\ pass.todo = {}

\* The pass had no manifest.json listed, and found none.
NoManifest ==
  /\ Downloaded /\ manifest = NONE
  /\ GiveUp
  /\ UNCHANGED <<offer, device, counters>>

\* is_already_current, when the runtime is the active one.
AlreadyCurrent ==
  /\ Downloaded /\ manifest \in staged
  /\ \A i \in Lists[manifest] \ {Bundle[manifest]} : pool[i] = "good"
  /\ Bundle[manifest] = NONE \/ current
  /\ ClearStaging /\ pass' = Idle
  /\ UNCHANGED <<offer, body, pool, fresh, staged, counters>>

\* Only a bundle the OS is already at is not installed.
Decide ==
  /\ Downloaded /\ manifest # NONE
  /\ pass' = [pass EXCEPT !.pc = "install",
                !.todo = Lists[manifest] \ IF current THEN {Bundle[manifest]} ELSE {}]
  /\ UNCHANGED <<offer, body, device, counters>>

Install(i) ==
  /\ pass.pc = "install" /\ i \in pass.todo
  /\ CASE pool[i] = "good" ->
            pass' = [pass EXCEPT !.todo = @ \ {i}] /\ UNCHANGED <<pool, fresh>>
       [] pool[i] = "bad" ->
            pass' = Idle /\ UNCHANGED <<pool, fresh>>
       [] pool[i] = "absent" /\ file[i] # "absent" ->
            /\ pool' = [pool EXCEPT ![i] = file[i]] /\ fresh' = fresh \cup {i}
            /\ pass' = IF file[i] = "good" THEN [pass EXCEPT !.todo = @ \ {i}] ELSE Idle
       [] OTHER ->
            pass' = [pass EXCEPT !.todo = @ \ {i}, !.missing = TRUE] /\ UNCHANGED <<pool, fresh>>
  /\ UNCHANGED <<offer, body, part, file, manifest, staged, counters>>

\* The copy into the pool fails half-way.
CopyFails(i) ==
  /\ pass.pc = "install" /\ i \in pass.todo
  /\ pool[i] = "absent" /\ file[i] # "absent"
  /\ Fault /\ GiveUp
  /\ pool' = [pool EXCEPT ![i] = "bad"] /\ fresh' = fresh \cup {i}
  /\ UNCHANGED <<offer, part, file, manifest, staged>>

\* The runtime is staged, and finish_update succeeds or has its directory removed.
Finish ==
  /\ pass.pc = "install" /\ pass.todo = {}
  /\ pass' = Idle
  /\ IF pass.missing
       THEN UNCHANGED <<part, file, manifest, staged, counters>>
       ELSE /\ ClearStaging
            /\ \/ staged' = staged \cup {manifest} /\ UNCHANGED counters
               \/ staged' = staged \ {manifest} /\ Fault
  /\ UNCHANGED <<offer, body, pool, fresh>>

-----------------------------------------------------------------------------
(* The world *)

Publish ==
  /\ newest < Newest /\ newest' = newest + 1
  /\ UNCHANGED <<stream, ranges, current, pass, body, device, counters>>

\* A .part that was not synced comes back short, or with blocks that are not its own.
Torn(p) ==
  {p} \cup {q \in [len : 0..p.len, clean : {p.clean, FALSE}] : q.len = 0 => q.clean}

Crash ==
  /\ crashes < MaxCrashes /\ crashes' = crashes + 1
  /\ GiveUp
  /\ \E torn \in [{i \in Images : part[i].len > 0} -> UNION {Torn(part[i]) : i \in Images}] :
       /\ \A i \in DOMAIN torn : torn[i] \in Torn(part[i])
       /\ part' = [i \in Images |-> IF i \in DOMAIN torn THEN torn[i] ELSE part[i]]
  /\ \E lost \in SUBSET fresh :
       pool' = [i \in Images |-> IF i \in lost THEN "bad" ELSE pool[i]]
  /\ fresh' = {}
  /\ manifest' \in {manifest, NONE}
  /\ UNCHANGED <<offer, file, staged, faults>>

Init ==
  /\ newest = 1
  /\ stream \in Modes /\ ranges \in Servers /\ current \in Systems
  /\ pass = Idle /\ body = NoBody
  /\ part = [i \in Images |-> NoPart]
  /\ file = [i \in Images |-> "absent"] /\ pool = [i \in Images |-> "absent"]
  /\ fresh = {} /\ manifest = NONE /\ staged = {}
  /\ faults = 0 /\ crashes = 0

Metadata ==
  \/ \E r \in Releases :
       \/ FetchTimestamp(r) \/ FetchSnapshot(r) \/ FetchTargets(r) \/ FetchManifest(r)
       \/ \E d \in Names : FetchDelegation(d, r)
  \/ ReadManifest

Download ==
  \/ \E i \in Images : AlreadyThere(i) \/ CompletePart(i) \/ StartOver(i) \/ Resume(i)
  \/ Resumed \/ IgnoresRange \/ AskAgain \/ AnsweredWhole \/ Read \/ Verify

Installation ==
  NoManifest \/ AlreadyCurrent \/ Decide \/ Finish \/ (\E i \in Images : Install(i))

Disturbance == Refused \/ Breaks \/ Crash \/ (\E i \in Images : CopyFails(i))

Step == Begin \/ Metadata \/ Download \/ Installation

Next == Step \/ Publish \/ Disturbance

Spec == Init /\ [][Next]_vars

\* The agent nudges for a pass again and again, and a pass that has begun goes on.
FairSpec == Spec /\ WF_vars(Step)

-----------------------------------------------------------------------------
(* Properties *)

\* Every step of a pass knows what it relies on.
TypeOK ==
  /\ newest \in 1..Newest /\ {stream, ranges, current} \subseteq BOOLEAN
  /\ pass \in [pc : Pcs, snap : Releases \cup {NONE}, targ : Releases \cup {NONE},
               roles : SUBSET Names, listed : SUBSET Images,
               want : SUBSET {"targets", "delegation"},
               todo : SUBSET Images, image : Images \cup {NONE}, missing : BOOLEAN]
  /\ body \in [left : 0..Blocks + 1, clean : BOOLEAN, any : BOOLEAN]
  /\ part \in [Images -> [len : 0..Blocks + 1, clean : BOOLEAN]]
  /\ {file, pool} \subseteq [Images -> {"absent", "good", "bad"}]
  /\ fresh \subseteq Images
  /\ manifest \in Releases \cup {NONE} /\ staged \subseteq Releases
  /\ faults \in 0..MaxFaults /\ crashes \in 0..MaxCrashes

\* Whatever the server, its caches and the connection do, and wherever a pass is
\* cut off, an image at its destination is the one a vouched release lists, and a
\* release is staged only when all it needs is whole (perform_update,
\* download_target_streaming, install_images_from_staging).
Promised == INSTANCE Delivery WITH
  Vouched <- 1..Newest,
  Needs   <- [r \in Releases |-> Lists[r] \ {Bundle[r]}],
  offered <- 1..newest,
  fetched <- [i \in Images |-> Dest(i)],
  whole   <- {i \in Images : pool[i] = "good"}

Delivers == Promised!Spec

\* What is a prefix of the image already is lost to a crash, to a response that
\* replaces it, or with .update-staging once a pass has staged its release or failed
\* to finish it, but never to an error of a download: "the difference between
\* converging and starting over on every 503" (update.rs:852-859).
PrefixKept ==
  [][\A i \in Images :
       part[i].clean /\ part'[i].len < part[i].len
         => \/ crashes' > crashes \/ (pass.pc # "read" /\ pass'.pc = "read")
            \/ Dest(i)' = "good" \/ (manifest # NONE /\ manifest' = NONE)]_vars

\* The release whose manifest.json the verified documents of the pass list last.
Delegates == DelegationsOf[pass.targ] \cap Manifested[pass.snap] # {}

Named ==
  IF Delegates THEN pass.snap
  ELSE IF "targets" \in Manifested[pass.targ] THEN pass.targ ELSE NONE

\* A pass stages the release whose manifest.json its verified targets list, by a
\* delegation rather than by targets.json, and not the one an earlier pass left in
\* .update-staging. Only when its targets list none does it stage what was left
\* (update.rs:361), and that was verified by the pass that left it (Delivers).
StagesWhatItVerified ==
  [][\A r \in staged' \ staged : r = IF Named # NONE THEN Named ELSE manifest]_vars

\* An image that was torn in the pool, for nothing synced it or its copy failed, is
\* passed over by the download and refused by the installation (staging.rs:408).
Stuck == \E i \in Lists[newest] : pool[i] = "bad"

\* The bundle a device in streaming mode does not download, and whose absence the
\* installation then refuses all the same (staging.rs:472-500).
Streamed == stream /\ ~current /\ Bundle[newest] # NONE

\* However often the connection breaks, as long as each brings something and the
\* server honours ranges, the newest release is staged in the end.
Converges == ranges => <>[](newest \in staged \/ Stuck \/ Streamed)
=============================================================================
