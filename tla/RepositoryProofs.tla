--------------------------- MODULE RepositoryProofs --------------------------
(***************************************************************************)
(* What holds of Repository for any releases, images and block counts and  *)
(* any number of passes, faults and crashes: the types; that a pass stages *)
(* what its metadata list; that no error costs what was downloaded; and, where   *)
(* no role needs more than one signature, that it implements Delivery. A   *)
(* threshold of two is excluded, since verify_signatures counts two        *)
(* signatures by one key twice.                                            *)
(***************************************************************************)
EXTENDS Repository, FiniteSetTheorems, TLAPS

Single == \A role \in Roles : Threshold[role] <= 1

Downloading == {"choose", "ask", "fresh", "read"}

Verified == {"delegation", "manifest", "install"} \cup Downloading

\* What the pass has found in the delegations it has fetched.
Found ==
  /\ pass.roles \subseteq DelegationsOf[pass.targ]
  /\ "delegation" \in pass.want
       <=> (DelegationsOf[pass.targ] \ pass.roles) \cap Manifested[pass.snap] # {}
  /\ "targets" \in pass.want <=> "targets" \in Manifested[pass.targ]

\* The manifest.json that counts is at hand, or is still to be downloaded.
Due ==
  /\ Delegates => "delegation" \in pass.want \/ (pass.want = {} /\ manifest = pass.snap)
  /\ ~Delegates => /\ "delegation" \notin pass.want
                   /\ "targets" \in Manifested[pass.targ]
                        => "targets" \in pass.want \/ manifest = pass.targ

\* A pass knows its releases once it has their metadata, and the manifest at hand is
\* the one they list, where they list one, from the download on.
Knows ==
  /\ pass.pc \in Verified => pass.targ # NONE /\ pass.snap # NONE
  /\ pass.pc = "targets" => pass.snap # NONE
  /\ pass.pc = "delegation" => Found
  /\ pass.pc = "manifest" => Due
  /\ pass.pc \in {"install"} \cup Downloading => Named \in {NONE, manifest}
  /\ pass.pc = "install" => manifest # NONE

\* What trusted documents name is offered, and the images that are listed are those
\* of releases that are.
Vouching ==
  Single =>
    /\ {pass.snap, pass.targ, manifest} \subseteq (1..newest) \cup {NONE}
    /\ \A i \in pass.listed : \E r \in 1..newest : i \in Lists[r]

\* What a pass relies on at its steps.
Working ==
  /\ pass.pc \in Downloading => pass.todo \subseteq pass.listed
  /\ pass.pc \in {"ask", "fresh", "read"} => pass.image \in pass.todo
  /\ pass.pc = "ask" => part[pass.image].len < Blocks
  /\ pass.pc = "read" => part[pass.image].len + body.left <= Blocks + 1
  /\ pass.pc = "install" =>
       \A i \in Lists[manifest] \ {Bundle[manifest]} :
         i \in pass.todo \/ pool[i] = "good" \/ pass.missing

\* No image with another content is where downloads go.
Clean ==
  /\ \A i \in Images : file[i] # "bad"
  /\ stream => /\ fresh = {}
               /\ \A i \in Images : file[i] = "absent" /\ pool[i] # "bad"

IInv == TypeOK /\ Knows /\ Vouching /\ Working /\ Clean

PassType == [pc : Pcs, snap : Releases \cup {NONE}, targ : Releases \cup {NONE},
             roles : SUBSET Names, listed : SUBSET Images,
             want : SUBSET {"targets", "delegation"},
             todo : SUBSET Images, image : Images \cup {NONE}, missing : BOOLEAN]

-----------------------------------------------------------------------------
\* What lists its images itself or by a delegation lists images.
LEMMA ListsType == Lists \in [Releases -> SUBSET Images]
  BY RepositoryAssumption DEF Lists

\* The idle record and the empty body have their types.
LEMMA IdleType ==
  /\ Idle \in PassType
  /\ NoBody \in [left : 0..Blocks + 1, clean : BOOLEAN, any : BOOLEAN]
  /\ NoPart \in [len : 0..Blocks + 1, clean : BOOLEAN]
  BY RepositoryAssumption DEF Idle, NoBody, NoPart, PassType, Pcs

\* Where one signature is enough, what is trusted is vouched for.
LEMMA TrustedVouched ==
  ASSUME Single, NEW role \in Roles, NEW r \in Releases, Trusted(role, r)
  PROVE  r \in 1..Newest
<1> DEFINE signers == SignedBy[r][role]
           I == {n \in DOMAIN signers : signers[n] \in Authorised[role]}
<1> SUFFICES ASSUME r \in Strays PROVE FALSE
  BY DEF Releases
<1>2. IsFiniteSet(Signers(role, r))
  BY RepositoryAssumption, FS_Subset DEF Signers
<1>3. Threshold[role] \in Nat /\ Threshold[role] <= 1 /\ Cardinality(Signers(role, r)) < Threshold[role]
  BY RepositoryAssumption, SignersAssumption DEF Single
<1>4. Cardinality(Signers(role, r)) = 0 /\ Threshold[role] = 1
  BY <1>2, <1>3, FS_CardinalityType
<1>5. Signers(role, r) = {}
  BY <1>2, <1>4, FS_EmptySet
<1>6. Cardinality(I) >= 1
  BY <1>4 DEF Trusted
<1>7. PICK n \in I : TRUE
  BY <1>6, FS_EmptySet
<1>8. signers[n] \in Signers(role, r)
  BY <1>7 DEF Signers
<1> QED BY <1>5, <1>8

\* A document that is trusted came from the server as it is now, or as it was.
LEMMA Offered ==
  ASSUME TypeOK, Single, NEW role \in Roles, NEW r \in Releases, Trusted(role, r),
         NEW c, Arrives(r, c)
  PROVE  r \in 1..newest
<1>1. r \in 1..Newest
  BY TrustedVouched
<1> QED BY <1>1, RepositoryAssumption DEF Arrives, TypeOK

\* Whatever arrives, only a fault is counted.
LEMMA ArrivesType ==
  ASSUME TypeOK, NEW r, NEW c, Arrives(r, c)
  PROVE  faults' \in 0..MaxFaults /\ crashes' = crashes
  BY RepositoryAssumption DEF Arrives, TypeOK, Fault, counters

\* A device that has not updated yet satisfies the invariant.
LEMMA InitIInv == Init => IInv
<1> SUFFICES ASSUME Init PROVE IInv
  OBVIOUS
<1>1. TypeOK
  BY RepositoryAssumption, IdleType DEF Init, TypeOK, PassType
<1>2. Knows /\ Vouching /\ Working /\ Clean
  BY DEF Init, Knows, Verified, Vouching, Working, Clean, Idle, Downloading
<1> QED BY <1>1, <1>2 DEF IInv

\* A pass that ends, whatever becomes of the connection.
LEMMA Ended ==
  ASSUME IInv, pass' = Idle, body' \in {body, NoBody}, TypeOK', Clean',
         newest' = newest, manifest' \in {manifest, NONE}
  PROVE  IInv'
<1>1. Knows' /\ Working'
  BY DEF Knows, Verified, Working, Idle, Downloading
<1>2. Vouching'
  BY DEF Vouching, Idle, IInv
<1> QED BY <1>1, <1>2 DEF IInv

-----------------------------------------------------------------------------
(* The metadata chain *)

\* The steps before a download touch only the pass, the response and the manifest.
LEMMA FetchIInv ==
  ASSUME IInv, UNCHANGED <<offer, part, file, pool, fresh, staged>>,
         faults' \in 0..MaxFaults, crashes' = crashes,
         pass' \in PassType, body' \in {body, NoBody}, manifest' \in Releases \cup {NONE},
         Knows', Vouching',
         pass'.pc \notin {"ask", "fresh", "read", "install"},
         pass'.pc = "choose" => pass'.todo \subseteq pass'.listed
  PROVE  IInv'
<1>1. TypeOK'
  BY IdleType DEF IInv, TypeOK, PassType, offer
<1>2. Working' /\ Clean'
  BY DEF IInv, Working, Clean, Downloading, offer
<1> QED BY <1>1, <1>2 DEF IInv

\* A document that is refused ends the pass.
LEMMA FetchEnds ==
  ASSUME IInv, UNCHANGED <<offer, part, file, pool, fresh, manifest, staged>>,
         faults' \in 0..MaxFaults, crashes' = crashes, GiveUp
  PROVE  IInv'
<1>1. pass' \in PassType /\ pass'.pc = "idle" /\ pass'.listed = {} /\ pass'.snap = NONE
      /\ pass'.targ = NONE /\ body' = NoBody
  BY IdleType DEF GiveUp, Idle
<1>2. Knows' /\ Vouching'
  BY <1>1 DEF IInv, Knows, Verified, Vouching, Downloading, offer
<1> QED BY <1>1, <1>2, FetchIInv DEF IInv, TypeOK

LEMMA BeginIInv == ASSUME IInv, Begin PROVE IInv'
<1>1. pass' \in PassType /\ pass'.pc = "timestamp"
  BY DEF IInv, TypeOK, Begin, Go, PassType, Pcs
<1>2. Knows' /\ Vouching'
  BY DEF IInv, Begin, Go, Knows, Verified, Vouching, Downloading, offer, device, TypeOK
<1> QED BY <1>1, <1>2, FetchIInv DEF Begin, device, counters, IInv, TypeOK

LEMMA FetchTimestampIInv ==
  ASSUME IInv, NEW r \in Releases, FetchTimestamp(r) PROVE IInv'
<1>1. faults' \in 0..MaxFaults /\ crashes' = crashes
  BY ArrivesType DEF IInv, FetchTimestamp
<1>2. CASE Trusted("timestamp", r)
  <2>1. pass' \in PassType /\ pass'.pc = "snapshot"
    BY <1>2 DEF IInv, TypeOK, FetchTimestamp, Go, PassType, Pcs
  <2>2. Knows' /\ Vouching'
    BY <1>2, <2>1 DEF IInv, FetchTimestamp, Go, Knows, Verified, Vouching, Downloading, offer, device, TypeOK
  <2> QED BY <1>1, <1>2, <2>1, <2>2, FetchIInv DEF FetchTimestamp, device, IInv, TypeOK
<1>3. CASE ~Trusted("timestamp", r)
  BY <1>1, <1>3, FetchEnds DEF FetchTimestamp, device
<1> QED BY <1>2, <1>3

LEMMA FetchSnapshotIInv ==
  ASSUME IInv, NEW r \in Releases, FetchSnapshot(r) PROVE IInv'
<1>1. faults' \in 0..MaxFaults /\ crashes' = crashes
  BY ArrivesType DEF IInv, FetchSnapshot
<1>2. CASE Trusted("snapshot", r)
  <2>0. pass' = [pass EXCEPT !.pc = "targets", !.snap = r]
    BY <1>2 DEF FetchSnapshot
  <2>1. pass' \in PassType /\ pass'.pc = "targets"
    BY <2>0 DEF IInv, TypeOK, PassType, Pcs
  <2>2. Knows'
    <3>1. pass'.snap = r /\ r # NONE
      BY <2>0, RepositoryAssumption DEF IInv, TypeOK
    <3> QED BY <2>1, <3>1 DEF Knows, Verified, Downloading
  <2>3. Single => r \in 1..newest
    BY <1>2, Offered, RepositoryAssumption DEF IInv, FetchSnapshot
  <2>4. Vouching'
    <3>1. pass'.snap = r /\ pass'.targ = pass.targ /\ pass'.listed = pass.listed
      BY <2>0 DEF IInv, TypeOK
    <3> QED BY <2>3, <3>1 DEF IInv, FetchSnapshot, Vouching, offer, device
  <2> QED BY <1>1, <1>2, <2>1, <2>2, <2>4, FetchIInv DEF FetchSnapshot, device, IInv, TypeOK
<1>3. CASE ~Trusted("snapshot", r)
  BY <1>1, <1>3, FetchEnds DEF FetchSnapshot, device
<1> QED BY <1>2, <1>3

LEMMA FetchTargetsIInv ==
  ASSUME IInv, NEW r \in Releases, FetchTargets(r) PROVE IInv'
<1>1. faults' \in 0..MaxFaults /\ crashes' = crashes
  BY ArrivesType DEF IInv, FetchTargets
<1>2. CASE ~Trusted("targets", r)
  BY <1>1, <1>2, FetchEnds DEF FetchTargets, device
<1>3. CASE Trusted("targets", r)
  <2> DEFINE next == IF DelegationsOf[r] = {} THEN "manifest" ELSE "delegation"
             due == Manifested[r] \cap {"targets"}
  <2>1. Single => r \in 1..newest
    BY <1>3, Offered, RepositoryAssumption DEF IInv, FetchTargets
  <2>2. pass' = [pass EXCEPT !.pc = next, !.targ = r, !.roles = DelegationsOf[r],
                             !.listed = Inline[r], !.want = due]
        /\ UNCHANGED <<offer, body, device>>
    BY <1>3 DEF FetchTargets
  <2>3. /\ next \in {"manifest", "delegation"} /\ due \in SUBSET {"targets", "delegation"}
        /\ DelegationsOf[r] \in SUBSET Names /\ Inline[r] \in SUBSET Images
        /\ Inline[r] \subseteq Lists[r]
    BY RepositoryAssumption DEF Lists
  <2>4. next = "manifest" => DelegationsOf[r] = {}
    OBVIOUS
  <2>5. "targets" \in due <=> "targets" \in Manifested[r]
    OBVIOUS
  <2>6. "delegation" \notin due
    OBVIOUS
  <2> HIDE DEF next, due
  <2>7. /\ pass' \in PassType /\ pass'.pc = next /\ pass'.targ = r /\ pass'.snap = pass.snap
        /\ pass'.roles = DelegationsOf[r] /\ pass'.listed = Inline[r] /\ pass'.want = due
    BY <2>2, <2>3 DEF IInv, TypeOK, PassType, Pcs
  <2>8. r # NONE /\ pass.snap # NONE
    BY RepositoryAssumption DEF IInv, Knows, FetchTargets
  <2>9. pass'.pc = "delegation" => Found'
    BY <2>5, <2>6, <2>7 DEF Found
  <2>10. pass'.pc = "manifest" => Due'
    <3>1. next = "manifest" => ~Delegates'
      BY <2>4, <2>7 DEF Delegates
    <3> QED BY <2>5, <2>6, <2>7, <3>1 DEF Due
  <2>11. Knows'
    BY <2>3, <2>7, <2>8, <2>9, <2>10 DEF Knows, Verified, Downloading
  <2>12. Vouching'
    BY <2>1, <2>2, <2>3, <2>7 DEF IInv, Vouching, offer, device
  <2> QED BY <1>1, <2>2, <2>3, <2>7, <2>11, <2>12, FetchIInv DEF device, IInv, TypeOK
<1> QED BY <1>2, <1>3

LEMMA FetchDelegationIInv ==
  ASSUME IInv, NEW d \in Names, NEW r \in Releases, FetchDelegation(d, r) PROVE IInv'
<1>1. faults' \in 0..MaxFaults /\ crashes' = crashes
  BY ArrivesType DEF IInv, FetchDelegation
<1>2. CASE ~DelegationTrusted(d, r, pass.snap, pass.targ)
  BY <1>1, <1>2, FetchEnds DEF FetchDelegation, device
<1>3. CASE DelegationTrusted(d, r, pass.snap, pass.targ)
  <2> DEFINE next == IF pass.roles = {d} THEN "manifest" ELSE "delegation"
             here == IF d \in Manifested[r] THEN {"delegation"} ELSE {}
             rest == pass.roles \ {d}
             images == pass.listed \cup Delegated[r][d]
             due == pass.want \cup here
  <2>1. r = pass.snap /\ d \in DelegationsOf[r]
    BY <1>3 DEF DelegationTrusted
  <2>2. pass.pc = "delegation" /\ d \in pass.roles /\ Found
        /\ pass.targ \in Releases /\ pass.snap # NONE
    BY DEF IInv, TypeOK, FetchDelegation, Knows, Verified
  <2>3. pass' = [pass EXCEPT !.pc = next, !.roles = rest, !.listed = images, !.want = due]
        /\ UNCHANGED <<offer, body, device>>
    BY <1>3 DEF FetchDelegation, IInv, TypeOK
  <2>4. Delegated[r][d] \in SUBSET Images /\ Delegated[r][d] \subseteq Lists[r]
    BY <2>1, RepositoryAssumption DEF Lists
  <2>5. /\ next \in {"manifest", "delegation"} /\ due \in SUBSET {"targets", "delegation"}
        /\ rest \in SUBSET Names /\ images \in SUBSET Images
    BY <2>4 DEF IInv, TypeOK
  <2>6. next = "manifest" => rest = {}
    OBVIOUS
  <2>7. "targets" \in due <=> "targets" \in Manifested[pass.targ]
    BY <2>2 DEF Found
  <2>8. "delegation" \in due <=> (DelegationsOf[pass.targ] \ rest) \cap Manifested[pass.snap] # {}
    <3>1. "delegation" \in due <=> "delegation" \in pass.want \/ d \in Manifested[pass.snap]
      BY <2>1
    <3>2. d \in DelegationsOf[pass.targ]
      BY <2>2 DEF Found
    <3>3. DelegationsOf[pass.targ] \ rest = (DelegationsOf[pass.targ] \ pass.roles) \cup {d}
      BY <2>2, <3>2
    <3> QED BY <2>2, <3>1, <3>3 DEF Found
  <2>9. rest \subseteq DelegationsOf[pass.targ]
    BY <2>2 DEF Found
  <2>10. \A i \in images : i \in pass.listed \/ i \in Lists[r]
    BY <2>4
  <2> HIDE DEF next, due, rest, images, here
  <2>11. /\ pass' \in PassType /\ pass'.pc = next /\ pass'.targ = pass.targ
         /\ pass'.snap = pass.snap
         /\ pass'.roles = rest /\ pass'.listed = images /\ pass'.want = due
    BY <2>3, <2>5 DEF IInv, TypeOK, PassType, Pcs
  <2>12. pass'.pc = "delegation" => Found'
    BY <2>7, <2>8, <2>9, <2>11 DEF Found
  <2>13. pass'.pc = "manifest" => Due'
    <3>1. next = "manifest" => ("delegation" \in due <=> Delegates')
      BY <2>6, <2>8, <2>11 DEF Delegates
    <3> QED BY <2>7, <2>11, <3>1 DEF Due
  <2>14. Knows'
    BY <2>2, <2>5, <2>11, <2>12, <2>13, RepositoryAssumption DEF Knows, Verified, Downloading
  <2>15. Vouching'
    <3>1. Single => r \in 1..newest
      BY <2>1, <2>2 DEF IInv, Vouching
    <3> QED BY <2>3, <2>10, <2>11, <3>1 DEF IInv, Vouching, offer, device
  <2> QED BY <1>1, <2>3, <2>5, <2>11, <2>14, <2>15, FetchIInv DEF device, IInv, TypeOK
<1> QED BY <1>2, <1>3

LEMMA FetchManifestIInv ==
  ASSUME IInv, NEW r \in Releases, FetchManifest(r) PROVE IInv'
<1>1. faults' \in 0..MaxFaults /\ crashes' = crashes
  BY ArrivesType DEF IInv, FetchManifest
<1>2. CASE r # NextManifest.of
  BY <1>1, <1>2, FetchEnds DEF FetchManifest
<1>3. CASE r = NextManifest.of
  <2> DEFINE rest == pass.want \ {NextManifest.by}
  <2>0. rest \in SUBSET {"targets", "delegation"} /\ Due /\ pass.pc = "manifest" /\ pass.want # {}
        /\ pass.want \subseteq {"targets", "delegation"}
    BY DEF IInv, TypeOK, Knows, FetchManifest
  <2>1. manifest' = r /\ body' = body /\ pass' = [pass EXCEPT !.want = rest]
    BY <1>3 DEF FetchManifest, IInv, TypeOK
  <2>2. IF "targets" \in pass.want
          THEN r = pass.targ /\ rest = pass.want \ {"targets"}
          ELSE r = pass.snap /\ pass.want = {"delegation"} /\ rest = {}
    BY <1>3, <2>0 DEF NextManifest
  <2> HIDE DEF rest
  <2>3. /\ pass' \in PassType /\ pass'.pc = "manifest" /\ pass'.targ = pass.targ
        /\ pass'.snap = pass.snap /\ pass'.listed = pass.listed /\ pass'.want = rest
    BY <2>0, <2>1 DEF IInv, TypeOK, PassType
  <2>4. Due'
    BY <2>0, <2>1, <2>2, <2>3 DEF Due, Delegates
  <2>5. Knows'
    BY <2>0, <2>3, <2>4 DEF IInv, Knows, Verified, Downloading
  <2>6. Vouching'
    BY <2>1, <2>2, <2>3 DEF IInv, FetchManifest, Vouching, offer
  <2> QED BY <1>1, <2>1, <2>3, <2>5, <2>6, FetchIInv DEF FetchManifest
<1> QED BY <1>2, <1>3

LEMMA ReadManifestIInv == ASSUME IInv, ReadManifest PROVE IInv'
<1> DEFINE bundle == IF manifest # NONE /\ (stream \/ current) THEN {Bundle[manifest]} ELSE {}
           rest == {i \in pass.listed : pool[i] = "absent"} \ bundle
<1>1. pass' = [pass EXCEPT !.pc = "choose", !.todo = rest] /\ rest \subseteq pass.listed
      /\ UNCHANGED <<offer, body, device, counters>>
  BY DEF ReadManifest
<1>2. pass.pc = "manifest" /\ pass.want = {} /\ Due
  BY DEF ReadManifest, IInv, Knows
<1> HIDE DEF rest
<1>3. /\ pass' \in PassType /\ pass'.pc = "choose" /\ pass'.targ = pass.targ
      /\ pass'.snap = pass.snap /\ pass'.listed = pass.listed /\ pass'.todo = rest
  BY <1>1 DEF IInv, TypeOK, PassType, Pcs
<1>4. Named' \in {NONE, manifest'}
  BY <1>1, <1>2, <1>3 DEF Due, Named, Delegates, device
<1>5. Knows'
  BY <1>2, <1>3, <1>4 DEF IInv, Knows, Verified, Downloading
<1>6. Vouching'
  BY <1>1, <1>3 DEF IInv, Vouching, offer, device
<1> QED BY <1>1, <1>3, <1>5, <1>6, FetchIInv DEF device, counters, IInv, TypeOK

-----------------------------------------------------------------------------
(* Downloads *)

\* A step of a download, which keeps what the pass knows.
LEMMA DownloadIInv ==
  ASSUME IInv, UNCHANGED <<offer, fresh, manifest, staged>>, pass.pc \in Downloading,
         faults' \in 0..MaxFaults, crashes' = crashes,
         pass' \in PassType, pass'.pc \in Downloading,
         pass'.targ = pass.targ, pass'.snap = pass.snap, pass'.listed = pass.listed,
         pass'.todo \subseteq pass.todo,
         body' \in [left : 0..Blocks + 1, clean : BOOLEAN, any : BOOLEAN],
         part' \in [Images -> [len : 0..Blocks + 1, clean : BOOLEAN]],
         {file', pool'} \subseteq [Images -> {"absent", "good", "bad"}], Clean',
         pass'.pc # "choose" => pass'.image \in pass'.todo,
         pass'.pc = "ask" => part'[pass'.image].len < Blocks,
         pass'.pc = "read" => part'[pass'.image].len + body'.left <= Blocks + 1
  PROVE  IInv'
<1>1. TypeOK'
  BY DEF IInv, TypeOK, PassType, offer
<1>2. Knows'
  BY DEF IInv, Knows, Verified, Downloading, Named, Delegates
<1>3. Vouching'
  BY DEF IInv, Vouching, offer
<1>4. Working'
  BY DEF IInv, Working, Downloading
<1> QED BY <1>1, <1>2, <1>3, <1>4 DEF IInv

\* An image is put at its destination, or removed from there.
LEMMA PutDestType ==
  ASSUME TypeOK, Clean, NEW i \in Images, NEW state \in {"absent", "good"}, PutDest(i, state),
         stream' = stream, fresh' = fresh
  PROVE  {file', pool'} \subseteq [Images -> {"absent", "good", "bad"}] /\ Clean'
<1>1. file \in [Images -> {"absent", "good", "bad"}] /\ pool \in [Images -> {"absent", "good", "bad"}]
  BY DEF TypeOK
<1>2. CASE stream
  BY <1>1, <1>2 DEF PutDest, Clean
<1>3. CASE ~stream
  BY <1>1, <1>3 DEF PutDest, Clean
<1> QED BY <1>2, <1>3

\* The record of a .part.
LEMMA SetPartType ==
  ASSUME TypeOK, NEW i \in Images, NEW p \in [len : 0..Blocks + 1, clean : BOOLEAN], SetPart(i, p)
  PROVE  /\ part' \in [Images -> [len : 0..Blocks + 1, clean : BOOLEAN]]
         /\ part'[i] = p
  BY DEF TypeOK, SetPart

\* A pass at its next step, with an image at hand.
LEMMA NextStep ==
  ASSUME TypeOK, NEW step \in Downloading, NEW i \in Images \cup {NONE},
         NEW rest \in SUBSET Images,
         pass' = [pass EXCEPT !.pc = step, !.image = i, !.todo = rest]
  PROVE  /\ pass' \in PassType /\ pass'.pc = step /\ pass'.image = i /\ pass'.todo = rest
         /\ pass'.targ = pass.targ /\ pass'.snap = pass.snap /\ pass'.listed = pass.listed
  BY DEF TypeOK, PassType, Pcs, Downloading

\* An image is done with.
LEMMA DoneIInv ==
  ASSUME IInv, NEW i \in Images, Done(i), pass.pc \in Downloading,
         UNCHANGED <<offer, fresh, manifest, staged, counters>>,
         body' \in {body, NoBody},
         part' \in [Images -> [len : 0..Blocks + 1, clean : BOOLEAN]],
         {file', pool'} \subseteq [Images -> {"absent", "good", "bad"}], Clean'
  PROVE  IInv'
<1> DEFINE rest == pass.todo \ {i}
<1>0. rest \in SUBSET Images /\ "choose" \in Downloading
  BY DEF IInv, TypeOK, Downloading
<1>1. pass' = [pass EXCEPT !.pc = "choose", !.image = NONE, !.todo = rest]
  BY DEF Done, IInv, TypeOK
<1>2. /\ pass' \in PassType /\ pass'.pc = "choose" /\ pass'.todo = rest
      /\ pass'.targ = pass.targ /\ pass'.snap = pass.snap /\ pass'.listed = pass.listed
  <2>1. NONE \in Images \cup {NONE} /\ TypeOK
    BY DEF IInv
  <2> HIDE DEF rest
  <2> QED BY <1>0, <1>1, <2>1, NextStep
<1>3. faults' \in 0..MaxFaults /\ crashes' = crashes
      /\ body' \in [left : 0..Blocks + 1, clean : BOOLEAN, any : BOOLEAN]
  BY IdleType DEF counters, IInv, TypeOK
<1> QED BY <1>0, <1>2, <1>3, DownloadIInv

LEMMA AlreadyThereIInv ==
  ASSUME IInv, NEW i \in Images, AlreadyThere(i) PROVE IInv'
<1>1. {file', pool'} \subseteq [Images -> {"absent", "good", "bad"}] /\ Clean'
      /\ part' \in [Images -> [len : 0..Blocks + 1, clean : BOOLEAN]]
  BY DEF IInv, TypeOK, AlreadyThere, device, offer, Clean
<1> QED BY <1>1, DoneIInv DEF AlreadyThere, device, Downloading

LEMMA CompletePartIInv ==
  ASSUME IInv, NEW i \in Images, CompletePart(i) PROVE IInv'
<1>1. {file', pool'} \subseteq [Images -> {"absent", "good", "bad"}] /\ Clean'
  BY PutDestType DEF IInv, CompletePart, offer
<1>2. part' \in [Images -> [len : 0..Blocks + 1, clean : BOOLEAN]]
  BY IdleType, SetPartType DEF IInv, CompletePart
<1> QED BY <1>1, <1>2, DoneIInv DEF CompletePart, Wanted, Downloading

\* An image is taken up: what is in the way goes, and the step depends on the .part.
LEMMA TakeUpIInv ==
  ASSUME IInv, NEW i \in Images, Wanted(i), PutDest(i, "absent"),
         UNCHANGED <<offer, body, fresh, manifest, staged, counters>>,
         part' \in [Images -> [len : 0..Blocks + 1, clean : BOOLEAN]],
         NEW step \in {"ask", "fresh"}, pass' = [pass EXCEPT !.pc = step, !.image = i],
         step = "ask" => part'[i].len < Blocks
  PROVE  IInv'
<1>1. {file', pool'} \subseteq [Images -> {"absent", "good", "bad"}] /\ Clean'
  BY PutDestType DEF IInv, offer
<1>2. pass' = [pass EXCEPT !.pc = step, !.image = i, !.todo = pass.todo] /\ pass.todo \in SUBSET Images
  BY DEF IInv, TypeOK
<1>3. step \in Downloading /\ i \in pass.todo /\ pass.pc \in Downloading
  BY DEF Downloading, Wanted
<1>4. /\ pass' \in PassType /\ pass'.pc = step /\ pass'.image = i /\ pass'.todo = pass.todo
      /\ pass'.targ = pass.targ /\ pass'.snap = pass.snap /\ pass'.listed = pass.listed
  BY <1>2, <1>3, NextStep DEF IInv
<1>5. faults' \in 0..MaxFaults /\ crashes' = crashes
      /\ body' \in [left : 0..Blocks + 1, clean : BOOLEAN, any : BOOLEAN]
  BY DEF counters, IInv, TypeOK
<1> QED BY <1>1, <1>3, <1>4, <1>5, DownloadIInv

LEMMA StartOverIInv ==
  ASSUME IInv, NEW i \in Images, StartOver(i) PROVE IInv'
<1>1. part' \in [Images -> [len : 0..Blocks + 1, clean : BOOLEAN]]
  BY IdleType, SetPartType DEF IInv, StartOver
<1> QED BY <1>1, TakeUpIInv DEF StartOver

LEMMA ResumeIInv ==
  ASSUME IInv, NEW i \in Images, Resume(i) PROVE IInv'
<1> DEFINE step == IF part[i].len > 0 THEN "ask" ELSE "fresh"
<1>1. step \in {"ask", "fresh"} /\ pass' = [pass EXCEPT !.pc = step, !.image = i]
  BY DEF Resume
<1>2. part' = part /\ part' \in [Images -> [len : 0..Blocks + 1, clean : BOOLEAN]]
      /\ part'[i].len < Blocks
  BY DEF Resume, IInv, TypeOK
<1> HIDE DEF step
<1> QED BY <1>1, <1>2, TakeUpIInv DEF Resume

\* A response brings no more than a block beyond the image.
LEMMA AnswerType ==
  ASSUME TypeOK, NEW from \in 0..Blocks - 1, Answer(from)
  PROVE  /\ body' \in [left : 0..Blocks + 1, clean : BOOLEAN, any : BOOLEAN]
         /\ from + body'.left <= Blocks + 1
         /\ faults' \in 0..MaxFaults /\ crashes' = crashes
<1>1. CASE body' = [left |-> Blocks - from, clean |-> TRUE, any |-> FALSE] /\ UNCHANGED counters
  BY <1>1, RepositoryAssumption DEF TypeOK, counters
<1>2. CASE Fault /\ \E n \in 0..Blocks + 1 - from, c \in BOOLEAN :
             body' = [left |-> n, clean |-> c, any |-> FALSE]
  BY <1>2, RepositoryAssumption DEF TypeOK, Fault
<1> QED BY <1>1, <1>2 DEF Answer

\* The response is there, and the .part is as long as where it starts.
LEMMA AnsweredIInv ==
  ASSUME IInv, pass.pc \in {"ask", "fresh"}, NEW from \in 0..Blocks - 1, Answer(from), Go("read"),
         UNCHANGED <<offer, file, pool, fresh, manifest, staged>>,
         part' \in [Images -> [len : 0..Blocks + 1, clean : BOOLEAN]],
         part'[pass.image].len = from
  PROVE  IInv'
<1>1. pass' = [pass EXCEPT !.pc = "read", !.image = pass.image, !.todo = pass.todo]
      /\ pass.todo \in SUBSET Images /\ pass.image \in Images \cup {NONE}
  BY DEF IInv, TypeOK, Go
<1>2. pass.image \in pass.todo /\ pass.pc \in Downloading /\ "read" \in Downloading
  BY DEF IInv, Working, Downloading
<1>3. /\ pass' \in PassType /\ pass'.pc = "read" /\ pass'.image = pass.image /\ pass'.todo = pass.todo
      /\ pass'.targ = pass.targ /\ pass'.snap = pass.snap /\ pass'.listed = pass.listed
  BY <1>1, <1>2, NextStep DEF IInv
<1>4. /\ body' \in [left : 0..Blocks + 1, clean : BOOLEAN, any : BOOLEAN]
      /\ from + body'.left <= Blocks + 1
      /\ faults' \in 0..MaxFaults /\ crashes' = crashes
  BY AnswerType DEF IInv
<1>5. {file', pool'} \subseteq [Images -> {"absent", "good", "bad"}] /\ Clean'
  BY DEF IInv, TypeOK, Clean, offer
<1> QED BY <1>2, <1>3, <1>4, <1>5, DownloadIInv

LEMMA ResumedIInv == ASSUME IInv, Resumed PROVE IInv'
<1>1. part' = part /\ part' \in [Images -> [len : 0..Blocks + 1, clean : BOOLEAN]]
  BY DEF Resumed, device, IInv, TypeOK
<1>2. pass.image \in Images /\ part[pass.image].len \in 0..Blocks - 1
  BY <1>1, RepositoryAssumption DEF Resumed, IInv, TypeOK, Working
<1> QED BY <1>1, <1>2, AnsweredIInv DEF Resumed, device

\* A whole response replaces the .part.
LEMMA WholeIInv ==
  ASSUME IInv, pass.pc \in {"ask", "fresh"}, Answer(0), Go("read"), SetPart(pass.image, NoPart),
         UNCHANGED <<offer, file, pool, fresh, manifest, staged>>
  PROVE  IInv'
<1>1. pass.image \in Images
  BY DEF IInv, TypeOK, Working
<1>2. part' \in [Images -> [len : 0..Blocks + 1, clean : BOOLEAN]] /\ part'[pass.image] = NoPart
  BY <1>1, IdleType, SetPartType DEF IInv
<1>3. part'[pass.image].len = 0 /\ 0 \in 0..Blocks - 1
  BY <1>2, RepositoryAssumption DEF NoPart
<1> QED BY <1>2, <1>3, AnsweredIInv

LEMMA IgnoresRangeIInv == ASSUME IInv, IgnoresRange PROVE IInv'
  BY WholeIInv DEF IgnoresRange

LEMMA AnsweredWholeIInv == ASSUME IInv, AnsweredWhole PROVE IInv'
  BY WholeIInv DEF AnsweredWhole

LEMMA AskAgainIInv == ASSUME IInv, AskAgain PROVE IInv'
<1>1. pass' = [pass EXCEPT !.pc = "fresh", !.image = pass.image, !.todo = pass.todo]
      /\ pass.todo \in SUBSET Images /\ pass.image \in Images \cup {NONE}
  BY DEF IInv, TypeOK, AskAgain, Go
<1>2. pass.image \in pass.todo /\ pass.pc \in Downloading /\ "fresh" \in Downloading
  BY DEF AskAgain, IInv, Working, Downloading
<1>3. /\ pass' \in PassType /\ pass'.pc = "fresh" /\ pass'.image = pass.image /\ pass'.todo = pass.todo
      /\ pass'.targ = pass.targ /\ pass'.snap = pass.snap /\ pass'.listed = pass.listed
  BY <1>1, <1>2, NextStep DEF IInv
<1>4. /\ faults' \in 0..MaxFaults /\ crashes' = crashes
      /\ body' \in [left : 0..Blocks + 1, clean : BOOLEAN, any : BOOLEAN]
      /\ part' \in [Images -> [len : 0..Blocks + 1, clean : BOOLEAN]]
      /\ {file', pool'} \subseteq [Images -> {"absent", "good", "bad"}] /\ Clean'
  BY RepositoryAssumption DEF AskAgain, Fault, device, offer, IInv, TypeOK, Clean
<1> QED BY <1>2, <1>3, <1>4, DownloadIInv DEF AskAgain, device

LEMMA ReadIInv == ASSUME IInv, Read PROVE IInv'
<1> DEFINE p == part[pass.image]
           q == [len |-> p.len + 1, clean |-> p.clean /\ body.clean /\ p.len < Blocks]
<1>1. pass.image \in pass.todo /\ pass.image \in Images /\ p.len + body.left <= Blocks + 1
      /\ body.left > 0 /\ pass.pc = "read"
  BY DEF Read, IInv, TypeOK, Working
<1>2. p \in [len : 0..Blocks + 1, clean : BOOLEAN]
      /\ body \in [left : 0..Blocks + 1, clean : BOOLEAN, any : BOOLEAN]
  BY <1>1 DEF IInv, TypeOK
<1>3. q \in [len : 0..Blocks + 1, clean : BOOLEAN] /\ q.len = p.len + 1
  BY <1>1, <1>2, RepositoryAssumption
<1>4. part' \in [Images -> [len : 0..Blocks + 1, clean : BOOLEAN]] /\ part'[pass.image] = q
  BY <1>1, <1>3, SetPartType DEF Read, IInv
<1>5. body' \in [left : 0..Blocks + 1, clean : BOOLEAN, any : BOOLEAN] /\ body'.left = body.left - 1
  <2>1. body' = [body EXCEPT !.left = @ - 1, !.any = TRUE]
    BY DEF Read
  <2>2. body.left \in 0..Blocks + 1 /\ body.left - 1 \in 0..Blocks + 1
    BY <1>1, <1>2, RepositoryAssumption
  <2> QED BY <1>2, <2>1, <2>2
<1>6. part'[pass.image].len + body'.left <= Blocks + 1
  BY <1>1, <1>2, <1>3, <1>4, <1>5, RepositoryAssumption
<1>7. pass' = pass /\ pass' \in PassType
  BY DEF Read, IInv, TypeOK, PassType
<1>8. /\ faults' \in 0..MaxFaults /\ crashes' = crashes
      /\ {file', pool'} \subseteq [Images -> {"absent", "good", "bad"}] /\ Clean'
  BY DEF Read, counters, offer, IInv, TypeOK, Clean
<1> HIDE DEF p, q
<1> QED BY <1>1, <1>4, <1>5, <1>6, <1>7, <1>8, DownloadIInv DEF Read, Downloading

LEMMA VerifyIInv == ASSUME IInv, Verify PROVE IInv'
<1> DEFINE i == pass.image
<1>1. i \in Images /\ pass.pc \in Downloading
  BY DEF Verify, IInv, TypeOK, Working, Downloading
<1>2. CASE part[i] = [len |-> Blocks, clean |-> TRUE]
  <2>1. PutDest(i, "good") /\ SetPart(i, NoPart) /\ Done(i)
    BY <1>2 DEF Verify
  <2>2. {file', pool'} \subseteq [Images -> {"absent", "good", "bad"}] /\ Clean'
    BY <1>1, <2>1, PutDestType DEF IInv, Verify, offer
  <2>3. part' \in [Images -> [len : 0..Blocks + 1, clean : BOOLEAN]]
    BY <1>1, <2>1, IdleType, SetPartType DEF IInv
  <2> QED BY <1>1, <2>1, <2>2, <2>3, DoneIInv DEF Verify
<1>3. CASE part[i] # [len |-> Blocks, clean |-> TRUE]
  <2> DEFINE q == IF part[i].len < Blocks THEN part[i] ELSE NoPart
  <2>1. SetPart(i, q) /\ pass' = Idle /\ UNCHANGED <<file, pool>>
    BY <1>3 DEF Verify
  <2>2. q \in [len : 0..Blocks + 1, clean : BOOLEAN]
    BY <1>1, IdleType DEF IInv, TypeOK
  <2> HIDE DEF q
  <2>3. part' \in [Images -> [len : 0..Blocks + 1, clean : BOOLEAN]]
    BY <1>1, <2>1, <2>2, SetPartType DEF IInv
  <2>4. TypeOK' /\ Clean'
    BY <2>1, <2>3, IdleType DEF Verify, IInv, TypeOK, PassType, Clean, offer, counters
  <2> QED BY <2>1, <2>4, Ended DEF Verify, offer
<1> QED BY <1>2, <1>3

\* An error ends the pass, and leaves all it has downloaded.
LEMMA FailureIInv ==
  ASSUME IInv, Refused \/ Breaks PROVE IInv'
<1>1. faults' \in 0..MaxFaults /\ crashes' = crashes /\ GiveUp /\ UNCHANGED <<offer, device>>
  BY RepositoryAssumption DEF Refused, Breaks, Fault, counters, IInv, TypeOK
<1> QED BY <1>1, FetchEnds DEF device

-----------------------------------------------------------------------------
(* Installation *)

LEMMA ClearedType ==
  ASSUME TypeOK, ClearStaging
  PROVE  /\ part' \in [Images -> [len : 0..Blocks + 1, clean : BOOLEAN]]
         /\ file' \in [Images -> {"absent", "good", "bad"}]
         /\ \A i \in Images : file'[i] = "absent"
         /\ manifest' = NONE
  BY IdleType DEF TypeOK, ClearStaging

LEMMA NoManifestIInv == ASSUME IInv, NoManifest PROVE IInv'
  BY FetchEnds DEF NoManifest, device, counters, IInv, TypeOK

LEMMA AlreadyCurrentIInv == ASSUME IInv, AlreadyCurrent PROVE IInv'
<1>1. TypeOK' /\ Clean'
  BY ClearedType, IdleType DEF AlreadyCurrent, IInv, TypeOK, PassType, Clean, offer, counters
<1> QED BY <1>1, Ended DEF AlreadyCurrent, ClearStaging, offer

LEMMA DecideIInv == ASSUME IInv, Decide PROVE IInv'
<1> DEFINE rest == Lists[manifest] \ IF current THEN {Bundle[manifest]} ELSE {}
<1>1. pass' = [pass EXCEPT !.pc = "install", !.todo = rest]
  BY DEF Decide
<1>2. manifest \in Releases /\ manifest # NONE
  BY DEF Decide, Downloaded, IInv, TypeOK
<1>3. rest \in SUBSET Images /\ Lists[manifest] \ {Bundle[manifest]} \subseteq rest
  BY <1>2, ListsType
<1> HIDE DEF rest
<1>4. /\ pass' \in PassType /\ pass'.pc = "install" /\ pass'.todo = rest
      /\ pass'.targ = pass.targ /\ pass'.snap = pass.snap /\ pass'.listed = pass.listed
  BY <1>1, <1>3 DEF IInv, TypeOK, PassType, Pcs
<1>5. TypeOK'
  BY <1>4 DEF Decide, IInv, TypeOK, PassType, offer, device, counters
<1>6. Knows'
  BY <1>2, <1>4 DEF Decide, Downloaded, IInv, Knows, Verified, Named, Delegates, Downloading, device
<1>8. Vouching' /\ Clean'
  BY <1>4 DEF Decide, IInv, Vouching, Clean, offer, device
<1>7. Working'
  BY <1>3, <1>4 DEF Decide, Working, Downloading, device
<1> QED BY <1>5, <1>6, <1>7, <1>8 DEF IInv

\* An installation goes on to its next image, which it has or has found missing.
LEMMA InstallOn ==
  ASSUME IInv, pass.pc = "install", NEW i \in Images, NEW lack \in BOOLEAN,
         pass' = [pass EXCEPT !.todo = pass.todo \ {i}, !.missing = lack],
         pass.missing => lack, lack \/ pool'[i] = "good",
         \A j \in Images \ {i} : pool'[j] = pool[j],
         pool' \in [Images -> {"absent", "good", "bad"}], fresh' \subseteq Images,
         UNCHANGED <<offer, body, part, file, manifest, staged, counters>>, Clean'
  PROVE  IInv'
<1>1. /\ pass' \in PassType /\ pass'.pc = "install" /\ pass'.todo = pass.todo \ {i}
      /\ pass'.missing = lack
      /\ pass'.targ = pass.targ /\ pass'.snap = pass.snap /\ pass'.listed = pass.listed
  BY DEF IInv, TypeOK, PassType
<1>2. TypeOK'
  BY <1>1 DEF IInv, TypeOK, PassType, offer, counters
<1>3. Knows' /\ Vouching'
  BY <1>1 DEF IInv, Knows, Verified, Vouching, Named, Delegates, Downloading, offer
<1>4. Working'
  <2>1. manifest \in Releases
    BY DEF IInv, TypeOK, Knows
  <2>2. Lists[manifest] \subseteq Images
    BY <2>1, ListsType
  <2>3. \A j \in Lists[manifest] \ {Bundle[manifest]} :
          j \in pass'.todo \/ pool'[j] = "good" \/ pass'.missing
    BY <1>1, <2>2 DEF IInv, Working
  <2> QED BY <1>1, <2>3 DEF Working, Downloading
<1> QED BY <1>2, <1>3, <1>4 DEF IInv

\* An image in the pool is replaced by a copy from .update-staging.
LEMMA CopiedType ==
  ASSUME IInv, NEW i \in Images, file[i] # "absent", NEW state \in {"good", "bad"},
         pool' = [pool EXCEPT ![i] = state], fresh' = fresh \cup {i},
         UNCHANGED <<offer, file>>
  PROVE  /\ pool' \in [Images -> {"absent", "good", "bad"}] /\ fresh' \subseteq Images
         /\ pool'[i] = state /\ \A j \in Images \ {i} : pool'[j] = pool[j]
         /\ Clean'
<1>1. ~stream
  BY DEF IInv, Clean
<1> QED BY <1>1 DEF IInv, TypeOK, Clean, offer

LEMMA InstallIInv == ASSUME IInv, NEW i \in Images, Install(i) PROVE IInv'
<1>1. pass.pc = "install" /\ UNCHANGED <<offer, body, part, file, manifest, staged, counters>>
      /\ pass.missing \in BOOLEAN /\ pool[i] \in {"absent", "good", "bad"}
      /\ pool \in [Images -> {"absent", "good", "bad"}] /\ fresh \subseteq Images
  BY DEF Install, IInv, TypeOK
<1>2. UNCHANGED <<pool, fresh>> => Clean'
  BY <1>1 DEF IInv, Clean, offer
<1>3. CASE pool[i] = "good"
  <2>1. pass' = [pass EXCEPT !.todo = pass.todo \ {i}] /\ UNCHANGED <<pool, fresh>>
    BY <1>3 DEF Install
  <2>2. pass' = [pass EXCEPT !.todo = pass.todo \ {i}, !.missing = pass.missing]
    BY <2>1 DEF IInv, TypeOK
  <2> QED BY <1>1, <1>2, <1>3, <2>1, <2>2, InstallOn
<1>4. CASE pool[i] = "bad"
  <2>1. pass' = Idle /\ UNCHANGED <<pool, fresh>>
    BY <1>4 DEF Install
  <2>2. TypeOK' /\ Clean'
    BY <1>1, <1>2, <2>1, IdleType DEF IInv, TypeOK, PassType, offer, counters
  <2> QED BY <1>1, <2>1, <2>2, Ended DEF offer
<1>5. CASE pool[i] = "absent" /\ file[i] # "absent"
  <2>1. file[i] = "good"
    BY <1>5 DEF IInv, TypeOK, Clean
  <2>2. /\ pool' = [pool EXCEPT ![i] = "good"] /\ fresh' = fresh \cup {i}
        /\ pass' = [pass EXCEPT !.todo = pass.todo \ {i}]
    BY <1>5, <2>1 DEF Install
  <2>3. pass' = [pass EXCEPT !.todo = pass.todo \ {i}, !.missing = pass.missing]
    BY <2>2 DEF IInv, TypeOK
  <2>4. /\ pool' \in [Images -> {"absent", "good", "bad"}] /\ fresh' \subseteq Images
        /\ pool'[i] = "good" /\ \A j \in Images \ {i} : pool'[j] = pool[j]
        /\ Clean'
    BY <1>1, <1>5, <2>2, CopiedType
  <2> QED BY <1>1, <2>3, <2>4, InstallOn
<1>6. CASE pool[i] = "absent" /\ file[i] = "absent"
  <2>1. pass' = [pass EXCEPT !.todo = pass.todo \ {i}, !.missing = TRUE] /\ UNCHANGED <<pool, fresh>>
    BY <1>6 DEF Install
  <2> QED BY <1>1, <1>2, <2>1, InstallOn
<1> QED BY <1>1, <1>3, <1>4, <1>5, <1>6

LEMMA CopyFailsIInv == ASSUME IInv, NEW i \in Images, CopyFails(i) PROVE IInv'
<1>1. pool' \in [Images -> {"absent", "good", "bad"}] /\ fresh' \subseteq Images /\ Clean'
  BY CopiedType DEF CopyFails
<1>2. faults' \in 0..MaxFaults /\ crashes' = crashes
  BY RepositoryAssumption DEF CopyFails, Fault, IInv, TypeOK
<1>3. TypeOK'
  BY <1>1, <1>2, IdleType DEF CopyFails, GiveUp, IInv, TypeOK, PassType, offer
<1> QED BY <1>1, <1>3, Ended DEF CopyFails, GiveUp, offer

LEMMA FinishIInv == ASSUME IInv, Finish PROVE IInv'
<1>1. pass' = Idle /\ UNCHANGED <<offer, body, pool, fresh>>
  BY DEF Finish
<1>2. manifest \in Releases
  BY DEF Finish, IInv, TypeOK, Knows
<1>3. CASE pass.missing
  <2>1. TypeOK' /\ Clean'
    BY <1>1, <1>3, IdleType DEF Finish, IInv, TypeOK, PassType, Clean, offer, counters
  <2> QED BY <1>1, <1>3, <2>1, Ended DEF Finish, offer
<1>4. CASE ~pass.missing
  <2>1. ClearStaging
    BY <1>4 DEF Finish
  <2>2. staged' \subseteq Releases /\ faults' \in 0..MaxFaults /\ crashes' = crashes
    BY <1>2, <1>4, RepositoryAssumption DEF Finish, Fault, IInv, TypeOK, counters
  <2>3. TypeOK' /\ Clean'
    BY <1>1, <2>1, <2>2, ClearedType, IdleType DEF IInv, TypeOK, PassType, Clean, offer
  <2> QED BY <1>1, <2>1, <2>3, Ended DEF ClearStaging, offer
<1> QED BY <1>3, <1>4

-----------------------------------------------------------------------------
(* The world *)

LEMMA PublishIInv == ASSUME IInv, Publish PROVE IInv'
<1>1. newest' \in 1..Newest /\ 1..newest \subseteq 1..newest'
  BY RepositoryAssumption DEF Publish, IInv, TypeOK
<1>2. TypeOK'
  BY <1>1 DEF Publish, IInv, TypeOK, device, counters
<1>3. Knows' /\ Working' /\ Clean'
  BY DEF Publish, IInv, Knows, Verified, Found, Due, Named, Delegates, Working, Clean,
         Downloading, device
<1>4. Vouching'
  <2>1. pass' = pass /\ manifest' = manifest
    BY DEF Publish, device
  <2> QED BY <1>1, <2>1 DEF IInv, Vouching
<1> QED BY <1>2, <1>3, <1>4 DEF IInv

\* What a power failure leaves of a .part is no longer than it was.
LEMMA TornType ==
  ASSUME NEW p \in [len : 0..Blocks + 1, clean : BOOLEAN]
  PROVE  Torn(p) \subseteq [len : 0..Blocks + 1, clean : BOOLEAN]
<1>1. 0..p.len \subseteq 0..Blocks + 1
  BY RepositoryAssumption
<1> QED BY <1>1 DEF Torn

LEMMA CrashIInv == ASSUME IInv, Crash PROVE IInv'
<1>1. part' \in [Images -> [len : 0..Blocks + 1, clean : BOOLEAN]]
  <2>1. PICK torn \in [{i \in Images : part[i].len > 0} -> UNION {Torn(part[i]) : i \in Images}] :
          /\ \A i \in DOMAIN torn : torn[i] \in Torn(part[i])
          /\ part' = [i \in Images |-> IF i \in DOMAIN torn THEN torn[i] ELSE part[i]]
    BY DEF Crash
  <2>2. \A i \in Images : part[i] \in [len : 0..Blocks + 1, clean : BOOLEAN]
    BY DEF IInv, TypeOK
  <2>3. \A i \in DOMAIN torn : torn[i] \in [len : 0..Blocks + 1, clean : BOOLEAN]
    BY <2>1, <2>2, TornType
  <2> QED BY <2>1, <2>2, <2>3
<1>2. PICK lost \in SUBSET fresh : pool' = [i \in Images |-> IF i \in lost THEN "bad" ELSE pool[i]]
  BY DEF Crash
<1>3. pool' \in [Images -> {"absent", "good", "bad"}]
  BY <1>2 DEF IInv, TypeOK
<1>4. crashes' \in 0..MaxCrashes
  BY RepositoryAssumption DEF Crash, IInv, TypeOK
<1>5. TypeOK'
  BY <1>1, <1>3, <1>4, IdleType DEF Crash, GiveUp, IInv, TypeOK, PassType, offer
<1>6. Clean'
  BY <1>2 DEF Crash, IInv, Clean, offer
<1> QED BY <1>5, <1>6, Ended DEF Crash, GiveUp, offer

LEMMA StutterIInv == ASSUME IInv, UNCHANGED vars PROVE IInv'
  BY DEF IInv, TypeOK, Knows, Verified, Found, Due, Named, Delegates, Vouching, Working, Clean,
         Downloading, vars, offer, device, counters

-----------------------------------------------------------------------------
(* The theorems *)

\* Every step keeps the invariant.
LEMMA NextIInv == IInv /\ [Next]_vars => IInv'
<1> SUFFICES ASSUME IInv, [Next]_vars PROVE IInv'
  OBVIOUS
<1>1. CASE UNCHANGED vars
  BY <1>1, StutterIInv
<1>2. CASE Begin
  BY <1>2, BeginIInv
<1>3. CASE Metadata
  BY <1>3, FetchTimestampIInv, FetchSnapshotIInv, FetchTargetsIInv, FetchDelegationIInv,
     FetchManifestIInv, ReadManifestIInv DEF Metadata
<1>4. CASE Download
  BY <1>4, AlreadyThereIInv, CompletePartIInv, StartOverIInv, ResumeIInv, ResumedIInv,
     IgnoresRangeIInv, AskAgainIInv, AnsweredWholeIInv, ReadIInv, VerifyIInv DEF Download
<1>5. CASE Installation
  BY <1>5, NoManifestIInv, AlreadyCurrentIInv, DecideIInv, FinishIInv, InstallIInv DEF Installation
<1>6. CASE Publish
  BY <1>6, PublishIInv
<1>7. CASE Disturbance
  BY <1>7, FailureIInv, CrashIInv, CopyFailsIInv DEF Disturbance
<1> QED BY <1>1, <1>2, <1>3, <1>4, <1>5, <1>6, <1>7 DEF Next, Step

\* The invariant holds throughout: for any releases, images, lengths, faults and
\* crashes.
THEOREM RepositoryInvariant == Spec => []IInv
  BY InitIInv, NextIInv, PTL DEF Spec

\* Every step of a pass has what it relies on (perform_update).
THEOREM RepositoryTyping == Spec => []TypeOK
<1>1. IInv => TypeOK
  BY DEF IInv
<1> QED BY <1>1, RepositoryInvariant, PTL

\* A pass stages the release whose manifest.json its metadata list, by a delegation
\* or else by targets.json, whatever an earlier one left in .update-staging; only
\* where they list none does it stage what was left (perform_update).
THEOREM StagesVerified == Spec => StagesWhatItVerified
<1>1. IInv /\ [Next]_vars =>
        [\A r \in staged' \ staged : r = IF Named # NONE THEN Named ELSE manifest]_vars
  <2> SUFFICES ASSUME IInv, [Next]_vars, NEW r \in staged' \ staged
               PROVE  r = IF Named # NONE THEN Named ELSE manifest
    OBVIOUS
  <2>1. staged' # staged
    OBVIOUS
  <2>2. Finish
    BY <2>1 DEF Next, Step, vars, Begin, Metadata, Download, Installation, Disturbance, Publish,
       FetchTimestamp, FetchSnapshot, FetchTargets, FetchDelegation, FetchManifest,
       ReadManifest, NoManifest, AlreadyThere, CompletePart, StartOver, Resume, Resumed, IgnoresRange, AskAgain,
       AnsweredWhole, Read, Verify, AlreadyCurrent, Decide, Install, Refused, Breaks, Crash,
       CopyFails, device
  <2>3. r = manifest /\ pass.pc = "install"
    BY <2>2 DEF Finish
  <2> QED BY <2>3 DEF IInv, Knows
<1> QED BY <1>1, RepositoryInvariant, PTL DEF Spec, StagesWhatItVerified

-----------------------------------------------------------------------------
(* What is kept of a .part *)

\* A prefix of the image is no longer than the image.
Prefixes == \A i \in Images : part[i].clean => part[i].len <= Blocks

\* What a prefix may be lost to.
Excused(i) ==
  \/ crashes' > crashes \/ (pass.pc # "read" /\ pass'.pc = "read")
  \/ Dest(i)' = "good" \/ (manifest # NONE /\ manifest' = NONE)

\* Other .parts stay, and one that is removed was no prefix, or is excused.
Keeps ==
  \A i \in Images :
    \/ part'[i] = part[i]
    \/ part'[i] = NoPart /\ (~part[i].clean \/ Excused(i))
    \/ part'[i].len = part[i].len + 1 /\ (part'[i].clean => part[i].len < Blocks)
    \/ part'[i] \in Torn(part[i]) /\ Excused(i)

LEMMA PartType ==
  ASSUME IInv, NEW i \in Images
  PROVE  part[i] \in [len : 0..Blocks + 1, clean : BOOLEAN] /\ part[i].len \in Nat /\ Blocks \in Nat
<1>1. part \in [Images -> [len : 0..Blocks + 1, clean : BOOLEAN]]
  BY DEF IInv, TypeOK
<1>2. part[i] \in [len : 0..Blocks + 1, clean : BOOLEAN]
  BY <1>1
<1>3. part[i].len \in 0..Blocks + 1
  BY <1>2
<1> QED BY <1>2, <1>3, RepositoryAssumption

\* Nothing shortens a .part but its removal, or the replacement that it is excused by.
LEMMA RemovedKeeps ==
  ASSUME IInv, NEW j \in Images, SetPart(j, NoPart), ~part[j].clean \/ Excused(j)
  PROVE  Keeps
<1>1. part' = [part EXCEPT ![j] = NoPart] /\ part \in [Images -> [len : 0..Blocks + 1, clean : BOOLEAN]]
  BY DEF SetPart, IInv, TypeOK
<1>2. part'[j] = NoPart /\ \A i \in Images \ {j} : part'[i] = part[i]
  BY <1>1
<1> QED BY <1>2 DEF Keeps

LEMMA SameKeeps == ASSUME UNCHANGED part PROVE Keeps
  BY DEF Keeps

\* What is at its destination excuses the .part.
LEMMA PutGood ==
  ASSUME IInv, NEW i \in Images, PutDest(i, "good"), stream' = stream PROVE Dest(i)' = "good"
<1>1. file \in [Images -> {"absent", "good", "bad"}] /\ pool \in [Images -> {"absent", "good", "bad"}]
  BY DEF IInv, TypeOK
<1> QED BY <1>1 DEF PutDest, Dest

\* One with the wrong hash, or longer than the image, is no prefix.
LEMMA NoPrefix ==
  ASSUME IInv, Prefixes, NEW i \in Images, part[i] # [len |-> Blocks, clean |-> TRUE],
         ~(part[i].len < Blocks)
  PROVE  ~part[i].clean
<1>1. part[i] \in [len : 0..Blocks + 1, clean : BOOLEAN] /\ part[i].len \in Nat /\ Blocks \in Nat
  BY PartType
<1> SUFFICES ASSUME part[i].clean PROVE FALSE
  OBVIOUS
<1>2. part[i].len = Blocks
  BY <1>1 DEF Prefixes
<1>3. part[i].clean = TRUE
  BY <1>1
<1> QED BY <1>1, <1>2, <1>3

\* download_target_streaming: a block is added, or the .part has done its work.
LEMMA DownloadKeeps == ASSUME IInv, Prefixes, Download PROVE Keeps
<1>0. pass.pc \in {"ask", "fresh", "read"} => pass.image \in Images
  BY DEF IInv, TypeOK, Working, PassType, Downloading
<1>1. ASSUME NEW i \in Images, AlreadyThere(i) \/ Resume(i) PROVE Keeps
  <2>1. UNCHANGED part
    BY <1>1 DEF AlreadyThere, Resume, device
  <2> QED BY <2>1, SameKeeps
<1>2. ASSUME NEW i \in Images, CompletePart(i) PROVE Keeps
  <2>1. SetPart(i, NoPart) /\ PutDest(i, "good") /\ stream' = stream
    BY <1>2 DEF CompletePart, offer
  <2>2. Excused(i)
    BY <2>1, PutGood DEF Excused
  <2> QED BY <2>1, <2>2, RemovedKeeps
<1>3. ASSUME NEW i \in Images, StartOver(i) PROVE Keeps
  <2>1. SetPart(i, NoPart) /\ part[i].len >= Blocks /\ part[i] # [len |-> Blocks, clean |-> TRUE]
    BY <1>3 DEF StartOver
  <2>2. ~(part[i].len < Blocks)
    BY <2>1, PartType
  <2> QED BY <2>1, <2>2, NoPrefix, RemovedKeeps
<1>4. CASE Resumed \/ AskAgain
  <2>1. UNCHANGED part
    BY <1>4 DEF Resumed, AskAgain, device
  <2> QED BY <2>1, SameKeeps
<1>5. CASE IgnoresRange \/ AnsweredWhole
  <2>1. pass.pc \in {"ask", "fresh"} /\ Go("read") /\ SetPart(pass.image, NoPart)
    BY <1>5 DEF IgnoresRange, AnsweredWhole
  <2>2. pass \in PassType
    BY DEF IInv, TypeOK, PassType
  <2>3. pass'.pc = "read"
    BY <2>1, <2>2 DEF Go, PassType
  <2>4. PICK i \in Images : i = pass.image
    BY <1>0, <2>1
  <2>5. Excused(i)
    BY <2>1, <2>3 DEF Excused
  <2> QED BY <2>1, <2>4, <2>5, RemovedKeeps
<1>6. CASE Read
  <2>1. PICK i \in Images : i = pass.image
    BY <1>0, <1>6 DEF Read
  <2>2. part \in [Images -> [len : 0..Blocks + 1, clean : BOOLEAN]]
    BY DEF IInv, TypeOK
  <2>3. part' = [part EXCEPT ![i] = [len |-> part[i].len + 1,
                                     clean |-> part[i].clean /\ body.clean /\ part[i].len < Blocks]]
    BY <1>6, <2>1 DEF Read, SetPart
  <2>4. /\ part'[i].len = part[i].len + 1
        /\ part'[i].clean => part[i].len < Blocks
        /\ \A j \in Images \ {i} : part'[j] = part[j]
    BY <2>2, <2>3
  <2> QED BY <2>4 DEF Keeps
<1>7. CASE Verify
  <2>1. PICK i \in Images : i = pass.image
    BY <1>0, <1>7 DEF Verify
  <2>2. part \in [Images -> [len : 0..Blocks + 1, clean : BOOLEAN]]
    BY DEF IInv, TypeOK
  <2>3. CASE part[i] = [len |-> Blocks, clean |-> TRUE]
    <3>1. SetPart(i, NoPart) /\ PutDest(i, "good") /\ stream' = stream
      BY <1>7, <2>1, <2>3 DEF Verify, offer
    <3>2. Excused(i)
      BY <3>1, PutGood DEF Excused
    <3> QED BY <3>1, <3>2, RemovedKeeps
  <2>4. CASE part[i] # [len |-> Blocks, clean |-> TRUE] /\ part[i].len < Blocks
    <3>1. part' = [part EXCEPT ![i] = part[i]]
      BY <1>7, <2>1, <2>4 DEF Verify, SetPart
    <3>2. UNCHANGED part
      BY <2>2, <3>1
    <3> QED BY <3>2, SameKeeps
  <2>5. CASE part[i] # [len |-> Blocks, clean |-> TRUE] /\ ~(part[i].len < Blocks)
    <3>1. SetPart(i, NoPart)
      BY <1>7, <2>1, <2>5 DEF Verify
    <3> QED BY <2>5, <3>1, NoPrefix, RemovedKeeps
  <2> QED BY <2>3, <2>4, <2>5
<1> QED BY <1>1, <1>2, <1>3, <1>4, <1>5, <1>6, <1>7 DEF Download

\* ClearStaging takes the manifest along, and a crash is one.
LEMMA ClearKeeps == ASSUME IInv, manifest # NONE, ClearStaging PROVE Keeps
<1>1. \A i \in Images : part'[i] \in {part[i], NoPart}
  BY DEF ClearStaging
<1>2. \A i \in Images : Excused(i)
  BY DEF Excused, ClearStaging
<1> QED BY <1>1, <1>2 DEF Keeps

LEMMA CrashKeeps == ASSUME IInv, Crash PROVE Keeps
<1>1. PICK torn \in [{i \in Images : part[i].len > 0} -> UNION {Torn(part[i]) : i \in Images}] :
        /\ \A i \in DOMAIN torn : torn[i] \in Torn(part[i])
        /\ part' = [i \in Images |-> IF i \in DOMAIN torn THEN torn[i] ELSE part[i]]
  BY DEF Crash
<1>2. \A i \in Images : part'[i] \in Torn(part[i]) \/ part'[i] = part[i]
  BY <1>1
<1>3. crashes' > crashes
  BY RepositoryAssumption DEF Crash, IInv, TypeOK
<1>4. \A i \in Images : Excused(i)
  BY <1>3 DEF Excused
<1> QED BY <1>2, <1>4 DEF Keeps

LEMMA NextKeeps == ASSUME IInv, Prefixes, [Next]_vars PROVE Keeps
<1>1. CASE Download
  BY <1>1, DownloadKeeps
<1>2. CASE Crash
  BY <1>2, CrashKeeps
<1>3. CASE AlreadyCurrent \/ Finish
  <2>1. ClearStaging \/ UNCHANGED part
    BY <1>3 DEF AlreadyCurrent, Finish
  <2>2. manifest # NONE
    BY <1>3, RepositoryAssumption DEF AlreadyCurrent, Finish, IInv, TypeOK, Knows
  <2> QED BY <2>2, <2>1, ClearKeeps, SameKeeps
<1>4. CASE UNCHANGED vars \/ Begin \/ Metadata \/ Decide \/ Publish \/ Refused \/ Breaks
           \/ NoManifest \/ (\E i \in Images : Install(i) \/ CopyFails(i))
  <2>1. UNCHANGED part
    BY <1>4 DEF vars, Begin, Metadata, Decide, Publish, Refused, Breaks, Install, CopyFails, device,
       FetchTimestamp, FetchSnapshot, FetchTargets, FetchDelegation, FetchManifest, ReadManifest,
       NoManifest
  <2> QED BY <2>1, SameKeeps
<1> QED BY <1>1, <1>2, <1>3, <1>4 DEF Next, Step, Installation, Disturbance

\* What a crash leaves of a prefix is one, no longer than it was, or is none.
LEMMA KeepsPrefixes == ASSUME IInv, Prefixes, Keeps PROVE Prefixes'
<1> SUFFICES ASSUME NEW i \in Images, part'[i].clean PROVE part'[i].len <= Blocks
  BY DEF Prefixes
<1>1. part[i] \in [len : 0..Blocks + 1, clean : BOOLEAN] /\ part[i].len \in Nat /\ Blocks \in Nat
  BY PartType
<1>2. CASE part'[i] = part[i]
  BY <1>2 DEF Prefixes
<1>3. CASE part'[i] = NoPart
  BY <1>1, <1>3 DEF NoPart
<1>4. CASE part'[i].len = part[i].len + 1 /\ (part'[i].clean => part[i].len < Blocks)
  BY <1>1, <1>4
<1>5. CASE part'[i] \in Torn(part[i])
  <2>1. CASE part'[i] \in [len : 0..part[i].len, clean : {part[i].clean, FALSE}]
    <3>1. part'[i].len \in 0..part[i].len /\ part[i].clean
      BY <2>1
    <3> QED BY <1>1, <3>1 DEF Prefixes
  <2> QED BY <1>2, <1>5, <2>1 DEF Torn
<1> QED BY <1>2, <1>3, <1>4, <1>5 DEF Keeps

\* The bytes that an interrupted pass has left are lost to a crash, to the response
\* that replaces them, or to their success, but to no error (download_target_streaming,
\* fetch_streaming).
THEOREM PrefixesKept == Spec => PrefixKept
<1>1. Init => Prefixes
  BY RepositoryAssumption DEF Init, Prefixes, NoPart
<1>2. IInv /\ Prefixes /\ [Next]_vars => Prefixes'
  BY NextKeeps, KeepsPrefixes
<1>3. IInv /\ Prefixes /\ [Next]_vars =>
        [\A i \in Images :
           part[i].clean /\ part'[i].len < part[i].len
             => \/ crashes' > crashes \/ (pass.pc # "read" /\ pass'.pc = "read")
                \/ Dest(i)' = "good" \/ (manifest # NONE /\ manifest' = NONE)]_vars
  <2> SUFFICES ASSUME IInv, Prefixes, [Next]_vars,
                      NEW i \in Images, part[i].clean, part'[i].len < part[i].len
               PROVE  Excused(i)
    BY DEF Excused
  <2>1. Keeps
    BY NextKeeps
  <2>2. part[i].len \in Nat
    BY PartType
  <2> QED BY <2>1, <2>2 DEF Keeps
<1> QED BY <1>1, <1>2, <1>3, RepositoryInvariant, PTL DEF Spec, PrefixKept

-----------------------------------------------------------------------------
(* The refinement *)

\* Where the offer, the images and the staged releases stay, nothing is delivered.
LEMMA Stays ==
  ASSUME UNCHANGED <<offer, file, pool, staged>>
  PROVE  UNCHANGED Promised!vars
<1>1. [i \in Images |-> Dest(i)]' = [i \in Images |-> Dest(i)]
  BY DEF Dest, offer
<1> QED BY <1>1 DEF Promised!vars, offer

\* An image that is put at its destination is delivered.
LEMMA Delivered ==
  ASSUME IInv, Single, NEW i \in Images, i \in pass.todo, pass.pc \in Downloading,
         PutDest(i, "good"), UNCHANGED <<offer, staged>>
  PROVE  Promised!Deliver(i)
<1>1. \E r \in 1..newest : i \in Lists[r]
  BY DEF IInv, Vouching, Working
<1>2. file \in [Images -> {"absent", "good", "bad"}] /\ pool \in [Images -> {"absent", "good", "bad"}]
  BY DEF IInv, TypeOK
<1>3. [j \in Images |-> Dest(j)]' = [[j \in Images |-> Dest(j)] EXCEPT ![i] = "good"]
  BY <1>2 DEF PutDest, Dest, offer
<1>4. {j \in Images : pool[j] = "good"}'
        \in {{j \in Images : pool[j] = "good"}, {j \in Images : pool[j] = "good"} \cup {i}}
  BY <1>2 DEF PutDest, offer
<1>5. (1..newest)' = 1..newest
  BY DEF offer
<1> QED BY <1>1, <1>3, <1>4, <1>5 DEF Promised!Deliver

\* What is in the way of a download is thrown away.
LEMMA Removed ==
  ASSUME IInv, NEW i \in Images, PutDest(i, "absent"), UNCHANGED <<offer, staged>>
  PROVE  Promised!Lose
<1>2. file \in [Images -> {"absent", "good", "bad"}] /\ pool \in [Images -> {"absent", "good", "bad"}]
  BY DEF IInv, TypeOK
<1>3. \A j \in Images : [k \in Images |-> Dest(k)]'[j] \in {[k \in Images |-> Dest(k)][j], "absent"}
  BY <1>2 DEF PutDest, Dest, offer
<1>4. {j \in Images : pool[j] = "good"}' \subseteq {j \in Images : pool[j] = "good"}
  BY <1>2 DEF PutDest, offer
<1>5. (1..newest)' = 1..newest
  BY DEF offer
<1> QED BY <1>3, <1>4, <1>5 DEF Promised!Lose

\* .update-staging is emptied: nothing that is used goes.
LEMMA Cleared ==
  ASSUME IInv, ClearStaging, UNCHANGED <<offer, pool>>
  PROVE  /\ \A j \in Images :
              [k \in Images |-> Dest(k)]'[j] \in {[k \in Images |-> Dest(k)][j], "absent"}
         /\ {j \in Images : pool[j] = "good"}' = {j \in Images : pool[j] = "good"}
         /\ (1..newest)' = 1..newest
  BY DEF ClearStaging, Dest, offer

\* A copy into the pool installs the image, or puts nothing there.
LEMMA Installed ==
  ASSUME IInv, NEW i \in Images, Install(i)
  PROVE  Promised!Install(i) \/ UNCHANGED Promised!vars
<1>1. UNCHANGED <<offer, file, staged>>
  BY DEF Install
<1>2. CASE UNCHANGED pool
  BY <1>1, <1>2, Stays
<1>3. CASE ~UNCHANGED pool
  <2>1. file[i] # "absent" /\ pool' = [pool EXCEPT ![i] = file[i]]
    BY <1>3 DEF Install
  <2>2. file[i] = "good" /\ ~stream
    BY <2>1 DEF IInv, TypeOK, Clean
  <2>3. [j \in Images |-> Dest(j)]' = [j \in Images |-> Dest(j)] /\ Dest(i) = "good"
    BY <1>1, <2>2 DEF Dest, offer
  <2>4. {j \in Images : pool[j] = "good"}' = {j \in Images : pool[j] = "good"} \cup {i}
    BY <2>1, <2>2 DEF IInv, TypeOK
  <2>5. (1..newest)' = 1..newest
    BY <1>1 DEF offer
  <2> QED BY <1>1, <2>3, <2>4, <2>5 DEF Promised!Install
<1> QED BY <1>2, <1>3

\* A copy that fails half-way leaves nothing that counts as whole.
LEMMA FailedCopy ==
  ASSUME IInv, NEW i \in Images, CopyFails(i)
  PROVE  UNCHANGED Promised!vars
<1>1. /\ UNCHANGED <<offer, file, staged>> /\ pool[i] = "absent" /\ file[i] # "absent"
      /\ pool' = [pool EXCEPT ![i] = "bad"]
  BY DEF CopyFails
<1>2. ~stream
  BY <1>1 DEF IInv, Clean
<1>3. [j \in Images |-> Dest(j)]' = [j \in Images |-> Dest(j)]
  BY <1>1, <1>2 DEF Dest, offer
<1>4. {j \in Images : pool[j] = "good"}' = {j \in Images : pool[j] = "good"}
  BY <1>1 DEF IInv, TypeOK
<1> QED BY <1>1, <1>3, <1>4 DEF Promised!vars, offer

\* A pass that ends with an installation stages the release, withdraws it, or does
\* neither.
LEMMA Finished ==
  ASSUME IInv, Single, Finish
  PROVE  (\E r \in Releases : Promised!Stage(r) \/ Promised!Withdraw(r)) \/ UNCHANGED Promised!vars
<1>1. UNCHANGED <<offer, pool>> /\ pass.pc = "install" /\ pass.todo = {}
  BY DEF Finish
<1>2. manifest \in Releases /\ manifest \in 1..newest
  BY <1>1, RepositoryAssumption DEF IInv, TypeOK, Knows, Vouching
<1>3. CASE pass.missing
  <2>1. UNCHANGED <<file, staged>>
    BY <1>3 DEF Finish
  <2> QED BY <1>1, <2>1, Stays
<1>4. CASE ~pass.missing
  <2>1. ClearStaging /\ staged' \in {staged \cup {manifest}, staged \ {manifest}}
    BY <1>4 DEF Finish
  <2>2. /\ \A j \in Images :
             [k \in Images |-> Dest(k)]'[j] \in {[k \in Images |-> Dest(k)][j], "absent"}
        /\ {j \in Images : pool[j] = "good"}' = {j \in Images : pool[j] = "good"}
        /\ (1..newest)' = 1..newest
    BY <1>1, <2>1, Cleared
  <2> DEFINE needs == [r \in Releases |-> Lists[r] \ {Bundle[r]}]
  <2>3. needs[manifest] \subseteq {j \in Images : pool[j] = "good"}
    <3>1. Lists[manifest] \subseteq Images
      BY <1>2, ListsType
    <3> QED BY <1>1, <1>2, <1>4, <3>1 DEF IInv, Working
  <2>4. CASE staged' = staged \cup {manifest}
    <3>1. Promised!Stage(manifest)
      BY <1>2, <2>2, <2>3, <2>4 DEF Promised!Stage
    <3> QED BY <1>2, <3>1
  <2>5. CASE staged' = staged \ {manifest}
    <3>1. Promised!Withdraw(manifest)
      BY <2>2, <2>5 DEF Promised!Withdraw
    <3> QED BY <1>2, <3>1
  <2> QED BY <2>1, <2>4, <2>5
<1> QED BY <1>3, <1>4

\* A power failure tears only what counts as nothing, or was in the pool.
LEMMA Crashed == ASSUME IInv, Crash PROVE Promised!Lose
<1>1. UNCHANGED <<offer, file, staged>>
  BY DEF Crash
<1>2. PICK lost \in SUBSET fresh : pool' = [i \in Images |-> IF i \in lost THEN "bad" ELSE pool[i]]
  BY DEF Crash
<1>3. [j \in Images |-> Dest(j)]' = [j \in Images |-> Dest(j)]
  <2>1. CASE stream
    BY <1>1, <1>2, <2>1 DEF Dest, IInv, Clean, offer
  <2>2. CASE ~stream
    BY <1>1, <2>2 DEF Dest, offer
  <2> QED BY <2>1, <2>2
<1>4. {j \in Images : pool[j] = "good"}' \subseteq {j \in Images : pool[j] = "good"}
  BY <1>2
<1>5. (1..newest)' = 1..newest
  BY <1>1 DEF offer
<1> QED BY <1>1, <1>3, <1>4, <1>5 DEF Promised!Lose

\* The metadata chain delivers nothing.
LEMMA MetadataStays == ASSUME Metadata PROVE UNCHANGED Promised!vars
<1>1. UNCHANGED <<offer, file, pool, staged>>
  BY DEF Metadata, FetchTimestamp, FetchSnapshot, FetchTargets, FetchDelegation, FetchManifest,
         ReadManifest, device
<1> QED BY <1>1, Stays

\* A download delivers its image, makes room for it, or does neither.
LEMMA DownloadDelivers == ASSUME IInv, Single, Download PROVE [Promised!Next]_(Promised!vars)
<1>1. CASE Resumed \/ IgnoresRange \/ AskAgain \/ AnsweredWhole \/ Read
  <2>1. UNCHANGED <<offer, file, pool, staged>>
    BY <1>1 DEF Resumed, IgnoresRange, AskAgain, AnsweredWhole, Read, device
  <2> QED BY <2>1, Stays
<1>2. ASSUME NEW i \in Images, AlreadyThere(i) PROVE UNCHANGED Promised!vars
  BY <1>2, Stays DEF AlreadyThere, device
<1>3. ASSUME NEW i \in Images, CompletePart(i) PROVE Promised!Deliver(i)
  BY <1>3, Delivered DEF CompletePart, Wanted, Downloading
<1>4. ASSUME NEW i \in Images, StartOver(i) \/ Resume(i) PROVE Promised!Lose
  BY <1>4, Removed DEF StartOver, Resume
<1>5. CASE Verify
  <2>1. pass.image \in Images /\ pass.image \in pass.todo /\ pass.pc \in Downloading
    BY <1>5 DEF Verify, IInv, TypeOK, Working, Downloading
  <2>2. CASE PutDest(pass.image, "good")
    <3>1. PICK i \in Images : i = pass.image
      BY <2>1
    <3>2. UNCHANGED <<offer, staged>>
      BY <1>5 DEF Verify
    <3>3. Promised!Deliver(i)
      BY <2>1, <2>2, <3>1, <3>2, Delivered
    <3> QED BY <3>3 DEF Promised!Next
  <2>3. CASE UNCHANGED <<file, pool>>
    BY <1>5, <2>3, Stays DEF Verify
  <2> QED BY <1>5, <2>2, <2>3 DEF Verify
<1> QED BY <1>1, <1>2, <1>3, <1>4, <1>5 DEF Download, Promised!Next

\* Every step of the repository and the device is one of Delivery, or none.
LEMMA Simulation ==
  ASSUME IInv, Single, [Next]_vars PROVE [Promised!Next]_(Promised!vars)
<1>1. CASE UNCHANGED vars
  BY <1>1, Stays DEF vars, device
<1>2. CASE Begin
  BY <1>2, Stays DEF Begin, device
<1>3. CASE Metadata
  BY <1>3, MetadataStays
<1>4. CASE Download
  BY <1>4, DownloadDelivers
<1>5. CASE AlreadyCurrent
  <2>1. UNCHANGED <<offer, pool, staged>> /\ ClearStaging
    BY <1>5 DEF AlreadyCurrent
  <2>2. Promised!Lose
    BY <2>1, Cleared DEF Promised!Lose
  <2> QED BY <2>2 DEF Promised!Next
<1>6. CASE Decide \/ NoManifest
  BY <1>6, Stays DEF Decide, NoManifest, device
<1>7. CASE Finish
  BY <1>7, Finished DEF Promised!Next
<1>8. ASSUME NEW i \in Images, Install(i) PROVE [Promised!Next]_(Promised!vars)
  BY <1>8, Installed DEF Promised!Next
<1>9. CASE Publish
  <2>1. newest' = newest + 1 /\ newest + 1 \in 1..Newest /\ UNCHANGED <<stream, file, pool, staged>>
    BY <1>9, RepositoryAssumption DEF Publish, IInv, TypeOK, device
  <2>2. (1..newest)' = 1..newest \cup {newest + 1}
    <3>1. newest \in Nat
      BY RepositoryAssumption DEF IInv, TypeOK
    <3>2. 1..newest + 1 = 1..newest \cup {newest + 1}
      BY <3>1
    <3> QED BY <2>1, <3>2
  <2>3. [i \in Images |-> Dest(i)]' = [i \in Images |-> Dest(i)]
    BY <2>1 DEF Dest
  <2>4. Promised!Offer(newest + 1) /\ newest + 1 \in Releases
    BY <2>1, <2>2, <2>3 DEF Promised!Offer, Releases
  <2> QED BY <2>4 DEF Promised!Next
<1>10. CASE Refused \/ Breaks
  BY <1>10, Stays DEF Refused, Breaks, device
<1>11. CASE Crash
  BY <1>11, Crashed DEF Promised!Next
<1>12. ASSUME NEW i \in Images, CopyFails(i) PROVE UNCHANGED Promised!vars
  BY <1>12, FailedCopy
<1> QED BY <1>1, <1>2, <1>3, <1>4, <1>5, <1>6, <1>7, <1>8, <1>9, <1>10, <1>11, <1>12
    DEF Next, Step, Installation, Disturbance

\* Where one signature is enough, the update passes implement Delivery: what
\* perform_update, download_target_streaming and install_images_from_staging bring is
\* what a vouched release lists, and a release is staged only when it is whole.
THEOREM RepositoryImplements ==
  ASSUME Single PROVE Spec => Delivers
<1>1. Init => Promised!Init
  BY RepositoryAssumption DEF Init, Promised!Init, Dest
<1>2. IInv /\ [Next]_vars => [Promised!Next]_(Promised!vars)
  BY Simulation
<1> QED BY <1>1, <1>2, RepositoryInvariant, PTL DEF Spec, Delivers, Promised!Spec
=============================================================================
