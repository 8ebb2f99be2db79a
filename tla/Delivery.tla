------------------------------- MODULE Delivery ------------------------------
(***************************************************************************)
(* What an update repository promises a device, whatever the connection    *)
(* does: an image that is there is the one a vouched release lists, and a  *)
(* release is staged only when all it needs is whole.                      *)
(***************************************************************************)
EXTENDS Naturals

CONSTANTS
  Releases,
  Images,
  Vouched,         \* the releases the trusted keys signed
  Lists,           \* the images each release's targets list
  Needs            \* the images each release's runtime cannot do without

VARIABLES offered, fetched, whole, staged

vars == <<offered, fetched, whole, staged>>

Conditions == {"absent", "good"}

TypeOK ==
  /\ offered \subseteq Releases /\ staged \subseteq Releases
  /\ fetched \in [Images -> Conditions]
  /\ whole \subseteq Images

Init ==
  /\ offered \subseteq Vouched /\ staged = {}
  /\ fetched = [i \in Images |-> "absent"]
  /\ whole = {}

Offer(r) ==
  /\ r \in Vouched
  /\ offered' = offered \cup {r}
  /\ UNCHANGED <<fetched, whole, staged>>

\* An image arrives as a whole, where it is used or where it waits to be.
Deliver(i) ==
  /\ \E r \in offered : i \in Lists[r]
  /\ fetched' = [fetched EXCEPT ![i] = "good"]
  /\ whole' \in {whole, whole \cup {i}}
  /\ UNCHANGED <<offered, staged>>

Install(i) ==
  /\ fetched[i] = "good"
  /\ whole' = whole \cup {i}
  /\ UNCHANGED <<offered, fetched, staged>>

\* Images are thrown away, or a power failure tears them.
Lose ==
  /\ \A i \in Images : fetched'[i] \in {fetched[i], "absent"}
  /\ whole' \subseteq whole
  /\ UNCHANGED <<offered, staged>>

\* A release is staged, and what was waiting to be installed is thrown away.
Stage(r) ==
  /\ r \in offered /\ Needs[r] \subseteq whole
  /\ staged' = staged \cup {r}
  /\ \A i \in Images : fetched'[i] \in {fetched[i], "absent"}
  /\ UNCHANGED <<offered, whole>>

\* A staged release that could not be finished is withdrawn.
Withdraw(r) ==
  /\ staged' = staged \ {r}
  /\ \A i \in Images : fetched'[i] \in {fetched[i], "absent"}
  /\ UNCHANGED <<offered, whole>>

Next ==
  \/ \E r \in Releases : Offer(r) \/ Stage(r) \/ Withdraw(r)
  \/ \E i \in Images : Deliver(i) \/ Install(i)
  \/ Lose

Spec == Init /\ [][Next]_vars
=============================================================================
