---------------------------- MODULE DiscoveryProofs ----------------------------
(***************************************************************************)
(* The safety of Discovery, under either resolver, for any backends,       *)
(* metadata, failures and bounds.  That no listing takes a staying backend *)
(* out of the view needs Covered: a listing at hand, read or still to be   *)
(* read, has every staying backend of the view, however often List started *)
(* again.                                                                  *)
(***************************************************************************)
EXTENDS Resolvers, TLAPS

Stages == Listings \cup {"next", "send", "arm", "wait", "closed", "stopped"}

TypeInv ==
  /\ dir \in Listing /\ kv \in Listing /\ view \in Listing
  /\ made \in BOOLEAN /\ todo \in SUBSET Backends /\ stayed \in SUBSET Backends
  /\ at \in Stages
  /\ watch \in {"none", "armed", "changed", "notwatching"}
  /\ changes \in Nat /\ failures \in Nat
  /\ listedAt \in Nat /\ viewAt \in Nat /\ armedAt \in Nat

\* What is known of a staying backend is true: it is in the directory.
Known == DOMAIN kv \cup todo \cup DOMAIN view
StayersThere == \A b \in stayed : b \in Known => b \in DOMAIN dir

\* The listing at hand does not miss a staying backend of the view.
Covered ==
  /\ at \in Listings => \A b \in stayed : b \in DOMAIN view => b \in DOMAIN kv \cup todo
  /\ at = "send" => \A b \in stayed : b \in DOMAIN view => b \in DOMAIN kv

IInv == TypeInv /\ StayersThere /\ Covered

-----------------------------------------------------------------------------
(* Listings as functions *)

\* A function from backends to metadata is a listing, and every listing is one.
LEMMA ListingIntro ==
  ASSUME NEW S \in SUBSET Backends, NEW f \in [S -> Metas]
  PROVE  f \in Listing /\ DOMAIN f = S
BY DEF Listing

LEMMA ListingElim ==
  ASSUME NEW f \in Listing
  PROVE  DOMAIN f \in SUBSET Backends /\ f \in [DOMAIN f -> Metas]
BY DEF Listing

\* A listing with one more backend, or with another value for one of its own.
LEMMA ListingSet ==
  ASSUME NEW f \in Listing, NEW b \in Backends, NEW meta \in Metas
  PROVE  LET g == [c \in DOMAIN f \cup {b} |-> IF c = b THEN meta ELSE f[c]]
         IN  g \in Listing /\ DOMAIN g = DOMAIN f \cup {b}
<1> DEFINE S == DOMAIN f \cup {b}
           g == [c \in S |-> IF c = b THEN meta ELSE f[c]]
<1>1. S \in SUBSET Backends /\ f \in [DOMAIN f -> Metas]
  BY ListingElim
<1>2. g \in [S -> Metas]
  BY <1>1
<1> QED
  BY <1>1, <1>2, ListingIntro

LEMMA ListingExcept ==
  ASSUME NEW f \in Listing, NEW b \in DOMAIN f, NEW meta \in Metas
  PROVE  [f EXCEPT ![b] = meta] \in Listing /\ DOMAIN [f EXCEPT ![b] = meta] = DOMAIN f
<1>1. [f EXCEPT ![b] = meta] \in [DOMAIN f -> Metas]
  BY ListingElim
<1> QED
  BY <1>1, ListingElim, ListingIntro

LEMMA ListingWithout ==
  ASSUME NEW f \in Listing, NEW b
  PROVE  LET g == [c \in DOMAIN f \ {b} |-> f[c]]
         IN  g \in Listing /\ DOMAIN g = DOMAIN f \ {b}
<1> DEFINE S == DOMAIN f \ {b}
           g == [c \in S |-> f[c]]
<1>1. S \in SUBSET Backends /\ f \in [DOMAIN f -> Metas]
  BY ListingElim
<1>2. g \in [S -> Metas]
  BY <1>1
<1> QED
  BY <1>1, <1>2, ListingIntro

LEMMA NoServersListing == NoServers \in Listing /\ DOMAIN NoServers = {}
<1>1. NoServers \in [{} -> Metas]
  BY DEF NoServers
<1> QED
  BY <1>1, ListingIntro

-----------------------------------------------------------------------------
LEMMA InitIInv == Init => IInv
<1> SUFFICES ASSUME Init PROVE IInv
  OBVIOUS
<1>1. made \in BOOLEAN
  <2> DEFINE some == dir # NoServers
  <2>1. some \in BOOLEAN
    OBVIOUS
  <2>2. made \in {TRUE, some}
    BY DEF Init
  <2> HIDE DEF some
  <2> QED
    BY <2>1, <2>2
<1>2. TypeInv
  BY <1>1, NoServersListing DEF Init, TypeInv, Stages
<1>3. StayersThere
  BY NoServersListing DEF Init, StayersThere, Known
<1>4. Covered
  BY DEF Init, Covered, Listings
<1> QED
  BY <1>2, <1>3, <1>4 DEF IInv

\* The directory changes: a staying backend is not the one that leaves.
LEMMA DirectoryKeeps ==
  ASSUME IInv, NEW b \in Backends, Joins(b) \/ SetsValue(b) \/ Leaves(b)
  PROVE  IInv'
<1> USE DEF IInv, TypeInv
<1>1. /\ UNCHANGED <<at, todo, kv, listedAt, view, viewAt, armedAt, failures>>
      /\ changes' \in Nat /\ watch' \in {"none", "armed", "changed", "notwatching"}
  BY DEF Joins, SetsValue, Leaves, Changed, listVars, viewVars
<1>2. CASE Joins(b)
  <2>1. dir' \in Listing /\ DOMAIN dir' = DOMAIN dir \cup {b}
    BY <1>2, ListingSet, EmptyAssumption DEF Joins, Changed
  <2>2. made' = TRUE /\ stayed' = stayed
    BY <1>2 DEF Joins
  <2> QED
    BY <1>1, <2>1, <2>2 DEF StayersThere, Known, Covered
<1>3. CASE SetsValue(b)
  <2>1. PICK meta \in Metas : dir' = [dir EXCEPT ![b] = meta]
    BY <1>3 DEF SetsValue, Changed
  <2>2. dir' \in Listing /\ DOMAIN dir' = DOMAIN dir
    BY <1>3, <2>1, ListingExcept DEF SetsValue
  <2>3. made' = made /\ stayed' = stayed
    BY <1>3 DEF SetsValue
  <2> QED
    BY <1>1, <2>2, <2>3 DEF StayersThere, Known, Covered
<1>4. CASE Leaves(b)
  <2>1. dir' \in Listing /\ DOMAIN dir' = DOMAIN dir \ {b}
    BY <1>4, ListingWithout DEF Leaves, Changed
  <2>2. made' = made /\ stayed' = stayed \ {b}
    BY <1>4 DEF Leaves
  <2> QED
    BY <1>1, <2>1, <2>2 DEF StayersThere, Known, Covered
<1> QED
  BY <1>2, <1>3, <1>4

\* List begins at a stage: it has to read every child, so every staying backend
\* of the view.
LEMMA ListStarts ==
  ASSUME IInv, Children, UNCHANGED dirVars,
         at' \in Listings, watch' \in {"none", "armed", "changed", "notwatching"},
         view' \in {view, kv}, viewAt' \in Nat, armedAt' \in Nat, failures' \in Nat
  PROVE  IInv'
<1> USE DEF IInv, TypeInv
<1>1. UNCHANGED <<dir, made, changes, stayed>> /\ DOMAIN dir \in SUBSET Backends
  BY ListingElim DEF dirVars
<1>2. todo' = DOMAIN dir /\ kv' = NoServers /\ listedAt' = changes
  BY DEF Children
<1>3. TypeInv'
  BY <1>1, <1>2, NoServersListing DEF Stages
<1>4. \A b \in stayed : b \in DOMAIN view' => b \in DOMAIN dir
  BY DEF StayersThere, Known
<1>5. StayersThere'
  BY <1>1, <1>2, <1>4, NoServersListing DEF StayersThere, Known
<1>6. Covered'
  BY <1>1, <1>2, <1>4 DEF Covered, Listings
<1> QED
  BY <1>3, <1>5, <1>6

LEMMA GetChildStep ==
  ASSUME IInv, NEW b \in Backends, GetChild(b)
  PROVE  IInv'
<1> USE DEF IInv, TypeInv
<1>1. at \in Listings /\ b \in todo
      /\ UNCHANGED <<dirVars, at, watch, viewVars, armedAt, failures>>
  BY DEF GetChild
<1>2. CASE b \notin DOMAIN dir /\ Children
  BY <1>1, <1>2, ListStarts DEF viewVars
<1>3. CASE b \in DOMAIN dir /\ UNCHANGED listedAt /\ todo' = todo \ {b}
           /\ kv' = [c \in DOMAIN kv \cup {b} |-> IF c = b THEN dir[b] ELSE kv[c]]
  <2>1. dir[b] \in Metas
    BY <1>3, ListingElim
  <2>2. kv' \in Listing /\ DOMAIN kv' = DOMAIN kv \cup {b}
    BY <1>3, <2>1, ListingSet
  <2>3. UNCHANGED <<dir, made, changes, stayed, at, watch, view, viewAt, armedAt, failures>>
    BY <1>1 DEF dirVars, viewVars
  <2>4. TypeInv'
    BY <1>3, <2>2, <2>3
  <2>5. StayersThere'
    BY <1>1, <1>3, <2>2, <2>3 DEF StayersThere, Known
  <2>6. Covered'
    BY <1>1, <1>3, <2>2, <2>3 DEF Covered, Listings
  <2> QED
    BY <2>4, <2>5, <2>6
<1> QED
  BY <1>2, <1>3 DEF GetChild

\* A listing that fails leaves no pairs behind.
LEMMA ListFailsStep ==
  ASSUME IInv, ListFails
  PROVE  IInv'
<1> USE DEF IInv, TypeInv
<1>1. UNCHANGED <<dirVars, watch, view, viewAt, armedAt>> /\ failures' \in Nat
  BY DEF ListFails, Fails, viewVars
<1>2. CASE ListAt("tree")
  BY <1>1, <1>2, ListStarts DEF ListAt, Listings
<1>3. CASE at' \in {"stopped", "arm"} /\ todo' = {} /\ kv' = NoServers /\ UNCHANGED listedAt
  BY <1>1, <1>3, NoServersListing DEF dirVars, Stages, StayersThere, Known, Covered, Listings
<1> QED
  BY <1>2, <1>3 DEF ListFails

LEMMA Inductive == IInv /\ [Next]_vars => IInv'
<1> SUFFICES ASSUME IInv, [Next]_vars PROVE IInv'
  OBVIOUS
<1> USE DEF IInv, TypeInv
<1>1. ASSUME NEW b \in Backends, Joins(b) \/ SetsValue(b) \/ Leaves(b) PROVE IInv'
  BY <1>1, DirectoryKeeps
<1>2. CASE SessionExpires
  BY <1>2 DEF SessionExpires, Fails, dirVars, listVars, viewVars, StayersThere, Known, Covered
<1>3. CASE ListFails
  BY <1>3, ListFailsStep
<1>4. CASE CallNext
  BY <1>4, ListStarts DEF CallNext, ListAt, Listings, viewVars
<1>5. ASSUME NEW b \in Backends, GetChild(b) PROVE IInv'
  BY <1>5, GetChildStep
<1>6. CASE FirstListed
  BY <1>6, ListStarts DEF FirstListed, ListAt, Listings
<1>7. CASE Listed
  BY <1>7 DEF Listed, dirVars, listVars, viewVars, StayersThere, Known, Covered, Listings, Stages
<1>8. CASE Received
  BY <1>8 DEF Received, dirVars, listVars, StayersThere, Known, Covered, Listings, Stages
<1>9. CASE ChildrenW
  BY <1>9 DEF ChildrenW, dirVars, listVars, viewVars, StayersThere, Known, Covered, Listings, Stages
<1>10. CASE ChildrenWFails
  BY <1>10 DEF ChildrenWFails, Fails, dirVars, listVars, viewVars, StayersThere, Known, Covered,
     Listings, Stages
<1>11. CASE ReceivedFromClosed
  BY <1>11, NoServersListing DEF ReceivedFromClosed, dirVars, listVars, StayersThere, Known,
     Covered, Listings, Stages
<1>12. CASE Fired
  <2>1. CASE ListAt("again")
    BY <1>12, <2>1, ListStarts DEF Fired, ListAt, Listings, viewVars
  <2>2. CASE at' = "arm" /\ UNCHANGED listVars
    BY <1>12, <2>2 DEF Fired, dirVars, listVars, viewVars, StayersThere, Known, Covered,
       Listings, Stages
  <2> QED
    BY <1>12, <2>1, <2>2 DEF Fired
<1>13. CASE UNCHANGED vars
  BY <1>13 DEF vars, dirVars, listVars, viewVars, StayersThere, Known, Covered
<1> QED
  BY <1>1, <1>2, <1>3, <1>4, <1>5, <1>6, <1>7, <1>8, <1>9, <1>10, <1>11, <1>12, <1>13
  DEF Next, WatcherStep

\* The steps of the resolvers are those of Discovery, but for two ways in which
\* the experimental one gives up.
LEMMA ResolverSteps ==
  ASSUME [ResolverNext]_resolverVars
  PROVE  [Next]_vars \/ Missing \/ ExperimentalListFails
<1>1. CASE V1Step
  BY <1>1 DEF V1Step, V1WatcherStep, Next, DirectoryStep
<1>2. CASE ExperimentalStep
  BY <1>2 DEF ExperimentalStep, ExperimentalWatcherStep, TellsFirst, TellsUpdate, Watches, Next,
     WatcherStep, DirectoryStep
<1>3. CASE UNCHANGED resolverVars
  BY <1>3 DEF resolverVars
<1> QED
  BY <1>1, <1>2, <1>3 DEF ResolverNext

LEMMA ResolverInductive == IInv /\ [ResolverNext]_resolverVars => IInv'
<1> SUFFICES ASSUME IInv, [ResolverNext]_resolverVars PROVE IInv'
  OBVIOUS
<1> USE DEF IInv, TypeInv
<1>1. CASE [Next]_vars
  BY <1>1, Inductive
<1>2. CASE Missing
  BY <1>2 DEF Missing, dirVars, listVars, viewVars, StayersThere, Known, Covered, Listings, Stages
<1>3. CASE ExperimentalListFails
  BY <1>3, NoServersListing DEF ExperimentalListFails, Fails, dirVars, viewVars, StayersThere, Known,
     Covered, Listings, Stages
<1> QED
  BY <1>1, <1>2, <1>3, ResolverSteps

LEMMA IInvAlways == ResolverSpec => []IInv
<1>1. ResolverInit => IInv
  BY InitIInv DEF ResolverInit
<1> QED
  BY <1>1, ResolverInductive, PTL DEF ResolverSpec

-----------------------------------------------------------------------------
(* The theorems *)

\* Every variable of the discovery of backends keeps its type.
THEOREM TypeCorrect == ResolverSpec => []TypeOK
<1>1. IInv => TypeOK
  BY DEF IInv, TypeInv, TypeOK, Stages
<1> QED
  BY <1>1, IInvAlways, PTL

\* Whichever resolver the client uses, no listing takes a backend out of the view
\* that has never left the directory (watcher_v1.go, lines 91-101; zookeeper.go,
\* lines 280-288).
THEOREM StayersAlwaysKept == ResolverSpec => StayersKept
<1> DEFINE Kept == \A b \in stayed' : b \in DOMAIN view => b \in DOMAIN view'
<1>1. IInv /\ [Next]_vars => [ChannelClosed \/ Kept]_vars
  <2> SUFFICES ASSUME IInv, Next, ~ChannelClosed PROVE Kept
    BY DEF vars
  <2>1. CASE UNCHANGED view
    BY <2>1
  <2>2. CASE FirstListed
    BY <2>2 DEF FirstListed, dirVars, IInv, Covered, Listings
  <2>3. CASE Received
    BY <2>3 DEF Received, dirVars, IInv, Covered
  <2>4. UNCHANGED view \/ FirstListed \/ Received
    BY DEF Next, WatcherStep, ChannelClosed, Joins, SetsValue, Leaves, Changed, SessionExpires,
       ListFails, ChildrenWFails, ReceivedFromClosed, CallNext, GetChild, Listed, ChildrenW,
       Fired, viewVars
  <2> QED
    BY <2>1, <2>2, <2>3, <2>4
<1>2. Missing \/ ExperimentalListFails => Kept
  BY DEF Missing, ExperimentalListFails, viewVars
<1>3. IInv /\ [ResolverNext]_resolverVars => [ChannelClosed \/ Kept]_vars
  BY <1>1, <1>2, ResolverSteps
<1> QED
  BY <1>3, IInvAlways, PTL DEF ResolverSpec, StayersKept
=============================================================================
