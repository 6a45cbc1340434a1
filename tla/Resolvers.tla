------------------------------- MODULE Resolvers ------------------------------
(***************************************************************************)
(* The two resolvers of the package over one directory.  The v1 resolver's *)
(* watcher is called again and again, as Discovery has it.  The            *)
(* experimental resolver runs watch once, in a goroutine of its own: it    *)
(* gives gRPC a listing, starts WatchTree, gives gRPC the first listing of *)
(* the channel and returns.  Nobody calls it again (ResolveNow is empty),  *)
(* and nobody receives what WatchTree's goroutine sends next: it blocks.   *)
(*                                                                         *)
(* The goroutine's watch and List are the same as for v1, and so are the   *)
(* steps of Discovery it takes; view is what gRPC was told last.           *)
(***************************************************************************)
EXTENDS Discovery

VARIABLES
  version,  \* the resolver the client uses
  told      \* the calls of NewAddress by the experimental one

resolverVars == <<vars, version, told>>

ResolverInit == Init /\ version \in {"v1", "experimental"} /\ told = 0

Experimental == version = "experimental" /\ UNCHANGED version

DirectoryStep == \E b \in Backends : Joins(b) \/ SetsValue(b) \/ Leaves(b)

-----------------------------------------------------------------------------
(* The v1 resolver *)

V1WatcherStep == version = "v1" /\ WatcherStep /\ UNCHANGED <<version, told>>

V1Step ==
  \/ V1WatcherStep
  \/ /\ version = "v1" /\ UNCHANGED <<version, told>>
     /\ DirectoryStep \/ SessionExpires \/ ListFails \/ ChildrenWFails \/ ReceivedFromClosed

-----------------------------------------------------------------------------
(* The experimental resolver *)

\* A directory that does not exist is never asked for again.
Missing ==
  /\ Experimental /\ at = "next" /\ ~made
  /\ at' = "stopped"
  /\ UNCHANGED <<dirVars, listVars, watch, viewVars, armedAt, failures, told>>

\* An error of List: of the first one or of WatchTree's, it ends watch; after an
\* event, the goroutine sets the watch again.
ExperimentalListFails ==
  /\ Experimental /\ at \in Listings /\ Fails("list")
  /\ at' = IF at = "again" THEN "arm" ELSE "stopped"
  /\ todo' = {} /\ kv' = NoServers
  /\ UNCHANGED <<dirVars, listedAt, watch, viewVars, armedAt, told>>

TellsFirst == Experimental /\ FirstListed /\ told' = 1

\* getUpdates takes one listing, the first; later sends find no receiver.
TellsUpdate == Experimental /\ told = 1 /\ Received /\ told' = 2

Watches ==
  /\ Experimental /\ UNCHANGED told
  /\ CallNext \/ (\E b \in Backends : GetChild(b)) \/ Listed \/ ChildrenW \/ Fired

ExperimentalWatcherStep == Missing \/ TellsFirst \/ TellsUpdate \/ Watches

ExperimentalStep ==
  \/ ExperimentalWatcherStep \/ ExperimentalListFails
  \/ Experimental /\ UNCHANGED told /\ (DirectoryStep \/ SessionExpires \/ ChildrenWFails)

-----------------------------------------------------------------------------
ResolverNext == V1Step \/ ExperimentalStep

\* The goroutines run, ZooKeeper answers them, and the v1 balancer calls Next again.
ResolverSpec ==
  /\ ResolverInit /\ [][ResolverNext]_resolverVars
  /\ WF_resolverVars(V1WatcherStep) /\ WF_resolverVars(ExperimentalWatcherStep)

-----------------------------------------------------------------------------
(* Properties *)

\* A change that fires the watch reaches the client of the v1 resolver: the view
\* becomes one whose names were read after it, unless another request fails first
\* (zookeeper.go, lines 246-257).
FiredIsSeen ==
  \A n \in 0..MaxChanges, m \in 0..MaxFailures :
    (version = "v1" /\ watch = "changed" /\ armedAt = n /\ failures = m)
      ~> (viewAt > n \/ failures > m)

\* If the directory is there, the client of the experimental resolver is told of
\* it, and told again by WatchTree's first listing, however often a backend that
\* leaves makes List start again (zk_resolver.go, lines 59-91).
ToldTwice ==
  \A m \in 0..MaxFailures :
    (version = "experimental" /\ at = "first" /\ failures = m) ~> (told = 2 \/ failures > m)
=============================================================================
