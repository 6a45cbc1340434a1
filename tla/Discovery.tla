------------------------------ MODULE Discovery ------------------------------
(***************************************************************************)
(* How a client learns which backends are registered: the watcher of the   *)
(* v1 resolver on top of the store's List and WatchTree.  Resolvers adds   *)
(* the experimental resolver, and what either client gets to see.          *)
(*                                                                         *)
(* The first call of Next lists the directory and starts WatchTree, which  *)
(* lists it again; from then on a goroutine sends listings to the later    *)
(* calls of Next.  The goroutine sets a watch with ChildrenW, whose answer *)
(* it throws away, and lists the directory once the watch has fired.       *)
(* List is not atomic: it asks for the names of the children and then for  *)
(* the value of each, and starts again when a child has gone meanwhile.    *)
(*                                                                         *)
(* The environment is the directory: backends create their node with an    *)
(* empty value, which fires the watch, set its value, which does not, and  *)
(* leave.  The ways in which ZooKeeper may fail are chosen by Failures:    *)
(*   "list"    a request of List fails                                     *)
(*   "watch"   ChildrenW fails                                             *)
(*   "expiry"  the session expires, and the watch with it                  *)
(***************************************************************************)
EXTENDS Naming, FiniteSets

CONSTANTS
  Empty,        \* the value of a node that was created but not yet set
  Failures,     \* what may fail
  MaxChanges,   \* bound on the changes of the directory
  MaxFailures   \* bound on the failures

ASSUME EmptyAssumption == Empty \in Metas
ASSUME FailuresAssumption == Failures \subseteq {"list", "watch", "expiry"}
ASSUME BoundsAssumption == MaxChanges \in Nat /\ MaxFailures \in Nat

VARIABLES
  dir,       \* the children of the directory and their values
  made,      \* the directory exists
  at,        \* where the watcher or, after the first Next, the goroutine is
  todo, kv,  \* List: the children whose value it has yet to read, and the result
  watch,     \* the watch: "none", "armed", or what it fired with
  view,      \* watcher.servers
  changes, failures,
  \* History, read by the properties only: the names never removed, and the
  \* number of changes when the listing at hand, the view and the watch were made.
  stayed, listedAt, viewAt, armedAt

dirVars  == <<dir, made, changes, stayed>>
listVars == <<todo, kv, listedAt>>
viewVars == <<view, viewAt>>
vars == <<dirVars, at, listVars, watch, viewVars, armedAt, failures>>

\* The stages at which List runs: for the first Next, for WatchTree, and for the
\* goroutine after an event.
Listings == {"first", "tree", "again"}

-----------------------------------------------------------------------------
Init ==
  /\ dir \in Listing /\ made \in {TRUE, dir # NoServers}
  /\ changes = 0 /\ failures = 0 /\ stayed = Backends
  /\ at = "next" /\ todo = {} /\ kv = NoServers /\ watch = "none"
  /\ view = NoServers /\ listedAt = 0 /\ viewAt = 0 /\ armedAt = 0

(***************************************************************************)
(* The directory                                                           *)
(***************************************************************************)
Changed(newDir, fires) ==
  /\ changes < MaxChanges /\ changes' = changes + 1
  /\ dir' = newDir
  /\ watch' = IF fires /\ watch = "armed" THEN "changed" ELSE watch
  /\ UNCHANGED <<at, listVars, viewVars, armedAt, failures>>

Joins(b) ==
  /\ b \notin DOMAIN dir
  /\ Changed([c \in DOMAIN dir \cup {b} |-> IF c = b THEN Empty ELSE dir[c]], TRUE)
  /\ made' = TRUE
  /\ UNCHANGED stayed

SetsValue(b) ==
  /\ b \in DOMAIN dir
  /\ \E meta \in Metas \ {dir[b]} : Changed([dir EXCEPT ![b] = meta], FALSE)
  /\ UNCHANGED <<made, stayed>>

Leaves(b) ==
  /\ b \in DOMAIN dir
  /\ Changed([c \in DOMAIN dir \ {b} |-> dir[c]], TRUE)
  /\ stayed' = stayed \ {b}
  /\ UNCHANGED made

Fails(kind) ==
  /\ kind \in Failures /\ failures < MaxFailures
  /\ failures' = failures + 1

SessionExpires ==
  /\ watch = "armed" /\ Fails("expiry")
  /\ watch' = "notwatching"
  /\ UNCHANGED <<dirVars, at, listVars, viewVars, armedAt>>

(***************************************************************************)
(* List                                                                    *)
(***************************************************************************)
Children ==
  /\ todo' = DOMAIN dir /\ kv' = NoServers /\ listedAt' = changes

\* List is called by the next statement, at the stage given.
ListAt(stage) == at' = stage /\ Children

\* The first Next, or the next one if the directory did not exist.
CallNext ==
  /\ at = "next" /\ made
  /\ ListAt("first")
  /\ UNCHANGED <<dirVars, watch, viewVars, armedAt, failures>>

\* Mutants of GetChild: the key is stored for the value; a child that has gone ends the listing.
GetChildKeyMutant(b) ==
  /\ at \in Listings /\ b \in todo
  /\ todo' = todo \ {b}
  /\ kv' = [c \in DOMAIN kv \cup {b} |-> IF c = b THEN b ELSE kv[c]]
  /\ UNCHANGED <<dirVars, at, listedAt, watch, viewVars, armedAt, failures>>

GetChildMutant(b) ==
  /\ at \in Listings /\ b \in todo
  /\ IF b \in DOMAIN dir
     THEN /\ todo' = todo \ {b}
          /\ kv' = [c \in DOMAIN kv \cup {b} |-> IF c = b THEN dir[b] ELSE kv[c]]
     ELSE todo' = {} /\ UNCHANGED kv
  /\ UNCHANGED <<dirVars, at, listedAt, watch, viewVars, armedAt, failures>>

\* A child that has gone makes List start again.
GetChild(b) ==
  /\ at \in Listings /\ b \in todo
  /\ \/ /\ b \in DOMAIN dir
        /\ todo' = todo \ {b}
        /\ kv' = [c \in DOMAIN kv \cup {b} |-> IF c = b THEN dir[b] ELSE kv[c]]
        /\ UNCHANGED listedAt
     \/ b \notin DOMAIN dir /\ Children
  /\ UNCHANGED <<dirVars, at, watch, viewVars, armedAt, failures>>

\* An error of List: the first Next goes on with an empty listing, WatchTree
\* returns it, and Next with it, and the goroutine sets the watch again.
ListFails ==
  /\ at \in Listings /\ Fails("list")
  /\ \/ at = "first" /\ ListAt("tree")
     \/ /\ at # "first"
        /\ at' = IF at = "tree" THEN "stopped" ELSE "arm"
        /\ todo' = {} /\ kv' = NoServers /\ UNCHANGED listedAt
  /\ UNCHANGED <<dirVars, watch, viewVars, armedAt>>

(***************************************************************************)
(* Next and the goroutine of WatchTree                                     *)
(***************************************************************************)
\* Mutant of FirstListed: WatchTree sends nothing before the first event.
FirstListedMutant ==
  /\ at = "first" /\ todo = {}
  /\ view' = kv /\ viewAt' = listedAt
  /\ at' = "arm"
  /\ UNCHANGED <<dirVars, listVars, watch, armedAt, failures>>

\* The first Next stores its listing and calls WatchTree.
FirstListed ==
  /\ at = "first" /\ todo = {}
  /\ view' = kv /\ viewAt' = listedAt
  /\ ListAt("tree")
  /\ UNCHANGED <<dirVars, watch, armedAt, failures>>

Listed ==
  /\ at \in {"tree", "again"} /\ todo = {}
  /\ at' = "send"
  /\ UNCHANGED <<dirVars, listVars, watch, viewVars, armedAt, failures>>

\* getUpdate receives the listing; the watcher knows exactly its backends then.
Received ==
  /\ at = "send"
  /\ view' = kv /\ viewAt' = listedAt
  /\ at' = "arm"
  /\ UNCHANGED <<dirVars, listVars, watch, armedAt, failures>>

ChildrenW ==
  /\ at = "arm"
  /\ watch' = "armed" /\ armedAt' = changes
  /\ at' = "wait"
  /\ UNCHANGED <<dirVars, listVars, viewVars, failures>>

\* The goroutine ends and closes the channel.
ChildrenWFails ==
  /\ at = "arm" /\ Fails("watch")
  /\ at' = "closed"
  /\ UNCHANGED <<dirVars, listVars, watch, viewVars, armedAt>>

\* getUpdate receives no pairs from the closed channel, and takes that for a listing.
ReceivedFromClosed ==
  /\ at = "closed"
  /\ view' = NoServers
  /\ UNCHANGED <<dirVars, at, listVars, watch, viewAt, armedAt, failures>>

\* Mutant of Fired: the watch is set again whatever the event.
FiredMutant ==
  /\ at = "wait" /\ watch # "armed"
  /\ watch' = "none" /\ at' = "arm"
  /\ UNCHANGED <<dirVars, listVars, viewVars, armedAt, failures>>

Fired ==
  /\ at = "wait"
  /\ \/ watch = "changed" /\ ListAt("again")
     \/ watch = "notwatching" /\ at' = "arm" /\ UNCHANGED listVars
  /\ watch' = "none"
  /\ UNCHANGED <<dirVars, viewVars, armedAt, failures>>

-----------------------------------------------------------------------------
WatcherStep ==
  \/ CallNext \/ (\E b \in Backends : GetChild(b))
  \/ FirstListed \/ Listed \/ Received \/ ChildrenW \/ Fired

Next ==
  \/ \E b \in Backends : Joins(b) \/ SetsValue(b) \/ Leaves(b)
  \/ SessionExpires \/ ListFails \/ ChildrenWFails
  \/ WatcherStep \/ ReceivedFromClosed

Spec == Init /\ [][Next]_vars

-----------------------------------------------------------------------------
(* Properties *)

\* The types of the variables.
TypeOK ==
  /\ dir \in Listing /\ kv \in Listing /\ view \in Listing
  /\ made \in BOOLEAN /\ todo \subseteq Backends /\ stayed \subseteq Backends
  /\ at \in Listings \cup {"next", "send", "arm", "wait", "closed", "stopped"}
  /\ watch \in {"none", "armed", "changed", "notwatching"}
  /\ {changes, failures, listedAt, viewAt, armedAt} \subseteq Nat

\* The next receive is from the closed channel: the one way in which the view
\* loses backends that stay, all of them at once.
ChannelClosed == at = "closed"

\* A backend that has never left the directory is never taken out of the view
\* by a listing: an incomplete one is not taken for a complete one
\* (watcher_v1.go, lines 91-101; zookeeper.go, lines 280-288).
StayersKept ==
  [][ChannelClosed \/ \A b \in stayed' : b \in DOMAIN view => b \in DOMAIN view']_vars
=============================================================================
