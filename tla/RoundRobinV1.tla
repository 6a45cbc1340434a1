----------------------------- MODULE RoundRobinV1 -----------------------------
(***************************************************************************)
(* The round-robin balancer of the classic client (client.RoundRobin and   *)
(* client.WRoundRobin): the goroutine that applies the watcher's updates,  *)
(* the Up and down callbacks of gRPC, the RPC goroutines inside Get, and   *)
(* Close.                                                                  *)
(*                                                                         *)
(* A critical section of rr.mu is one step, except that of the updating    *)
(* goroutine: it sends the new list on the unbuffered rr.addrCh while it   *)
(* holds the mutex, so it is split into the updates it applies, one by     *)
(* one, and the send.  Everybody else needs MutexFree.                     *)
(*                                                                         *)
(* delivered, offered, ready and the choice of listings are the            *)
(* environment: gRPC's view of the address list, the addresses whose       *)
(* transport gRPC reported up, and what the watcher reads from the         *)
(* registry.                                                               *)
(***************************************************************************)
EXTENDS Selection

CONSTANTS
  Getters,      \* RPC goroutines
  Chans,        \* identities of wait channels
  NoChan,       \* rr.waitCh is nil
  MaxListings   \* bound on the listings the watcher reads

ASSUME NoChanAssumption == NoChan \notin Chans
ASSUME MaxListingsAssumption == MaxListings \in Nat

VARIABLES
  waitCh,       \* the channel that blocked Get calls wait on, or NoChan
  closedChs,    \* the wait channels that were closed
  addrCh,       \* rr.addrCh: "nil", "open" or "closed"
  done,         \* the balancer is closed
  watch,        \* where the updating goroutine is
  updates,      \* what is left of the batch it is applying
  event,        \* the watcher holds an event channel (w.event # nil)
  servers,      \* the watcher's map of known backends
  lastMeta,     \* the metadata each backend was last listed with (history)
  listings,     \* listings read so far
  pc,           \* where each RPC goroutine is in Get
  failfast,     \* its call is failfast (~opts.BlockingWait)
  ch,           \* the channel it captured before it released the mutex
  outcome,      \* how its last call ended
  delivered,    \* the addresses gRPC received last
  offered,      \* all the addresses gRPC ever received
  ready         \* the addresses gRPC reported up and not yet down

listVars  == <<addrs, next>>
watchVars == <<watch, updates, event, servers, lastMeta, listings>>
getVars   == <<pc, failfast, ch, outcome>>
grpcVars  == <<delivered, offered, ready>>
vars == <<listVars, waitCh, closedChs, addrCh, done, watchVars, getVars, grpcVars>>

Outcomes == {"none", "addr", "closing", "unavailable", "ctx"}

\* The updating goroutine holds rr.mu from the first update to the send.
MutexFree == watch \notin {"apply", "send"}

-----------------------------------------------------------------------------
Init ==
  /\ addrs = <<>> /\ next = 0
  /\ waitCh = NoChan /\ closedChs = {}
  /\ addrCh = "nil" /\ done = FALSE
  /\ watch = "off" /\ updates = {}
  /\ event = FALSE /\ servers = NoServers
  /\ lastMeta = NoServers /\ listings = 0
  /\ pc = [g \in Getters |-> "idle"]
  /\ failfast = [g \in Getters |-> TRUE]
  /\ ch = [g \in Getters |-> NoChan]
  /\ outcome = [g \in Getters |-> "none"]
  /\ delivered = {} /\ offered = {} /\ ready = {}

(***************************************************************************)
(* Start: gRPC calls it once, when it builds the balancer.  A closed       *)
(* balancer refuses and changes nothing.                                   *)
(***************************************************************************)
Start ==
  /\ addrCh = "nil" /\ ~done
  /\ addrCh' = "open" /\ watch' = "next"
  /\ UNCHANGED <<listVars, waitCh, closedChs, done, updates, event, servers, lastMeta,
                 listings, getVars, grpcVars>>

(***************************************************************************)
(* watchAddrUpdates: rr.w.Next() returns and the goroutine takes rr.mu.    *)
(* As long as the watcher has no event channel, Next may also find no      *)
(* directory (no updates, no error) or fail to set the watch, which ends   *)
(* the goroutine.                                                          *)
(***************************************************************************)
WatchListing(pairs) ==
  /\ watch = "next" /\ listings < MaxListings
  /\ updates' = GetUpdate(servers, pairs)
  /\ servers' = pairs
  /\ lastMeta' = [b \in DOMAIN lastMeta \cup DOMAIN pairs |->
                    IF b \in DOMAIN pairs THEN pairs[b] ELSE lastMeta[b]]
  /\ event' = TRUE /\ listings' = listings + 1
  /\ watch' = "apply"
  /\ UNCHANGED <<listVars, waitCh, closedChs, addrCh, done, getVars, grpcVars>>

WatchKeyNotFound ==
  /\ watch = "next" /\ ~event
  /\ updates' = {} /\ watch' = "apply"
  /\ UNCHANGED <<listVars, waitCh, closedChs, addrCh, done, event, servers, lastMeta,
                 listings, getVars, grpcVars>>

WatchFails(pairs) ==
  /\ watch = "next" /\ ~event
  /\ servers' = pairs /\ watch' = "stopped"
  /\ UNCHANGED <<listVars, waitCh, closedChs, addrCh, done, updates, event,
                 lastMeta, listings, getVars, grpcVars>>

ApplyUpdate(u) ==
  /\ watch = "apply" /\ MayComeNext(u, updates)
  /\ Applies(u)
  /\ updates' = updates \ {u}
  /\ UNCHANGED <<waitCh, closedChs, addrCh, done, watch, event, servers, lastMeta,
                 listings, getVars, grpcVars>>

\* Mutants of Publish: the list is not sent when its length did not change; it
\* is sent after Close; the goroutine returns without releasing the mutex.
PublishLengthMutant ==
  /\ watch = "apply" /\ updates = {}
  /\ watch' = IF done THEN "stopped"
              ELSE IF Cardinality(delivered) = Len(addrs) THEN "next" ELSE "send"
  /\ UNCHANGED <<listVars, waitCh, closedChs, addrCh, done, updates, event,
                 servers, lastMeta, listings, getVars, grpcVars>>

PublishClosedMutant ==
  /\ watch = "apply" /\ updates = {}
  /\ watch' = "send"
  /\ UNCHANGED <<listVars, waitCh, closedChs, addrCh, done, updates, event,
                 servers, lastMeta, listings, getVars, grpcVars>>

PublishLockedMutant ==
  /\ watch = "apply" /\ updates = {} /\ ~done
  /\ watch' = "send"
  /\ UNCHANGED <<listVars, waitCh, closedChs, addrCh, done, updates, event,
                 servers, lastMeta, listings, getVars, grpcVars>>

\* After the last update: a closed balancer ends the goroutine, otherwise it
\* starts to send the list.
Publish ==
  /\ watch = "apply" /\ updates = {}
  /\ watch' = IF done THEN "stopped" ELSE "send"
  /\ UNCHANGED <<listVars, waitCh, closedChs, addrCh, done, updates, event,
                 servers, lastMeta, listings, getVars, grpcVars>>

\* gRPC receives the list; the send completes and the mutex is released.
Receive ==
  /\ watch = "send"
  /\ delivered' = AddressesOf(addrs) /\ offered' = offered \cup delivered'
  /\ watch' = "next"
  /\ UNCHANGED <<listVars, waitCh, closedChs, addrCh, done, updates, event,
                 servers, lastMeta, listings, getVars, ready>>

(***************************************************************************)
(* Up and down.                                                            *)
(***************************************************************************)
MarkUp(a) == [i \in DOMAIN addrs |->
                IF addrs[i].addr = a THEN [addrs[i] EXCEPT !.connected = TRUE]
                ELSE addrs[i]]

\* Mutant of Notifies: the test asks for all the addresses to be connected.
NotifiesMutant(list) == Cardinality({i \in DOMAIN list : list[i].connected}) = Len(list)
Notifies(list) == Cardinality({i \in DOMAIN list : list[i].connected}) = 1

\* Up marks the address connected and, when it is the only connected one,
\* wakes the Get callers that are blocked.
Up(a) ==
  /\ MutexFree
  /\ IF \E i \in ConnectedEntries : addrs[i].addr = a
     THEN UNCHANGED <<addrs, waitCh, closedChs>>
     ELSE /\ addrs' = MarkUp(a)
          /\ IF waitCh # NoChan /\ Notifies(addrs')
             THEN closedChs' = closedChs \cup {waitCh} /\ waitCh' = NoChan
             ELSE UNCHANGED <<waitCh, closedChs>>
  /\ ready' = ready \cup {a}
  /\ UNCHANGED <<next, addrCh, done, watchVars, getVars, delivered, offered>>

Down(a) ==
  /\ MutexFree
  /\ addrs' = [i \in DOMAIN addrs |->
                 IF addrs[i].addr = a THEN [addrs[i] EXCEPT !.connected = FALSE]
                 ELSE addrs[i]]
  /\ ready' = ready \ {a}
  /\ UNCHANGED <<next, waitCh, closedChs, addrCh, done, watchVars, getVars, delivered, offered>>

(***************************************************************************)
(* Get: called by an RPC goroutine, which then takes rr.mu, and comes back *)
(* from select when the channel it captured is closed or its context ends. *)
(***************************************************************************)
GetCall(g) ==
  /\ pc[g] = "idle"
  /\ pc' = [pc EXCEPT ![g] = "calling"]
  /\ \E b \in BOOLEAN : failfast' = [failfast EXCEPT ![g] = b]
  /\ outcome' = [outcome EXCEPT ![g] = "none"]
  /\ UNCHANGED <<listVars, waitCh, closedChs, addrCh, done, watchVars, ch, grpcVars>>

Return(g, result) ==
  /\ pc' = [pc EXCEPT ![g] = "idle"]
  /\ ch' = [ch EXCEPT ![g] = NoChan]
  /\ outcome' = [outcome EXCEPT ![g] = result]
  /\ UNCHANGED failfast

\* A goroutine inside Get that has just taken the mutex.
Locked(g) == MutexFree /\ \/ pc[g] = "calling"
                          \/ pc[g] = "waiting" /\ ch[g] \in closedChs

GetClosed(g) ==
  /\ Locked(g) /\ done
  /\ Return(g, "closing")
  /\ UNCHANGED <<listVars, waitCh, closedChs, addrCh, done, watchVars, grpcVars>>

\* Mutant of GetConnected: the call does not look at done first.
GetConnectedMutant(g) ==
  /\ Locked(g)
  /\ \E i \in GetAvailableAddrs(TRUE) : selectOneAddr(GetAvailableAddrs(TRUE), i)
  /\ Return(g, "addr")
  /\ UNCHANGED <<waitCh, closedChs, addrCh, done, watchVars, grpcVars>>

GetConnected(g) ==
  /\ Locked(g) /\ ~done
  /\ \E i \in GetAvailableAddrs(TRUE) : selectOneAddr(GetAvailableAddrs(TRUE), i)
  /\ Return(g, "addr")
  /\ UNCHANGED <<waitCh, closedChs, addrCh, done, watchVars, grpcVars>>

\* A failfast call does not wait: it gets any address, connected or not.
GetFailfast(g) ==
  /\ Locked(g) /\ pc[g] = "calling" /\ failfast[g]
  /\ ~done /\ GetAvailableAddrs(TRUE) = {}
  /\ \/ /\ GetAvailableAddrs(FALSE) = {}
        /\ Return(g, "unavailable")
        /\ UNCHANGED listVars
     \/ /\ \E i \in GetAvailableAddrs(FALSE) : selectOneAddr(GetAvailableAddrs(FALSE), i)
        /\ Return(g, "addr")
  /\ UNCHANGED <<waitCh, closedChs, addrCh, done, watchVars, grpcVars>>

\* Channels nobody refers to are garbage; a new one reuses such an identity.
Referenced == {waitCh} \cup {ch[g] : g \in Getters}

GetBlocks(g) ==
  /\ Locked(g) /\ (pc[g] = "calling" => ~failfast[g])
  /\ ~done /\ GetAvailableAddrs(TRUE) = {}
  /\ IF waitCh = NoChan
     THEN \E c \in Chans \ Referenced :
            waitCh' = c /\ closedChs' = closedChs \ {c}
     ELSE UNCHANGED <<waitCh, closedChs>>
  /\ pc' = [pc EXCEPT ![g] = "waiting"]
  /\ ch' = [ch EXCEPT ![g] = waitCh']
  /\ UNCHANGED <<listVars, addrCh, done, watchVars, failfast, outcome, grpcVars>>

\* ctx.Done() needs no mutex.
GetCancelled(g) ==
  /\ pc[g] = "waiting"
  /\ Return(g, "ctx")
  /\ UNCHANGED <<listVars, waitCh, closedChs, addrCh, done, watchVars, grpcVars>>

(***************************************************************************)
(* Close; a second one only reports an error.                              *)
(***************************************************************************)
\* Mutant of Close: the callers that are blocked are not woken.
CloseMutant ==
  /\ MutexFree /\ ~done
  /\ done' = TRUE
  /\ addrCh' = IF addrCh = "open" THEN "closed" ELSE addrCh
  /\ UNCHANGED <<listVars, waitCh, closedChs, watchVars, getVars, grpcVars>>

Close ==
  /\ MutexFree /\ ~done
  /\ done' = TRUE
  /\ closedChs' = IF waitCh = NoChan THEN closedChs ELSE closedChs \cup {waitCh}
  /\ waitCh' = NoChan
  /\ addrCh' = IF addrCh = "open" THEN "closed" ELSE addrCh
  /\ UNCHANGED <<listVars, watchVars, getVars, grpcVars>>

-----------------------------------------------------------------------------
WatchStep ==
  \/ \E pairs \in Listing : WatchListing(pairs) \/ WatchFails(pairs)
  \/ WatchKeyNotFound
  \/ \E u \in updates : ApplyUpdate(u)
  \/ Publish

GetStep(g) == GetClosed(g) \/ GetConnected(g) \/ GetFailfast(g) \/ GetBlocks(g)

\* gRPC reports up only an address it received, perhaps in a list that a newer
\* one has replaced by now, and down only one it reported up.
UpStep   == \E a \in offered \ ready : Up(a)
DownStep == \E a \in ready : Down(a)

Next ==
  \/ Start \/ WatchStep \/ Receive
  \/ UpStep \/ DownStep
  \/ \E g \in Getters : GetCall(g) \/ GetStep(g) \/ GetCancelled(g)
  \/ Close

Spec == Init /\ [][Next]_vars

-----------------------------------------------------------------------------
(* Properties *)

\* The types of the variables.
TypeOK ==
  /\ addrs \in Seq(AddrInfo) /\ next \in Int
  /\ waitCh \in Chans \cup {NoChan} /\ closedChs \subseteq Chans
  /\ addrCh \in {"nil", "open", "closed"} /\ done \in BOOLEAN
  /\ watch \in {"off", "next", "apply", "send", "stopped"}
  /\ updates \subseteq Update /\ event \in BOOLEAN
  /\ servers \in Listing /\ lastMeta \in Listing /\ listings \in Nat
  /\ pc \in [Getters -> {"idle", "calling", "waiting"}]
  /\ failfast \in [Getters -> BOOLEAN]
  /\ ch \in [Getters -> Chans \cup {NoChan}]
  /\ outcome \in [Getters -> Outcomes]
  /\ delivered \subseteq Address /\ offered \subseteq Address /\ ready \subseteq Address

\* No lost wake-up: a Get caller that waits on a channel nobody closed waits on
\* the one the next Up or Close will close, and there is no address it could
\* be given (Get, lines 207-244; Up, lines 156-160; Close, lines 261-264).
NoStrandedWaiter ==
  \A g \in Getters :
    pc[g] = "waiting" /\ ch[g] \notin closedChs =>
      ch[g] = waitCh /\ ~done /\ GetAvailableAddrs(TRUE) = {}

\* gRPC's view of the list is never stale: whenever the updating goroutine is
\* waiting for the next batch, gRPC holds exactly the balancer's addresses
\* (watchAddrUpdates, lines 97-110).
ViewInSync == watch = "next" => delivered = AddressesOf(addrs)

\* The updating goroutine never sends on a closed channel, which would crash
\* the process (watchAddrUpdates, lines 102-109, against Close, line 266).
NoSendOnClosedChannel == watch = "send" => addrCh = "open" /\ ~done

\* No backend is lost: between two batches, every backend the watcher knows is
\* in the list, whatever sequence of updates led there.
RegisteredBackendsListed ==
  watch = "next" =>
    \A b \in DOMAIN servers : \E i \in DOMAIN addrs : addrs[i].addr.name = b

\* The list holds no backend the watcher has seen leave (the declaration of
\* addrs, line 28: the addresses the client should potentially connect to).
NoDepartedBackend ==
  watch = "next" => \A i \in DOMAIN addrs : addrs[i].addr.name \in DOMAIN servers

\* What may be left of a backend that is gone is an address under metadata it no
\* longer had when it left: whatever listings came before, in whatever order their
\* updates were applied and whatever was connected, the Delete finds the entry that
\* matches what the watcher knew (lines 71-79 against Modify, lines 80-90, which
\* leaves the address of the entry as it was).
OnlyOutdatedRemain ==
  watch = "next" =>
    \A i \in DOMAIN addrs : \/ addrs[i].addr.name \in DOMAIN servers
                           \/ addrs[i].addr.meta # lastMeta[addrs[i].addr.name]

\* A closed balancer stays closed and hands out no address any more, not even
\* to the callers that Close found waiting (Get, lines 183-187 and 222-226).
ClosedIsFinal ==
  [][done => /\ done'
             /\ \A g \in Getters : pc[g] # "idle" /\ pc'[g] = "idle" =>
                                     outcome'[g] \in {"closing", "ctx"}]_vars
=============================================================================
