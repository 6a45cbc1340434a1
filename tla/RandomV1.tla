------------------------------- MODULE RandomV1 -------------------------------
(***************************************************************************)
(* The random balancer of the classic client (client.Random and            *)
(* client.WRandom).  It has the same callers as RoundRobinV1 and is        *)
(* modelled in the same way; where its code differs, so does the model:    *)
(*   - Get looks at done only after it was woken, and captures the channel *)
(*     to wait on after it has released the mutex, when waitCh may be nil  *)
(*     again: a receive from a nil channel never returns;                  *)
(*   - an entry is deleted by the name of its backend, not by its address; *)
(*   - an error of the watcher ends the process (log.Fatalln);             *)
(*   - a pick is a draw and leaves no trace in the balancer.               *)
(***************************************************************************)
EXTENDS Addresses

CONSTANTS
  Getters,      \* RPC goroutines
  Chans,        \* identities of wait channels
  NoChan,       \* b.waitCh is nil
  MaxListings   \* bound on the listings the watcher reads

ASSUME NoChanAssumption == NoChan \notin Chans
ASSUME MaxListingsAssumption == MaxListings \in Nat

VARIABLES
  waitCh,       \* b.waitCh
  closedChs,    \* the wait channels that were closed
  addrCh,       \* b.addrCh: "nil", "open" or "closed"
  done,         \* the balancer is closed
  watch,        \* where the updating goroutine is; "exited": the process has ended
  updates,      \* what is left of the batch it is applying
  event,        \* the watcher holds an event channel
  servers,      \* the watcher's map of known backends
  listings,     \* listings read so far
  pc,           \* where each RPC goroutine is in Get
  failfast,     \* its call is failfast (~opts.BlockingWait)
  ch,           \* the channel its select waits on, or NoChan
  given,        \* what its last call returned: {an address}, or {} for an error
  delivered,    \* the addresses gRPC received last
  offered,      \* all the addresses gRPC ever received
  ready         \* the addresses gRPC reported up and not yet down

chanVars  == <<waitCh, closedChs>>
watchVars == <<watch, updates, event, servers, listings>>
getVars   == <<pc, failfast, ch, given>>
grpcVars  == <<delivered, offered, ready>>
vars == <<addrs, chanVars, addrCh, done, watchVars, getVars, grpcVars>>

\* The updating goroutine holds the mutex from the first update to the send.
MutexFree == watch \notin {"apply", "send", "exited"}
Alive == watch # "exited"

-----------------------------------------------------------------------------
Init ==
  /\ addrs = <<>> /\ waitCh = NoChan /\ closedChs = {}
  /\ addrCh = "nil" /\ done = FALSE
  /\ watch = "off" /\ updates = {}
  /\ event = FALSE /\ servers = NoServers /\ listings = 0
  /\ pc = [g \in Getters |-> "idle"] /\ failfast = [g \in Getters |-> TRUE]
  /\ ch = [g \in Getters |-> NoChan] /\ given = [g \in Getters |-> {}]
  /\ delivered = {} /\ offered = {} /\ ready = {}

\* gRPC calls Start once, before anything else.  The returns that would leave the
\* mutex locked (lines 41-50) are not reached: the balancer is not closed yet, it has
\* a resolver, and Resolve ends the process when it cannot reach the ensemble.
Start ==
  /\ addrCh = "nil" /\ ~done
  /\ addrCh' = "open" /\ watch' = "next"
  /\ UNCHANGED <<addrs, chanVars, done, updates, event, servers, listings, getVars, grpcVars>>

(***************************************************************************)
(* watchAddrUpdates                                                        *)
(***************************************************************************)
WatchListing(pairs) ==
  /\ watch = "next" /\ listings < MaxListings
  /\ updates' = GetUpdate(servers, pairs)
  /\ servers' = pairs
  /\ event' = TRUE /\ listings' = listings + 1
  /\ watch' = "apply"
  /\ UNCHANGED <<addrs, chanVars, addrCh, done, getVars, grpcVars>>

WatchKeyNotFound ==
  /\ watch = "next" /\ ~event
  /\ updates' = {} /\ watch' = "apply"
  /\ UNCHANGED <<addrs, chanVars, addrCh, done, event, servers, listings, getVars, grpcVars>>

WatchFails ==
  /\ watch = "next" /\ ~event
  /\ watch' = "exited"
  /\ UNCHANGED <<addrs, chanVars, addrCh, done, updates, event, servers, listings,
                 getVars, grpcVars>>

IsListed(a) == \E i \in DOMAIN addrs : addrs[i].addr.name = a.name

ApplyAdd(a) ==
  addrs' = IF a \in AddressesOf(addrs) THEN addrs ELSE Append(addrs, NewAddrInfo(a))

ApplyDelete(a) ==
  addrs' = IF IsListed(a)
           THEN WithoutEntry(FirstAt(LAMBDA i : addrs[i].addr.name = a.name)) ELSE addrs

ApplyModify(a) ==
  addrs' = IF Weight /\ IsListed(a)
           THEN [addrs EXCEPT ![FirstAt(LAMBDA i : addrs[i].addr.name = a.name)].weight
                                = GetWeightByMetadata(a.meta)]
           ELSE addrs

ApplyUpdate(u) ==
  /\ watch = "apply" /\ MayComeNext(u, updates)
  /\ \/ u.op = "Add"    /\ ApplyAdd(u.addr)
     \/ u.op = "Delete" /\ ApplyDelete(u.addr)
     \/ u.op = "Modify" /\ ApplyModify(u.addr)
  /\ updates' = updates \ {u}
  /\ UNCHANGED <<chanVars, addrCh, done, watch, event, servers, listings, getVars, grpcVars>>

\* Mutant of Publish: done is not looked at.
PublishMutant ==
  /\ watch = "apply" /\ updates = {}
  /\ watch' = "send"
  /\ UNCHANGED <<addrs, chanVars, addrCh, done, updates, event, servers, listings,
                 getVars, grpcVars>>

Publish ==
  /\ watch = "apply" /\ updates = {}
  /\ watch' = IF done THEN "stopped" ELSE "send"
  /\ UNCHANGED <<addrs, chanVars, addrCh, done, updates, event, servers, listings,
                 getVars, grpcVars>>

Receive ==
  /\ watch = "send"
  /\ delivered' = AddressesOf(addrs) /\ offered' = offered \cup delivered'
  /\ watch' = "next"
  /\ UNCHANGED <<addrs, chanVars, addrCh, done, updates, event, servers, listings,
                 getVars, ready>>

(***************************************************************************)
(* Up and down                                                             *)
(***************************************************************************)
Connected(a, up) == [i \in DOMAIN addrs |->
  IF addrs[i].addr = a THEN [addrs[i] EXCEPT !.connected = up] ELSE addrs[i]]

\* Mutant of Notifies: a second address that comes up counts.
NotifiesMutant(list) == Cardinality({i \in DOMAIN list : list[i].connected}) = 2
Notifies(list) == Cardinality({i \in DOMAIN list : list[i].connected}) = 1

Up(a) ==
  /\ MutexFree
  /\ IF \E i \in ConnectedEntries : addrs[i].addr = a
     THEN UNCHANGED <<addrs, chanVars>>
     ELSE /\ addrs' = Connected(a, TRUE)
          /\ IF waitCh # NoChan /\ Notifies(addrs')
             THEN closedChs' = closedChs \cup {waitCh} /\ waitCh' = NoChan
             ELSE UNCHANGED chanVars
  /\ ready' = ready \cup {a}
  /\ UNCHANGED <<addrCh, done, watchVars, getVars, delivered, offered>>

Down(a) ==
  /\ MutexFree
  /\ addrs' = Connected(a, FALSE)
  /\ ready' = ready \ {a}
  /\ UNCHANGED <<chanVars, addrCh, done, watchVars, getVars, delivered, offered>>

(***************************************************************************)
(* A draw among the entries at S: with weights, the number n stands for    *)
(* the first entry at which the weights so far exceed it.                  *)
(***************************************************************************)
UpTo(S, i) == {j \in S : j <= i}

\* Mutant of Drawn: the comparison is off by one.
DrawnMutant(S, n) ==
  CHOOSE i \in S : /\ n <= TotalWeight(UpTo(S, i))
                   /\ \A j \in S : n <= TotalWeight(UpTo(S, j)) => i <= j

Drawn(S, n) ==
  CHOOSE i \in S : /\ n < TotalWeight(UpTo(S, i))
                   /\ \A j \in S : n < TotalWeight(UpTo(S, j)) => i <= j

selectOneAddr(S) ==
  IF Weight /\ Cardinality(S) > 1 THEN {Drawn(S, n) : n \in 0..(TotalWeight(S) - 1)} ELSE S

(***************************************************************************)
(* Get                                                                     *)
(***************************************************************************)
GetCall(g) ==
  /\ Alive /\ pc[g] = "idle"
  /\ pc' = [pc EXCEPT ![g] = "calling"]
  /\ \E b \in BOOLEAN : failfast' = [failfast EXCEPT ![g] = b]
  /\ given' = [given EXCEPT ![g] = {}]
  /\ UNCHANGED <<addrs, chanVars, addrCh, done, watchVars, ch, grpcVars>>

Return(g, result) ==
  /\ pc' = [pc EXCEPT ![g] = "idle"]
  /\ ch' = [ch EXCEPT ![g] = NoChan]
  /\ given' = [given EXCEPT ![g] = result]
  /\ UNCHANGED <<addrs, chanVars, addrCh, done, watchVars, failfast, grpcVars>>

\* A goroutine that has just taken the mutex: at the top of Get, or woken.
Enters(g) == MutexFree /\ pc[g] = "calling"
Woken(g)  == MutexFree /\ pc[g] = "waiting" /\ ch[g] \in closedChs

GetClosed(g) == Woken(g) /\ done /\ Return(g, {})

GetConnected(g) ==
  /\ Enters(g) \/ (Woken(g) /\ ~done)
  /\ GetAvailableAddrs(TRUE) # {}
  /\ \E i \in selectOneAddr(GetAvailableAddrs(TRUE)) : Return(g, {addrs[i].addr})

GetFailfast(g) ==
  /\ Enters(g) /\ failfast[g] /\ GetAvailableAddrs(TRUE) = {}
  /\ \/ GetAvailableAddrs(FALSE) = {} /\ Return(g, {})
     \/ \E i \in selectOneAddr(GetAvailableAddrs(FALSE)) : Return(g, {addrs[i].addr})

\* Channels nobody refers to are garbage; a new one reuses such an identity.
Referenced == {waitCh} \cup {ch[g] : g \in Getters}

GetBlocks(g) ==
  /\ \/ Enters(g) /\ ~failfast[g]
     \/ Woken(g) /\ ~done
  /\ GetAvailableAddrs(TRUE) = {}
  /\ IF waitCh = NoChan
     THEN \E c \in Chans \ Referenced : waitCh' = c /\ closedChs' = closedChs \ {c}
     ELSE UNCHANGED chanVars
  /\ pc' = [pc EXCEPT ![g] = "selecting"]
  /\ ch' = [ch EXCEPT ![g] = NoChan]
  /\ UNCHANGED <<addrs, addrCh, done, watchVars, failfast, given, grpcVars>>

\* The select reads b.waitCh without the mutex.
GetSelects(g) ==
  /\ Alive /\ pc[g] = "selecting"
  /\ ch' = [ch EXCEPT ![g] = waitCh]
  /\ pc' = [pc EXCEPT ![g] = "waiting"]
  /\ UNCHANGED <<addrs, chanVars, addrCh, done, watchVars, failfast, given, grpcVars>>

GetCancelled(g) == Alive /\ pc[g] = "waiting" /\ Return(g, {})

\* gRPC calls Close once.
Close ==
  /\ MutexFree /\ ~done
  /\ done' = TRUE
  /\ closedChs' = IF waitCh = NoChan THEN closedChs ELSE closedChs \cup {waitCh}
  /\ waitCh' = NoChan
  /\ addrCh' = IF addrCh = "open" THEN "closed" ELSE addrCh
  /\ UNCHANGED <<addrs, watchVars, getVars, grpcVars>>

-----------------------------------------------------------------------------
WatchStep ==
  \/ \E pairs \in Listing : WatchListing(pairs)
  \/ WatchKeyNotFound \/ WatchFails
  \/ \E u \in updates : ApplyUpdate(u)
  \/ Publish

GetStep(g) ==
  \/ GetCall(g) \/ GetClosed(g) \/ GetConnected(g) \/ GetFailfast(g)
  \/ GetBlocks(g) \/ GetSelects(g) \/ GetCancelled(g)

UpStep   == \E a \in offered \ ready : Up(a)
DownStep == \E a \in ready : Down(a)

Next ==
  \/ Start \/ WatchStep \/ Receive
  \/ UpStep \/ DownStep
  \/ \E g \in Getters : GetStep(g)
  \/ Close

Spec == Init /\ [][Next]_vars

-----------------------------------------------------------------------------
(* Properties *)

\* The types of the variables.
TypeOK ==
  /\ addrs \in Seq(AddrInfo)
  /\ waitCh \in Chans \cup {NoChan} /\ closedChs \subseteq Chans
  /\ addrCh \in {"nil", "open", "closed"} /\ done \in BOOLEAN
  /\ watch \in {"off", "next", "apply", "send", "stopped", "exited"}
  /\ updates \subseteq Update /\ event \in BOOLEAN
  /\ servers \in Listing /\ listings \in Nat
  /\ pc \in [Getters -> {"idle", "calling", "selecting", "waiting"}]
  /\ failfast \in [Getters -> BOOLEAN] /\ ch \in [Getters -> Chans \cup {NoChan}]
  /\ given \in [Getters -> SUBSET Address]
  /\ delivered \subseteq Address /\ offered \subseteq Address /\ ready \subseteq Address

\* A caller whose select waits on a channel is not left behind: nobody closed
\* it, so it is the one the next Up or Close will close, and there is no address
\* it could be given (Get, lines 122-152; Up, lines 79-83).
NoStrandedReceiver ==
  \A g \in Getters :
    pc[g] = "waiting" /\ ch[g] # NoChan /\ ch[g] \notin closedChs =>
      ch[g] = waitCh /\ GetAvailableAddrs(TRUE) = {}

\* The updating goroutine never sends on a closed channel, which would crash
\* the process (watchAddrUpdates, lines 231-234, against Close, line 170).
NoSendOnClosedChannel == watch = "send" => addrCh = "open" /\ ~done

\* No backend is lost: between two batches, every backend the watcher knows is
\* in the list, also when some of them were deleted by name.
RegisteredBackendsListed ==
  watch = "next" => \A b \in DOMAIN servers : IsListed(Addr(b, servers[b]))

\* As many of the numbers a pick draws from stand for an entry as its weight
\* says (selectOneAddr, lines 243-257).
ProportionalDraw ==
  LET S == GetAvailableAddrs(TRUE)
  IN  Weight /\ Cardinality(S) > 1 =>
        \A i \in S : Cardinality({n \in 0..(TotalWeight(S) - 1) : Drawn(S, n) = i})
                       = addrs[i].weight
=============================================================================
