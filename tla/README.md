# openWebSF in TLA+

openWebSF is a service framework on gRPC and ZooKeeper: a server registers its
services as ephemeral nodes, a client watches the directory of a service and
balances its calls over the backends it finds there. This directory holds models
of the parts of it that run concurrently or can fail half-way, the TLC
configurations that check them, and proofs of their main safety properties.

All line numbers refer to the files of the repository; `PROJECT.json` maps every
definition to the lines it stands for.

## The system

| part | state | operations | talks to |
|---|---|---|---|
| round-robin balancer, `balancer/roundrobin/roundrobin_v1.go` | `addrs`, `addrCh`, `waitCh`, `next`, `done` under one mutex | Start, watchAddrUpdates, Up, down, Get, Close | gRPC (channel and callbacks), the watcher |
| random balancer, `balancer/random/random_v1.go` | the same, a random source | the same | the same |
| shared helpers, `balancer/common.go` | none | weight from metadata, filtering | both balancers |
| experimental balancers, `roundrobin.go`, `random.go` | the ready connections, an index | Build, Pick | gRPC |
| v1 resolver, `resolver/watcher_v1.go` | `servers`, `event` | Next, getUpdate | the store |
| experimental resolver, `resolver/zk_resolver.go` | none that lasts | Build, watch, getUpdates | gRPC, the store |
| ZooKeeper store, `store/zookeeper/zookeeper.go` | `ephemerals`, the connection | Get, Put, Delete, Exists, List, DeleteTree, Watch, WatchTree, AtomicPut, AtomicDelete, Lock, replay after an outage | ZooKeeper |
| registry, `registry/registry.go` | a mutex | register, unregister, RegisterClient | the store |
| server, `server/server.go` | the services, the gRPC server, the signal channel | NewServer, Register, Start, delayed registration, Shutdown, reloadConfig | registry, gRPC, signals |
| client, `client/client.go` | the process-wide `register.r`, gRPC's tables of builders | NewClient | balancers, resolver, registry |
| interceptors, `interceptor/` | the monitor's logger | metadata, timeout, monitor | a call and its context |
| configuration, keys, `config/`, `utils/url.go` | none | read a file; format a key | - |

They meet as follows. `Server` calls the registry from three kinds of goroutine
(the late registration and one per service in Shutdown); the registry calls the
store's Delete and Put under its mutex, but the store's own goroutine calls Put
as well, after an outage, without it. The node appears in a ZooKeeper directory.
A client's watcher turns listings of that directory into updates, a balancer's
goroutine applies them and sends the resulting list to gRPC, gRPC connects to the
addresses and reports them up and down, and RPC goroutines call Get. NewClient
puts these together: it leaves its builders in tables of the process, dials,
and announces the client through one registry that all clients share.

What is hard about it, and which properties are about that:

* *Channels and a mutex together.* Get gives up the mutex before it waits; the
  list is sent with the mutex held; Close closes channels others use. -
  `NoStrandedWaiter`, `NoStrandedReceiver`, `WaiterReleased`, `GetStuckOnlyInCycle`,
  `NoSendOnClosedChannel`, `ClosedIsFinal`, `ListIsReceived`.
* *Three copies of one list*: the watcher's map, the balancer's slice, gRPC's
  set, brought in line by differences. - `RegisteredBackendsListed`,
  `ViewInSync`, `NoDepartedBackend`, `OnlyOutdatedRemain`.
* *Many picks in a row*: indices and current weights that outlive the list they
  were made for. - `TakesTurns`, `FairShare`, `DebtsBounded`,
  `ProportionalDraw`.
* *Several requests that should be one*: List reads names and values apart,
  WatchTree lists and watches apart, Put checks, creates and sets apart, and the
  atomic operations compare a number that starts again at zero. - `StayersKept`,
  `FiredIsSeen`, `ToldTwice`, `RegisteredStays`, `ImplementsCompareAndSet`,
  `WatchInOrder`, `LockExclusive`, `LeaderKnown`.
* *Outages*: sessions expire and nodes vanish; somebody has to create them
  again, and only those. - `RegisteredAgain`, `UnregisteredStaysAbsent`.
* *A start and a shutdown that overtake each other*, with retries. -
  `HiddenBeforeDraining`, `NotAnnouncedAgain`, `OnlyWantedAnnounced`, `ShutdownEnds`.
* *State of the whole process*, changed by every NewClient. - `OwnBuilders`,
  `RegistryOpenedOnce`, `AnnouncedTogether`.
* *Calls that nobody answers*. - `UnaryEnds`.

## The modules

| module | models |
|---|---|
| `Naming` | addresses, metadata, listings, and `getUpdate`, the difference between two listings |
| `Addresses` | the slice of `AddrInfo` both v1 balancers keep, and how they search and filter it |
| `Selection` | what the round-robin balancer does with its list: applying an update, and `selectOneAddr`, by rotation or smoothly weighted |
| `RoundRobinV1` | the round-robin balancer; EXTENDS the three above |
| `BalancerWrapper` | `RoundRobinV1` under gRPC's adapter, composed with its mutex and its receiver |
| `RandomV1` | the random balancer |
| `Picks` | many picks and batches in a row, with `Selection`, and picks by the experimental pickers |
| `Discovery` | the v1 watcher on top of List and WatchTree, and the directory it watches |
| `Resolvers` | `Discovery`, with either the v1 or the experimental resolver in charge |
| `Registration` | registry, Put and Delete, and the replay after an outage, down to single requests |
| `CompareAndSet` | abstract: what the atomic operations of a store promise |
| `Store` | the store's operations on keys, request by request; implements `CompareAndSet` |
| `StoreWatch`, `StoreLock` | the goroutine of Watch; Lock and Unlock |
| `StoreSystem` | the three composed |
| `Server` | the life of a server process, from its configuration on |
| `NewClient` | NewClient called by several goroutines: builders, dialling, the registry |
| `Calls` | calls through the chain of interceptors |
| `Client` | the two composed |
| `...Proofs` | the theorems about the module named; `DiscoveryProofs` is about `Resolvers`, `ClientProofs` about `Picks`, `StoreProofs` about `StoreSystem` |
| `MC...` | the constants of a module for TLC, where a configuration cannot write them |

A module whose definition ends in `Mutant` holds, next to the definition, a
plausible bug in the code it stands for; the properties are known to tell the two
apart.

**RoundRobinV1.** `watch` is the position of the updating goroutine: `next` (in
`w.Next`), `apply` (updates left, mutex held), `send` (blocked on `addrCh`, mutex
still held), `stopped`. `MutexFree` is what every other action that takes `rr.mu`
waits for; a critical section that calls nothing is one step. The updates of a
batch are applied one by one, in every order a ZooKeeper listing followed by a
Go map permits. A call of Get moves from `idle` to `calling` (waiting for the
mutex), and back or on to `waiting` with the channel it captured. Channels have
identities, so that closing one and making another are different things; an
identity nobody refers to may be used again, as memory is. gRPC may report any
address up that it ever received, and down any that is up, late or not. It need not
receive a list that is sent. `lastMeta` remembers under which metadata each backend
was listed last, and exists for the properties only. With one
update in progress the two ways of Get to end, an answer and a cancelled context,
race as they do in the select.

**RandomV1** differs where the code does: Get tests `done` only once woken, and
`GetSelects`, the read of `b.waitCh` in the select, is a step without the mutex.
A draw is any entry for which some number of the generator stands.

**BalancerWrapper** is external code, gRPC 1.17 as pinned in `glide.yaml`,
modelled from how it uses the balancer: who calls it, under which lock, in which
order. What depends on gRPC receiving the lists, that is, liveness, is stated here
and not in `RoundRobinV1`.

**Picks.** `balancer` is one of the six balancers whose picks are no plain draw,
chosen at the start. A pick is one step, as it holds a mutex throughout. Between
picks the v1 balancers get a listing, whose updates are those of `GetUpdate` and are
applied one by one with the operators `RoundRobinV1` uses, and entries are reported
up and down. So the list has what the code's has: after a change of metadata the
entry keeps the old address, the next listing that shows the new one appends a second
entry for the same backend (roundrobin_v1.go, 52-70), and Delete finds neither or one of
them. Picks are therefore counted by entry, not by backend (`served`), from the last
change on; `longest` is the greatest length the list had. Both exist for the properties
only. When nothing is connected a failfast call selects among all the entries
(`Candidates`), and moves the index and the current weights as well. The experimental
pickers pick from the connections they were built with, in any order a Go map may yield.

**Discovery and Resolvers.** `at` is the position of the watcher and, after the
first Next, of WatchTree's goroutine; the channel between the two is unbuffered
and its only reader does nothing else, so one variable is enough. `Children` and
`GetChild` are single requests. Backends create their node empty, set its value,
leave, at any moment. Requests fail and sessions expire within a bound. The
experimental resolver takes the same steps, but tells gRPC the first listing,
then the first one of the channel, and returns (`told`).

**Registration.** Two threads, the caller of the registry (its mutex admits one)
and the store's goroutine, go through Put request by request; `NoAnswer` is a
request that fails because the connection is lost, carried out or not. The
append to `ephemerals`, which no lock protects, is a read and a write.

**Store, StoreWatch, StoreLock.** Each client has at most one operation in
progress, a sequence of requests. `life` tells the incarnations of a key apart,
which its version does not. `Abstracted` reads a client's pair as a snapshot of
`CompareAndSet`: of the present value, of an earlier one, or of a key that was
deleted since. Watch's goroutine goes through its Get, GetW, event and Get. The
lock's queue belongs to the library: a call makes a node with the next number, and has
the lock when no node has a smaller one. A call of Lock may fail while it makes its
node, which may be there all the same, or while it waits, and then leaves its node in
the queue (`LockCall`, `LockFails`; zookeeper.go:431-433): those behind it wait until the
session ends. `lapsed` are the clients whose session ended while they were in Lock or
had the lock, which they do not notice.

**Server.** The first actions are the configuration, NewServer and Register, in
the order the program calls them. A call of the registry is one step that may
fail with or without an effect. After an outage, in which the session may have
expired (`SessionReturns`), the store's goroutine puts every key it remembers again, one per step
(`PutAgain`), between the steps of the registering goroutine and of the shutdown;
the order of the keys, and appends that are lost, are left to `Registration`.
Time is left out but for one fact, named in the module: a pause between two
attempts is longer than the delay of the registration.

**NewClient, Calls, Client.** `pc` is where a caller of NewClient is: every
access to the tables, the unlocked test of `register.r`, the lock, the read of
`register.r` for the call (`ReadsRegister`, which may be long before the mutex of that
Registry is free), and every request of RegisterClient are steps of their own. `TablesRace` is what the Go
runtime may do to a process whose goroutines use a map at the same time. `met`
records which calls overlap. A call goes from `user`, the user's own interceptor,
to an `attempt` and back, as often as that interceptor asks. Contexts are immutable, so
what pass_metadata adds to one is gone with the attempt and is left out.

Abstracted everywhere: text (a key, a name or a metadata string is a model value,
or the number the code reads from it), logging, and the contents of files and
messages.

## The runs

| run | what it asks | bounds |
|---|---|---|
| `RoundRobinSafe` | wake-ups, agreement of the lists, what departed backends leave, closed channels, nothing after Close | 2 backends, 2 callers, 2 listings, weights 1 and a negative one |
| `DepartedStays` | *violated*: a backend that left is gone from the list | 1 backend, 1 caller, 3 listings, weights 1 and a negative one |
| `Wrapper` | under the adapter, callers of Get are stuck on the mutex only in the cycle of the next run, and waiting ones come back | 1 backend, 2 callers, 2 listings, rotation |
| `WrapperSend` | *violated*: a list that is sent is received | 1 backend, 1 caller, 2 listings |
| `Random` | as `RoundRobinSafe`, and the shares of a draw | 2 backends, 2 callers, 2 listings, weights |
| `Picks` | turns, debts and shares over many picks | 2 backends, weights 0, 1 and a negative one (read as 2), 6 picks between 4 changes |
| `Registration` | a registered key stays, and comes back | 2 keys, 1 value, 3 calls, 2 outages |
| `RegistrationResurrects` | *violated*: an unregistered key stays away | 1 key, 2 calls, 1 outage |
| `Discovery` | no listing takes out a backend that stays; a fired watch is followed by a listing; the experimental client is told twice | either resolver, 2 backends, 3 changes, 2 failures |
| `Store` | the atomic operations implement compare-and-set; Watch shows values in order; the lock excludes | 2 clients on 2 keys or on the lock, 4 calls, 1 failure, 1 expiry |
| `Server` | no announced server drains; late registration; a shutdown ends | 2 services, 2 signals, 1 error, 1 expiry, 1 RPC |
| `Client` | builders, registry, announcement; retries and deadlines of calls | 2 callers, 9 configurations, 1 failure, 2 tries, 1 call |

Why the bounds are enough. Two backends give every case of the counts in Up
(none, one, several connected), of a list that shrinks while it is used, and of a
choice. A second
listing is the first one to delete, modify or repeat. Two callers
share a wait channel and let one make a new one while the other still holds
the old one; three channel identities are one for each of them and the balancer's,
so none is reused while it is referenced. One backend is enough in `Wrapper`, whose
question is who waits for whom, and two listings are the two sends of the cycle; in
`DepartedStays` three listings show, change and drop a backend. In `Picks` four
changes are enough for a listing, a change of metadata, the listing that appends the second
entry and a connection, in any order, and six picks are a round and a half of the largest
weights of two. That debts do not grow with more changes and longer lists no bounded run can
show; it is proved. Two outages let the second fall into the
replay of the first, and three calls are register, unregister and register, or
one on another key in between. Three changes of the directory are one for each of
List's and WatchTree's gaps plus one. Four calls of the store are a read, a
deletion, a creation and the write with the old pair, or two calls of Lock by each of two
clients. The lock has nodes of its own, which no other operation reads or writes, so the run
keeps to behaviours that use one of the two (`LockOrKeys`). Two services are enough for one to be
registered or unregistered while the other is not; one failed call and one expiry
each meet every phase of a shutdown, and the proofs cover more of them. Two
callers of NewClient are the two sides of each of its races, and the nine
configurations share names of balancers, or not, and are refused in each way.
Deadlock checking is on for the
round-robin balancer itself, and off where the bounds on calls, outages, changes
or signals, or the end of the process, stop the model. Symmetry is used only in
the four runs without liveness that set it (`RoundRobinSafe`, `Random`, `Picks`, `Store`).

Fairness. Goroutines that can move do so (WF of their steps); `sync.Mutex` hands
the lock over to a goroutine that has waited for a millisecond, hence SF for the steps
that compete for it. Nothing is assumed of gRPC's receiving: its goroutine in
`BalancerWrapper` receives when it is back at the channel, and is back when it got the
adapter's mutex. ZooKeeper answers and can be reached again after each of a
bounded number of outages. In `Client` time passes, and gRPC ends an attempt whose
deadline is over; that a backend answers is not assumed. In `Server` RPCs end:
`UnaryEnds` shows that the clients of this framework see to it for unary calls,
by the deadline of `UnaryTimeOut`; with a stream, or another client, a shutdown may last
for ever, as GracefulStop has no deadline (server.go:206). Nothing is assumed of the environment's
other choices: changes, signals, failures, callers and gRPC's reports may or may
not come.

## Disagreements between code and comments

Three have a run that ends in the violation.

1. `WrapperSend`: the balancer's mutex is held while the list is sent (line 109).
   The receiver needs the adapter's mutex, whose holder may wait for the
   balancer's.
2. `RegistrationResurrects`: the store never forgets a key (line 75).
3. `DepartedStays`: Modify keeps the old metadata in the list's entry, and Delete compares
   metadata (roundrobin_v1.go:73 and 80-90), so the entry of a backend that changed its
   metadata is not found when it leaves. For the same reason a listing after the change
   appends a second entry, and the backend then has two turns in a round and two shares.
   `OnlyOutdatedRemain` says that nothing else is left of a backend.

Others are in the models in the same way, but no run is kept for them:

* The random balancer's Get reads `b.waitCh` after it gave up the mutex
  (random_v1.go:131) and may wait on a nil channel; `NoStrandedReceiver` is about
  those that wait on a channel.
* A connected backend of weight zero, which `GetAvailableAddrs` treats as
  drained, still counts in Up (roundrobin_v1.go:152-157), so the first usable
  address may not wake the callers: `NoStrandedWaiter` fails with the metadata
  `DrainingMetas` of `MCRoundRobinV1`. The proofs assume positive weights.
* The weighted experimental round robin makes its entries anew for every pick
  (roundrobin.go:62) and always serves one of the heaviest (`HeaviestPick`), although the
  comment at line 43 speaks of a round robin.
* The weighted experimental draw panics when every ready backend has weight zero
  (random.go:88, `DrawPanics`), and ends with the last match (random.go:92, `LastMatch`).
* A change between List and ChildrenW is missed (zookeeper.go:247), and a value set
  after the creation of a node is not watched; the experimental resolver takes no
  change after its second listing (`ToldTwice`).
* When ChildrenW fails, the closed channel reads as an empty listing for ever
  (`ReceivedFromClosed`); `StayersKept` excepts that step.
* List gives each pair the version of the directory (zookeeper.go:293), so that AtomicPut
  refuses it for no reason, and a pair of an earlier incarnation may be accepted
  (line 326); `CompareAndSet` grants both.
* Nobody closes the channel Lock returns (zookeeper.go:440), although lines 428-429 say so:
  who lost its session is not told and goes on next to the next holder. `LockExclusive`
  excepts it (`lapsed`). Its Set has no version, and may be written late over the value of
  that holder; `LeaderKnown` excepts those that did it (`late`).
* Lock keeps the lock when its Set fails and the caller is told of an error (line 437), and
  leaves its node in the queue when it fails before (line 431).
* A key registered twice with different values may come back with the older one:
  `RegisteredStays` fails with two values.
* Two appends to `ephemerals` at the same time lose a key; `RegisteredStays` and
  `RegisteredAgain` except the keys in `forgotten`.
* Shutdown in the first second may unregister an earlier process' node and
  leave its own announced; the properties of `Server` except `leftover`.
* An expiry of the session announces services again that were unregistered, also
  while the server drains; the properties of `Server` except `revived`, and
  `RegistrationResurrects` shows the cause.
* Start closes the registry whenever ZooKeeper servers are configured, also when
  there is no registry: the process then ends with a nil pointer (server.go:83-85,
  `StartReturns`).
* Without SetMonitorLog the first slow call dereferences a nil logger
  (monitor.go:76, `Monitored`).
* SIGUSR1 blocks the signal handler for good (server.go:166), so the change of limits at
  run time that README.md:5 announces is not there. `ShutdownEnds` is about
  shutdowns that began.

## What is proved

`tlapm` checks the following for every value of the constants (sets of any size,
any bounds).

* `AddressesProofs` has the lemmas about the shared list that both balancers need:
  what a search returns, that a list without duplicates has one entry of each
  address, how removing an entry changes it, and that the running sums of
  weights cut the numbers below their total into one interval per entry.
* `RoundRobinV1Proofs`. `TypeInv` (types, and no address twice in the list) is
  inductive by itself. `SendInv` adds that `addrCh` is open in a started,
  unclosed balancer, which gives `NoSendOnClosedChannel`. `ViewInv` says that
  gRPC holds the list except while a batch is applied or sent: it needs that
  Up, down and Get never touch the addresses. `ListedInv` follows a batch: a known
  backend is in the list or its addition is still to come, and a deletion still to
  come is of a backend the watcher has dropped. `WaitInv` gives `NoStrandedWaiter`:
  whenever there is a wait channel nothing is connected, it is not closed, and
  each caller waits on it or on a closed one. It assumes `PositiveWeights`, and
  uses that no address is twice in the list: otherwise the first address to
  come up could count as two. `ClosedForGood` is the action property. `DepartedInv`
  gives `OnlyOutdatedRemain`: the watcher knows each backend under the metadata it was last
  listed with, an entry is of a known backend, or has other metadata than that, or its
  deletion is still to come, and no addition still to come is of a backend that left.
  Nothing is assumed of the metadata.
* `RandomV1Proofs`. The same invariants for the random balancer, where Get reads
  the wait channel late; and `AlwaysProportional`: the numbers of the generator for
  which an entry is drawn are as many as its weight, by the lemma on running sums.
* `DiscoveryProofs`. `StayersKept` is an action property; its invariant `Covered`
  says that a listing at hand, read or still to be read, has every staying
  backend of the view, and `StayersThere` that these are in the directory, so
  that starting List again loses none. Both theorems are about `Resolvers`, hence
  about the v1 and the experimental resolver; `Discovery` is the first of them.
* `StoreProofs`. The store, the goroutine of Watch and the lock change each other's
  view of the nodes only by `NodeStep`, one request of ZooKeeper, and each part has an
  invariant that such a step keeps. `PairsInv`: no pair, held or in a listing in
  progress, is ahead of its key, where a later incarnation counts as more than a later
  version. `WatchInv`: the value about to be shown is newer than the one shown last,
  and whenever the goroutine is about to read again the key has been written after
  that (`Behind`), which is `WatchInOrder`; without it an event that was not for a write
  could show a value twice. `LockInv`: numbers are given once, a client that
  waits or has the lock still has its node unless its session expired, and one that has the
  lock has the first of all nodes, those left by failed calls included. Two such clients have
  the same number, hence are one, which gives `LockExclusive`, and `LeaderKnown` with it. `StoreRefines` is the refinement of
  `CompareAndSet`: by `PairsInv`, a pair whose number matches is either current or of an
  incarnation that is gone, and one that does not match is a listed one or behind its
  key; every other request is a read, an unconditional write or a stutter of the
  abstraction. Unlike the runs, it covers any number of clients, keys, calls,
  failures and expiries. It assumes that `NoSnapshot` is neither a pair nor a
  snapshot of the abstraction.
* `ServerProofs`. `RegInv`: a service that had no earlier node and was
  unregistered has been registered before, nothing registers it twice, and the
  store puts again only what was registered; `PhaseInv` ties the goroutines of
  Shutdown to the handler. From the two follow `NotAnnouncedAgain` and
  `HiddenBeforeDraining`, for any number of errors and expiries. `SetupInv` (nothing
  runs before Start) and `WantedInv` (whatever is registered, remembered or
  revived was wanted) give `OnlyWantedAnnounced`.
* `ClientProofs`. `MetInv`: two callers inside NewClient have met. `OpenedInv`:
  whoever is about to open a connection although one was opened tested
  `register.r` before, so its call and the opener's overlap; this is
  `RegistryOpenedOnce`. `Builds`: from the step in which a caller wrote a table, what
  it will read there was written by itself or by a call it met, and so is what its
  connection uses; this is `OwnBuilders`, for configurations that name no
  registry when they give addresses (`DirectConfigs`, as client.go:44 demands).
  `AnnounceInv`: while the node of a service is missing although a caller was told it is
  announced, another caller of that service has not been told so yet; this is
  `AnnouncedTogether`.
  The second part of the module is about `Picks`, and entries are positions in the list.
  What a batch does to it is one of four things (`Altered`): nothing about the debts, one entry
  appended that owes nothing, one removed and those behind it moved up, or another weight.
  The ranks of the entries a call may get
  are exactly the numbers below their count (an injection between finite sets
  of one size is onto, so no induction is needed), hence the index always names one of
  them. `TurnInv`: there are a number of full rounds and a rank the last one began at
  such that exactly the entries from that rank to the index, past the end of the list or
  not, were served once more. Since a change begins a new count with any index, the
  rank is not known beforehand. `PickerInv` is the same for the experimental picker,
  whose rounds begin at zero. From the two follows `TakesTurns`.
  `DebtsBounded` and `FairShare` are about the current weights of the weighted
  balancer, which are never reset. That one entry's debt is bounded is not inductive,
  as who has gained most depends on all of them; nor do they sum to zero, since one
  that leaves takes its debt along. The invariant `DebtInv` is about sets: any `k` entries of
  a list that never had more than `n` are together owed, and owe, no more than
  `Heaviest * k * (2n - k - 1)` (`Limit`). The number of entries has no bound given by that of
  the backends, since every change of metadata may leave one; `n` is the history `longest`. A pick could break that for a set in two
  ways. The set gains while somebody outside is picked: either the one picked had so much
  that the set with it would have been over its own limit before, or nobody in the set had
  as much, so that the gainers are below and the others have their own limit
  (`PickStaysBelow`). Or one of the set pays for somebody outside, which is the same
  argument with the signs reversed (`PickStaysAbove`). Changes keep the limits: a
  departure takes elements away, an arrival adds one that owes nothing and leaves the
  limit as it is or larger, and the rest touches no debt. With `k = 1` this is
  `DebtsBounded`, on which `FairShare` rests. `FairInv` is the balance of each account since the last change: picks times
  weight, and some amount within the bound that was there at the change, are what the
  entry paid for and what it is owed now; `FairShare` is its difference of two debts.
  Sums are cardinalities of sets of units, positive and negative, and induction over
  a finite set is the lemma `SetInduction`, about a set of sets instead of a predicate: a
  smallest set that is not in it would have an element, without which it is.

* `RegistrationProofs`. `RegisteredStays`, for any number of keys, calls, outages
  and expiries, when every key has one value (`OneValue`; it is false otherwise, see
  above). The state at rest says nothing of how it came about, so the invariant
  has four parts: `EventsInv` (a session event finds the goroutine's flag set,
  because a loss comes right before it or was the last event read), `CallInv` (a
  call takes its promise back before it starts, and a promised key's node is never
  an earlier process'), `KeptInv` (every node of this session is remembered,
  or its append is still to come) and `PromiseInv` (a promised key has its
  node, or the goroutine owes it another round, or is about to put it).

The assumptions are those named in the modules: the default weight is positive,
`NoChan` is not a channel, `NoNode`, `NoKey` and `NoSnapshot` are none of the
values they stand for the absence of, bounds are numbers, the empty value
is a metadata value and nothing is registered with it, and `Picks` has finitely many
backends, some metadata (if only none), and finitely many weights, as an `int` has.

Only model-checked: everything about liveness (`WaiterReleased`,
`GetStuckOnlyInCycle`, `RegisteredAgain`, `FiredIsSeen`, `ShutdownEnds`, `UnaryEnds`,
`ToldTwice`), which is out of the prover's reach. Every invariant the runs check is
proved. That weights and debts fit into an `int` is not modelled: by `DebtsBounded` they do
unless the weights themselves are near its limit.

## What is not modelled, and the plan

In the order in which it is planned:

1. Registration together with Discovery: a client watching a server through an
   outage, request by request.
2. Larger instances of `Client` (three callers), which the proofs cover for safety.

Left out for good: the formatting of keys and the choice of the local address
(`utils/url.go`, text and network interfaces); the messages of `user.pb.go`;
`ParseCustom`, which repeats the reading of the configuration that `Server` has;
the watched keys of the ZooKeeper wrapper, which nothing uses, and its methods,
which pass the call on; pass_metadata, a function from one immutable context to another;
the error returns of random_v1.go:40-50, which leave the mutex held and which gRPC cannot
reach; the example programs, which call one operation after the other.
