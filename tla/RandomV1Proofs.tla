---------------------------- MODULE RandomV1Proofs ----------------------------
(***************************************************************************)
(* What RandomV1 guarantees for every set of backends, of metadata and of  *)
(* callers, and every number of listings.                                  *)
(***************************************************************************)
EXTENDS RandomV1, AddressesProofs

-----------------------------------------------------------------------------
(* A draw *)

\* Among the entries that satisfy a condition there is a first one.
LEMMA FirstListed ==
  ASSUME addrs \in Seq(AddrInfo), NEW a, IsListed(a)
  PROVE  LET k == FirstAt(LAMBDA i : addrs[i].addr.name = a.name)
         IN  k \in DOMAIN addrs /\ addrs[k].addr.name = a.name
<1> DEFINE T == {i \in DOMAIN addrs : addrs[i].addr.name = a.name}
<1>1. T \in SUBSET Nat /\ T # {}
  BY DEF IsListed
<1>2. PICK k \in T : \A j \in T : k <= j
  BY <1>1, Least
<1>3. \E i \in DOMAIN addrs : /\ addrs[i].addr.name = a.name
                              /\ \A j \in DOMAIN addrs : addrs[j].addr.name = a.name => i <= j
  BY <1>2
<1> QED BY <1>3 DEF FirstAt

\* Where the weights so far exceed n for the first time.
FirstExceeds(S, n, i) ==
  /\ i \in S /\ n < TotalWeight(UpTo(S, i))
  /\ \A j \in S : n < TotalWeight(UpTo(S, j)) => i <= j

\* The weights up to an entry are numbers, no more than the total.
LEMMA UpToFacts ==
  ASSUME addrs \in Seq(AddrInfo), NEW S \in SUBSET DOMAIN addrs, NEW i \in S
  PROVE  /\ TotalWeight(UpTo(S, i)) \in Nat
         /\ TotalWeight(UpTo(S, i)) <= TotalWeight(S)
         /\ TotalWeight(UpTo(S, i) \ {i}) \in Nat
         /\ TotalWeight(UpTo(S, i)) = TotalWeight(UpTo(S, i) \ {i}) + addrs[i].weight
         /\ addrs[i].weight \in Nat
<1>1. UpTo(S, i) \in SUBSET S /\ UpTo(S, i) \in SUBSET DOMAIN addrs /\ i \in UpTo(S, i)
  BY DEF UpTo
<1>2. UpTo(S, i) \ {i} \in SUBSET DOMAIN addrs
  BY <1>1
<1>3. TotalWeight(UpTo(S, i)) <= TotalWeight(S)
  BY <1>1, TotalWeightGrows
<1>4. TotalWeight(UpTo(S, i)) = TotalWeight(UpTo(S, i) \ {i}) + addrs[i].weight
  BY <1>1, TotalWeightSplits
<1> QED BY <1>1, <1>2, <1>3, <1>4, TotalWeightType, EntryUnits

\* Every number below the total stands for an entry.
LEMMA DrawnIsFirst ==
  ASSUME addrs \in Seq(AddrInfo), NEW S \in SUBSET DOMAIN addrs,
         NEW n \in 0..(TotalWeight(S) - 1)
  PROVE  FirstExceeds(S, n, Drawn(S, n))
<1>1. TotalWeight(S) \in Nat
  BY TotalWeightType
<1>2. S # {}
  <2>1. TotalWeight(S) # 0
    BY <1>1
  <2> QED BY <2>1, NoWeight, Zenon
<1>3. DOMAIN addrs = 1..Len(addrs) /\ Len(addrs) \in Nat
  OBVIOUS
<1>4. PICK m \in S : \A j \in S : j <= m
  BY <1>2, <1>3, Greatest
<1>5. UpTo(S, m) = S
  BY <1>4 DEF UpTo
<1> DEFINE T == {i \in S : n < TotalWeight(UpTo(S, i))}
<1>6. m \in T
  BY <1>1, <1>4, <1>5
<1>7. T \in SUBSET Nat /\ T # {}
  BY <1>3, <1>6
<1>8. PICK k \in T : \A j \in T : k <= j
  BY <1>7, Least
<1>9. \E i \in S : /\ n < TotalWeight(UpTo(S, i))
                   /\ \A j \in S : n < TotalWeight(UpTo(S, j)) => i <= j
  BY <1>8
<1> QED BY <1>9 DEF FirstExceeds, Drawn

\* An entry that a pick may choose is one of those it chooses from.
LEMMA SelectsOne ==
  ASSUME addrs \in Seq(AddrInfo), NEW S \in SUBSET DOMAIN addrs
  PROVE  selectOneAddr(S) \in SUBSET S
<1>1. \A n \in 0..(TotalWeight(S) - 1) : Drawn(S, n) \in S
  BY DrawnIsFirst DEF FirstExceeds
<1> QED BY <1>1 DEF selectOneAddr

\* The numbers that stand for an entry are those from the weights before it to
\* the weights up to it.
LEMMA DrawnRange ==
  ASSUME addrs \in Seq(AddrInfo), NEW S \in SUBSET DOMAIN addrs, NEW i \in S,
         NEW n \in 0..(TotalWeight(S) - 1)
  PROVE  Drawn(S, n) = i <=> /\ TotalWeight(UpTo(S, i) \ {i}) <= n
                             /\ n < TotalWeight(UpTo(S, i))
<1>1. FirstExceeds(S, n, Drawn(S, n))
  BY DrawnIsFirst
<1>2. DOMAIN addrs = 1..Len(addrs) /\ Len(addrs) \in Nat /\ TotalWeight(S) \in Nat
  BY TotalWeightType
<1>3. \A j \in S : TotalWeight(UpTo(S, j)) \in Nat
  BY UpToFacts
<1>4. TotalWeight(UpTo(S, i) \ {i}) \in Nat
  BY UpToFacts
<1>5. ASSUME Drawn(S, n) = i, n < TotalWeight(UpTo(S, i) \ {i})
      PROVE  FALSE
  <2> DEFINE B == UpTo(S, i) \ {i}
  <2>1. B # {}
    <3>1. TotalWeight(B) # 0
      BY <1>4, <1>5
    <3> QED BY <3>1, NoWeight, Zenon
  <2>2. B \in SUBSET (1..Len(addrs))
    BY <1>2 DEF UpTo
  <2>3. PICK m \in B : \A j \in B : j <= m
    BY <1>2, <2>1, <2>2, Greatest
  <2>4. m \in S /\ m < i
    BY <1>2, <2>3 DEF UpTo
  <2>5. UpTo(S, m) = B
    BY <1>2, <2>3, <2>4 DEF UpTo
  <2>6. i <= m
    BY <1>1, <1>5, <2>4, <2>5 DEF FirstExceeds
  <2> QED BY <1>2, <2>4, <2>6
<1>6. ASSUME TotalWeight(UpTo(S, i) \ {i}) <= n, n < TotalWeight(UpTo(S, i))
      PROVE  Drawn(S, n) = i
  <2> DEFINE d == Drawn(S, n)
  <2>1. d \in S /\ n < TotalWeight(UpTo(S, d)) /\ d <= i
    BY <1>1, <1>6 DEF FirstExceeds
  <2> HIDE DEF d
  <2>2. ASSUME d < i
        PROVE  FALSE
    <3>1. UpTo(S, d) \in SUBSET (UpTo(S, i) \ {i})
      BY <1>2, <2>1, <2>2 DEF UpTo
    <3>2. UpTo(S, i) \ {i} \in SUBSET DOMAIN addrs
      BY DEF UpTo
    <3>3. TotalWeight(UpTo(S, d)) <= TotalWeight(UpTo(S, i) \ {i})
      BY <3>1, <3>2, TotalWeightGrows
    <3> QED BY <1>3, <1>4, <1>6, <2>1, <3>3
  <2>3. d = i
    BY <1>2, <2>1, <2>2
  <2> QED BY <2>3 DEF d
<1> QED BY <1>1, <1>3, <1>4, <1>5, <1>6 DEF FirstExceeds

\* As many numbers stand for an entry as its weight says, for every list.
LEMMA Proportional ==
  ASSUME addrs \in Seq(AddrInfo), NEW S \in SUBSET DOMAIN addrs, NEW i \in S
  PROVE  Cardinality({n \in 0..(TotalWeight(S) - 1) : Drawn(S, n) = i}) = addrs[i].weight
<1> DEFINE before == TotalWeight(UpTo(S, i) \ {i})
           upto == TotalWeight(UpTo(S, i))
<1>1. /\ before \in Nat /\ upto \in Nat /\ upto <= TotalWeight(S)
      /\ upto = before + addrs[i].weight /\ addrs[i].weight \in Nat
  BY UpToFacts
<1>2. TotalWeight(S) \in Nat
  BY TotalWeightType
<1>3. \A n \in 0..(TotalWeight(S) - 1) : Drawn(S, n) = i <=> before <= n /\ n < upto
  BY DrawnRange
<1> HIDE DEF before, upto
<1> DEFINE last == upto - 1
<1>4. {n \in 0..(TotalWeight(S) - 1) : Drawn(S, n) = i} = before..last
  BY <1>1, <1>2, <1>3
<1>5. before \in Int /\ last \in Int
  BY <1>1
<1>6. (IF before > last THEN 0 ELSE last - before + 1) = addrs[i].weight
  BY <1>1
<1> HIDE DEF last
<1>7. Cardinality(before..last) = IF before > last THEN 0 ELSE last - before + 1
  BY <1>5, FS_Interval
<1> QED BY <1>4, <1>6, <1>7, Zenon

-----------------------------------------------------------------------------
(* Types *)

LEMMA TypeInit == Init => TypeOK
<1>1. NoServers \in [{} -> Metas] /\ {} \in SUBSET Backends
  BY DEF NoServers
<1>2. NoServers \in Listing
  BY <1>1 DEF Listing
<1>3. <<>> \in Seq(AddrInfo)
  OBVIOUS
<1>4. Init => /\ addrs \in Seq(AddrInfo) /\ listings \in Nat
              /\ updates \subseteq Update /\ servers \in Listing
              /\ delivered \subseteq Address /\ offered \subseteq Address
              /\ ready \subseteq Address
  BY <1>2, <1>3 DEF Init
<1>5. Init => /\ waitCh \in Chans \cup {NoChan} /\ closedChs \subseteq Chans
              /\ addrCh \in {"nil", "open", "closed"} /\ done \in BOOLEAN
              /\ watch \in {"off", "next", "apply", "send", "stopped", "exited"}
              /\ event \in BOOLEAN
              /\ pc \in [Getters -> {"idle", "calling", "selecting", "waiting"}]
              /\ ch \in [Getters -> Chans \cup {NoChan}]
  BY DEF Init
<1>6. Init => failfast \in [Getters -> BOOLEAN]
  BY DEF Init
<1>7. Init => given \in [Getters -> SUBSET Address]
  BY DEF Init
<1> QED BY <1>4, <1>5, <1>6, <1>7 DEF TypeOK

\* Up and down set the flag of the entries with the address, and no other.
LEMMA ConnectedFacts ==
  ASSUME TypeOK, NEW a, NEW b \in BOOLEAN, addrs' = Connected(a, b)
  PROVE  /\ addrs' \in Seq(AddrInfo) /\ DOMAIN addrs' = DOMAIN addrs
         /\ \A i \in DOMAIN addrs :
              /\ addrs'[i].addr = addrs[i].addr
              /\ addrs'[i].weight = addrs[i].weight
              /\ addrs'[i].connected = IF addrs[i].addr = a THEN b ELSE addrs[i].connected
<1>1. addrs' = FlagSet(a, b)
  BY DEF Connected, FlagSet
<1> QED BY <1>1, FlagFacts, Zenon DEF TypeOK

\* An entry is taken out by the name of its backend.
LEMMA DeleteFacts ==
  ASSUME addrs \in Seq(AddrInfo), NEW a \in Address, ApplyDelete(a)
  PROVE  /\ addrs' \in Seq(AddrInfo) /\ (DistinctAddrs => DistinctAddrs')
         /\ \A i \in DOMAIN addrs' : \E j \in DOMAIN addrs : addrs'[i] = addrs[j]
         /\ \A j \in DOMAIN addrs : addrs[j].addr.name # a.name =>
              \E i \in DOMAIN addrs' : addrs'[i] = addrs[j]
<1>1. CASE ~IsListed(a)
  BY <1>1 DEF ApplyDelete, DistinctAddrs
<1>2. CASE IsListed(a)
  <2> DEFINE k == FirstAt(LAMBDA i : addrs[i].addr.name = a.name)
  <2>1. k \in DOMAIN addrs /\ addrs[k].addr.name = a.name
    BY <1>2, FirstListed
  <2>2. addrs' = WithoutEntry(k)
    BY <1>2 DEF ApplyDelete
  <2> HIDE DEF k
  <2>3. /\ addrs' \in Seq(AddrInfo) /\ (DistinctAddrs => DistinctAddrs')
        /\ \A i \in DOMAIN addrs' : \E j \in DOMAIN addrs : addrs'[i] = addrs[j]
        /\ \A j \in DOMAIN addrs : j # k => \E i \in DOMAIN addrs' : addrs'[i] = addrs[j]
    BY <2>1, <2>2, RemoveFacts
  <2> QED BY <2>1, <2>3
<1> QED BY <1>1, <1>2

LEMMA ModifyFacts ==
  ASSUME addrs \in Seq(AddrInfo), NEW a \in Address, ApplyModify(a)
  PROVE  /\ addrs' \in Seq(AddrInfo) /\ DOMAIN addrs' = DOMAIN addrs
         /\ \A i \in DOMAIN addrs :
              /\ addrs'[i].addr = addrs[i].addr
              /\ addrs'[i].connected = addrs[i].connected
              /\ addrs'[i].weight \in {addrs[i].weight, GetWeightByMetadata(a.meta)}
<1>1. CASE UNCHANGED addrs
  BY <1>1
<1>2. CASE ~UNCHANGED addrs
  BY <1>2, WeightType, ReweighFacts DEF ApplyModify
<1> QED BY <1>1, <1>2

\* What a pick returns is an address of the list.
LEMMA PickType ==
  ASSUME TypeOK, NEW connected \in BOOLEAN,
         NEW i \in selectOneAddr(GetAvailableAddrs(connected))
  PROVE  addrs[i].addr \in Address
<1>1. GetAvailableAddrs(connected) \in SUBSET DOMAIN addrs
  BY DEF GetAvailableAddrs
<1>2. i \in DOMAIN addrs
  BY <1>1, SelectsOne DEF TypeOK
<1>3. addrs[i] \in AddrInfo
  BY <1>2 DEF TypeOK
<1> QED BY <1>3 DEF AddrInfo

LEMMA TypeStep == TypeOK /\ [Next]_vars => TypeOK'
<1> SUFFICES ASSUME TypeOK, [Next]_vars
             PROVE  TypeOK'
  OBVIOUS
<1> USE DEF TypeOK, chanVars, watchVars, getVars, grpcVars
<1>1. CASE Start
  BY <1>1 DEF Start
<1>2. ASSUME NEW pairs \in Listing, WatchListing(pairs)
      PROVE  TypeOK'
  <2>1. updates' \subseteq Update
    BY <1>2, UpdatesType DEF WatchListing
  <2> QED BY <1>2, <2>1 DEF WatchListing
<1>3. CASE WatchKeyNotFound \/ WatchFails
  BY <1>3 DEF WatchKeyNotFound, WatchFails
<1>4. ASSUME NEW u \in updates, ApplyUpdate(u)
      PROVE  TypeOK'
  <2>1. u.addr \in Address
    BY DEF Update
  <2>2. addrs' \in Seq(AddrInfo)
    BY <1>4, <2>1, AppendFacts, DeleteFacts, ModifyFacts DEF ApplyUpdate, ApplyAdd
  <2>3. updates' \subseteq Update
    BY <1>4 DEF ApplyUpdate
  <2> QED BY <1>4, <2>2, <2>3 DEF ApplyUpdate
<1>5. CASE Publish
  BY <1>5 DEF Publish
<1>6. CASE Receive
  <2>1. AddressesOf(addrs) \subseteq Address
    <3>1. \A i \in DOMAIN addrs : addrs[i] \in AddrInfo
      OBVIOUS
    <3> QED BY <3>1 DEF AddressesOf, AddrInfo
  <2> QED BY <1>6, <2>1 DEF Receive
<1>7. ASSUME NEW a \in offered \ ready, Up(a)
      PROVE  TypeOK'
  <2>1. addrs' \in Seq(AddrInfo)
    BY <1>7, ConnectedFacts DEF Up
  <2>2. waitCh' \in Chans \cup {NoChan} /\ closedChs' \subseteq Chans
    BY <1>7 DEF Up
  <2> QED BY <1>7, <2>1, <2>2 DEF Up
<1>8. ASSUME NEW a \in ready, Down(a)
      PROVE  TypeOK'
  <2>1. addrs' \in Seq(AddrInfo)
    BY <1>8, ConnectedFacts DEF Down
  <2> QED BY <1>8, <2>1 DEF Down
<1>9. ASSUME NEW g \in Getters, GetCall(g)
      PROVE  TypeOK'
  BY <1>9 DEF GetCall
<1>10. ASSUME NEW g \in Getters, NEW result \in SUBSET Address, Return(g, result)
       PROVE  TypeOK'
  BY <1>10 DEF Return
<1>11. ASSUME NEW g \in Getters,
              GetClosed(g) \/ GetCancelled(g) \/ GetConnected(g) \/ GetFailfast(g)
       PROVE  TypeOK'
  <2>1. \E result \in SUBSET Address : Return(g, result)
    BY <1>11, PickType DEF GetClosed, GetCancelled, GetConnected, GetFailfast
  <2> QED BY <1>10, <2>1
<1>12. ASSUME NEW g \in Getters, GetBlocks(g)
       PROVE  TypeOK'
  <2>1. waitCh' \in Chans \cup {NoChan} /\ closedChs' \subseteq Chans
    BY <1>12 DEF GetBlocks
  <2> QED BY <1>12, <2>1 DEF GetBlocks
<1>13. ASSUME NEW g \in Getters, GetSelects(g)
       PROVE  TypeOK'
  BY <1>13 DEF GetSelects
<1>14. CASE Close
  BY <1>14 DEF Close
<1>15. CASE UNCHANGED vars
  BY <1>15 DEF vars
<1> QED
  BY <1>1, <1>2, <1>3, <1>4, <1>5, <1>6, <1>7, <1>8, <1>9, <1>11, <1>12, <1>13, <1>14, <1>15
  DEF Next, WatchStep, UpStep, DownStep, GetStep

\* Every variable keeps its type, whatever the order of updates, callbacks and
\* calls; in particular a call returns nothing but addresses of the list.
THEOREM TypeCorrect == Spec => []TypeOK
BY TypeInit, TypeStep, PTL DEF Spec

\* A pick is proportional to the weights for every list that can come up, however
\* long it is and whatever the weights are.
THEOREM AlwaysProportional == Spec => []ProportionalDraw
<1>1. TypeOK => ProportionalDraw
  <2> SUFFICES ASSUME TypeOK, NEW i \in GetAvailableAddrs(TRUE)
               PROVE  LET S == GetAvailableAddrs(TRUE)
                      IN  Cardinality({n \in 0..(TotalWeight(S) - 1) : Drawn(S, n) = i})
                            = addrs[i].weight
    BY DEF ProportionalDraw
  <2>1. GetAvailableAddrs(TRUE) \in SUBSET DOMAIN addrs
    BY DEF GetAvailableAddrs
  <2> QED BY <2>1, Proportional, Zenon DEF TypeOK
<1> QED BY <1>1, TypeCorrect, PTL

-----------------------------------------------------------------------------
(* The channel to gRPC *)

\* As for the round-robin balancer: only Close closes the channel, and it cannot
\* while the updating goroutine holds the mutex.
SendInv ==
  /\ addrCh = "nil" => watch = "off"
  /\ addrCh = "closed" => done
  /\ watch = "send" => addrCh = "open" /\ ~done

LEMMA SendStep == TypeOK /\ SendInv /\ [Next]_vars => SendInv'
<1> SUFFICES ASSUME TypeOK, SendInv, [Next]_vars
             PROVE  SendInv'
  OBVIOUS
<1> USE DEF SendInv, chanVars, watchVars, getVars, grpcVars
<1>1. addrCh \in {"nil", "open", "closed"}
  BY DEF TypeOK
<1>2. CASE Start
  BY <1>2 DEF Start
<1>3. CASE WatchStep
  BY <1>1, <1>3 DEF WatchStep, WatchListing, WatchFails, WatchKeyNotFound, ApplyUpdate, Publish
<1>4. CASE Receive
  BY <1>4 DEF Receive
<1>5. CASE UpStep \/ DownStep
  <2>1. UNCHANGED <<addrCh, done, watch>>
    BY <1>5 DEF UpStep, DownStep, Up, Down
  <2> QED BY <2>1
<1>6. ASSUME NEW g \in Getters, GetStep(g)
      PROVE  SendInv'
  <2>1. UNCHANGED <<addrCh, done, watch>>
    BY <1>6 DEF GetStep, GetCall, GetCancelled, GetClosed, GetConnected, GetFailfast,
                GetBlocks, GetSelects, Return
  <2> QED BY <2>1
<1>7. CASE Close
  BY <1>7 DEF Close, MutexFree
<1>8. CASE UNCHANGED vars
  BY <1>8 DEF vars
<1> QED BY <1>2, <1>3, <1>4, <1>5, <1>6, <1>7, <1>8 DEF Next

LEMMA Sending == Spec => []SendInv
<1>1. Init => SendInv
  BY DEF Init, SendInv
<1> QED BY <1>1, TypeCorrect, SendStep, PTL DEF Spec

\* The updating goroutine never sends on a closed channel: Close needs the mutex
\* that the goroutine holds between its test of done and the send.
THEOREM NeverSendsOnClosedChannel == Spec => []NoSendOnClosedChannel
<1>1. SendInv => NoSendOnClosedChannel
  BY DEF SendInv, NoSendOnClosedChannel
<1> QED BY <1>1, Sending, PTL

-----------------------------------------------------------------------------
(* No registered backend is lost *)

Listed(b) == \E i \in DOMAIN addrs : addrs[i].addr.name = b

\* A backend the watcher knows is in the list or about to be added, and no
\* deletion that is left is about such a backend.
ListedInv ==
  /\ watch # "apply" => updates = {}
  /\ \A u \in updates : u.op = "Delete" => u.addr.name \notin DOMAIN servers
  /\ watch # "stopped" /\ watch # "exited" =>
       \A b \in DOMAIN servers : \/ Listed(b)
                                 \/ \E u \in updates : u.op = "Add" /\ u.addr.name = b

\* An update that is applied keeps the backends that the watcher knows, though a
\* deletion takes the first entry with the name.
LEMMA ApplyUpdateListed ==
  ASSUME TypeOK, ListedInv, NEW u \in updates, ApplyUpdate(u)
  PROVE  ListedInv'
<1>1. u.addr \in Address /\ watch = "apply"
  BY DEF ApplyUpdate, TypeOK, Update
<1>2. UNCHANGED <<watch, servers>> /\ updates' = updates \ {u}
  BY DEF ApplyUpdate
<1>3. addrs \in Seq(AddrInfo)
  BY DEF TypeOK
<1>4. /\ \A b \in DOMAIN servers : Listed(b) => Listed(b)'
      /\ u.op = "Add" => Listed(u.addr.name)'
  <2>1. CASE u.op = "Add" /\ ApplyAdd(u.addr)
    <3>1. /\ DOMAIN addrs \subseteq DOMAIN addrs'
          /\ \A i \in DOMAIN addrs : addrs'[i] = addrs[i]
          /\ \E i \in DOMAIN addrs' : addrs'[i].addr = u.addr
      BY <1>1, <1>3, <2>1, AppendFacts DEF ApplyAdd
    <3> QED BY <3>1 DEF Listed
  <2>2. CASE u.op = "Delete" /\ ApplyDelete(u.addr)
    <3>1. \A j \in DOMAIN addrs : addrs[j].addr.name # u.addr.name =>
            \E i \in DOMAIN addrs' : addrs'[i] = addrs[j]
      BY <1>1, <1>3, <2>2, DeleteFacts
    <3>2. u.addr.name \notin DOMAIN servers
      BY <2>2 DEF ListedInv
    <3> QED BY <2>2, <3>1, <3>2 DEF Listed
  <2>3. CASE u.op = "Modify" /\ ApplyModify(u.addr)
    <3>1. /\ DOMAIN addrs' = DOMAIN addrs
          /\ \A i \in DOMAIN addrs : addrs'[i].addr = addrs[i].addr
      BY <1>1, <1>3, <2>3, ModifyFacts
    <3> QED BY <2>3, <3>1 DEF Listed
  <2> QED BY <2>1, <2>2, <2>3 DEF ApplyUpdate
<1> QED BY <1>1, <1>2, <1>4 DEF ListedInv

LEMMA ListedStep == TypeOK /\ SendInv /\ ListedInv /\ [Next]_vars => ListedInv'
<1> SUFFICES ASSUME TypeOK, SendInv, ListedInv, [Next]_vars
             PROVE  ListedInv'
  OBVIOUS
<1> USE DEF chanVars, watchVars, getVars, grpcVars
<1>1. ASSUME UNCHANGED <<updates, servers>>, DOMAIN addrs' = DOMAIN addrs,
             \A i \in DOMAIN addrs : addrs'[i].addr = addrs[i].addr,
             watch' = watch \/ (watch \notin {"apply", "stopped", "exited"} /\ watch' # "apply")
                            \/ (watch = "apply" /\ updates = {})
      PROVE  ListedInv'
  BY <1>1 DEF ListedInv, Listed
<1>2. CASE Start
  BY <1>1, <1>2 DEF Start, SendInv
<1>3. ASSUME NEW pairs \in Listing, WatchListing(pairs)
      PROVE  ListedInv'
  <2>1. \A b \in DOMAIN servers : Listed(b)'
    BY <1>3 DEF WatchListing, ListedInv, Listed
  <2>2. watch' = "apply" /\ servers' = pairs /\ updates' = GetUpdate(servers, pairs)
    BY <1>3 DEF WatchListing
  <2> QED BY <2>1, <2>2, UpdateFacts DEF ListedInv
<1>4. CASE WatchKeyNotFound
  BY <1>4 DEF WatchKeyNotFound, ListedInv, Listed
<1>5. CASE WatchFails
  BY <1>5 DEF WatchFails, ListedInv
<1>6. ASSUME NEW u \in updates, ApplyUpdate(u)
      PROVE  ListedInv'
  BY <1>6, ApplyUpdateListed
<1>7. CASE Publish
  BY <1>1, <1>7 DEF Publish
<1>8. CASE Receive
  BY <1>1, <1>8 DEF Receive
<1>9. ASSUME NEW a \in offered \ ready, Up(a)
      PROVE  ListedInv'
  <2>1. /\ DOMAIN addrs' = DOMAIN addrs
        /\ \A i \in DOMAIN addrs : addrs'[i].addr = addrs[i].addr
    BY <1>9, ConnectedFacts DEF Up
  <2> QED BY <1>1, <1>9, <2>1 DEF Up
<1>10. ASSUME NEW a \in ready, Down(a)
       PROVE  ListedInv'
  BY <1>1, <1>10, ConnectedFacts DEF Down
<1>11. ASSUME NEW g \in Getters, GetStep(g)
       PROVE  ListedInv'
  <2>1. UNCHANGED <<addrs, updates, servers, watch>>
    BY <1>11 DEF GetStep, GetCall, GetCancelled, GetClosed, GetConnected, GetFailfast,
                 GetBlocks, GetSelects, Return
  <2> QED BY <1>1, <2>1
<1>12. CASE Close
  BY <1>1, <1>12 DEF Close
<1>13. CASE UNCHANGED vars
  BY <1>1, <1>13 DEF vars
<1> QED BY <1>2, <1>3, <1>4, <1>5, <1>6, <1>7, <1>8, <1>9, <1>10, <1>11, <1>12, <1>13
        DEF Next, WatchStep, UpStep, DownStep

\* No backend the watcher knows is missing from the list once a batch is applied,
\* although a name may be in the list several times and Delete goes by the name.
THEOREM NoBackendLost == Spec => []RegisteredBackendsListed
<1>1. Init => ListedInv
  BY DEF Init, ListedInv, NoServers
<1>2. TypeOK /\ ListedInv => RegisteredBackendsListed
  BY DEF ListedInv, Listed, RegisteredBackendsListed, IsListed, Addr
<1> QED BY <1>1, <1>2, TypeCorrect, Sending, ListedStep, PTL DEF Spec

-----------------------------------------------------------------------------
(* No lost wake-up *)

\* No backend is registered with weight zero, if the balancer looks at weights.
PositiveWeights == Weight => \A m \in Metas : GetWeightByMetadata(m) > 0

\* While there is a channel to wait on nobody is connected, and a caller's select
\* waits on that channel, on a closed one, or on nil.
WaitInv ==
  /\ DistinctAddrs
  /\ Weight => \A i \in DOMAIN addrs : addrs[i].weight > 0
  /\ \A g \in Getters : pc[g] = "waiting" => ch[g] \in closedChs \cup {waitCh, NoChan}
  /\ waitCh # NoChan => ConnectedEntries = {}

\* When nobody is connected, an address that is in the list and comes up is the
\* only connected one.
LEMMA FirstUpNotifies ==
  ASSUME TypeOK, DistinctAddrs, NEW a, Up(a), ConnectedEntries = {}, ConnectedEntries' # {}
  PROVE  Notifies(addrs')
<1> DEFINE up == {i \in DOMAIN addrs' : addrs'[i].connected}
<1>1. addrs' = Connected(a, TRUE)
  BY DEF Up
<1>2. /\ DOMAIN addrs' = DOMAIN addrs
      /\ \A i \in DOMAIN addrs :
           addrs'[i].connected = IF addrs[i].addr = a THEN TRUE ELSE addrs[i].connected
  BY <1>1, ConnectedFacts
<1>3. \A i \in DOMAIN addrs : ~addrs[i].connected
  BY DEF ConnectedEntries
<1>4. \A i \in up : i \in DOMAIN addrs /\ addrs[i].addr = a
  BY <1>2, <1>3
<1>5. PICK k : k \in up
  BY DEF ConnectedEntries
<1>6. up = {k}
  BY <1>4, <1>5 DEF DistinctAddrs
<1>7. Cardinality(up) = 1
  BY <1>6, FS_Singleton
<1> QED BY <1>7 DEF Notifies

\* An update keeps the weights positive and connects nobody.
LEMMA ApplyUpdateWait ==
  ASSUME PositiveWeights, TypeOK, WaitInv, NEW u \in updates, ApplyUpdate(u)
  PROVE  WaitInv'
<1> DEFINE w == GetWeightByMetadata(u.addr.meta)
<1>1. u.addr \in Address /\ u.addr.meta \in Metas
  BY DEF TypeOK, Update, Address
<1>2. addrs \in Seq(AddrInfo) /\ DistinctAddrs
  BY DEF TypeOK, WaitInv
<1>3. UNCHANGED <<waitCh, closedChs, pc, ch>>
  BY DEF ApplyUpdate, chanVars, getVars
<1>4. Weight => w > 0
  BY <1>1 DEF PositiveWeights
<1> HIDE DEF w
<1>5. ASSUME DistinctAddrs',
             \A i \in DOMAIN addrs' :
               \/ addrs'[i].connected = FALSE /\ addrs'[i].weight = w
               \/ \E j \in DOMAIN addrs : /\ addrs'[i].connected = addrs[j].connected
                                          /\ addrs'[i].weight \in {addrs[j].weight, w}
      PROVE  WaitInv'
  <2>1. Weight => \A i \in DOMAIN addrs' : addrs'[i].weight > 0
    BY <1>4, <1>5 DEF WaitInv
  <2>2. ConnectedEntries = {} => ConnectedEntries' = {}
    BY <1>5 DEF ConnectedEntries
  <2> QED BY <1>3, <1>5, <2>1, <2>2 DEF WaitInv
<1>6. CASE ApplyAdd(u.addr)
  <2>1. /\ DOMAIN addrs \subseteq DOMAIN addrs'
        /\ \A i \in DOMAIN addrs : addrs'[i] = addrs[i]
        /\ \A i \in DOMAIN addrs' \ DOMAIN addrs :
             /\ i = Len(addrs) + 1 /\ addrs'[i] = NewAddrInfo(u.addr)
             /\ u.addr \notin AddressesOf(addrs)
    BY <1>1, <1>2, <1>6, AppendFacts DEF ApplyAdd
  <2>2. /\ NewAddrInfo(u.addr).connected = FALSE
        /\ NewAddrInfo(u.addr).weight = w
        /\ NewAddrInfo(u.addr).addr = u.addr
    BY DEF NewAddrInfo, w
  <2>3. DistinctAddrs'
    BY <1>2, <2>1, <2>2 DEF DistinctAddrs, AddressesOf
  <2> QED BY <1>5, <2>1, <2>2, <2>3
<1>7. CASE ApplyDelete(u.addr)
  <2>1. /\ DistinctAddrs'
        /\ \A i \in DOMAIN addrs' : \E j \in DOMAIN addrs : addrs'[i] = addrs[j]
    BY <1>1, <1>2, <1>7, DeleteFacts
  <2> QED BY <1>5, <2>1
<1>8. CASE ApplyModify(u.addr)
  <2>1. /\ DOMAIN addrs' = DOMAIN addrs
        /\ \A i \in DOMAIN addrs : /\ addrs'[i].addr = addrs[i].addr
                                   /\ addrs'[i].connected = addrs[i].connected
                                   /\ addrs'[i].weight \in {addrs[i].weight, w}
    BY <1>1, <1>2, <1>8, ModifyFacts DEF w
  <2>2. DistinctAddrs'
    BY <1>2, <2>1 DEF DistinctAddrs
  <2> QED BY <1>5, <2>1, <2>2
<1> QED BY <1>6, <1>7, <1>8 DEF ApplyUpdate

LEMMA WaitStep == PositiveWeights /\ TypeOK /\ WaitInv /\ [Next]_vars => WaitInv'
<1> SUFFICES ASSUME PositiveWeights, TypeOK, WaitInv, [Next]_vars
             PROVE  WaitInv'
  OBVIOUS
<1> USE DEF chanVars, watchVars, getVars, grpcVars
<1>1. ASSUME UNCHANGED <<addrs, waitCh, closedChs>>,
             \A g \in Getters : pc'[g] = "waiting" =>
               \/ pc[g] = "waiting" /\ ch'[g] = ch[g]
               \/ ch'[g] = waitCh
      PROVE  WaitInv'
  BY <1>1 DEF WaitInv, DistinctAddrs, ConnectedEntries
<1>2. CASE Start \/ WatchKeyNotFound \/ WatchFails \/ Publish \/ Receive
           \/ (\E pairs \in Listing : WatchListing(pairs))
  BY <1>1, <1>2 DEF Start, WatchKeyNotFound, WatchListing, WatchFails, Publish, Receive
<1>3. ASSUME NEW u \in updates, ApplyUpdate(u)
      PROVE  WaitInv'
  BY <1>3, ApplyUpdateWait
<1>4. ASSUME NEW a \in offered \ ready, Up(a)
      PROVE  WaitInv'
  <2>1. UNCHANGED <<pc, ch>>
    BY <1>4 DEF Up
  <2>2. CASE UNCHANGED <<addrs, chanVars>>
    BY <1>1, <2>1, <2>2
  <2>3. CASE /\ addrs' = Connected(a, TRUE)
             /\ IF waitCh # NoChan /\ Notifies(addrs')
                THEN closedChs' = closedChs \cup {waitCh} /\ waitCh' = NoChan
                ELSE UNCHANGED chanVars
    <3>1. /\ DOMAIN addrs' = DOMAIN addrs
          /\ \A i \in DOMAIN addrs : /\ addrs'[i].addr = addrs[i].addr
                                     /\ addrs'[i].weight = addrs[i].weight
      BY <2>3, ConnectedFacts
    <3>2. DistinctAddrs' /\ (Weight => \A i \in DOMAIN addrs' : addrs'[i].weight > 0)
      BY <3>1 DEF WaitInv, DistinctAddrs
    <3>3. waitCh # NoChan => ConnectedEntries' = {} \/ Notifies(addrs')
      BY <1>4, <2>3, FirstUpNotifies DEF WaitInv
    <3> QED BY <2>1, <2>3, <3>2, <3>3 DEF WaitInv
  <2> QED BY <1>4, <2>2, <2>3 DEF Up
<1>5. ASSUME NEW a \in ready, Down(a)
      PROVE  WaitInv'
  <2>1. UNCHANGED <<waitCh, closedChs, pc, ch>>
    BY <1>5 DEF Down
  <2>2. /\ DOMAIN addrs' = DOMAIN addrs
        /\ \A i \in DOMAIN addrs :
             /\ addrs'[i].addr = addrs[i].addr
             /\ addrs'[i].weight = addrs[i].weight
             /\ addrs'[i].connected = IF addrs[i].addr = a THEN FALSE ELSE addrs[i].connected
    BY <1>5, ConnectedFacts DEF Down
  <2>3. ConnectedEntries = {} => ConnectedEntries' = {}
    BY <2>2 DEF ConnectedEntries
  <2>4. DistinctAddrs' /\ (Weight => \A i \in DOMAIN addrs' : addrs'[i].weight > 0)
    BY <2>2 DEF WaitInv, DistinctAddrs
  <2> QED BY <2>1, <2>3, <2>4 DEF WaitInv
<1>6. ASSUME NEW g \in Getters, NEW result, Return(g, result)
      PROVE  WaitInv'
  BY <1>1, <1>6 DEF Return, TypeOK
<1>7. ASSUME NEW g \in Getters,
             GetClosed(g) \/ GetCancelled(g) \/ GetConnected(g) \/ GetFailfast(g)
      PROVE  WaitInv'
  <2>1. \E result : Return(g, result)
    BY <1>7 DEF GetClosed, GetCancelled, GetConnected, GetFailfast
  <2> QED BY <1>6, <2>1
<1>8. ASSUME NEW g \in Getters, GetCall(g) \/ GetSelects(g)
      PROVE  WaitInv'
  BY <1>1, <1>8 DEF GetCall, GetSelects, TypeOK
<1>9. ASSUME NEW g \in Getters, GetBlocks(g)
      PROVE  WaitInv'
  <2>1. UNCHANGED addrs /\ ConnectedEntries = {}
    BY <1>9 DEF GetBlocks, WaitInv, GetAvailableAddrs, ConnectedEntries
  <2>2. \A h \in Getters : pc'[h] = "waiting" => h # g /\ pc[h] = "waiting" /\ ch'[h] = ch[h]
    BY <1>9 DEF GetBlocks, TypeOK
  <2>3. \A h \in Getters : pc[h] = "waiting" => ch[h] \in closedChs' \cup {waitCh', NoChan}
    <3>1. CASE waitCh = NoChan
      <4>1. PICK c \in Chans \ Referenced : closedChs' = closedChs \ {c}
        BY <1>9, <3>1 DEF GetBlocks
      <4> QED BY <3>1, <4>1 DEF WaitInv, Referenced
    <3>2. CASE waitCh # NoChan
      BY <1>9, <3>2 DEF GetBlocks, WaitInv
    <3> QED BY <3>1, <3>2
  <2> QED BY <2>1, <2>2, <2>3 DEF WaitInv, DistinctAddrs, ConnectedEntries
<1>10. CASE Close
  BY <1>10 DEF Close, WaitInv, DistinctAddrs
<1>11. CASE UNCHANGED vars
  BY <1>1, <1>11 DEF vars
<1> QED BY <1>2, <1>3, <1>4, <1>5, <1>7, <1>8, <1>9, <1>10, <1>11
        DEF Next, WatchStep, UpStep, DownStep, GetStep

\* Without backends of weight zero, a caller whose select waits on a channel is
\* never left behind; only the ones that read nil are (GetSelects).
THEOREM NoLostWakeUp == PositiveWeights /\ Spec => []NoStrandedReceiver
<1>1. Init => WaitInv
  BY DEF Init, WaitInv, DistinctAddrs
<1>2. WaitInv => NoStrandedReceiver
  BY DEF WaitInv, NoStrandedReceiver, GetAvailableAddrs, ConnectedEntries
<1>3. PositiveWeights /\ [Next]_vars => PositiveWeights'
  BY DEF PositiveWeights, GetWeightByMetadata
<1> QED BY <1>1, <1>2, <1>3, TypeCorrect, WaitStep, PTL DEF Spec
=============================================================================
