-------------------------- MODULE RoundRobinV1Proofs --------------------------
(***************************************************************************)
(* What RoundRobinV1 guarantees for every set of backends, of metadata and *)
(* of callers, and every number of listings.                               *)
(***************************************************************************)
EXTENDS RoundRobinV1, AddressesProofs

-----------------------------------------------------------------------------
(* The operators on the list *)

\* selectOneAddr changes nothing of an entry but its current weight.
Reweighed ==
  /\ DOMAIN addrs' = DOMAIN addrs
  /\ \A i \in DOMAIN addrs : /\ addrs'[i].addr = addrs[i].addr
                             /\ addrs'[i].connected = addrs[i].connected
                             /\ addrs'[i].weight = addrs[i].weight

LEMMA SelectionFacts ==
  ASSUME addrs \in Seq(AddrInfo), next \in Int,
         NEW S \in SUBSET DOMAIN addrs, NEW sel, selectOneAddr(S, sel)
  PROVE  addrs' \in Seq(AddrInfo) /\ next' \in Int /\ Reweighed
<1>1. CASE UNCHANGED <<addrs, next>>
  BY <1>1 DEF Reweighed
<1>2. CASE addrs' = AfterPick(S, sel) /\ UNCHANGED next
  <2> DEFINE total == TotalWeight(S)
  <2>1. total \in Nat
    BY TotalWeightType
  <2>2. DOMAIN addrs = 1..Len(addrs) /\ Len(addrs) \in Nat
    OBVIOUS
  <2> HIDE DEF total
  <2>3. ASSUME NEW i \in DOMAIN addrs
        PROVE  /\ addrs'[i] \in AddrInfo
               /\ addrs'[i].addr = addrs[i].addr
               /\ addrs'[i].connected = addrs[i].connected
               /\ addrs'[i].weight = addrs[i].weight
    <3>1. addrs[i] \in AddrInfo
      OBVIOUS
    <3>2. Gained(i) \in Int
      BY <3>1 DEF AddrInfo, Gained
    <3>3. Gained(i) - (IF i = sel THEN total ELSE 0) \in Int
      BY <3>2, <2>1
    <3> DEFINE rest == Gained(i) - (IF i = sel THEN total ELSE 0)
    <3>4. addrs'[i] = IF i \notin S THEN addrs[i] ELSE [addrs[i] EXCEPT !.current = rest]
      BY <1>2 DEF AfterPick, total
    <3> HIDE DEF rest
    <3> QED BY <3>1, <3>3, <3>4 DEF AddrInfo, rest
  <2>4. addrs' = [i \in 1..Len(addrs) |-> addrs'[i]]
    BY <1>2, <2>2 DEF AfterPick
  <2>5. addrs' \in Seq(AddrInfo) /\ Len(addrs') = Len(addrs)
    BY <2>2, <2>3, <2>4, ListType
  <2> QED BY <1>2, <2>2, <2>3, <2>4, <2>5 DEF Reweighed
<1>3. CASE next' = NextIndex(S) /\ UNCHANGED addrs
  BY <1>3 DEF Reweighed, NextIndex
<1> QED BY <1>1, <1>2, <1>3 DEF selectOneAddr

\* ApplyAdd leaves the entries where they are and the address is in the list.
LEMMA AddFacts ==
  ASSUME addrs \in Seq(AddrInfo), NEW a \in Address, ApplyAdd(a)
  PROVE  /\ addrs' \in Seq(AddrInfo)
         /\ DOMAIN addrs \subseteq DOMAIN addrs'
         /\ \A i \in DOMAIN addrs : addrs'[i] = addrs[i]
         /\ \A i \in DOMAIN addrs' \ DOMAIN addrs :
              /\ i = Len(addrs) + 1 /\ addrs'[i] = NewAddrInfo(a)
              /\ a \notin AddressesOf(addrs)
         /\ \E i \in DOMAIN addrs' : addrs'[i].addr = a
BY AppendFacts DEF ApplyAdd

\* ApplyDelete keeps the order of the other entries; at most the entry with
\* the address is gone.
LEMMA DeleteFacts ==
  ASSUME addrs \in Seq(AddrInfo), DistinctAddrs, NEW a \in Address, ApplyDelete(a)
  PROVE  /\ addrs' \in Seq(AddrInfo) /\ DistinctAddrs'
         /\ \A i \in DOMAIN addrs' : \E j \in DOMAIN addrs : addrs[j].addr # a /\ addrs'[i] = addrs[j]
         /\ \A j \in DOMAIN addrs : addrs[j].addr # a =>
              \E i \in DOMAIN addrs' : addrs'[i] = addrs[j]
<1>1. CASE a \notin AddressesOf(addrs)
  BY <1>1 DEF ApplyDelete, DistinctAddrs, AddressesOf
<1>2. CASE a \in AddressesOf(addrs)
  <2>1. PICK k \in DOMAIN addrs : addrs[k].addr = a
    BY <1>2 DEF AddressesOf
  <2>2. \A i \in DOMAIN addrs : addrs[i].addr = a => i = k
    BY <2>1 DEF DistinctAddrs
  <2>3. FirstAt(LAMBDA i : addrs[i].addr = a) = k
    <3>1. k <= k
      OBVIOUS
    <3>2. \A i \in DOMAIN addrs :
            addrs[i].addr = a /\ (\A j \in DOMAIN addrs : addrs[j].addr = a => i <= j)
              <=> i = k
      BY <2>1, <2>2, <3>1
    <3> QED BY <2>1, <3>2 DEF FirstAt
  <2>4. addrs' = WithoutEntry(k)
    BY <1>2, <2>3 DEF ApplyDelete
  <2>5. /\ addrs' \in Seq(AddrInfo) /\ DistinctAddrs'
        /\ \A i \in DOMAIN addrs' : \E j \in DOMAIN addrs : j # k /\ addrs'[i] = addrs[j]
        /\ \A j \in DOMAIN addrs : j # k => \E i \in DOMAIN addrs' : addrs'[i] = addrs[j]
    BY <2>4, RemoveFacts
  <2> QED BY <2>1, <2>2, <2>5
<1> QED BY <1>1, <1>2

\* ApplyModify changes nothing but weights, each to that of some metadata.
LEMMA ModifyFacts ==
  ASSUME addrs \in Seq(AddrInfo), NEW a \in Address, ApplyModify(a)
  PROVE  /\ addrs' \in Seq(AddrInfo) /\ DOMAIN addrs' = DOMAIN addrs
         /\ \A i \in DOMAIN addrs :
              /\ addrs'[i].addr = addrs[i].addr
              /\ addrs'[i].connected = addrs[i].connected
              /\ addrs'[i].weight \in {addrs[i].weight, GetWeightByMetadata(a.meta)}
<1>1. CASE UNCHANGED addrs
  BY <1>1
<1>2. CASE ~UNCHANGED addrs
  BY <1>2, WeightType, ReweighFacts DEF ApplyModify
<1> QED BY <1>1, <1>2

-----------------------------------------------------------------------------
(* Types and distinct addresses *)

TypeInv == TypeOK /\ DistinctAddrs

LEMMA TypeInit == Init => TypeInv
<1>1. NoServers \in [{} -> Metas] /\ {} \in SUBSET Backends
  BY DEF NoServers
<1>2. NoServers \in Listing
  BY <1>1 DEF Listing
<1>3. <<>> \in Seq(AddrInfo) /\ DOMAIN <<>> = {}
  OBVIOUS
<1>4. Init => /\ addrs \in Seq(AddrInfo) /\ next \in Int /\ listings \in Nat
              /\ updates \subseteq Update /\ servers \in Listing
              /\ lastMeta \in Listing
              /\ delivered \subseteq Address /\ offered \subseteq Address
              /\ ready \subseteq Address
  BY <1>2, <1>3 DEF Init
<1>5. Init => /\ waitCh \in Chans \cup {NoChan} /\ closedChs \subseteq Chans
              /\ addrCh \in {"nil", "open", "closed"} /\ done \in BOOLEAN
              /\ watch \in {"off", "next", "apply", "send", "stopped"}
              /\ event \in BOOLEAN
              /\ pc \in [Getters -> {"idle", "calling", "waiting"}]
              /\ ch \in [Getters -> Chans \cup {NoChan}]
              /\ outcome \in [Getters -> Outcomes]
  BY DEF Init, Outcomes
<1>6. Init => failfast \in [Getters -> BOOLEAN]
  BY DEF Init
<1>7. Init => DistinctAddrs
  BY <1>3 DEF Init, DistinctAddrs
<1> QED BY <1>4, <1>5, <1>6, <1>7 DEF TypeInv, TypeOK

\* Up sets the flag of the entry with the address, if there is one; down
\* clears it.
LEMMA UpFacts ==
  ASSUME TypeInv, NEW a, Up(a)
  PROVE  /\ addrs' \in Seq(AddrInfo) /\ DOMAIN addrs' = DOMAIN addrs
         /\ \A i \in DOMAIN addrs :
              /\ addrs'[i].addr = addrs[i].addr
              /\ addrs'[i].weight = addrs[i].weight
              /\ addrs'[i].connected = IF addrs[i].addr = a THEN TRUE ELSE addrs[i].connected
<1>1. CASE \E i \in ConnectedEntries : addrs[i].addr = a
  <2>1. PICK i \in DOMAIN addrs : addrs[i].connected /\ addrs[i].addr = a
    BY <1>1 DEF ConnectedEntries
  <2>2. UNCHANGED addrs
    BY <1>1 DEF Up
  <2>3. \A j \in DOMAIN addrs : addrs[j].addr = a => j = i
    BY <2>1 DEF TypeInv, DistinctAddrs
  <2>4. addrs[i].connected = TRUE
    <3>1. addrs[i] \in AddrInfo
      BY DEF TypeInv, TypeOK
    <3>2. addrs[i].connected \in BOOLEAN
      BY <3>1 DEF AddrInfo
    <3> QED BY <2>1, <3>2
  <2> QED BY <2>2, <2>3, <2>4 DEF TypeInv, TypeOK
<1>2. CASE ~ \E i \in ConnectedEntries : addrs[i].addr = a
  <2>1. addrs' = FlagSet(a, TRUE)
    BY <1>2 DEF Up, MarkUp, FlagSet
  <2> QED BY <2>1, FlagFacts, Zenon DEF TypeInv, TypeOK
<1> QED BY <1>1, <1>2

LEMMA DownFacts ==
  ASSUME TypeInv, NEW a, Down(a)
  PROVE  /\ addrs' \in Seq(AddrInfo) /\ DOMAIN addrs' = DOMAIN addrs
         /\ \A i \in DOMAIN addrs :
              /\ addrs'[i].addr = addrs[i].addr
              /\ addrs'[i].weight = addrs[i].weight
              /\ addrs'[i].connected = IF addrs[i].addr = a THEN FALSE ELSE addrs[i].connected
<1>1. addrs' = FlagSet(a, FALSE)
  BY DEF Down, FlagSet
<1> QED BY <1>1, FlagFacts, Zenon DEF TypeInv, TypeOK

\* An update that is applied keeps both.
LEMMA ApplyUpdateType ==
  ASSUME TypeInv, NEW u \in updates, ApplyUpdate(u)
  PROVE  TypeInv'
<1> USE DEF TypeInv, TypeOK
<1>1. u.addr \in Address
  BY DEF Update
<1>2. updates' \subseteq Update
  BY DEF ApplyUpdate
<1>3. CASE ApplyAdd(u.addr)
  <2>1. /\ addrs' \in Seq(AddrInfo)
        /\ \A i \in DOMAIN addrs : addrs'[i] = addrs[i]
        /\ DOMAIN addrs \subseteq DOMAIN addrs'
        /\ \A i \in DOMAIN addrs' \ DOMAIN addrs :
             /\ i = Len(addrs) + 1 /\ addrs'[i] = NewAddrInfo(u.addr)
             /\ u.addr \notin AddressesOf(addrs)
    BY <1>1, <1>3, AddFacts
  <2>2. DistinctAddrs'
    BY <2>1 DEF DistinctAddrs, AddressesOf, NewAddrInfo
  <2> QED BY <1>2, <1>3, <2>1, <2>2 DEF ApplyUpdate, ApplyAdd, watchVars, getVars, grpcVars
<1>4. CASE ApplyDelete(u.addr)
  <2>1. addrs' \in Seq(AddrInfo) /\ DistinctAddrs'
    BY <1>1, <1>4, DeleteFacts
  <2>2. next' \in Int
    BY <1>4 DEF ApplyDelete
  <2> QED BY <1>2, <2>1, <2>2 DEF ApplyUpdate, watchVars, getVars, grpcVars
<1>5. CASE ApplyModify(u.addr)
  <2>1. /\ addrs' \in Seq(AddrInfo) /\ DOMAIN addrs' = DOMAIN addrs
        /\ \A i \in DOMAIN addrs : addrs'[i].addr = addrs[i].addr
    BY <1>1, <1>5, ModifyFacts
  <2>2. DistinctAddrs'
    BY <2>1 DEF DistinctAddrs
  <2> QED BY <1>2, <1>5, <2>1, <2>2 DEF ApplyUpdate, ApplyModify, watchVars, getVars, grpcVars
<1> QED BY <1>3, <1>4, <1>5 DEF ApplyUpdate, Applies

\* So does an address that is handed out.
LEMMA PickFacts ==
  ASSUME TypeInv, NEW connected \in BOOLEAN,
         NEW i \in GetAvailableAddrs(connected), selectOneAddr(GetAvailableAddrs(connected), i)
  PROVE  addrs' \in Seq(AddrInfo) /\ next' \in Int /\ Reweighed /\ DistinctAddrs'
<1>1. GetAvailableAddrs(connected) \in SUBSET DOMAIN addrs
  BY DEF GetAvailableAddrs
<1>2. addrs' \in Seq(AddrInfo) /\ next' \in Int /\ Reweighed
  BY <1>1, SelectionFacts DEF TypeInv, TypeOK
<1>3. DistinctAddrs'
  BY <1>2 DEF DistinctAddrs, Reweighed, TypeInv
<1> QED BY <1>2, <1>3

LEMMA TypeStep == TypeInv /\ [Next]_vars => TypeInv'
<1> SUFFICES ASSUME TypeInv, [Next]_vars
             PROVE  TypeInv'
  OBVIOUS
<1> USE DEF TypeInv, TypeOK
<1> USE DEF listVars, watchVars, getVars, grpcVars
<1>1. CASE Start
  BY <1>1 DEF Start, DistinctAddrs
<1>2. ASSUME NEW pairs \in Listing, WatchListing(pairs)
      PROVE  TypeInv'
  <2>1. updates' \subseteq Update
    BY <1>2, UpdatesType DEF WatchListing
  <2>2. lastMeta' \in Listing
    <3> DEFINE S == DOMAIN lastMeta \cup DOMAIN pairs
               latest == [b \in S |-> IF b \in DOMAIN pairs THEN pairs[b] ELSE lastMeta[b]]
    <3>1. /\ \A b \in DOMAIN lastMeta : b \in Backends /\ lastMeta[b] \in Metas
          /\ \A b \in DOMAIN pairs : b \in Backends /\ pairs[b] \in Metas
      BY DEF Listing
    <3>2. latest \in [S -> Metas] /\ S \in SUBSET Backends
      BY <3>1
    <3>3. lastMeta' = latest
      BY <1>2 DEF WatchListing
    <3> HIDE DEF S, latest
    <3> QED BY <3>2, <3>3 DEF Listing
  <2> QED
    <3>1. DistinctAddrs'
      BY <1>2 DEF WatchListing, DistinctAddrs
    <3>2. watch' = "apply" /\ servers' = pairs /\ event' = TRUE /\ listings' \in Nat
      BY <1>2 DEF WatchListing
    <3>3. UNCHANGED <<listVars, waitCh, closedChs, addrCh, done, getVars, grpcVars>>
      BY <1>2 DEF WatchListing
    <3> QED BY <2>1, <2>2, <3>1, <3>2, <3>3
<1>3. ASSUME NEW pairs \in Listing, WatchFails(pairs)
      PROVE  TypeInv'
  BY <1>3 DEF WatchFails, DistinctAddrs
<1>4. CASE WatchKeyNotFound
  BY <1>4 DEF WatchKeyNotFound, DistinctAddrs
<1>5. ASSUME NEW u \in updates, ApplyUpdate(u)
      PROVE  TypeInv'
  BY <1>5, ApplyUpdateType
<1>6. CASE Publish
  BY <1>6 DEF Publish, DistinctAddrs
<1>7. CASE Receive
  <2>1. AddressesOf(addrs) \subseteq Address
    <3>1. \A i \in DOMAIN addrs : addrs[i] \in AddrInfo
      OBVIOUS
    <3> QED BY <3>1 DEF AddressesOf, AddrInfo
  <2> QED BY <1>7, <2>1 DEF Receive, DistinctAddrs
<1>8. ASSUME NEW a \in offered \ ready, Up(a)
      PROVE  TypeInv'
  <2>1. addrs' \in Seq(AddrInfo) /\ DistinctAddrs'
    BY <1>8, UpFacts DEF DistinctAddrs
  <2>2. waitCh' \in Chans \cup {NoChan} /\ closedChs' \subseteq Chans
    BY <1>8 DEF Up
  <2> QED BY <1>8, <2>1, <2>2 DEF Up
<1>9. ASSUME NEW a \in ready, Down(a)
      PROVE  TypeInv'
  <2>1. addrs' \in Seq(AddrInfo) /\ DistinctAddrs'
    BY <1>9, DownFacts DEF DistinctAddrs
  <2> QED BY <1>9, <2>1 DEF Down
<1>10. ASSUME NEW g \in Getters, GetCall(g)
       PROVE  TypeInv'
  BY <1>10 DEF GetCall, Outcomes, DistinctAddrs
<1>11. ASSUME NEW g \in Getters, GetClosed(g)
       PROVE  TypeInv'
  BY <1>11 DEF GetClosed, Return, Outcomes, DistinctAddrs
<1>12. ASSUME NEW g \in Getters, GetConnected(g)
       PROVE  TypeInv'
  <2>1. addrs' \in Seq(AddrInfo) /\ next' \in Int /\ DistinctAddrs'
    BY <1>12, PickFacts DEF GetConnected
  <2> QED BY <1>12, <2>1 DEF GetConnected, Return, Outcomes
<1>13. ASSUME NEW g \in Getters, GetFailfast(g)
       PROVE  TypeInv'
  <2>1. addrs' \in Seq(AddrInfo) /\ next' \in Int /\ DistinctAddrs'
    <3>1. CASE UNCHANGED listVars
      BY <3>1 DEF DistinctAddrs
    <3>2. CASE \E i \in GetAvailableAddrs(FALSE) : selectOneAddr(GetAvailableAddrs(FALSE), i)
      BY <3>2, PickFacts
    <3> QED BY <1>13, <3>1, <3>2 DEF GetFailfast
  <2> QED BY <1>13, <2>1 DEF GetFailfast, Return, Outcomes
<1>14. ASSUME NEW g \in Getters, GetBlocks(g)
       PROVE  TypeInv'
  <2>1. waitCh' \in Chans \cup {NoChan} /\ closedChs' \subseteq Chans
    BY <1>14 DEF GetBlocks
  <2> QED BY <1>14, <2>1 DEF GetBlocks, DistinctAddrs
<1>15. ASSUME NEW g \in Getters, GetCancelled(g)
       PROVE  TypeInv'
  BY <1>15 DEF GetCancelled, Return, Outcomes, DistinctAddrs
<1>16. CASE Close
  BY <1>16 DEF Close, DistinctAddrs
<1>17. CASE UNCHANGED vars
  BY <1>17 DEF vars, DistinctAddrs
<1> QED
  BY <1>1, <1>2, <1>3, <1>4, <1>5, <1>6, <1>7, <1>8, <1>9, <1>10, <1>11, <1>12,
     <1>13, <1>14, <1>15, <1>16, <1>17
  DEF Next, WatchStep, UpStep, DownStep, GetStep

\* Every variable keeps its type, whatever the order of updates, callbacks and
\* calls; in particular no weight that is read from metadata is negative.
THEOREM TypeCorrect == Spec => []TypeOK
<1>1. TypeInv => TypeOK
  BY DEF TypeInv
<1> QED BY <1>1, TypeInit, TypeStep, PTL DEF Spec

\* No address is ever in the list twice: Up, down and Delete reach the one
\* entry they are about.
THEOREM NeverTwice == Spec => []DistinctAddrs
<1>1. TypeInv => DistinctAddrs
  BY DEF TypeInv
<1> QED BY <1>1, TypeInit, TypeStep, PTL DEF Spec

LEMMA Typed == Spec => []TypeInv
BY TypeInit, TypeStep, PTL DEF Spec

-----------------------------------------------------------------------------
(* The channel to gRPC *)

\* The updating goroutine runs exactly from Start on; only Close closes the
\* channel, and it cannot while the goroutine holds the mutex.
SendInv ==
  /\ addrCh = "nil" <=> watch = "off"
  /\ addrCh = "closed" => done
  /\ watch = "send" => addrCh = "open" /\ ~done

LEMMA SendStep == TypeInv /\ SendInv /\ [Next]_vars => SendInv'
<1> SUFFICES ASSUME TypeInv, SendInv, [Next]_vars
             PROVE  SendInv'
  OBVIOUS
<1> USE DEF SendInv, listVars, watchVars, getVars, grpcVars
<1>1. addrCh \in {"nil", "open", "closed"}
  BY DEF TypeInv, TypeOK
<1>2. CASE Start
  BY <1>2 DEF Start
<1>3. CASE WatchStep
  <2>1. ASSUME NEW pairs \in Listing, WatchListing(pairs)
        PROVE  SendInv'
    BY <1>1, <2>1 DEF WatchListing
  <2>2. ASSUME NEW pairs \in Listing, WatchFails(pairs)
        PROVE  SendInv'
    BY <1>1, <2>2 DEF WatchFails
  <2>3. CASE WatchKeyNotFound \/ (\E u \in updates : ApplyUpdate(u)) \/ Publish
    BY <1>1, <2>3 DEF WatchKeyNotFound, ApplyUpdate, Publish
  <2> QED BY <1>3, <2>1, <2>2, <2>3 DEF WatchStep
<1>4. CASE Receive
  BY <1>4 DEF Receive
<1>5. CASE UpStep \/ DownStep
  BY <1>5 DEF UpStep, DownStep, Up, Down
<1>6. ASSUME NEW g \in Getters, GetCall(g) \/ GetStep(g) \/ GetCancelled(g)
      PROVE  SendInv'
  <2>1. UNCHANGED <<addrCh, done, watch>>
    BY <1>6 DEF GetCall, GetStep, GetCancelled, GetClosed, GetConnected, GetFailfast, GetBlocks
  <2> QED BY <2>1
<1>7. CASE Close
  BY <1>7 DEF Close, MutexFree
<1>8. CASE UNCHANGED vars
  BY <1>8 DEF vars
<1> QED BY <1>2, <1>3, <1>4, <1>5, <1>6, <1>7, <1>8 DEF Next

LEMMA Sending == Spec => []SendInv
<1>1. Init => SendInv
  BY DEF Init, SendInv
<1> QED BY <1>1, Typed, SendStep, PTL DEF Spec

\* The updating goroutine never sends on a closed channel: what it checks
\* before the send still holds when the send happens, because Close needs the
\* mutex that the goroutine holds in between.
THEOREM NeverSendsOnClosedChannel == Spec => []NoSendOnClosedChannel
<1>1. SendInv => NoSendOnClosedChannel
  BY DEF SendInv, NoSendOnClosedChannel
<1> QED BY <1>1, Sending, PTL

-----------------------------------------------------------------------------
(* gRPC's view of the list *)

\* Before Start both sides have nothing.
ViewInv == watch \in {"off", "next"} => delivered = AddressesOf(addrs)

\* A pick leaves the addresses as they are.
LEMMA PickAddresses ==
  ASSUME TypeInv, NEW connected \in BOOLEAN,
         NEW i \in GetAvailableAddrs(connected), selectOneAddr(GetAvailableAddrs(connected), i)
  PROVE  AddressesOf(addrs') = AddressesOf(addrs)
<1>1. Reweighed
  BY PickFacts
<1> QED BY <1>1 DEF Reweighed, AddressesOf

LEMMA ViewStep == TypeInv /\ SendInv /\ ViewInv /\ [Next]_vars => ViewInv'
<1> SUFFICES ASSUME TypeInv, SendInv, ViewInv, [Next]_vars
             PROVE  ViewInv'
  OBVIOUS
<1> USE DEF ViewInv, AddressesOf, listVars, watchVars, getVars, grpcVars
<1>1. CASE Start
  BY <1>1 DEF Start, SendInv
<1>2. CASE WatchStep
  BY <1>2 DEF WatchStep, WatchListing, WatchFails, WatchKeyNotFound, ApplyUpdate, Publish
<1>3. CASE Receive
  BY <1>3 DEF Receive
<1>4. ASSUME NEW a \in offered \ ready, Up(a)
      PROVE  ViewInv'
  <2>1. /\ DOMAIN addrs' = DOMAIN addrs
        /\ \A i \in DOMAIN addrs : addrs'[i].addr = addrs[i].addr
    BY <1>4, UpFacts
  <2>2. AddressesOf(addrs') = AddressesOf(addrs)
    BY <2>1
  <2> QED BY <1>4, <2>2 DEF Up
<1>5. ASSUME NEW a \in ready, Down(a)
      PROVE  ViewInv'
  <2>1. /\ DOMAIN addrs' = DOMAIN addrs
        /\ \A i \in DOMAIN addrs : addrs'[i].addr = addrs[i].addr
    BY <1>5, DownFacts
  <2>2. AddressesOf(addrs') = AddressesOf(addrs)
    BY <2>1
  <2> QED BY <1>5, <2>2 DEF Down
<1>6. ASSUME NEW g \in Getters, GetCall(g) \/ GetClosed(g) \/ GetBlocks(g) \/ GetCancelled(g)
      PROVE  ViewInv'
  <2>1. UNCHANGED <<addrs, watch, delivered>>
    BY <1>6 DEF GetCall, GetClosed, GetBlocks, GetCancelled
  <2> QED BY <2>1
<1>7. ASSUME NEW g \in Getters, GetConnected(g)
      PROVE  ViewInv'
  BY <1>7, PickAddresses DEF GetConnected
<1>8. ASSUME NEW g \in Getters, GetFailfast(g)
      PROVE  ViewInv'
  BY <1>8, PickAddresses DEF GetFailfast
<1>9. CASE Close
  BY <1>9 DEF Close
<1>10. CASE UNCHANGED vars
  BY <1>10 DEF vars
<1> QED BY <1>1, <1>2, <1>3, <1>4, <1>5, <1>6, <1>7, <1>8, <1>9, <1>10
        DEF Next, UpStep, DownStep, GetStep

\* gRPC's view of the list is never stale while the updating goroutine waits
\* for the next batch.
THEOREM ViewAlwaysInSync == Spec => []ViewInSync
<1>1. Init => ViewInv
  BY DEF Init, ViewInv, AddressesOf
<1>2. ViewInv => ViewInSync
  BY DEF ViewInv, ViewInSync
<1> QED BY <1>1, <1>2, Typed, Sending, ViewStep, PTL DEF Spec

-----------------------------------------------------------------------------
(* No registered backend is lost *)

Listed(b) == \E i \in DOMAIN addrs : addrs[i].addr.name = b

\* A backend the watcher knows is in the list or about to be added, and no
\* deletion that is left is about such a backend.
ListedInv ==
  /\ watch # "apply" => updates = {}
  /\ \A u \in updates : u.op = "Delete" => u.addr.name \notin DOMAIN servers
  /\ watch # "stopped" =>
       \A b \in DOMAIN servers : \/ Listed(b)
                                 \/ \E u \in updates : u.op = "Add" /\ u.addr.name = b

\* An update that is applied keeps the backends that the watcher knows.
LEMMA ApplyUpdateListed ==
  ASSUME TypeInv, ListedInv, NEW u \in updates, ApplyUpdate(u)
  PROVE  ListedInv'
<1>1. u.addr \in Address /\ watch = "apply"
  BY DEF ApplyUpdate, TypeInv, TypeOK, Update
<1>2. UNCHANGED <<watch, servers>> /\ updates' = updates \ {u}
  BY DEF ApplyUpdate
<1>3. addrs \in Seq(AddrInfo) /\ DistinctAddrs
  BY DEF TypeInv, TypeOK
<1>4. /\ \A b \in DOMAIN servers : Listed(b) => Listed(b)'
      /\ u.op = "Add" => Listed(u.addr.name)'
  <2>1. CASE u.op = "Add" /\ ApplyAdd(u.addr)
    <3>1. /\ DOMAIN addrs \subseteq DOMAIN addrs'
          /\ \A i \in DOMAIN addrs : addrs'[i] = addrs[i]
          /\ \E i \in DOMAIN addrs' : addrs'[i].addr = u.addr
      BY <1>1, <1>3, <2>1, AddFacts
    <3> QED BY <3>1 DEF Listed
  <2>2. CASE u.op = "Delete" /\ ApplyDelete(u.addr)
    <3>1. \A j \in DOMAIN addrs : addrs[j].addr # u.addr =>
            \E i \in DOMAIN addrs' : addrs'[i] = addrs[j]
      BY <1>1, <1>3, <2>2, DeleteFacts
    <3>2. u.addr.name \notin DOMAIN servers
      BY <2>2 DEF ListedInv
    <3> QED BY <2>2, <3>1, <3>2 DEF Listed
  <2>3. CASE u.op = "Modify" /\ ApplyModify(u.addr)
    <3>1. /\ DOMAIN addrs' = DOMAIN addrs
          /\ \A i \in DOMAIN addrs : addrs'[i].addr = addrs[i].addr
      BY <1>1, <1>3, <2>3, ModifyFacts
    <3> QED BY <2>3, <3>1 DEF Listed
  <2> QED BY <2>1, <2>2, <2>3 DEF ApplyUpdate, Applies
<1> QED BY <1>1, <1>2, <1>4 DEF ListedInv

LEMMA ListedStep == TypeInv /\ SendInv /\ ListedInv /\ [Next]_vars => ListedInv'
<1> SUFFICES ASSUME TypeInv, SendInv, ListedInv, [Next]_vars
             PROVE  ListedInv'
  OBVIOUS
<1> USE DEF listVars, watchVars, getVars, grpcVars
<1>1. ASSUME UNCHANGED <<updates, servers>>, DOMAIN addrs' = DOMAIN addrs,
             \A i \in DOMAIN addrs : addrs'[i].addr = addrs[i].addr,
             watch' = watch \/ (watch \notin {"apply", "stopped"} /\ watch' # "apply")
                            \/ (watch = "apply" /\ updates = {})
      PROVE  ListedInv'
  BY <1>1 DEF ListedInv, Listed
<1>2. CASE Start
  BY <1>1, <1>2 DEF Start, SendInv
<1>3. ASSUME NEW pairs \in Listing, WatchListing(pairs)
      PROVE  ListedInv'
  <2>1. \A b \in DOMAIN servers : Listed(b)'
    BY <1>3 DEF WatchListing, ListedInv, Listed
  <2>2. watch' = "apply" /\ servers' = pairs /\ updates' = GetUpdate(servers, pairs)
    BY <1>3 DEF WatchListing
  <2> QED BY <2>1, <2>2, UpdateFacts DEF ListedInv
<1>4. ASSUME NEW pairs \in Listing, WatchFails(pairs)
      PROVE  ListedInv'
  BY <1>4 DEF WatchFails, ListedInv
<1>5. CASE WatchKeyNotFound
  BY <1>5 DEF WatchKeyNotFound, ListedInv, Listed
<1>6. ASSUME NEW u \in updates, ApplyUpdate(u)
      PROVE  ListedInv'
  BY <1>6, ApplyUpdateListed
<1>7. CASE Publish
  BY <1>1, <1>7 DEF Publish
<1>8. CASE Receive
  BY <1>1, <1>8 DEF Receive
<1>9. ASSUME NEW a \in offered \ ready, Up(a)
      PROVE  ListedInv'
  BY <1>1, <1>9, UpFacts DEF Up
<1>10. ASSUME NEW a \in ready, Down(a)
       PROVE  ListedInv'
  BY <1>1, <1>10, DownFacts DEF Down
<1>11. ASSUME NEW g \in Getters, GetCall(g) \/ GetClosed(g) \/ GetBlocks(g) \/ GetCancelled(g)
       PROVE  ListedInv'
  BY <1>1, <1>11 DEF GetCall, GetClosed, GetBlocks, GetCancelled
<1>12. ASSUME NEW g \in Getters, GetConnected(g) \/ GetFailfast(g)
       PROVE  ListedInv'
  <2>1. /\ DOMAIN addrs' = DOMAIN addrs
        /\ \A i \in DOMAIN addrs : addrs'[i].addr = addrs[i].addr
    BY <1>12, PickFacts DEF GetConnected, GetFailfast, Reweighed
  <2> QED BY <1>1, <1>12, <2>1 DEF GetConnected, GetFailfast
<1>13. CASE Close
  BY <1>1, <1>13 DEF Close
<1>14. CASE UNCHANGED vars
  BY <1>1, <1>14 DEF vars
<1> QED BY <1>2, <1>3, <1>4, <1>5, <1>6, <1>7, <1>8, <1>9, <1>10, <1>11, <1>12, <1>13, <1>14
        DEF Next, WatchStep, UpStep, DownStep, GetStep

\* Whatever sequence of listings the watcher reads, and although Delete and
\* Modify disagree on what identifies a backend, no backend it knows is missing
\* from the list once a batch is applied.
THEOREM NoBackendLost == Spec => []RegisteredBackendsListed
<1>1. Init => ListedInv
  BY DEF Init, ListedInv, NoServers
<1>2. ListedInv => RegisteredBackendsListed
  BY DEF ListedInv, Listed, RegisteredBackendsListed
<1> QED BY <1>1, <1>2, Typed, Sending, ListedStep, PTL DEF Spec

-----------------------------------------------------------------------------
(* What is left of a backend that is gone *)

\* A backend in the list is one the watcher knows, or was last listed with other
\* metadata than its entry has, or its entry is about to be deleted; and nothing
\* that is left to do adds another one.
DepartedInv ==
  /\ watch # "apply" => updates = {}
  /\ \A u \in updates : u.op # "Delete" => u.addr.name \in DOMAIN servers
  /\ watch # "stopped" =>
       /\ \A b \in DOMAIN servers : b \in DOMAIN lastMeta /\ lastMeta[b] = servers[b]
       /\ \A i \in DOMAIN addrs :
            /\ addrs[i].addr.name \in DOMAIN lastMeta
            /\ \/ addrs[i].addr.name \in DOMAIN servers
               \/ addrs[i].addr.meta # lastMeta[addrs[i].addr.name]
               \/ \E u \in updates : u.op = "Delete" /\ u.addr = addrs[i].addr

\* The updates of a listing delete what the watcher knew of a backend that is not in
\* it any more.
LEMMA DepartedDeleted ==
  ASSUME NEW known \in Listing, NEW pairs \in Listing
  PROVE  /\ \A u \in GetUpdate(known, pairs) : u.op # "Delete" => u.addr.name \in DOMAIN pairs
         /\ \A a \in Address : a.name \in DOMAIN known \ DOMAIN pairs /\ a.meta = known[a.name] =>
              \E u \in GetUpdate(known, pairs) : u.op = "Delete" /\ u.addr = a
<1>1. \A b \in DOMAIN pairs : Upd(ListedOp(known, pairs, b), b, pairs[b]).addr.name = b
  BY DEF Upd, Addr
<1>2. \A b \in DOMAIN known : Upd("Delete", b, known[b]).op = "Delete"
  BY DEF Upd
<1>3. \A a \in Address : a.meta = known[a.name] => Upd("Delete", a.name, known[a.name]).addr = a
  BY DEF Upd, Addr, Address
<1>4. \A u \in GetUpdate(known, pairs) : u.op # "Delete" => u.addr.name \in DOMAIN pairs
  <2> HIDE DEF Upd, ListedOp
  <2> QED BY <1>1, <1>2 DEF GetUpdate
<1>5. \A a \in Address : a.name \in DOMAIN known \ DOMAIN pairs =>
        Upd("Delete", a.name, known[a.name]) \in GetUpdate(known, pairs)
  BY DEF GetUpdate
<1> QED BY <1>2, <1>3, <1>4, <1>5

\* A listing: what the watcher knew is what was listed last.
LEMMA ListingDeparted ==
  ASSUME TypeInv, DepartedInv, NEW pairs \in Listing, WatchListing(pairs)
  PROVE  DepartedInv'
<1>1. /\ watch = "next" /\ watch' = "apply" /\ servers' = pairs /\ UNCHANGED addrs
      /\ updates' = GetUpdate(servers, pairs)
      /\ DOMAIN lastMeta' = DOMAIN lastMeta \cup DOMAIN pairs
      /\ \A b \in DOMAIN lastMeta' :
           lastMeta'[b] = IF b \in DOMAIN pairs THEN pairs[b] ELSE lastMeta[b]
  BY DEF WatchListing, watchVars, listVars
<1>2. servers \in Listing /\ \A i \in DOMAIN addrs : addrs[i].addr \in Address
  <2>1. servers \in Listing /\ \A i \in DOMAIN addrs : addrs[i] \in AddrInfo
    BY DEF TypeInv, TypeOK
  <2> QED BY <2>1 DEF AddrInfo
<1>3. ASSUME NEW i \in DOMAIN addrs
      PROVE  /\ addrs[i].addr.name \in DOMAIN lastMeta'
             /\ \/ addrs[i].addr.name \in DOMAIN pairs
                \/ addrs[i].addr.meta # lastMeta'[addrs[i].addr.name]
                \/ \E u \in updates' : u.op = "Delete" /\ u.addr = addrs[i].addr
  <2> DEFINE a == addrs[i].addr
  <2>1. /\ a.name \in DOMAIN lastMeta
        /\ a.name \in DOMAIN servers \/ a.meta # lastMeta[a.name]
        /\ a.name \in DOMAIN servers => lastMeta[a.name] = servers[a.name]
    BY <1>1 DEF DepartedInv
  <2>2. a \in Address /\ a.name \in DOMAIN lastMeta'
    BY <1>1, <1>2, <2>1
  <2>3. a.name \notin DOMAIN pairs => lastMeta'[a.name] = lastMeta[a.name]
    BY <1>1, <2>2
  <2>4. a.name \in DOMAIN servers \ DOMAIN pairs /\ a.meta = servers[a.name] =>
          \E u \in updates' : u.op = "Delete" /\ u.addr = a
    BY <1>1, <1>2, <2>2, DepartedDeleted
  <2> HIDE DEF a
  <2>5. \/ a.name \in DOMAIN pairs
        \/ a.meta # lastMeta'[a.name]
        \/ \E u \in updates' : u.op = "Delete" /\ u.addr = a
    BY <2>1, <2>3, <2>4
  <2> QED BY <2>2, <2>5 DEF a
<1>4. \A b \in DOMAIN pairs : b \in DOMAIN lastMeta' /\ lastMeta'[b] = pairs[b]
  BY <1>1
<1>5. \A u \in updates' : u.op # "Delete" => u.addr.name \in DOMAIN pairs
  BY <1>1, <1>2, DepartedDeleted
<1> QED BY <1>1, <1>3, <1>4, <1>5 DEF DepartedInv

LEMMA ApplyUpdateDeparted ==
  ASSUME TypeInv, DepartedInv, NEW u \in updates, ApplyUpdate(u)
  PROVE  DepartedInv'
<1>1. u.addr \in Address /\ watch = "apply"
  BY DEF ApplyUpdate, TypeInv, TypeOK, Update
<1>2. UNCHANGED <<watch, servers, lastMeta>> /\ updates' = updates \ {u}
  BY DEF ApplyUpdate
<1>3. addrs \in Seq(AddrInfo) /\ DistinctAddrs
  BY DEF TypeInv, TypeOK
<1> DEFINE Fine(a) == /\ a.name \in DOMAIN lastMeta
                      /\ \/ a.name \in DOMAIN servers
                         \/ a.meta # lastMeta[a.name]
                         \/ \E v \in updates : v.op = "Delete" /\ v.addr = a
<1>4. \A i \in DOMAIN addrs : Fine(addrs[i].addr)
  BY <1>1 DEF DepartedInv
<1>5. \A i \in DOMAIN addrs' : Fine(addrs'[i].addr) /\ (u.op = "Delete" => addrs'[i].addr # u.addr)
  <2>1. CASE u.op = "Add" /\ ApplyAdd(u.addr)
    <3>1. \A i \in DOMAIN addrs' : IF i \in DOMAIN addrs THEN addrs'[i] = addrs[i]
                                   ELSE addrs'[i] = NewAddrInfo(u.addr)
      BY <1>1, <1>3, <2>1, AddFacts
    <3>2. NewAddrInfo(u.addr).addr = u.addr
      BY DEF NewAddrInfo
    <3>3. u.addr.name \in DOMAIN servers /\ u.addr.name \in DOMAIN lastMeta
      BY <1>1, <2>1 DEF DepartedInv
    <3> QED BY <1>4, <2>1, <3>1, <3>2, <3>3
  <2>2. CASE u.op = "Delete" /\ ApplyDelete(u.addr)
    <3>1. \A i \in DOMAIN addrs' : \E j \in DOMAIN addrs : addrs[j].addr # u.addr /\ addrs'[i] = addrs[j]
      BY <1>1, <1>3, <2>2, DeleteFacts
    <3> HIDE DEF Fine
    <3> QED BY <1>4, <3>1
  <2>3. CASE u.op = "Modify" /\ ApplyModify(u.addr)
    <3>1. /\ DOMAIN addrs' = DOMAIN addrs
          /\ \A i \in DOMAIN addrs : addrs'[i].addr = addrs[i].addr
      BY <1>1, <1>3, <2>3, ModifyFacts
    <3> HIDE DEF Fine
    <3> QED BY <1>4, <2>3, <3>1
  <2> QED BY <2>1, <2>2, <2>3 DEF ApplyUpdate, Applies
<1>6. \A i \in DOMAIN addrs' :
        /\ addrs'[i].addr.name \in DOMAIN lastMeta
        /\ \/ addrs'[i].addr.name \in DOMAIN servers
           \/ addrs'[i].addr.meta # lastMeta[addrs'[i].addr.name]
           \/ \E v \in updates \ {u} : v.op = "Delete" /\ v.addr = addrs'[i].addr
  BY <1>5
<1> QED BY <1>1, <1>2, <1>6 DEF DepartedInv

LEMMA DepartedStep == TypeInv /\ SendInv /\ DepartedInv /\ [Next]_vars => DepartedInv'
<1> SUFFICES ASSUME TypeInv, SendInv, DepartedInv, [Next]_vars
             PROVE  DepartedInv'
  OBVIOUS
<1> USE DEF listVars, watchVars, getVars, grpcVars
<1>1. ASSUME UNCHANGED <<updates, servers, lastMeta>>, DOMAIN addrs' = DOMAIN addrs,
             \A i \in DOMAIN addrs : addrs'[i].addr = addrs[i].addr,
             watch' = watch \/ (watch \notin {"apply", "stopped"} /\ watch' # "apply")
                            \/ (watch = "apply" /\ updates = {})
      PROVE  DepartedInv'
  BY <1>1 DEF DepartedInv
<1>2. CASE Start
  BY <1>1, <1>2 DEF Start, SendInv
<1>3. ASSUME NEW pairs \in Listing, WatchListing(pairs)
      PROVE  DepartedInv'
  BY <1>3, ListingDeparted
<1>4. ASSUME NEW pairs \in Listing, WatchFails(pairs)
      PROVE  DepartedInv'
  BY <1>4 DEF WatchFails, DepartedInv
<1>5. CASE WatchKeyNotFound
  BY <1>5 DEF WatchKeyNotFound, DepartedInv
<1>6. ASSUME NEW u \in updates, ApplyUpdate(u)
      PROVE  DepartedInv'
  BY <1>6, ApplyUpdateDeparted
<1>7. CASE Publish
  BY <1>1, <1>7 DEF Publish
<1>8. CASE Receive
  BY <1>1, <1>8 DEF Receive
<1>9. ASSUME NEW a \in offered \ ready, Up(a)
      PROVE  DepartedInv'
  BY <1>1, <1>9, UpFacts DEF Up
<1>10. ASSUME NEW a \in ready, Down(a)
       PROVE  DepartedInv'
  BY <1>1, <1>10, DownFacts DEF Down
<1>11. ASSUME NEW g \in Getters, GetCall(g) \/ GetClosed(g) \/ GetBlocks(g) \/ GetCancelled(g)
       PROVE  DepartedInv'
  BY <1>1, <1>11 DEF GetCall, GetClosed, GetBlocks, GetCancelled
<1>12. ASSUME NEW g \in Getters, GetConnected(g) \/ GetFailfast(g)
       PROVE  DepartedInv'
  <2>1. /\ DOMAIN addrs' = DOMAIN addrs
        /\ \A i \in DOMAIN addrs : addrs'[i].addr = addrs[i].addr
    BY <1>12, PickFacts DEF GetConnected, GetFailfast, Reweighed
  <2> QED BY <1>1, <1>12, <2>1 DEF GetConnected, GetFailfast
<1>13. CASE Close
  BY <1>1, <1>13 DEF Close
<1>14. CASE UNCHANGED vars
  BY <1>1, <1>14 DEF vars
<1> QED BY <1>2, <1>3, <1>4, <1>5, <1>6, <1>7, <1>8, <1>9, <1>10, <1>11, <1>12, <1>13, <1>14
        DEF Next, WatchStep, UpStep, DownStep, GetStep

\* However metadata change, what the list may keep of a backend that is gone is an
\* entry whose metadata are older than those it left with; with metadata that never
\* change, the list keeps none (watchAddrUpdates, roundrobin_v1.go, lines 46-95).
THEOREM DepartedAreOutdated == Spec => []OnlyOutdatedRemain
<1>1. Init => DepartedInv
  BY DEF Init, DepartedInv, NoServers
<1>2. DepartedInv => OnlyOutdatedRemain
  BY DEF DepartedInv, OnlyOutdatedRemain
<1> QED BY <1>1, <1>2, Typed, Sending, DepartedStep, PTL DEF Spec

-----------------------------------------------------------------------------
(* No lost wake-up *)

\* No backend is registered with weight zero, if the balancer looks at weights.
PositiveWeights == Weight => \A m \in Metas : GetWeightByMetadata(m) > 0

\* While there is a channel to wait on nobody is connected, and a caller waits
\* on it or on a closed one.
WaitInv ==
  /\ Weight => \A i \in DOMAIN addrs : addrs[i].weight > 0
  /\ \A g \in Getters : pc[g] = "waiting" =>
       ch[g] \in closedChs \/ (ch[g] = waitCh /\ waitCh # NoChan)
  /\ waitCh # NoChan => ~done /\ ConnectedEntries = {}

\* With positive weights, an entry is available as soon as it is connected.
LEMMA AvailableIffConnected ==
  ASSUME WaitInv
  PROVE  GetAvailableAddrs(TRUE) = ConnectedEntries
BY DEF WaitInv, GetAvailableAddrs, ConnectedEntries

\* When nobody is connected, an address that is in the list and comes up is the
\* only connected one.
LEMMA FirstUpNotifies ==
  ASSUME TypeInv, NEW a, Up(a), ConnectedEntries = {}, ConnectedEntries' # {}
  PROVE  Notifies(addrs')
<1> DEFINE up == {i \in DOMAIN addrs' : addrs'[i].connected}
<1>1. /\ DOMAIN addrs' = DOMAIN addrs
      /\ \A i \in DOMAIN addrs :
           /\ addrs'[i].addr = addrs[i].addr
           /\ addrs'[i].connected = IF addrs[i].addr = a THEN TRUE ELSE addrs[i].connected
  BY UpFacts
<1>2. \A i \in DOMAIN addrs : ~addrs[i].connected
  BY DEF ConnectedEntries
<1>3. \A i \in up : i \in DOMAIN addrs /\ addrs[i].addr = a
  BY <1>1, <1>2
<1>4. PICK k : k \in up
  BY DEF ConnectedEntries
<1>5. up = {k}
  BY <1>3, <1>4 DEF TypeInv, DistinctAddrs
<1>6. Cardinality(up) = 1
  BY <1>5, FS_Singleton
<1> QED BY <1>6 DEF Notifies

\* An update keeps the weights positive and connects nobody.
LEMMA ApplyUpdateWait ==
  ASSUME PositiveWeights, TypeInv, WaitInv, NEW u \in updates, ApplyUpdate(u)
  PROVE  WaitInv'
<1>1. u.addr \in Address /\ u.addr.meta \in Metas
  BY DEF TypeInv, TypeOK, Update, Address
<1>2. addrs \in Seq(AddrInfo) /\ DistinctAddrs
  BY DEF TypeInv, TypeOK
<1>3. UNCHANGED <<waitCh, closedChs, done, pc, ch>>
  BY DEF ApplyUpdate, getVars
<1>4. ASSUME \A i \in DOMAIN addrs' :
               \/ \E j \in DOMAIN addrs : /\ addrs'[i].connected = addrs[j].connected
                                          /\ addrs'[i].weight = addrs[j].weight
               \/ \E j \in DOMAIN addrs : /\ addrs'[i].connected = addrs[j].connected
                                          /\ addrs'[i].weight = GetWeightByMetadata(u.addr.meta)
               \/ addrs'[i].connected = FALSE /\ addrs'[i].weight = GetWeightByMetadata(u.addr.meta)
      PROVE  WaitInv'
  <2>1. Weight => GetWeightByMetadata(u.addr.meta) > 0
    BY <1>1 DEF PositiveWeights
  <2>2. Weight => \A i \in DOMAIN addrs' : addrs'[i].weight > 0
    BY <1>4, <2>1 DEF WaitInv
  <2>3. ConnectedEntries = {} => ConnectedEntries' = {}
    BY <1>4 DEF ConnectedEntries
  <2> QED BY <1>3, <2>2, <2>3 DEF WaitInv
<1>5. CASE ApplyAdd(u.addr)
  <2>1. /\ \A i \in DOMAIN addrs : addrs'[i] = addrs[i]
        /\ \A i \in DOMAIN addrs' \ DOMAIN addrs : addrs'[i] = NewAddrInfo(u.addr)
    BY <1>1, <1>2, <1>5, AddFacts
  <2>2. /\ NewAddrInfo(u.addr).connected = FALSE
        /\ NewAddrInfo(u.addr).weight = GetWeightByMetadata(u.addr.meta)
    BY DEF NewAddrInfo
  <2> QED BY <1>4, <2>1, <2>2
<1>6. CASE ApplyDelete(u.addr)
  <2>1. \A i \in DOMAIN addrs' : \E j \in DOMAIN addrs : addrs'[i] = addrs[j]
    BY <1>1, <1>2, <1>6, DeleteFacts
  <2> QED BY <1>4, <2>1
<1>7. CASE ApplyModify(u.addr)
  <2>1. /\ DOMAIN addrs' = DOMAIN addrs
        /\ \A i \in DOMAIN addrs :
             /\ addrs'[i].connected = addrs[i].connected
             /\ addrs'[i].weight \in {addrs[i].weight, GetWeightByMetadata(u.addr.meta)}
    BY <1>1, <1>2, <1>7, ModifyFacts
  <2> QED BY <1>4, <2>1
<1> QED BY <1>5, <1>6, <1>7 DEF ApplyUpdate, Applies

LEMMA WaitStep == PositiveWeights /\ TypeInv /\ WaitInv /\ [Next]_vars => WaitInv'
<1> SUFFICES ASSUME PositiveWeights, TypeInv, WaitInv, [Next]_vars
             PROVE  WaitInv'
  OBVIOUS
<1> USE DEF listVars, watchVars, getVars, grpcVars
<1>1. ASSUME UNCHANGED <<addrs, waitCh, closedChs, done>>,
             \A g \in Getters : pc'[g] = "waiting" => pc[g] = "waiting" /\ ch'[g] = ch[g]
      PROVE  WaitInv'
  BY <1>1 DEF WaitInv, ConnectedEntries
<1>2. CASE Start \/ WatchKeyNotFound \/ Publish \/ Receive
           \/ (\E pairs \in Listing : WatchListing(pairs) \/ WatchFails(pairs))
  BY <1>1, <1>2 DEF Start, WatchKeyNotFound, WatchListing, WatchFails, Publish, Receive
<1>3. ASSUME NEW u \in updates, ApplyUpdate(u)
      PROVE  WaitInv'
  BY <1>3, ApplyUpdateWait
<1>4. ASSUME NEW a \in offered \ ready, Up(a)
      PROVE  WaitInv'
  <2>1. UNCHANGED <<done, pc, ch>>
    BY <1>4 DEF Up
  <2>2. Weight => \A i \in DOMAIN addrs' : addrs'[i].weight > 0
    BY <1>4, UpFacts DEF WaitInv
  <2>3. CASE UNCHANGED addrs
    BY <1>4, <2>1, <2>2, <2>3 DEF Up, WaitInv, ConnectedEntries
  <2>4. CASE waitCh # NoChan /\ Notifies(addrs') /\ ~UNCHANGED addrs
    <3>1. closedChs' = closedChs \cup {waitCh} /\ waitCh' = NoChan
      BY <1>4, <2>4 DEF Up
    <3> QED BY <2>1, <2>2, <3>1 DEF WaitInv
  <2>5. CASE ~(waitCh # NoChan /\ Notifies(addrs')) /\ ~UNCHANGED addrs
    <3>1. UNCHANGED <<waitCh, closedChs>>
      BY <1>4, <2>5 DEF Up
    <3>2. waitCh # NoChan => ConnectedEntries' = {}
      BY <1>4, <2>5, FirstUpNotifies DEF WaitInv
    <3> QED BY <2>1, <2>2, <3>1, <3>2 DEF WaitInv
  <2> QED BY <2>3, <2>4, <2>5
<1>5. ASSUME NEW a \in ready, Down(a)
      PROVE  WaitInv'
  <2>1. UNCHANGED <<waitCh, closedChs, done, pc, ch>>
    BY <1>5 DEF Down
  <2>2. /\ DOMAIN addrs' = DOMAIN addrs
        /\ \A i \in DOMAIN addrs :
             /\ addrs'[i].weight = addrs[i].weight
             /\ addrs'[i].connected = IF addrs[i].addr = a THEN FALSE ELSE addrs[i].connected
    BY <1>5, DownFacts
  <2>3. ConnectedEntries = {} => ConnectedEntries' = {}
    BY <2>2 DEF ConnectedEntries
  <2>4. Weight => \A i \in DOMAIN addrs' : addrs'[i].weight > 0
    BY <2>2 DEF WaitInv
  <2> QED BY <2>1, <2>3, <2>4 DEF WaitInv
<1>6. ASSUME NEW g \in Getters, GetCall(g) \/ GetClosed(g) \/ GetCancelled(g)
      PROVE  WaitInv'
  BY <1>1, <1>6 DEF GetCall, GetClosed, GetCancelled, Return, TypeInv, TypeOK
<1>7. ASSUME NEW g \in Getters, GetConnected(g) \/ GetFailfast(g)
      PROVE  WaitInv'
  <2>1. /\ DOMAIN addrs' = DOMAIN addrs
        /\ \A i \in DOMAIN addrs : /\ addrs'[i].weight = addrs[i].weight
                                   /\ addrs'[i].connected = addrs[i].connected
    BY <1>7, PickFacts DEF GetConnected, GetFailfast, Reweighed
  <2>2. UNCHANGED <<waitCh, closedChs, done>>
    BY <1>7 DEF GetConnected, GetFailfast
  <2>3. \A h \in Getters : pc'[h] = "waiting" => pc[h] = "waiting" /\ ch'[h] = ch[h]
    BY <1>7 DEF GetConnected, GetFailfast, Return, TypeInv, TypeOK
  <2>4. ConnectedEntries' = ConnectedEntries
    BY <2>1 DEF ConnectedEntries
  <2> QED BY <2>1, <2>2, <2>3, <2>4 DEF WaitInv
<1>8. ASSUME NEW g \in Getters, GetBlocks(g)
      PROVE  WaitInv'
  <2>1. UNCHANGED <<addrs, done>> /\ ~done /\ ConnectedEntries = {}
    BY <1>8, AvailableIffConnected DEF GetBlocks
  <2>2. waitCh' # NoChan
    BY <1>8, NoChanAssumption DEF GetBlocks
  <2>3. \A h \in Getters : h # g => pc'[h] = pc[h] /\ ch'[h] = ch[h]
    BY <1>8 DEF GetBlocks, TypeInv, TypeOK
  <2>4. ch'[g] = waitCh'
    BY <1>8 DEF GetBlocks, TypeInv, TypeOK
  <2>5. \A h \in Getters : pc[h] = "waiting" =>
          \/ ch[h] \in closedChs'
          \/ ch[h] = waitCh' /\ waitCh' # NoChan
    <3>1. CASE waitCh = NoChan
      <4>1. PICK c \in Chans \ Referenced : closedChs' = closedChs \ {c}
        BY <1>8, <3>1 DEF GetBlocks
      <4> QED BY <3>1, <4>1 DEF WaitInv, Referenced
    <3>2. CASE waitCh # NoChan
      BY <1>8, <3>2 DEF GetBlocks, WaitInv
    <3> QED BY <3>1, <3>2
  <2> QED BY <2>1, <2>2, <2>3, <2>4, <2>5 DEF WaitInv, ConnectedEntries
<1>9. CASE Close
  BY <1>9 DEF Close, WaitInv
<1>10. CASE UNCHANGED vars
  BY <1>1, <1>10 DEF vars
<1> QED BY <1>2, <1>3, <1>4, <1>5, <1>6, <1>7, <1>8, <1>9, <1>10
        DEF Next, WatchStep, UpStep, DownStep, GetStep

\* No wake-up is lost as long as no backend is registered with weight zero: a
\* caller that stays blocked in Get always waits on the channel the next Up or
\* Close will close, and there is no address it could be given.
THEOREM NoLostWakeUp == PositiveWeights /\ Spec => []NoStrandedWaiter
<1>1. Init => WaitInv
  BY DEF Init, WaitInv
<1>2. WaitInv => NoStrandedWaiter
  BY AvailableIffConnected DEF WaitInv, NoStrandedWaiter
<1>3. PositiveWeights /\ [Next]_vars => PositiveWeights'
  BY DEF PositiveWeights, GetWeightByMetadata
<1> QED BY <1>1, <1>2, <1>3, Typed, WaitStep, PTL DEF Spec

-----------------------------------------------------------------------------
(* Close *)

\* A step of a closed balancer reopens nothing, and a call that it ends ends
\* with an error.
ClosedStep ==
  done => /\ done'
          /\ \A g \in Getters : pc[g] # "idle" /\ pc'[g] = "idle" =>
                                  outcome'[g] \in {"closing", "ctx"}

LEMMA ClosedStepHolds == TypeInv /\ [Next]_vars => ClosedStep
<1> SUFFICES ASSUME TypeInv, [Next]_vars, done
             PROVE  ClosedStep
  BY DEF ClosedStep
<1> USE DEF listVars, watchVars, getVars, grpcVars
<1>1. CASE Start
  BY <1>1 DEF Start
<1>2. CASE WatchStep \/ Receive
  BY <1>2 DEF WatchStep, WatchListing, WatchFails, WatchKeyNotFound, ApplyUpdate,
              Publish, Receive, ClosedStep
<1>3. CASE UpStep \/ DownStep
  BY <1>3 DEF UpStep, DownStep, Up, Down, ClosedStep
<1>4. ASSUME NEW g \in Getters, GetCall(g) \/ GetStep(g) \/ GetCancelled(g)
      PROVE  ClosedStep
  <2>1. done'
    BY <1>4 DEF GetCall, GetStep, GetCancelled, GetClosed, GetConnected, GetFailfast, GetBlocks
  <2>2. CASE GetCall(g) \/ GetBlocks(g)
    BY <2>1, <2>2 DEF GetCall, GetBlocks, ClosedStep, TypeInv, TypeOK
  <2>3. CASE GetClosed(g) \/ GetCancelled(g)
    BY <2>1, <2>3 DEF GetClosed, GetCancelled, Return, ClosedStep, TypeInv, TypeOK
  <2>4. ~GetConnected(g) /\ ~GetFailfast(g)
    BY DEF GetConnected, GetFailfast
  <2> QED BY <1>4, <2>2, <2>3, <2>4 DEF GetStep
<1>5. CASE Close
  BY <1>5 DEF Close
<1>6. CASE UNCHANGED vars
  BY <1>6 DEF vars, ClosedStep
<1> QED BY <1>1, <1>2, <1>3, <1>4, <1>5, <1>6 DEF Next

\* A closed balancer stays closed and hands out no address any more, not even
\* to the callers that Close found waiting.
THEOREM ClosedForGood == Spec => ClosedIsFinal
<1>1. TypeInv /\ [Next]_vars => [ClosedStep]_vars
  BY ClosedStepHolds
<1>2. Spec => [][ClosedStep]_vars
  BY <1>1, Typed, PTL DEF Spec
<1> QED BY <1>2, PTL DEF ClosedIsFinal, ClosedStep

=============================================================================
