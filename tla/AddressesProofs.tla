---------------------------- MODULE AddressesProofs ----------------------------
(***************************************************************************)
(* Facts about the address list and about the updates of a watcher that    *)
(* the proofs of both v1 balancers rest on.                                *)
(***************************************************************************)
EXTENDS Addresses, FiniteSetTheorems, SequenceTheorems, WellFoundedInduction, TLAPS

-----------------------------------------------------------------------------
(* Weights and lists *)

\* A weight read from metadata is a natural number.
LEMMA WeightType == \A m : GetWeightByMetadata(m) \in Nat
BY DefaultWeightAssumption DEF GetWeightByMetadata

\* The units of the weights of some entries are finitely many.
Units(i) == {i} \X (1..addrs[i].weight)
AllUnits(S) == UNION {Units(i) : i \in S}

LEMMA EntryUnits ==
  ASSUME addrs \in Seq(AddrInfo), NEW i \in DOMAIN addrs
  PROVE  /\ addrs[i].weight \in Nat
         /\ IsFiniteSet(Units(i)) /\ Cardinality(Units(i)) = addrs[i].weight
<1> DEFINE w == addrs[i].weight
<1>1. w \in Nat
  <2>1. addrs[i] \in AddrInfo
    OBVIOUS
  <2> QED BY <2>1 DEF AddrInfo
<1> HIDE DEF w
<1>2. IsFiniteSet(1..w) /\ Cardinality(1..w) = w
  BY <1>1, FS_Interval
<1>3. IsFiniteSet({i}) /\ Cardinality({i}) = 1
  BY FS_Singleton
<1>4. IsFiniteSet({i} \X (1..w)) /\ Cardinality({i} \X (1..w)) = 1 * w
  BY <1>2, <1>3, FS_Product
<1> QED BY <1>1, <1>4 DEF Units, w

LEMMA UnitsFinite ==
  ASSUME addrs \in Seq(AddrInfo), NEW S \in SUBSET DOMAIN addrs
  PROVE  IsFiniteSet(AllUnits(S))
<1> DEFINE All == {Units(i) : i \in S}
<1>1. IsFiniteSet(S)
  <2>1. DOMAIN addrs = 1..Len(addrs) /\ Len(addrs) \in Nat
    OBVIOUS
  <2>2. IsFiniteSet(1..Len(addrs))
    BY <2>1, FS_Interval
  <2> QED BY <2>1, <2>2, FS_Subset
<1>2. IsFiniteSet(All)
  <2> DEFINE f == [i \in S |-> Units(i)]
  <2>1. f \in Surjection(S, All)
    BY DEF Surjection
  <2> HIDE DEF All
  <2> QED BY <1>1, <2>1, FS_Surjection DEF ExistsSurjection
<1>3. \A T \in All : IsFiniteSet(T)
  BY EntryUnits
<1> HIDE DEF All
<1>4. IsFiniteSet(UNION All)
  BY <1>2, <1>3, FS_UNION
<1> QED BY <1>4 DEF AllUnits, All

\* The total weight of entries of the list is a natural number.
LEMMA TotalWeightType ==
  ASSUME addrs \in Seq(AddrInfo), NEW S \in SUBSET DOMAIN addrs
  PROVE  TotalWeight(S) \in Nat
BY UnitsFinite, FS_CardinalityType DEF TotalWeight, AllUnits, Units

\* An entry adds its own weight to a total, and no entries have none.
LEMMA TotalWeightSplits ==
  ASSUME addrs \in Seq(AddrInfo), NEW S \in SUBSET DOMAIN addrs, NEW i \in S
  PROVE  TotalWeight(S) = TotalWeight(S \ {i}) + addrs[i].weight
<1> DEFINE R == AllUnits(S \ {i})
<1>1. AllUnits(S) = R \cup Units(i)
  BY DEF AllUnits
<1>2. R \cap Units(i) = {}
  BY DEF AllUnits, Units
<1>3. IsFiniteSet(R) /\ Cardinality(R) \in Nat
  BY UnitsFinite, FS_CardinalityType
<1>4. IsFiniteSet(Units(i)) /\ Cardinality(Units(i)) = addrs[i].weight /\ addrs[i].weight \in Nat
  BY EntryUnits
<1>5. TotalWeight(S) = Cardinality(AllUnits(S)) /\ TotalWeight(S \ {i}) = Cardinality(R)
  BY DEF TotalWeight, AllUnits, Units
<1> HIDE DEF R
<1>6. Cardinality(R \cup Units(i)) = Cardinality(R) + Cardinality(Units(i)) - Cardinality(R \cap Units(i))
  BY <1>3, <1>4, FS_Union
<1>7. Cardinality(R \cap Units(i)) = 0
  BY <1>2, FS_EmptySet
<1> QED BY <1>1, <1>3, <1>4, <1>5, <1>6, <1>7

LEMMA NoWeight == TotalWeight({}) = 0
<1>1. UNION {{i} \X (1..addrs[i].weight) : i \in {}} = {}
  OBVIOUS
<1> QED BY <1>1, FS_EmptySet DEF TotalWeight

\* More entries weigh no less.
LEMMA TotalWeightGrows ==
  ASSUME addrs \in Seq(AddrInfo), NEW S \in SUBSET DOMAIN addrs, NEW T \in SUBSET S
  PROVE  TotalWeight(T) <= TotalWeight(S)
<1>1. AllUnits(T) \in SUBSET AllUnits(S)
  BY DEF AllUnits
<1>2. Cardinality(AllUnits(T)) <= Cardinality(AllUnits(S))
  BY <1>1, UnitsFinite, FS_Subset
<1> QED BY <1>2 DEF TotalWeight, AllUnits, Units

\* Among some positions of the list there is a first, and a last one.
LEMMA Least ==
  ASSUME NEW T \in SUBSET Nat, T # {}
  PROVE  \E x \in T : \A y \in T : x <= y
<1>1. PICK x \in T : \A y \in T : ~ (<<y, x>> \in OpToRel(<, Nat))
  BY NatLessThanWellFounded, WFMin
<1>2. \A y \in T : ~ (y < x)
  BY <1>1 DEF OpToRel
<1> QED BY <1>2

LEMMA Greatest ==
  ASSUME NEW n \in Nat, NEW T \in SUBSET (1..n), T # {}
  PROVE  \E x \in T : \A y \in T : y <= x
<1> DEFINE D == {d \in Nat : n - d \in T}
<1>1. D # {}
  <2>1. PICK t : t \in T
    OBVIOUS
  <2>2. n - t \in Nat /\ n - (n - t) = t
    BY <2>1
  <2>3. n - t \in D
    BY <2>1, <2>2
  <2> QED BY <2>3
<1>2. D \in SUBSET Nat
  OBVIOUS
<1>3. PICK d \in D : \A e \in D : d <= e
  BY <1>1, <1>2, Least
<1>4. ASSUME NEW y \in T
      PROVE  y <= n - d
  <2>1. n - y \in Nat /\ n - (n - y) = y
    OBVIOUS
  <2>2. n - y \in D
    BY <2>1
  <2>3. d <= n - y
    BY <2>2, <1>3
  <2> QED BY <2>1, <2>3
<1> QED BY <1>3, <1>4

\* A function on the positions of the list, or on those of a list that is one
\* shorter, whose values are entries is a list of entries.
LEMMA ListType ==
  ASSUME NEW n \in Nat, NEW f, f = [i \in 1..n |-> f[i]],
         \A i \in 1..n : f[i] \in AddrInfo
  PROVE  f \in Seq(AddrInfo) /\ Len(f) = n
OBVIOUS

\* Two entries never have the same address.
DistinctAddrs == \A i, j \in DOMAIN addrs : addrs[i].addr = addrs[j].addr => i = j

\* Append leaves the entries where they are and the address is in the list.
LEMMA AppendFacts ==
  ASSUME addrs \in Seq(AddrInfo), NEW a \in Address,
         addrs' = IF a \in AddressesOf(addrs) THEN addrs ELSE Append(addrs, NewAddrInfo(a))
  PROVE  /\ addrs' \in Seq(AddrInfo)
         /\ DOMAIN addrs \subseteq DOMAIN addrs'
         /\ \A i \in DOMAIN addrs : addrs'[i] = addrs[i]
         /\ \A i \in DOMAIN addrs' \ DOMAIN addrs :
              /\ i = Len(addrs) + 1 /\ addrs'[i] = NewAddrInfo(a)
              /\ a \notin AddressesOf(addrs)
         /\ \E i \in DOMAIN addrs' : addrs'[i].addr = a
<1>1. CASE a \in AddressesOf(addrs)
  BY <1>1 DEF AddressesOf
<1>2. CASE a \notin AddressesOf(addrs)
  <2> DEFINE e == NewAddrInfo(a)
  <2>1. e \in AddrInfo /\ e.addr = a
    BY WeightType DEF NewAddrInfo, AddrInfo
  <2>2. addrs' = Append(addrs, e)
    BY <1>2
  <2> HIDE DEF e
  <2>3. /\ addrs' \in Seq(AddrInfo) /\ Len(addrs') = Len(addrs) + 1
        /\ \A i \in 1..Len(addrs) : addrs'[i] = addrs[i]
        /\ addrs'[Len(addrs) + 1] = e
    BY <2>1, <2>2, AppendProperties
  <2>4. /\ DOMAIN addrs = 1..Len(addrs) /\ Len(addrs) \in Nat
        /\ DOMAIN addrs' = 1..(Len(addrs) + 1)
    BY <2>3
  <2> QED BY <1>2, <2>1, <2>3, <2>4 DEF e
<1> QED BY <1>1, <1>2

\* WithoutEntry takes out one entry and keeps the others.
LEMMA RemoveFacts ==
  ASSUME addrs \in Seq(AddrInfo), NEW k \in DOMAIN addrs, addrs' = WithoutEntry(k)
  PROVE  /\ addrs' \in Seq(AddrInfo) /\ (DistinctAddrs => DistinctAddrs')
         /\ \A i \in DOMAIN addrs' : \E j \in DOMAIN addrs : j # k /\ addrs'[i] = addrs[j]
         /\ \A j \in DOMAIN addrs : j # k => \E i \in DOMAIN addrs' : addrs'[i] = addrs[j]
<1> DEFINE n == Len(addrs) - 1
           from(i) == IF i < k THEN i ELSE i + 1
<1>1. DOMAIN addrs = 1..(n + 1) /\ n \in Nat /\ k \in 1..(n + 1)
  OBVIOUS
<1>2. addrs' = [i \in 1..n |-> addrs[from(i)]]
  BY DEF WithoutEntry
<1> HIDE DEF n
<1>3. \A i \in 1..n : from(i) \in DOMAIN addrs /\ addrs'[i] = addrs[from(i)]
  BY <1>1, <1>2
<1>4. addrs' \in Seq(AddrInfo)
  <2>1. \A i \in 1..n : addrs'[i] \in AddrInfo
    BY <1>3
  <2> QED BY <1>1, <1>2, <2>1, ListType
<1>5. DOMAIN addrs' = 1..n
  BY <1>2
<1>6. DistinctAddrs => DistinctAddrs'
  <2> SUFFICES ASSUME DistinctAddrs, NEW i \in 1..n, NEW j \in 1..n, addrs'[i].addr = addrs'[j].addr
               PROVE  i = j
    BY <1>5 DEF DistinctAddrs
  <2>1. from(i) = from(j)
    BY <1>3 DEF DistinctAddrs
  <2> QED BY <1>1, <2>1
<1>7. \A j \in DOMAIN addrs : j # k => \E i \in DOMAIN addrs' : addrs'[i] = addrs[j]
  <2> SUFFICES ASSUME NEW j \in DOMAIN addrs, j # k
               PROVE  \E i \in 1..n : addrs'[i] = addrs[j]
    BY <1>5
  <2>1. CASE j < k
    BY <1>1, <1>3, <2>1
  <2>2. CASE j > k
    <3>1. j - 1 \in 1..n /\ from(j - 1) = j
      BY <1>1, <2>2
    <3> QED BY <1>3, <3>1
  <2> QED BY <1>1, <2>1, <2>2
<1>8. \A i \in 1..n : from(i) # k
  BY <1>1
<1> QED BY <1>3, <1>4, <1>5, <1>6, <1>7, <1>8

\* A new weight for one entry changes nothing else.
LEMMA ReweighFacts ==
  ASSUME addrs \in Seq(AddrInfo), NEW k, NEW w \in Nat, addrs' = [addrs EXCEPT ![k].weight = w]
  PROVE  /\ addrs' \in Seq(AddrInfo) /\ DOMAIN addrs' = DOMAIN addrs
         /\ \A i \in DOMAIN addrs : /\ addrs'[i].addr = addrs[i].addr
                                    /\ addrs'[i].connected = addrs[i].connected
                                    /\ addrs'[i].weight \in {addrs[i].weight, w}
<1>1. \A i \in DOMAIN addrs : addrs[i] \in AddrInfo
  OBVIOUS
<1>2. \A i \in DOMAIN addrs :
        addrs'[i] = IF i = k THEN [addrs[i] EXCEPT !.weight = w] ELSE addrs[i]
  OBVIOUS
<1>3. DOMAIN addrs = 1..Len(addrs) /\ Len(addrs) \in Nat /\ DOMAIN addrs' = DOMAIN addrs
  OBVIOUS
<1>4. \A i \in DOMAIN addrs : /\ addrs'[i] \in AddrInfo
                              /\ addrs'[i].addr = addrs[i].addr
                              /\ addrs'[i].connected = addrs[i].connected
                              /\ addrs'[i].weight \in {addrs[i].weight, w}
  BY <1>1, <1>2 DEF AddrInfo
<1>5. addrs' = [i \in 1..Len(addrs) |-> addrs'[i]]
  BY <1>3
<1>6. addrs' \in Seq(AddrInfo)
  BY <1>3, <1>4, <1>5, ListType
<1> QED BY <1>3, <1>4, <1>6

\* Up and down change nothing but the connected flag, of the entries with the
\* address.
FlagSet(a, b) ==
  [i \in DOMAIN addrs |-> IF addrs[i].addr = a THEN [addrs[i] EXCEPT !.connected = b]
                          ELSE addrs[i]]

LEMMA FlagFacts ==
  ASSUME addrs \in Seq(AddrInfo), NEW a, NEW b \in BOOLEAN, addrs' = FlagSet(a, b)
  PROVE  /\ addrs' \in Seq(AddrInfo) /\ DOMAIN addrs' = DOMAIN addrs
         /\ \A i \in DOMAIN addrs :
              /\ addrs'[i].addr = addrs[i].addr
              /\ addrs'[i].weight = addrs[i].weight
              /\ addrs'[i].connected = IF addrs[i].addr = a THEN b ELSE addrs[i].connected
<1>1. \A i \in DOMAIN addrs : addrs[i] \in AddrInfo
  OBVIOUS
<1>2. DOMAIN addrs = 1..Len(addrs) /\ Len(addrs) \in Nat /\ DOMAIN addrs' = DOMAIN addrs
  BY DEF FlagSet
<1>3. \A i \in DOMAIN addrs :
        addrs'[i] = IF addrs[i].addr = a THEN [addrs[i] EXCEPT !.connected = b] ELSE addrs[i]
  BY DEF FlagSet
<1>4. \A i \in DOMAIN addrs :
        /\ addrs'[i] \in AddrInfo
        /\ addrs'[i].addr = addrs[i].addr
        /\ addrs'[i].weight = addrs[i].weight
        /\ addrs'[i].connected = IF addrs[i].addr = a THEN b ELSE addrs[i].connected
  BY <1>1, <1>3 DEF AddrInfo
<1>5. addrs' = [i \in 1..Len(addrs) |-> addrs'[i]]
  BY <1>2 DEF FlagSet
<1>6. addrs' \in Seq(AddrInfo)
  BY <1>2, <1>4, <1>5, ListType
<1> QED BY <1>2, <1>4, <1>6

-----------------------------------------------------------------------------
(* Updates *)

\* The updates a watcher derives from a listing are updates.
LEMMA UpdatesType ==
  ASSUME NEW known \in Listing, NEW pairs \in Listing
  PROVE  GetUpdate(known, pairs) \subseteq Update
<1>1. \A b \in DOMAIN pairs : Addr(b, pairs[b]) \in Address
  BY DEF Listing, Addr, Address
<1>2. \A b \in DOMAIN known : Addr(b, known[b]) \in Address
  BY DEF Listing, Addr, Address
<1>3. \A b \in DOMAIN pairs : ListedOp(known, pairs, b) \in Operations
  BY DEF ListedOp, Operations
<1> QED BY <1>1, <1>2, <1>3 DEF GetUpdate, Upd, Update, Operations

\* What GetUpdate yields for the backends of the listing and for the others.
LEMMA UpdateFacts ==
  ASSUME NEW known, NEW pairs
  PROVE  /\ \A u \in GetUpdate(known, pairs) : u.op = "Delete" => u.addr.name \notin DOMAIN pairs
         /\ \A b \in DOMAIN pairs \ DOMAIN known :
              \E u \in GetUpdate(known, pairs) : u.op = "Add" /\ u.addr.name = b
<1>1. \A b \in DOMAIN pairs : /\ Upd(ListedOp(known, pairs, b), b, pairs[b]).op # "Delete"
                              /\ Upd(ListedOp(known, pairs, b), b, pairs[b]).addr.name = b
  BY DEF Upd, ListedOp, Addr
<1>2. \A b \in DOMAIN known : Upd("Delete", b, known[b]).addr.name = b
  BY DEF Upd, Addr
<1>3. \A b \in DOMAIN pairs \ DOMAIN known : Upd(ListedOp(known, pairs, b), b, pairs[b]).op = "Add"
  BY DEF Upd, ListedOp
<1> HIDE DEF Upd, ListedOp
<1> QED BY <1>1, <1>2, <1>3 DEF GetUpdate
=============================================================================
