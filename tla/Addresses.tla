------------------------------ MODULE Addresses ------------------------------
(***************************************************************************)
(* The address list of a v1 balancer, a slice of balancer.AddrInfo, and    *)
(* how both balancers search and filter it.                                *)
(*                                                                         *)
(* EffectiveWeight is assigned wherever Weight is, always to the same      *)
(* value, so one field stands for both; only the round-robin balancer      *)
(* uses current.                                                           *)
(***************************************************************************)
EXTENDS Naming, FiniteSets, Sequences

CONSTANT Weight      \* the balancer takes the weights into account

VARIABLE addrs       \* all the addresses the client should connect to

AddrInfo == [addr : Address, connected : BOOLEAN, weight : Nat, current : Int]

NewAddrInfo(a) == [addr |-> a, connected |-> FALSE,
                   weight |-> GetWeightByMetadata(a.meta), current |-> 0]

AddressesOf(list) == {list[i].addr : i \in DOMAIN list}
ConnectedEntries == {i \in DOMAIN addrs : addrs[i].connected}

\* The first entry that satisfies a condition, and the list without an entry.
FirstAt(Test(_)) == CHOOSE i \in DOMAIN addrs :
                      Test(i) /\ \A j \in DOMAIN addrs : Test(j) => i <= j

WithoutEntry(k) == [i \in 1..(Len(addrs) - 1) |-> addrs[IF i < k THEN i ELSE i + 1]]

\* The positions of the entries GetAvailableAddrs keeps.
GetAvailableAddrs(connected) ==
  {i \in DOMAIN addrs : /\ connected => addrs[i].connected
                        /\ Weight => addrs[i].weight > 0}

\* The sum of the weights, counted unit by unit.
TotalWeight(S) == Cardinality(UNION {{i} \X (1..addrs[i].weight) : i \in S})
=============================================================================
