------------------------------ MODULE Selection ------------------------------
(***************************************************************************)
(* What the round-robin balancer does with its list: it applies the        *)
(* watcher's updates to it and picks from the available entries, by        *)
(* rotation, or by smooth weighted round robin when the balancer was       *)
(* created with weight = true.                                             *)
(***************************************************************************)
EXTENDS Addresses

VARIABLE next        \* index of the last address handed out by rotation

-----------------------------------------------------------------------------
(***************************************************************************)
(* One update of the watcher applied to the list.  Add and Delete compare  *)
(* whole addresses, metadata included; Modify looks for the name and       *)
(* leaves the old address, with its metadata, in the entry.                *)
(***************************************************************************)
ApplyAdd(a) ==
  /\ addrs' = IF a \in AddressesOf(addrs) THEN addrs
              ELSE Append(addrs, NewAddrInfo(a))
  /\ UNCHANGED next

\* Mutant of ApplyDelete: an entry that is connected is left to its down callback.
ApplyDeleteMutant(a) ==
  /\ addrs' = IF \E i \in DOMAIN addrs : addrs[i].addr = a /\ ~addrs[i].connected
              THEN WithoutEntry(FirstAt(LAMBDA i : addrs[i].addr = a))
              ELSE addrs
  /\ next' = -1

ApplyDelete(a) ==
  /\ addrs' = IF a \in AddressesOf(addrs)
              THEN WithoutEntry(FirstAt(LAMBDA i : addrs[i].addr = a))
              ELSE addrs
  /\ next' = -1

ApplyModify(a) ==
  /\ addrs' = IF Weight /\ \E i \in DOMAIN addrs : addrs[i].addr.name = a.name
              THEN [addrs EXCEPT ![FirstAt(LAMBDA i : addrs[i].addr.name = a.name)].weight
                                   = GetWeightByMetadata(a.meta)]
              ELSE addrs
  /\ UNCHANGED next

Applies(u) == \/ u.op = "Add"    /\ ApplyAdd(u.addr)
              \/ u.op = "Delete" /\ ApplyDelete(u.addr)
              \/ u.op = "Modify" /\ ApplyModify(u.addr)

-----------------------------------------------------------------------------
(* Rotation: the slice is indexed from zero in list order. *)

NthOf(S, n) == CHOOSE i \in S : Cardinality({j \in S : j < i}) = n
NextIndex(S) == IF next + 1 >= Cardinality(S) THEN 0 ELSE next + 1

(* Smooth weighted round robin: everyone gains its weight, the first of    *)
(* those with the most pays the total back.                                *)

Gained(i) == addrs[i].current + addrs[i].weight

MostOwed(S) ==
  CHOOSE i \in S : \A j \in S : \/ Gained(j) < Gained(i)
                                \/ Gained(j) = Gained(i) /\ i <= j

\* Mutant of AfterPick: the one selected does not pay.
AfterPickMutant(S, sel) ==
  [i \in DOMAIN addrs |->
     IF i \notin S THEN addrs[i] ELSE [addrs[i] EXCEPT !.current = Gained(i)]]

AfterPick(S, sel) ==
  [i \in DOMAIN addrs |->
     IF i \notin S THEN addrs[i]
     ELSE [addrs[i] EXCEPT
             !.current = Gained(i) - (IF i = sel THEN TotalWeight(S) ELSE 0)]]

\* What a failfast call of Get selects from: the connected entries, or all of them
\* when none is.
Candidates == IF GetAvailableAddrs(TRUE) # {} THEN GetAvailableAddrs(TRUE)
              ELSE GetAvailableAddrs(FALSE)

\* selectOneAddr on the entries at S picks the one at sel.
selectOneAddr(S, sel) ==
  \/ /\ S = {sel}
     /\ UNCHANGED <<addrs, next>>
  \/ /\ Cardinality(S) > 1 /\ Weight
     /\ sel = MostOwed(S)
     /\ addrs' = AfterPick(S, sel)
     /\ UNCHANGED next
  \/ /\ Cardinality(S) > 1 /\ ~Weight
     /\ next' = NextIndex(S)
     /\ sel = NthOf(S, next')
     /\ UNCHANGED addrs
=============================================================================
