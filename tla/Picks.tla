-------------------------------- MODULE Picks --------------------------------
(***************************************************************************)
(* Many calls in a row: how the balancers of a client spread the calls     *)
(* over the backends while these come, go and are re-weighted.             *)
(*                                                                         *)
(* The v1 round-robin balancer applies the watcher's batches to its list   *)
(* and picks from it, both with Selection.  An experimental balancer gets  *)
(* a new picker from its rrPickerBuilder whenever the ready connections    *)
(* change.  A picker iterates over a Go map, in any order: the plain ones  *)
(* once, when they are built, the weighted ones in every pick.  A batch    *)
(* and a pick hold the mutex; RoundRobinV1 and RandomV1 model the callers  *)
(* that wait for it or for a connection.                                   *)
(***************************************************************************)
EXTENDS Naming, FiniteSetsExt, SequencesExt

CONSTANTS
  MaxPicks,     \* bound on the picks between two changes
  MaxChanges    \* bound on the listings and the changes of connections

ASSUME BoundsAssumption == MaxPicks \in Nat /\ MaxChanges \in Nat
ASSUME BackendsAssumption == IsFiniteSet(Backends)

\* There is always some metadata, if only none, and a weight is an int.
ASSUME MetasAssumption ==
  Metas # {} /\ IsFiniteSet({GetWeightByMetadata(m) : m \in Metas})

VARIABLES
  balancer,   \* ClientConfig.Balancer
  addrs,      \* the list of the v1 balancer
  next,       \* its index
  servers,    \* the backends its watcher knows
  updates,    \* what is left of the batch it applies
  longest,    \* history: the most entries the list ever had
  subConns,   \* the connections a picker was built with, in the order it keeps
  pnext,      \* its index
  panicked,   \* a pick crashed the process
  served,     \* history: the picks of each entry or connection since the last change
  changes

v1Vars     == <<addrs, next, servers, updates, longest>>
pickerVars == <<subConns, pnext>>
picksVars == <<balancer, v1Vars, pickerVars, panicked, served, changes>>

Weighted == INSTANCE Selection WITH Weight <- TRUE
Rotating == INSTANCE Selection WITH Weight <- FALSE

RoundRobins  == {"WRoundRobin", "RoundRobin"}
Pickers == {"WRoundRobinExperimental", "RoundRobinExperimental",
                 "WRandomExperimental", "RandomExperimental"}

V1 == balancer \in RoundRobins
weightOf(k) == GetWeightByMetadata(subConns[k].meta)
Nobody(list) == [i \in DOMAIN list |-> 0]
Picks == Cardinality(UNION {{i} \X (1..served[i]) : i \in DOMAIN served})

PicksInit ==
  /\ balancer \in RoundRobins \cup Pickers
  /\ addrs = <<>> /\ next = 0
  /\ servers = NoServers /\ updates = {} /\ longest = 0
  /\ subConns = <<>> /\ pnext = 0
  /\ panicked = FALSE /\ served = Nobody(<<>>) /\ changes = 0

-----------------------------------------------------------------------------
(* Changes *)

Change ==
  /\ ~panicked /\ changes < MaxChanges
  /\ changes' = changes + 1
  /\ UNCHANGED <<balancer, panicked>>

\* The watcher of the v1 balancer returns a batch, which is then applied update
\* by update before anything else happens.
Listed(pairs) ==
  /\ V1 /\ updates = {} /\ Change
  /\ updates' = GetUpdate(servers, pairs) /\ servers' = pairs
  /\ UNCHANGED <<addrs, next, longest, pickerVars, served>>

Apply(u) ==
  /\ MayComeNext(u, updates)
  /\ \/ balancer = "WRoundRobin" /\ Weighted!Applies(u)
     \/ balancer = "RoundRobin"  /\ Rotating!Applies(u)
  /\ updates' = updates \ {u}
  /\ longest' = IF Len(addrs') > longest THEN Len(addrs') ELSE longest
  /\ served' = Nobody(addrs')
  /\ UNCHANGED <<balancer, servers, pickerVars, panicked, changes>>

\* Up and down of a listed address.
Connect(i, up) ==
  /\ V1 /\ updates = {} /\ Change
  /\ addrs[i].connected # up
  /\ addrs' = [addrs EXCEPT ![i].connected = up]
  /\ served' = Nobody(addrs')
  /\ UNCHANGED <<next, servers, updates, longest, pickerVars>>

\* gRPC's base balancer: the ready connections are others than before.
Build(ready) ==
  /\ ~V1 /\ Change
  /\ \E order \in SetToSeqs({Addr(b, ready[b]) : b \in DOMAIN ready}) :
       subConns' = order /\ served' = Nobody(order)
  /\ pnext' = 0
  /\ UNCHANGED v1Vars

-----------------------------------------------------------------------------
(* Picks *)

Serve(i) ==
  /\ ~panicked /\ Picks < MaxPicks
  /\ served' = [served EXCEPT ![i] = @ + 1]
  /\ UNCHANGED <<balancer, servers, updates, longest, panicked, changes>>

\* roundRobin.Get of a client.WRoundRobin and of a client.RoundRobin.
WeightedGet(i) ==
  /\ balancer = "WRoundRobin" /\ updates = {}
  /\ i \in Weighted!Candidates
  /\ Weighted!selectOneAddr(Weighted!Candidates, i)
  /\ Serve(i)
  /\ UNCHANGED pickerVars

RotatingGet(i) ==
  /\ balancer = "RoundRobin" /\ updates = {}
  /\ i \in Rotating!Candidates
  /\ Rotating!selectOneAddr(Rotating!Candidates, i)
  /\ Serve(i)
  /\ UNCHANGED pickerVars

\* Mutant of RotatingPick: the index wraps round one too early.
RotatingPickMutant ==
  /\ balancer = "RoundRobinExperimental" /\ subConns # <<>>
  /\ Serve(pnext + 1)
  /\ pnext' = IF pnext + 2 < Len(subConns) THEN pnext + 1 ELSE 0
  /\ UNCHANGED <<addrs, next, subConns>>

RotatingPick ==
  /\ balancer = "RoundRobinExperimental" /\ subConns # <<>>
  /\ Serve(pnext + 1)
  /\ pnext' = (pnext + 1) % Len(subConns)
  /\ UNCHANGED <<addrs, next, subConns>>

\* The entries are made anew in every pick, so nothing is owed to anybody: the
\* first of the heaviest, in the order of the map, takes it.
HeaviestPick(k) ==
  /\ balancer = "WRoundRobinExperimental"
  /\ \A j \in DOMAIN subConns : weightOf(j) <= weightOf(k)
  /\ Serve(k)
  /\ UNCHANGED <<addrs, next, pickerVars>>

UniformPick(k) ==
  /\ balancer = "RandomExperimental"
  /\ Serve(k)
  /\ UNCHANGED <<addrs, next, pickerVars>>

ReadyWeight == MapThenSumSet(weightOf, DOMAIN subConns)

\* The weight of the first k connections of an order.
WeightUpTo(order, k) == MapThenSumSet(LAMBDA j : weightOf(order[j]), 1..k)

\* The loop goes on after the match: the last entry it selects is the one used.
LastMatch(order, n) ==
  order[CHOOSE k \in DOMAIN order : /\ n < WeightUpTo(order, k)
                                    /\ \A j \in DOMAIN order : n < WeightUpTo(order, j) => j <= k]

DrawPick ==
  /\ balancer = "WRandomExperimental"
  /\ \/ Len(subConns) = 1 /\ Serve(1)
     \/ /\ Len(subConns) > 1
        /\ \E order \in SetToSeqs(DOMAIN subConns), n \in 0..(ReadyWeight - 1) :
             Serve(LastMatch(order, n))
  /\ UNCHANGED <<addrs, next, pickerVars>>

\* rand.Intn panics when it is given no room: several connections without any
\* weight crash the process.
DrawPanics ==
  /\ balancer = "WRandomExperimental" /\ ~panicked
  /\ Len(subConns) > 1 /\ ReadyWeight = 0
  /\ panicked' = TRUE
  /\ UNCHANGED <<balancer, v1Vars, pickerVars, served, changes>>

-----------------------------------------------------------------------------
PicksNext ==
  \/ \E pairs \in Listing : Listed(pairs) \/ Build(pairs)
  \/ \E u \in updates : Apply(u)
  \/ \E i \in DOMAIN addrs : \/ \E up \in BOOLEAN : Connect(i, up)
                            \/ WeightedGet(i) \/ RotatingGet(i)
  \/ \E k \in DOMAIN subConns : HeaviestPick(k) \/ UniformPick(k)
  \/ RotatingPick \/ DrawPick \/ DrawPanics

PicksSpec == PicksInit /\ [][PicksNext]_picksVars

-----------------------------------------------------------------------------
(* Properties *)

\* Rotation, of either kind, is fair from any change on: wherever the index was
\* when entries left or came, the numbers of picks of those a call may get differ
\* by one at most (roundrobin_v1.go, lines 290-295; roundrobin.go, lines 68-73).
Rotated == IF V1 THEN Rotating!Candidates ELSE DOMAIN subConns
TakesTurns ==
  balancer \in {"RoundRobin", "RoundRobinExperimental"} /\ updates = {} =>
    \A i, j \in Rotated : served[i] <= served[j] + 1

\* A pick lets every available entry gain its weight and has one of them pay the
\* total; nothing is ever reset, what an entry is owed or owes stays with it while
\* it is disconnected, re-weighted or alone, and leaves with it.  Still no sequence
\* of picks and changes makes these amounts drift: they stay within a bound given
\* by the greatest weight and the greatest length the list had, and with the second
\* entries a change of metadata leaves (roundrobin_v1.go, lines 46-95 and 269-288).
Heaviest == Max({GetWeightByMetadata(m) : m \in Metas})
MaxDebt == 2 * Heaviest * (longest - 1)
DebtsBounded == \A i \in DOMAIN addrs : addrs[i].current \in (-MaxDebt)..MaxDebt

\* So old debts and credits distort the weighted rotation only for a while: from
\* any change on, the picks of an entry differ from its share by what two such
\* amounts explain, however many picks there are (roundrobin_v1.go, lines 269-288).
\* The share is the entry's; a backend with two entries has two of them.
Available == Weighted!Candidates
FairShare ==
  balancer = "WRoundRobin" /\ updates = {} /\ Cardinality(Available) > 1 =>
    \A i \in Available :
      LET due == Picks * addrs[i].weight
          got == served[i] * Weighted!TotalWeight(Available)
      IN due - got \in (-2 * MaxDebt)..(2 * MaxDebt)
=============================================================================
