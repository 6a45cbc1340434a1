------------------------------- MODULE Naming -------------------------------
(***************************************************************************)
(* The vocabulary shared by the resolver's watcher and the v1 balancers:   *)
(* backend addresses with their registration metadata, the weight read     *)
(* from that metadata, and the updates a watcher derives from a directory  *)
(* listing.                                                                *)
(*                                                                         *)
(* A listing is a function from the names of the registered backends to    *)
(* their metadata: the children of a ZooKeeper directory have distinct     *)
(* names.  Metadata is abstracted to what GetWeightByMetadata reads from   *)
(* it: a number stands for every string whose first "weight" item is that  *)
(* number, any other value for every string without a numeric one (such as *)
(* the empty value of a node that was created but not yet written).        *)
(***************************************************************************)
EXTENDS Integers

CONSTANTS
  Backends,          \* host:port names of the backends
  Metas,             \* metadata values
  MetaDefaultWeight  \* config.MetaDefaultWeight, 100 in the code

ASSUME DefaultWeightAssumption == MetaDefaultWeight \in Nat \ {0}

\* Mutant of GetWeightByMetadata: a negative weight is taken as it is.
GetWeightByMetadataMutant(meta) ==
  IF meta \in Int THEN meta ELSE MetaDefaultWeight

GetWeightByMetadata(meta) ==
  IF meta \in Nat THEN meta ELSE MetaDefaultWeight

\* grpc.Address: equality of two addresses compares the metadata as well.
Address == [name : Backends, meta : Metas]
Addr(name, meta) == [name |-> name, meta |-> meta]

Listing == UNION {[S -> Metas] : S \in SUBSET Backends}
NoServers == [b \in {} |-> 0]

-----------------------------------------------------------------------------
(* naming.Update *)

Operations == {"Add", "Delete", "Modify"}
Update == [op : Operations, addr : Address]
Upd(op, name, meta) == [op |-> op, addr |-> Addr(name, meta)]

\* The operation for a backend that is listed.  naming.Add is the zero value
\* of the field, so a backend that was known with the same metadata yields an
\* Add as well.
ListedOp(servers, pairs, b) ==
  IF b \in DOMAIN servers /\ servers[b] # pairs[b] THEN "Modify" ELSE "Add"

\* Mutant of GetUpdate: a backend whose metadata changed is also deleted under
\* its old metadata.
GetUpdateMutant(servers, pairs) ==
  {Upd(ListedOp(servers, pairs, b), b, pairs[b]) : b \in DOMAIN pairs}
    \cup {Upd("Delete", b, servers[b]) :
            b \in {c \in DOMAIN servers : c \in DOMAIN pairs => servers[c] # pairs[c]}}

\* The updates for the listing pairs when the watcher knows servers.  The
\* deletions come after the others; within the two groups the order is that of
\* ZooKeeper's children and of a Go map, that is, any order.
GetUpdate(servers, pairs) ==
  {Upd(ListedOp(servers, pairs, b), b, pairs[b]) : b \in DOMAIN pairs}
    \cup {Upd("Delete", b, servers[b]) : b \in DOMAIN servers \ DOMAIN pairs}

\* u may be the next of the updates that are left.
MayComeNext(u, updates) ==
  /\ u \in updates
  /\ u.op = "Delete" => \A v \in updates : v.op = "Delete"
=============================================================================
