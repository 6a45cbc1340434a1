------------------------------- MODULE MCStore -------------------------------
(* The store with a watcher and a lock, for TLC. *)
EXTENDS StoreSystem, TLC

KeysUntouched ==
  /\ op = [c \in Clients |-> "none"] /\ snapshot = [c \in Clients |-> NoSnapshot]
  /\ result = "none" /\ version = [k \in Keys |-> 0] /\ life = [k \in Keys |-> 0]

\* The lock has nodes of its own, which the other operations neither read nor write:
\* the clients use either the lock or the keys.
LockOrKeys == lastSeq = 0 \/ KeysUntouched

Symmetry == Permutations(Clients) \cup Permutations(Keys)
=============================================================================
