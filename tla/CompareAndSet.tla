----------------------------- MODULE CompareAndSet -----------------------------
(***************************************************************************)
(* What the atomic operations of a libkv store promise, without versions   *)
(* or requests.  A client keeps a snapshot of a key (the previous pair of  *)
(* AtomicPut and AtomicDelete).  A write with a snapshot takes effect only *)
(* if the key was not modified since; a refusal says so only if it was.    *)
(*                                                                         *)
(* Two things are granted, because the pair holds no more than a number:   *)
(* a key that was deleted since then and created again may be written, and *)
(* a snapshot that came from List may be refused at any time.              *)
(***************************************************************************)
EXTENDS FiniteSets

CONSTANTS Clients, Keys, NoSnapshot

VARIABLES
  present,    \* the keys that exist
  snapshot,   \* the snapshot of each client
  result      \* how the last atomic write ended

States == {"current", "changed", "earlier"}
Snapshot == [key : Keys, state : States, listed : BOOLEAN]
Results == {"none", "ok", "modified", "exists", "missing", "error"}

vars == <<present, snapshot, result>>

Init ==
  /\ present \in SUBSET Keys
  /\ snapshot = [c \in Clients |-> NoSnapshot]
  /\ result = "none"

\* The snapshots of the keys in K, of everybody but one client, after these keys
\* were modified, or removed.
Aged(K, but, state) ==
  [c \in Clients \ but |->
     IF snapshot[c] # NoSnapshot /\ snapshot[c].key \in K /\ snapshot[c].state # "earlier"
     THEN [snapshot[c] EXCEPT !.state = state] ELSE snapshot[c]]

Taken(k) == [key |-> k, state |-> "current", listed |-> FALSE]
Keeps(c, K, s, state) ==
  snapshot' = [d \in Clients |-> IF d = c THEN s ELSE Aged(K, {c}, state)[d]]

Read(c, k) ==
  /\ k \in present
  /\ Keeps(c, {}, Taken(k), "current")
  /\ UNCHANGED <<present, result>>

\* A listing takes time: its pairs may be out of date when it is complete.
List(c, s) ==
  /\ s.listed
  /\ s.state = "current" => s.key \in present
  /\ Keeps(c, {}, s, "current")
  /\ UNCHANGED <<present, result>>

\* Unconditional writes, whose callers learn nothing about their snapshot.
Create(k) ==
  /\ k \notin present /\ present' = present \cup {k}
  /\ UNCHANGED <<snapshot, result>>

Write(k) ==
  /\ k \in present
  /\ snapshot' = Aged({k}, {}, "changed")
  /\ UNCHANGED <<present, result>>

Remove(K) ==
  /\ K # {} /\ K \subseteq present /\ present' = present \ K
  /\ snapshot' = Aged(K, {}, "earlier")
  /\ UNCHANGED result

\* The snapshot does not stand in the way.
Admitted(c) ==
  /\ snapshot[c] # NoSnapshot /\ snapshot[c].key \in present
  /\ snapshot[c].state \in {"current", "earlier"}

AtomicPut(c) ==
  /\ Admitted(c)
  /\ \/ /\ result' = "ok"
        /\ Keeps(c, {snapshot[c].key}, Taken(snapshot[c].key), "changed")
     \/ /\ result' = "error"
        /\ snapshot' = Aged({snapshot[c].key}, {}, "changed")
  /\ UNCHANGED present

AtomicCreate(c, k) ==
  /\ k \notin present /\ present' = present \cup {k}
  /\ \/ /\ result' = "ok"
        /\ Keeps(c, {}, Taken(k), "current")
     \/ result' = "error" /\ UNCHANGED snapshot

AtomicDelete(c) ==
  /\ Admitted(c)
  /\ present' = present \ {snapshot[c].key}
  /\ snapshot' = Aged({snapshot[c].key}, {}, "earlier")
  /\ result' \in {"ok", "error"}

\* Nothing happens, for a reason that is true.
Refused(c) ==
  /\ \/ /\ snapshot[c] # NoSnapshot /\ snapshot[c].key \in present
        /\ snapshot[c].listed \/ snapshot[c].state # "current"
        /\ result' = "modified"
     \/ present # {} /\ result' = "exists"
     \/ present # Keys /\ result' = "missing"
     \/ result' = "error"
  /\ UNCHANGED <<present, snapshot>>

Next ==
  \/ \E c \in Clients :
       \/ \E s \in Snapshot : List(c, s)
       \/ AtomicPut(c) \/ AtomicDelete(c) \/ Refused(c)
       \/ \E k \in Keys : Read(c, k) \/ AtomicCreate(c, k)
  \/ \E k \in Keys : Create(k) \/ Write(k)
  \/ \E K \in SUBSET Keys : Remove(K)

Spec == Init /\ [][Next]_vars
=============================================================================
