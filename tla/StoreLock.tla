------------------------------- MODULE StoreLock -------------------------------
(***************************************************************************)
(* NewLock, Lock and Unlock of the store, on a key of their own.  zk.Lock  *)
(* belongs to the library: a call makes an ephemeral node with the next    *)
(* number and waits until no node has a smaller one.  Lock then writes its *)
(* value to the key, for others to see who leads, and returns a channel    *)
(* that nobody closes: a client whose session expired goes on as if it had *)
(* the lock.                                                               *)
(***************************************************************************)
EXTENDS Store

CONSTANTS
  NoClient,
  MaxExpiries    \* bound on the sessions that expire

ASSUME NoClientAssumption == NoClient \notin Clients
ASSUME ExpiriesAssumption == MaxExpiries \in Nat

VARIABLES
  nodes,      \* the lock nodes, each with its number and its owner
  lastSeq,    \* the last number the ensemble gave
  mine,       \* the number of the node of each client's call or lock
  lock,       \* what each client's handle went through
  leader,     \* whose value the key has
  lapsed,     \* history: the clients whose session expired inside Lock or after
  late,       \* history: those that wrote their value after that
  expiries

queueVars == <<nodes, lastSeq, mine>>
lockVars == <<queueVars, lock, leader, lapsed, late, expiries>>

Node(seq, c) == [seq |-> seq, owner |-> c]

LockInit ==
  /\ nodes = {} /\ lastSeq = 0 /\ mine = [c \in Clients |-> 0]
  /\ lock = [c \in Clients |-> "free"] /\ leader = NoClient
  /\ lapsed = {} /\ late = {} /\ expiries = 0

Becomes(c, s) == lock' = [lock EXCEPT ![c] = s]

\* The call makes its node.  When that fails, the node may be there all the same.
LockCall(c) ==
  /\ lock[c] = "free" /\ calls < MaxCalls /\ calls' = calls + 1
  /\ lastSeq' = lastSeq + 1
  /\ \/ /\ nodes' = nodes \cup {Node(lastSeq', c)} /\ mine' = [mine EXCEPT ![c] = lastSeq']
        /\ Becomes(c, "queued") /\ UNCHANGED failures
     \/ Fails /\ nodes' \in {nodes, nodes \cup {Node(lastSeq', c)}} /\ UNCHANGED <<mine, lock>>
  /\ UNCHANGED <<leader, lapsed, late, expiries>>

LockGranted(c) ==
  /\ lock[c] = "queued" /\ \A n \in nodes : mine[c] <= n.seq
  /\ Becomes(c, "setting")
  /\ UNCHANGED <<queueVars, leader, lapsed, late, expiries, calls, failures>>

\* Mutant of LockFails: the error is dropped and Lock goes on.
LockFailsMutant(c) ==
  /\ lock[c] = "queued" /\ Fails
  /\ Becomes(c, "setting")
  /\ UNCHANGED <<queueVars, leader, lapsed, late, expiries, calls>>

\* A request of a call that waits fails: Lock returns the error and leaves the
\* node where it is, in front of those that come later.
LockFails(c) ==
  /\ lock[c] = "queued" /\ Fails
  /\ Becomes(c, "free") /\ mine' = [mine EXCEPT ![c] = 0] /\ lapsed' = lapsed \ {c}
  /\ UNCHANGED <<nodes, lastSeq, leader, late, expiries, calls>>

\* Mutant of LockSets: the value is not written.
LockSetsMutant(c) ==
  /\ lock[c] = "setting"
  /\ Becomes(c, "held")
  /\ UNCHANGED <<queueVars, leader, lapsed, late, expiries, calls, failures>>

\* Set asks for no version.  When it fails, Lock returns the error and keeps the
\* lock.
LockSets(c) ==
  /\ lock[c] = "setting"
  /\ \/ Becomes(c, "held") /\ leader' = c /\ UNCHANGED failures
     \/ Fails /\ Becomes(c, "refused") /\ leader' \in {leader, c}
  /\ late' = IF leader' = c /\ c \in lapsed THEN late \cup {c} ELSE late
  /\ UNCHANGED <<queueVars, lapsed, expiries, calls>>

\* The value is left behind.  After an error, also that there is no such node any
\* more, the handle cannot be locked again.
Unlock(c) ==
  /\ lock[c] \in {"held", "refused"} /\ calls < MaxCalls /\ calls' = calls + 1
  /\ LET own == Node(mine[c], c)
     IN \/ /\ own \in nodes /\ nodes' = nodes \ {own}
           /\ Becomes(c, "free") /\ mine' = [mine EXCEPT ![c] = 0] /\ UNCHANGED failures
        \/ own \notin nodes /\ Becomes(c, "refused") /\ UNCHANGED <<nodes, mine, failures>>
        \/ Fails /\ Becomes(c, "refused") /\ nodes' \in {nodes, nodes \ {own}} /\ UNCHANGED mine
  /\ UNCHANGED <<lastSeq, leader, lapsed, late, expiries>>

\* The nodes of the session go.  A client that waits for an answer or for a watch
\* gets an error; one between two requests of Lock goes on in the new session, and
\* one that has the lock does not notice either.
SessionExpires(c) ==
  /\ expiries < MaxExpiries /\ expiries' = expiries + 1
  /\ nodes' = {n \in nodes : n.owner # c}
  /\ \/ lock[c] = "queued" /\ Becomes(c, "free") /\ mine' = [mine EXCEPT ![c] = 0]
        /\ lapsed' = lapsed \ {c}
     \/ lock[c] # "free" /\ lapsed' = lapsed \cup {c} /\ UNCHANGED <<lock, mine>>
     \/ lock[c] = "free" /\ UNCHANGED <<lock, mine, lapsed>>
  /\ UNCHANGED <<lastSeq, leader, late, calls, failures>>

LockNext ==
  \E c \in Clients : \/ LockCall(c) \/ LockGranted(c) \/ LockFails(c) \/ LockSets(c)
                    \/ Unlock(c) \/ SessionExpires(c)

-----------------------------------------------------------------------------
LockTypeOK ==
  /\ nodes \subseteq [seq : Nat, owner : Clients] /\ lastSeq \in Nat
  /\ mine \in [Clients -> Nat]
  /\ lock \in [Clients -> {"free", "queued", "setting", "held", "refused"}]
  /\ leader \in Clients \cup {NoClient} /\ lapsed \subseteq Clients /\ late \subseteq lapsed
  /\ expiries \in 0..MaxExpiries

\* Two clients go on as if they had the lock only when the session of one expired,
\* whatever requests of Lock and Unlock fail and whatever nodes they leave behind
\* (zookeeper.go, lines 430-447).
LockExclusive ==
  \A c, d \in Clients : lock[c] = "held" /\ lock[d] = "held" /\ c # d => {c, d} \cap lapsed # {}

\* The key names the client that has the lock, unless one that lost it wrote its
\* value late (Lock's Set without a version, line 437).
LeaderKnown ==
  \A c \in Clients \ lapsed : lock[c] = "held" => leader = c \/ leader \in late
=============================================================================
