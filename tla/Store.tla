--------------------------------- MODULE Store ---------------------------------
(***************************************************************************)
(* The libkv store over ZooKeeper, as its callers use it on the keys of    *)
(* one directory: Get, List, Put, Delete, DeleteTree and the atomic        *)
(* operations, each a sequence of requests that those of other clients     *)
(* come between, and Watch.  A request is one step of the ensemble; it may *)
(* fail without having had an effect, or after it had one.                 *)
(*                                                                         *)
(* A pair holds the number of the version it was read at (LastIndex),      *)
(* which starts again at zero when a key is deleted and created.  life     *)
(* tells the incarnations of a key apart; the code does not see it.        *)
(* Contents are left out, as is the second Get of a value that is one SOH  *)
(* character.  Registration models keys with a TTL.                        *)
(***************************************************************************)
EXTENDS Naturals, FiniteSets

CONSTANTS
  Clients, Keys, NoSnapshot, NoKey,
  MaxCalls,     \* bound on the calls
  MaxFailures   \* bound on the requests that fail

ASSUME NoKeyAssumption == NoKey \notin Keys
ASSUME BoundsAssumption == MaxCalls \in Nat /\ MaxFailures \in Nat

VARIABLES
  dir,        \* the directory exists
  exists,     \* the keys that do
  version,    \* the version of each key, or of its last incarnation
  life,       \* history: its incarnations so far
  op, pc,     \* the operation each client is in, and its next request
  key,        \* the key of a Put or AtomicPut that has not ended
  todo, found,  \* of a List: the names to be read, and those read
  picked,     \* of a List: the pair the caller will keep
  snapshot,   \* the pair each client got last
  result,     \* how the last atomic operation ended
  calls, failures

nodeVars == <<dir, exists, version, life>>
opVars   == <<op, pc, key, todo, found, picked>>
storeVars == <<nodeVars, opVars, snapshot, result, calls, failures>>

Pair == [key : Keys, index : Nat, life : Nat, version : Nat, listed : BOOLEAN]

ASSUME NoSnapshotAssumption == NoSnapshot \notin Pair

PairOf(k) == [key |-> k, index |-> version[k], life |-> life[k], version |-> version[k],
              listed |-> FALSE]
\* The pair of a write, after it.
Written(k) == [key |-> k, index |-> version'[k], life |-> life'[k], version |-> version'[k],
               listed |-> FALSE]
\* Every pair of a listing holds the version of the directory, which nobody writes.
ListedPair(k) == [key |-> k, index |-> 0, life |-> life[k], version |-> version[k],
                  listed |-> TRUE]

StoreInit ==
  /\ exists \in SUBSET Keys /\ dir \in {TRUE, exists # {}}
  /\ version = [k \in Keys |-> 0] /\ life = [k \in Keys |-> 0]
  /\ op = [c \in Clients |-> "none"] /\ pc = [c \in Clients |-> "idle"]
  /\ key = [c \in Clients |-> NoKey]
  /\ todo = [c \in Clients |-> {}] /\ found = [c \in Clients |-> {}]
  /\ picked = [c \in Clients |-> NoSnapshot] /\ snapshot = [c \in Clients |-> NoSnapshot]
  /\ result = "none" /\ calls = 0 /\ failures = 0

-----------------------------------------------------------------------------
(* The ensemble *)

Unwritten == UNCHANGED nodeVars

Makes(k) ==
  /\ dir /\ k \notin exists
  /\ exists' = exists \cup {k}
  /\ version' = [version EXCEPT ![k] = 0] /\ life' = [life EXCEPT ![k] = @ + 1]
  /\ UNCHANGED dir

Sets(k) ==
  /\ k \in exists
  /\ version' = [version EXCEPT ![k] = @ + 1]
  /\ UNCHANGED <<dir, exists, life>>

Removes(K) ==
  /\ K \subseteq exists /\ exists' = exists \ K
  /\ UNCHANGED <<dir, version, life>>

\* Mutant of Matches: the request does not depend on the version.
MatchesMutant(c) == snapshot[c].key \in exists
Matches(c) == snapshot[c].key \in exists /\ version[snapshot[c].key] = snapshot[c].index

-----------------------------------------------------------------------------
(* The course of an operation *)

Called(c) == pc[c] = "idle" /\ calls < MaxCalls /\ calls' = calls + 1
At(c, o, p) == op[c] = o /\ pc[c] = p /\ UNCHANGED calls

Goes(c, o, p, k) ==
  /\ op' = [op EXCEPT ![c] = o] /\ pc' = [pc EXCEPT ![c] = p] /\ key' = [key EXCEPT ![c] = k]

Returns(c) ==
  /\ Goes(c, "none", "idle", NoKey)
  /\ todo' = [todo EXCEPT ![c] = {}] /\ found' = [found EXCEPT ![c] = {}]
  /\ picked' = [picked EXCEPT ![c] = NoSnapshot]

Stays == UNCHANGED <<todo, found, picked>>
Fails == failures < MaxFailures /\ failures' = failures + 1

\* The caller of an atomic operation gets r and perhaps a pair.
Answers(c, r, s) ==
  /\ result' = r
  /\ snapshot' = [snapshot EXCEPT ![c] = s]
  /\ UNCHANGED failures

\* A request that had its effect is answered, or its answer is lost.
AnswersOrNot(c, s) ==
  \/ Answers(c, "ok", s)
  \/ Fails /\ result' = "error" /\ UNCHANGED snapshot

\* An operation without a result that matters here.
Silent(c) == UNCHANGED <<snapshot, result>> /\ (UNCHANGED failures \/ Fails)

\* The next request of c fails and with it the operation.
RequestFails(c) ==
  /\ Called(c) \/ (pc[c] # "idle" /\ UNCHANGED calls)
  /\ op[c] = "put" => pc[c] = "setting"
  /\ Fails /\ Returns(c)
  /\ result' = IF op[c] \in {"none", "create"} THEN "error" ELSE result
  /\ Unwritten /\ UNCHANGED snapshot

-----------------------------------------------------------------------------
(* Get and Delete *)

Get(c, k) ==
  /\ Called(c) /\ k \in exists
  /\ snapshot' = [snapshot EXCEPT ![c] = PairOf(k)]
  /\ Unwritten /\ UNCHANGED <<opVars, result, failures>>

Delete(c, k) ==
  /\ Called(c) /\ k \in exists
  /\ Removes({k}) /\ Silent(c) /\ UNCHANGED opVars

\* Mutant of DeleteDirectory: the directory need not be empty.
DeleteDirectoryMutant(c) ==
  /\ Called(c) /\ dir
  /\ dir' = FALSE /\ Silent(c)
  /\ UNCHANGED <<exists, version, life, opVars>>

\* Delete on the directory itself, which must be empty.
DeleteDirectory(c) ==
  /\ Called(c) /\ dir /\ exists = {}
  /\ dir' = FALSE /\ Silent(c)
  /\ UNCHANGED <<exists, version, life, opVars>>

-----------------------------------------------------------------------------
(* Put: Exists, createFullPath when there was no key, and Set, which does   *)
(* not ask for a version.  The errors of createFullPath are ignored.        *)

PutExists(c, k) ==
  /\ Called(c)
  /\ Goes(c, "put", IF k \in exists THEN "setting" ELSE "making", k)
  /\ Stays /\ Unwritten /\ UNCHANGED <<snapshot, result, failures>>

PutMakesDirectory(c) ==
  /\ At(c, "put", "making")
  /\ \/ dir' = TRUE /\ Goes(c, "put", "creating", key[c]) /\ UNCHANGED failures
     \/ Fails /\ dir' \in {dir, TRUE} /\ Goes(c, "put", "setting", key[c])
  /\ Stays /\ UNCHANGED <<exists, version, life, snapshot, result>>

PutCreates(c) ==
  /\ At(c, "put", "creating")
  /\ Goes(c, "put", "setting", key[c])
  /\ \/ Makes(key[c]) /\ Silent(c)
     \/ (~dir \/ key[c] \in exists) /\ Unwritten /\ UNCHANGED <<snapshot, result, failures>>
     \/ Unwritten /\ Fails /\ UNCHANGED <<snapshot, result>>
  /\ Stays

PutSets(c) ==
  /\ At(c, "put", "setting")
  /\ \/ Sets(key[c]) /\ Silent(c)
     \/ key[c] \notin exists /\ Unwritten /\ UNCHANGED <<snapshot, result, failures>>
  /\ Returns(c)

-----------------------------------------------------------------------------
(* AtomicPut and AtomicDelete *)

AtomicPut(c) ==
  /\ Called(c) /\ snapshot[c] # NoSnapshot
  /\ LET k == snapshot[c].key
     IN \/ Matches(c) /\ Sets(k) /\ AnswersOrNot(c, Written(k))
        \/ ~Matches(c) /\ k \in exists /\ Unwritten /\ Answers(c, "modified", snapshot[c])
        \/ k \notin exists /\ Unwritten /\ Answers(c, "missing", snapshot[c])
  /\ UNCHANGED opVars

AtomicDelete(c) ==
  /\ Called(c) /\ snapshot[c] # NoSnapshot
  /\ LET k == snapshot[c].key
     IN \/ Matches(c) /\ Removes({k}) /\ AnswersOrNot(c, snapshot[c])
        \/ ~Matches(c) /\ k \in exists /\ Unwritten /\ Answers(c, "modified", snapshot[c])
        \/ k \notin exists /\ Unwritten /\ Answers(c, "missing", snapshot[c])
  /\ UNCHANGED opVars

\* AtomicPut without a previous pair: Create, which answers that the key exists.
\* When there is no directory, createFullPath makes it and Create is tried once
\* more.
Creates(c, k) ==
  \/ Makes(k) /\ Returns(c) /\ AnswersOrNot(c, Written(k))
  \/ k \in exists /\ Unwritten /\ Returns(c) /\ Answers(c, "exists", snapshot[c])

AtomicCreate(c, k) ==
  /\ Called(c)
  /\ \/ Creates(c, k)
     \/ ~dir /\ Unwritten /\ Goes(c, "create", "making", k) /\ Stays
             /\ UNCHANGED <<snapshot, result, failures>>

CreateMakesDirectory(c) ==
  /\ At(c, "create", "making")
  /\ dir' = TRUE /\ UNCHANGED <<exists, version, life, snapshot>>
  /\ \/ Goes(c, "create", "recreating", key[c]) /\ Stays /\ UNCHANGED <<result, failures>>
     \/ Fails /\ Returns(c) /\ result' = "error"

CreateAgain(c) ==
  /\ At(c, "create", "recreating")
  /\ \/ Creates(c, key[c])
     \/ ~dir /\ Unwritten /\ Returns(c) /\ Answers(c, "error", snapshot[c])

-----------------------------------------------------------------------------
(* List and DeleteTree                                                      *)

Children(c, o) ==
  /\ \/ Called(c) /\ o \in {"list", "tree"}
     \/ At(c, o, "relisting")
  /\ IF dir THEN /\ Goes(c, o, "reading", NoKey)
                 /\ todo' = [todo EXCEPT ![c] = exists] /\ found' = [found EXCEPT ![c] = {}]
                 /\ picked' = [picked EXCEPT ![c] = NoSnapshot]
            ELSE Returns(c)
  /\ Unwritten /\ UNCHANGED <<snapshot, result, failures>>

\* A name that is gone by now starts the listing again.
ListGet(c, k) ==
  /\ pc[c] = "reading" /\ k \in todo[c] /\ UNCHANGED calls
  /\ IF k \in exists
     THEN /\ todo' = [todo EXCEPT ![c] = @ \ {k}] /\ found' = [found EXCEPT ![c] = @ \cup {k}]
          /\ \/ UNCHANGED picked
             \/ op[c] = "list" /\ picked' = [picked EXCEPT ![c] = ListedPair(k)]
          /\ UNCHANGED <<op, pc, key>>
     ELSE Goes(c, op[c], "relisting", NoKey) /\ Stays
  /\ Unwritten /\ UNCHANGED <<snapshot, result, failures>>

ListEnds(c) ==
  /\ At(c, "list", "reading") /\ todo[c] = {}
  /\ snapshot' = [snapshot EXCEPT ![c] = IF picked[c] = NoSnapshot THEN @ ELSE picked[c]]
  /\ Returns(c) /\ Unwritten /\ UNCHANGED <<result, failures>>

\* Multi deletes all the names that were listed, or none when one is gone.
Multi(c) ==
  /\ At(c, "tree", "reading") /\ todo[c] = {}
  /\ \/ Removes(found[c]) /\ Silent(c)
     \/ ~(found[c] \subseteq exists) /\ Unwritten /\ UNCHANGED <<snapshot, result, failures>>
  /\ Returns(c)

-----------------------------------------------------------------------------
StoreNext ==
  \E c \in Clients :
    \/ \E k \in Keys : \/ Get(c, k) \/ Delete(c, k) \/ PutExists(c, k)
                       \/ AtomicCreate(c, k) \/ ListGet(c, k)
    \/ \E o \in {"list", "tree"} : Children(c, o)
    \/ DeleteDirectory(c) \/ PutMakesDirectory(c) \/ PutCreates(c) \/ PutSets(c)
    \/ AtomicPut(c) \/ AtomicDelete(c) \/ CreateMakesDirectory(c) \/ CreateAgain(c)
    \/ ListEnds(c) \/ Multi(c) \/ RequestFails(c)

-----------------------------------------------------------------------------
(* Properties *)

\* The types of the variables.
StoreTypeOK ==
  /\ dir \in BOOLEAN /\ exists \subseteq Keys /\ (exists # {} => dir)
  /\ version \in [Keys -> Nat] /\ life \in [Keys -> Nat]
  /\ op \in [Clients -> {"none", "put", "create", "list", "tree"}]
  /\ pc \in [Clients -> {"idle", "making", "creating", "setting", "recreating", "reading",
                         "relisting"}]
  /\ key \in [Clients -> Keys \cup {NoKey}]
  /\ todo \in [Clients -> SUBSET Keys] /\ found \in [Clients -> SUBSET Keys]
  /\ picked \in [Clients -> Pair \cup {NoSnapshot}]
  /\ snapshot \in [Clients -> Pair \cup {NoSnapshot}]
  /\ result \in {"none", "ok", "modified", "exists", "missing", "error"}
  /\ calls \in 0..MaxCalls /\ failures \in 0..MaxFailures

StateOf(s) ==
  IF s.key \notin exists \/ life[s.key] # s.life THEN "earlier"
  ELSE IF version[s.key] = s.version THEN "current" ELSE "changed"

Abstracted(s) ==
  IF s = NoSnapshot THEN NoSnapshot
  ELSE [key |-> s.key, state |-> StateOf(s), listed |-> s.listed]

Atomic == INSTANCE CompareAndSet
  WITH present <- exists, snapshot <- [c \in Clients |-> Abstracted(snapshot[c])]

ASSUME AbstractAssumption == NoSnapshot \notin Atomic!Snapshot

\* The requests of the atomic operations, among all the others, implement
\* CompareAndSet: a write with a pair of the present incarnation succeeds only
\* if nobody wrote since the pair was read, whatever fails or is repeated
\* (AtomicPut and AtomicDelete, zookeeper.go, lines 320-403).
ImplementsCompareAndSet == Atomic!Spec
=============================================================================
