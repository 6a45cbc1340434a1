------------------------------ MODULE StoreProofs ------------------------------
(***************************************************************************)
(* What the store guarantees for any number of clients and keys, of calls, *)
(* of failures and of expired sessions: the lock, the order in which Watch *)
(* shows values, and that the atomic operations implement CompareAndSet.   *)
(***************************************************************************)
EXTENDS StoreSystem, TLAPS

-----------------------------------------------------------------------------
(* The ensemble *)

NodeType ==
  /\ dir \in BOOLEAN /\ exists \subseteq Keys /\ (exists # {} => dir)
  /\ version \in [Keys -> Nat] /\ life \in [Keys -> Nat]

\* While a client makes a key, it knows which.
KeyInv == \A c \in Clients : pc[c] \in {"making", "creating", "setting", "recreating"} => key[c] \in Keys

\* What a step of a client does to the nodes.
NodeStep ==
  \/ UNCHANGED <<exists, version, life>> /\ (dir' \in {dir, TRUE} \/ (exists = {} /\ dir' = FALSE))
  \/ \E k \in Keys : Makes(k) \/ Sets(k)
  \/ \E K \in SUBSET Keys : Removes(K)

\* What the steps of the store do to the nodes is one request of the ensemble.
LEMMA StoreNodes ==
  ASSUME NodeType, KeyInv, StoreNext
  PROVE  NodeStep
<1> USE DEF NodeType, NodeStep, Unwritten, nodeVars
<1>1. PICK c \in Clients :
        \/ \E k \in Keys : \/ Get(c, k) \/ Delete(c, k) \/ PutExists(c, k)
                           \/ AtomicCreate(c, k) \/ ListGet(c, k)
        \/ \E o \in {"list", "tree"} : Children(c, o)
        \/ DeleteDirectory(c) \/ PutMakesDirectory(c) \/ PutCreates(c) \/ PutSets(c)
        \/ AtomicPut(c) \/ AtomicDelete(c) \/ CreateMakesDirectory(c) \/ CreateAgain(c)
        \/ ListEnds(c) \/ Multi(c) \/ RequestFails(c)
  BY DEF StoreNext
<1>2. CASE \E k \in Keys : \/ Get(c, k) \/ Delete(c, k) \/ PutExists(c, k)
                           \/ AtomicCreate(c, k) \/ ListGet(c, k)
  BY <1>2 DEF Get, Delete, PutExists, AtomicCreate, Creates, ListGet
<1>3. CASE \/ \E o \in {"list", "tree"} : Children(c, o)
           \/ ListEnds(c) \/ RequestFails(c) \/ DeleteDirectory(c) \/ CreateMakesDirectory(c)
           \/ PutMakesDirectory(c)
  BY <1>3 DEF Children, ListEnds, RequestFails, DeleteDirectory, CreateMakesDirectory, PutMakesDirectory
<1>4. CASE PutCreates(c) \/ PutSets(c) \/ CreateAgain(c)
  <2>1. key[c] \in Keys
    BY <1>4 DEF KeyInv, PutCreates, PutSets, CreateAgain, At
  <2> QED BY <1>4, <2>1 DEF PutCreates, PutSets, CreateAgain, Creates
<1>5. CASE AtomicPut(c)
  BY <1>5 DEF AtomicPut, Matches
<1>6. CASE AtomicDelete(c)
  BY <1>6 DEF AtomicDelete, Matches, Removes
<1>7. CASE Multi(c)
  BY <1>7 DEF Multi, Removes
<1> QED BY <1>1, <1>2, <1>3, <1>4, <1>5, <1>6, <1>7

\* The requests of the ensemble keep the types of the nodes.
LEMMA NodeTypeStep ==
  ASSUME NodeType, NodeStep
  PROVE  NodeType'
<1> USE DEF NodeType
<1>1. CASE UNCHANGED <<exists, version, life>> /\ (dir' \in {dir, TRUE} \/ (exists = {} /\ dir' = FALSE))
  BY <1>1
<1>2. ASSUME NEW k \in Keys, Makes(k) \/ Sets(k)
      PROVE  NodeType'
  BY <1>2 DEF Makes, Sets
<1>3. ASSUME NEW K \in SUBSET Keys, Removes(K)
      PROVE  NodeType'
  BY <1>3 DEF Removes
<1> QED BY <1>1, <1>2, <1>3 DEF NodeStep

\* Incarnations and versions only grow.
Since(k, l, v) == life[k] > l \/ (life[k] = l /\ version[k] >= v)

\* A key never goes back to an earlier incarnation, nor to an earlier version of the same one.
LEMMA Grows ==
  ASSUME NodeType, NodeStep, NEW k \in Keys, NEW l \in Nat, NEW v \in Nat, Since(k, l, v)
  PROVE  Since(k, l, v)'
<1> USE DEF NodeType, Since
<1>1. CASE UNCHANGED <<version, life>>
  BY <1>1
<1>2. ASSUME NEW h \in Keys, Makes(h)
      PROVE  Since(k, l, v)'
  <2>1. version' = [version EXCEPT ![h] = 0] /\ life' = [life EXCEPT ![h] = life[h] + 1]
    BY <1>2 DEF Makes
  <2>2. life[k] \in Nat /\ version[k] \in Nat
    OBVIOUS
  <2> QED BY <2>1, <2>2
<1>3. ASSUME NEW h \in Keys, Sets(h)
      PROVE  Since(k, l, v)'
  <2>1. version' = [version EXCEPT ![h] = version[h] + 1] /\ life' = life
    BY <1>3 DEF Sets
  <2>2. life[k] \in Nat /\ version[k] \in Nat
    OBVIOUS
  <2> QED BY <2>1, <2>2
<1> QED BY <1>1, <1>2, <1>3 DEF NodeStep, Removes

-----------------------------------------------------------------------------
(* The pairs clients hold *)

\* The key has not gone back behind a pair.
Seen(s) == Since(s.key, s.life, s.version)

\* A pair carries the version it was read at, one of a listing that of the
\* directory.
Indexed(s) == s.index = (IF s.listed THEN 0 ELSE s.version)

PairsInv ==
  \A c \in Clients :
    /\ picked[c] # NoSnapshot => picked[c] \in Pair /\ Seen(picked[c]) /\ Indexed(picked[c]) /\ picked[c].listed
    /\ snapshot[c] # NoSnapshot => snapshot[c] \in Pair /\ Seen(snapshot[c]) /\ Indexed(snapshot[c])

\* A pair that was just read in a listing.
NewListed(k) ==
  [key |-> k, index |-> 0, life |-> life'[k], version |-> version'[k], listed |-> TRUE]

\* What a pair is after the step.
After(s) == life'[s.key] > s.life \/ (life'[s.key] = s.life /\ version'[s.key] >= s.version)
Good(s) == s \in Pair /\ After(s) /\ Indexed(s)

\* The pair a read returns is one of the present.
LEMMA PairNow ==
  ASSUME NodeType', NEW k \in Keys
  PROVE  /\ Good(Written(k)) /\ Written(k).key = k
         /\ Good(NewListed(k)) /\ NewListed(k).listed
<1>1. version'[k] \in Nat /\ life'[k] \in Nat
  BY DEF NodeType
<1>2. Good(Written(k)) /\ Written(k).key = k
  BY <1>1 DEF Written, Good, Pair, After, Indexed
<1>3. Good(NewListed(k)) /\ NewListed(k).listed
  BY <1>1 DEF NewListed, Good, Pair, After, Indexed
<1> QED BY <1>2, <1>3

\* Pairs stay behind their keys.
LEMMA SeenStays ==
  ASSUME NodeType, NodeStep, NEW s \in Pair, Seen(s)
  PROVE  After(s)
<1>1. s.key \in Keys /\ s.life \in Nat /\ s.version \in Nat
  BY DEF Pair
<1>2. \A k \in Keys, l \in Nat, v \in Nat :
        Since(k, l, v) => life'[k] > l \/ (life'[k] = l /\ version'[k] >= v)
  BY Grows DEF Since
<1> QED BY <1>1, <1>2 DEF Seen, After

PairsType ==
  /\ picked \in [Clients -> Pair \cup {NoSnapshot}]
  /\ snapshot \in [Clients -> Pair \cup {NoSnapshot}]

\* A client's step gives it a pair it read, or the pick of its listing.
PairsStep(c) ==
  /\ \/ UNCHANGED snapshot
     \/ picked[c] # NoSnapshot /\ snapshot' = [snapshot EXCEPT ![c] = picked[c]]
     \/ \E k \in Keys : snapshot' = [snapshot EXCEPT ![c] = Written(k)]
  /\ \/ UNCHANGED picked
     \/ picked' = [picked EXCEPT ![c] = NoSnapshot]
     \/ \E k \in Keys : picked' = [picked EXCEPT ![c] = NewListed(k)]

\* What the steps of the store do to the pairs the clients hold, and the pair a listing has in hand.
LEMMA StorePairs ==
  ASSUME PairsType, KeyInv, StoreNext
  PROVE  \E c \in Clients : PairsStep(c)
<1> USE DEF PairsType, PairsStep, opVars, nodeVars, Stays, Returns
<1> DEFINE Kept(c) == snapshot' = [snapshot EXCEPT ![c] = snapshot[c]]
<1>1. \A c \in Clients : Kept(c) => UNCHANGED snapshot
  OBVIOUS
<1>2. PICK c \in Clients :
        \/ \E k \in Keys : \/ Get(c, k) \/ Delete(c, k) \/ PutExists(c, k)
                           \/ AtomicCreate(c, k) \/ ListGet(c, k)
        \/ \E o \in {"list", "tree"} : Children(c, o)
        \/ DeleteDirectory(c) \/ PutMakesDirectory(c) \/ PutCreates(c) \/ PutSets(c)
        \/ AtomicPut(c) \/ AtomicDelete(c) \/ CreateMakesDirectory(c) \/ CreateAgain(c)
        \/ ListEnds(c) \/ Multi(c) \/ RequestFails(c)
  BY DEF StoreNext
<1>3. ASSUME NEW k \in Keys, Creates(c, k)
      PROVE  PairsStep(c)
  BY <1>1, <1>3 DEF Creates, AnswersOrNot, Answers
<1>4. ASSUME NEW k \in Keys, Get(c, k) \/ ListGet(c, k)
      PROVE  PairsStep(c)
  <2>1. UNCHANGED <<version, life>>
    BY <1>4 DEF Get, ListGet, Unwritten
  <2>2. Written(k) = PairOf(k) /\ NewListed(k) = ListedPair(k)
    BY <2>1 DEF PairOf, ListedPair, Written, NewListed
  <2> QED BY <1>4, <2>2 DEF Get, ListGet
<1>5. ASSUME NEW k \in Keys, Delete(c, k) \/ PutExists(c, k) \/ AtomicCreate(c, k)
      PROVE  PairsStep(c)
  BY <1>3, <1>5 DEF Delete, PutExists, AtomicCreate, Silent
<1>6. CASE AtomicPut(c)
  <2>1. snapshot[c].key \in Keys /\ snapshot[c] # NoSnapshot
    BY <1>6 DEF AtomicPut, Pair
  <2> QED BY <1>1, <1>6, <2>1 DEF AtomicPut, AnswersOrNot, Answers
<1>7. CASE AtomicDelete(c)
  BY <1>1, <1>7 DEF AtomicDelete, AnswersOrNot, Answers
<1>8. CASE CreateAgain(c)
  <2>1. key[c] \in Keys
    BY <1>8 DEF KeyInv, CreateAgain, At
  <2> QED BY <1>1, <1>3, <1>8, <2>1 DEF CreateAgain, Answers
<1>9. CASE ListEnds(c)
  BY <1>1, <1>9 DEF ListEnds
<1>10. CASE \/ \E o \in {"list", "tree"} : Children(c, o)
            \/ DeleteDirectory(c) \/ PutMakesDirectory(c) \/ PutCreates(c) \/ PutSets(c)
            \/ CreateMakesDirectory(c) \/ Multi(c) \/ RequestFails(c)
  BY <1>10 DEF Children, DeleteDirectory, PutMakesDirectory, PutCreates, PutSets, CreateMakesDirectory,
     Multi, RequestFails, Silent
<1> QED BY <1>2, <1>4, <1>5, <1>6, <1>7, <1>8, <1>9, <1>10

\* Pairs are never ahead of their keys.
LEMMA PairsInvStep ==
  ASSUME NodeType, NodeStep, PairsType, PairsInv, NEW c \in Clients, PairsStep(c)
  PROVE  PairsType' /\ PairsInv'
<1>1. NodeType'
  BY NodeTypeStep
<1>2. \A k \in Keys : Written(k) \in Pair /\ NewListed(k) \in Pair
  BY <1>1, PairNow DEF Good
<1>3. PairsType'
  BY <1>2 DEF PairsType, PairsStep
<1>4. \A s \in Pair : Seen(s) /\ Indexed(s) => Good(s)
  BY SeenStays DEF Good
<1>5. \A k \in Keys : Good(Written(k)) /\ Good(NewListed(k)) /\ NewListed(k).listed
  BY <1>1, PairNow
<1>6. \A d \in Clients : snapshot'[d] # NoSnapshot => Good(snapshot'[d])
  <2>1. ASSUME NEW d \in Clients, snapshot'[d] # NoSnapshot
        PROVE  Good(snapshot'[d])
    <3>1. CASE snapshot'[d] = snapshot[d]
      BY <1>4, <2>1, <3>1 DEF PairsInv
    <3>2. CASE picked[d] # NoSnapshot /\ snapshot'[d] = picked[d]
      BY <1>4, <2>1, <3>2 DEF PairsInv
    <3>3. CASE \E k \in Keys : snapshot'[d] = Written(k)
      BY <1>5, <3>3
    <3> QED BY <3>1, <3>2, <3>3 DEF PairsStep, PairsType
  <2> QED BY <2>1
<1>7. \A d \in Clients : picked'[d] # NoSnapshot => Good(picked'[d]) /\ picked'[d].listed
  <2>1. ASSUME NEW d \in Clients, picked'[d] # NoSnapshot
        PROVE  Good(picked'[d]) /\ picked'[d].listed
    <3>1. CASE picked'[d] = picked[d]
      BY <1>4, <2>1, <3>1 DEF PairsInv
    <3>2. CASE \E k \in Keys : picked'[d] = NewListed(k)
      BY <1>5, <3>2
    <3> QED BY <2>1, <3>1, <3>2 DEF PairsStep, PairsType
  <2> QED BY <2>1
<1> QED BY <1>3, <1>6, <1>7 DEF PairsInv, Seen, Since, Indexed, Good, After

-----------------------------------------------------------------------------
(* The course of the operations *)

Ops == {"none", "put", "create", "list", "tree"}
Points == {"idle", "making", "creating", "setting", "recreating", "reading", "relisting"}
Making == {"making", "creating", "setting", "recreating"}
Answered == {"none", "ok", "modified", "exists", "missing", "error"}

OpType ==
  /\ op \in [Clients -> Ops] /\ pc \in [Clients -> Points]
  /\ key \in [Clients -> Keys \cup {NoKey}]
  /\ todo \in [Clients -> SUBSET Keys] /\ found \in [Clients -> SUBSET Keys]
  /\ result \in Answered /\ calls \in 0..MaxCalls /\ failures \in 0..MaxFailures

Counts == UNCHANGED calls \/ (calls < MaxCalls /\ calls' = calls + 1)
FailsOrNot == UNCHANGED failures \/ Fails

\* A client's step goes on with its operation, ends it or begins another.
OpStep(c) ==
  /\ \/ UNCHANGED <<op, pc, key>>
     \/ \E o \in Ops, p \in Points, k \in Keys \cup {NoKey} :
          Goes(c, o, p, k) /\ (p \in Making => k \in Keys)
  /\ UNCHANGED todo \/ \E K \in SUBSET Keys : todo' = [todo EXCEPT ![c] = K]
  /\ UNCHANGED found \/ \E K \in SUBSET Keys : found' = [found EXCEPT ![c] = K]
  /\ result' \in Answered /\ Counts /\ FailsOrNot

\* What the steps of the store do to the operations in progress.
LEMMA OpSteps ==
  ASSUME NodeType, OpType, KeyInv, StoreNext
  PROVE  \E c \in Clients : OpStep(c)
<1> USE DEF OpStep, Counts, FailsOrNot, Answered
<1>1. PICK c \in Clients :
        \/ \E k \in Keys : \/ Get(c, k) \/ Delete(c, k) \/ PutExists(c, k)
                           \/ AtomicCreate(c, k) \/ ListGet(c, k)
        \/ \E o \in {"list", "tree"} : Children(c, o)
        \/ DeleteDirectory(c) \/ PutMakesDirectory(c) \/ PutCreates(c) \/ PutSets(c)
        \/ AtomicPut(c) \/ AtomicDelete(c) \/ CreateMakesDirectory(c) \/ CreateAgain(c)
        \/ ListEnds(c) \/ Multi(c) \/ RequestFails(c)
  BY DEF StoreNext
<1>2. result \in Answered /\ op[c] \in Ops /\ todo[c] \subseteq Keys /\ found[c] \subseteq Keys
  BY DEF OpType
<1>3. pc[c] \in Making => key[c] \in Keys
  BY DEF KeyInv, Making
<1>4. Returns(c) =>
        /\ \E o \in Ops, p \in Points, k \in Keys \cup {NoKey} :
             Goes(c, o, p, k) /\ (p \in Making => k \in Keys)
        /\ \E K \in SUBSET Keys : todo' = [todo EXCEPT ![c] = K]
        /\ \E K \in SUBSET Keys : found' = [found EXCEPT ![c] = K]
  BY DEF Returns, Ops, Points, Making
<1>5. ASSUME NEW o \in Ops, NEW p \in Points, NEW k \in Keys \cup {NoKey},
             Goes(c, o, p, k), p \in Making => k \in Keys
      PROVE  \E oo \in Ops, pp \in Points, kk \in Keys \cup {NoKey} :
               Goes(c, oo, pp, kk) /\ (pp \in Making => kk \in Keys)
  BY <1>5
<1>6. ASSUME NEW k \in Keys, Get(c, k) \/ Delete(c, k)
      PROVE  OpStep(c)
  BY <1>2, <1>6 DEF Get, Delete, Called, Silent, opVars
<1>7. ASSUME NEW k \in Keys, PutExists(c, k)
      PROVE  OpStep(c)
  <2>1. \E o \in Ops, p \in Points, kk \in Keys \cup {NoKey} :
          Goes(c, o, p, kk) /\ (p \in Making => kk \in Keys)
    BY <1>7 DEF PutExists, Ops, Points, Making
  <2> QED BY <1>2, <1>7, <2>1 DEF PutExists, Called, Stays
<1>8. ASSUME NEW k \in Keys, Creates(c, k)
      PROVE  Returns(c) /\ FailsOrNot /\ result' \in Answered
  BY <1>8 DEF Creates, AnswersOrNot, Answers
<1>9. ASSUME NEW k \in Keys, AtomicCreate(c, k)
      PROVE  OpStep(c)
  <2>1. CASE Creates(c, k)
    BY <1>4, <1>8, <1>9, <2>1 DEF AtomicCreate, Called
  <2>2. CASE ~Creates(c, k)
    <3>1. \E o \in Ops, p \in Points, kk \in Keys \cup {NoKey} :
            Goes(c, o, p, kk) /\ (p \in Making => kk \in Keys)
      BY <1>9, <2>2 DEF AtomicCreate, Ops, Points, Making
    <3> QED BY <1>2, <1>9, <2>2, <3>1 DEF AtomicCreate, Called, Stays
  <2> QED BY <2>1, <2>2
<1>10. ASSUME NEW k \in Keys, ListGet(c, k)
       PROVE  OpStep(c)
  <2>1. CASE k \in exists
    <3>1. todo' = [todo EXCEPT ![c] = todo[c] \ {k}] /\ found' = [found EXCEPT ![c] = found[c] \cup {k}]
      BY <1>10, <2>1 DEF ListGet
    <3>2. todo[c] \ {k} \in SUBSET Keys /\ found[c] \cup {k} \in SUBSET Keys
      BY <1>2
    <3> QED BY <1>2, <1>10, <2>1, <3>1, <3>2 DEF ListGet
  <2>2. CASE k \notin exists
    <3>1. \E o \in Ops, p \in Points, kk \in Keys \cup {NoKey} :
            Goes(c, o, p, kk) /\ (p \in Making => kk \in Keys)
      BY <1>2, <1>10, <2>2 DEF ListGet, Points, Making
    <3> QED BY <1>2, <1>10, <2>2, <3>1 DEF ListGet, Stays
  <2> QED BY <2>1, <2>2
<1>11. ASSUME NEW o \in {"list", "tree"}, Children(c, o)
       PROVE  OpStep(c)
  <2>1. Counts
    BY <1>11 DEF Children, Called, At
  <2>2. CASE dir
    <3>1. \E oo \in Ops, p \in Points, kk \in Keys \cup {NoKey} :
            Goes(c, oo, p, kk) /\ (p \in Making => kk \in Keys)
      BY <1>11, <2>2 DEF Children, Ops, Points, Making
    <3>2. exists \in SUBSET Keys /\ {} \in SUBSET Keys
      BY DEF NodeType
    <3>3. todo' = [todo EXCEPT ![c] = exists] /\ found' = [found EXCEPT ![c] = {}]
      BY <1>11, <2>2 DEF Children
    <3> QED BY <1>2, <1>11, <2>1, <3>1, <3>2, <3>3 DEF Children
  <2>3. CASE ~dir
    BY <1>2, <1>4, <1>11, <2>1, <2>3 DEF Children
  <2> QED BY <2>2, <2>3
<1>12. CASE PutMakesDirectory(c) \/ PutCreates(c) \/ CreateMakesDirectory(c)
  <2>1. key[c] \in Keys
    BY <1>3, <1>12 DEF PutMakesDirectory, PutCreates, CreateMakesDirectory, At, Making
  <2>2. \E o \in Ops, p \in Points, kk \in Keys \cup {NoKey} :
          Goes(c, o, p, kk) /\ (p \in Making => kk \in Keys)
    BY <1>4, <1>12, <2>1 DEF PutMakesDirectory, PutCreates, CreateMakesDirectory, Ops, Points, Making
  <2> QED BY <1>2, <1>4, <1>12, <2>2 DEF PutMakesDirectory, PutCreates, CreateMakesDirectory, At, Stays,
          Silent
<1>13. CASE PutSets(c) \/ ListEnds(c) \/ Multi(c) \/ RequestFails(c)
  BY <1>2, <1>4, <1>13 DEF PutSets, ListEnds, Multi, RequestFails, At, Called, Silent
<1>14. CASE AtomicPut(c) \/ AtomicDelete(c) \/ DeleteDirectory(c)
  BY <1>2, <1>14 DEF AtomicPut, AtomicDelete, DeleteDirectory, Called, AnswersOrNot, Answers, Silent, opVars
<1>15. CASE CreateAgain(c)
  <2>1. key[c] \in Keys
    BY <1>3, <1>15 DEF CreateAgain, At, Making
  <2> QED BY <1>4, <1>8, <1>15, <2>1 DEF CreateAgain, At, Answers
<1> QED BY <1>1, <1>6, <1>7, <1>9, <1>10, <1>11, <1>12, <1>13, <1>14, <1>15

\* The operations in progress keep their types.
LEMMA OpTypeStep ==
  ASSUME OpType, KeyInv, NEW c \in Clients, OpStep(c)
  PROVE  OpType' /\ KeyInv'
<1>1. op' \in [Clients -> Ops] /\ pc' \in [Clients -> Points] /\ key' \in [Clients -> Keys \cup {NoKey}]
  BY DEF OpType, OpStep, Goes
<1>2. todo' \in [Clients -> SUBSET Keys] /\ found' \in [Clients -> SUBSET Keys]
  BY DEF OpType, OpStep
<1>3. calls' \in 0..MaxCalls /\ failures' \in 0..MaxFailures
  BY BoundsAssumption DEF OpType, OpStep, Counts, FailsOrNot, Fails
<1>4. KeyInv'
  BY DEF OpType, OpStep, Goes, KeyInv, Making
<1> QED BY <1>1, <1>2, <1>3, <1>4 DEF OpType, OpStep

-----------------------------------------------------------------------------
(* The store alone *)

StoreInv == NodeType /\ OpType /\ KeyInv /\ PairsType /\ PairsInv

\* The store starts in its invariant.
LEMMA StoreInvInit == StoreInit => StoreInv
<1> SUFFICES ASSUME StoreInit PROVE StoreInv
  OBVIOUS
<1>1. NodeType
  BY DEF StoreInit, NodeType
<1>2. OpType
  BY BoundsAssumption DEF StoreInit, OpType, Ops, Points, Answered
<1> QED BY <1>1, <1>2 DEF StoreInit, StoreInv, KeyInv, PairsType, PairsInv

\* The operations of the store keep its invariant.
LEMMA StoreInvStep ==
  ASSUME StoreInv, StoreNext
  PROVE  StoreInv' /\ NodeStep
<1>1. NodeStep /\ NodeType'
  BY StoreNodes, NodeTypeStep DEF StoreInv
<1>2. OpType' /\ KeyInv'
  BY OpSteps, OpTypeStep DEF StoreInv
<1>3. PairsType' /\ PairsInv'
  BY <1>1, StorePairs, PairsInvStep DEF StoreInv
<1> QED BY <1>1, <1>2, <1>3 DEF StoreInv

\* Steps of the goroutine of Watch and of Lock.
Elsewhere == UNCHANGED <<nodeVars, opVars, snapshot, result>> /\ Counts /\ FailsOrNot

\* Steps of Watch and of the lock that touch no node, pair or operation keep it too.
LEMMA StoreInvElsewhere ==
  ASSUME StoreInv, Elsewhere
  PROVE  StoreInv'
<1>1. calls' \in 0..MaxCalls /\ failures' \in 0..MaxFailures
  BY BoundsAssumption DEF StoreInv, OpType, Elsewhere, Counts, FailsOrNot, Fails
<1>2. NodeType' /\ OpType' /\ KeyInv'
  BY <1>1 DEF StoreInv, Elsewhere, NodeType, OpType, KeyInv, nodeVars, opVars
<1>3. PairsType' /\ PairsInv'
  BY DEF StoreInv, Elsewhere, PairsType, PairsInv, Seen, Since, Indexed, nodeVars, opVars
<1> QED BY <1>2, <1>3 DEF StoreInv

-----------------------------------------------------------------------------
(* Watch *)

\* The key was written after a pair of it.
Behind(s) == Since(s.key, s.life, s.version + 1)

WatchInv ==
  /\ WatchTypeOK /\ (watch # "off" => watched \in Keys)
  /\ watch = "off" => shown = NoSnapshot
  /\ watch = "sending" =>
       /\ taken \in Pair /\ taken.key = watched /\ Seen(taken)
       /\ shown = NoSnapshot \/ Newer(taken, shown)
  /\ watch \in {"arming", "waiting", "reading"} =>
       shown = taken /\ shown \in Pair /\ shown.key = watched /\ Seen(shown)
  /\ watch = "reading" \/ (watch = "waiting" /\ event = "changed") => Behind(shown)

\* Pairs that are behind stay so.
LEMMA BehindStays ==
  ASSUME NodeType, NodeStep, NEW s \in Pair
  PROVE  /\ Seen(s) => After(s)
         /\ Behind(s) => life'[s.key] > s.life \/ (life'[s.key] = s.life /\ version'[s.key] >= s.version + 1)
<1>1. s.key \in Keys /\ s.life \in Nat /\ s.version \in Nat /\ s.version + 1 \in Nat
  BY DEF Pair
<1>2. \A k \in Keys, l \in Nat, v \in Nat :
        Since(k, l, v) => life'[k] > l \/ (life'[k] = l /\ version'[k] >= v)
  BY Grows DEF Since
<1> QED BY <1>1, <1>2 DEF Seen, Behind, After

\* A write of a key leaves the pairs of it behind.
LEMMA WrittenLeavesBehind ==
  ASSUME NodeType, NodeStep, NEW s \in Pair, Seen(s), version'[s.key] # version[s.key], s.key \in exists'
  PROVE  life'[s.key] > s.life \/ (life'[s.key] = s.life /\ version'[s.key] >= s.version + 1)
<1>1. s.key \in Keys /\ s.life \in Nat /\ s.version \in Nat
  BY DEF Pair
<1>2. life[s.key] \in Nat /\ version[s.key] \in Nat
  BY <1>1 DEF NodeType
<1>3. life[s.key] > s.life \/ (life[s.key] = s.life /\ version[s.key] >= s.version)
  BY DEF Seen, Since
<1>4. ASSUME NEW k \in Keys, Makes(k)
      PROVE  life'[s.key] = life[s.key] + 1
  BY <1>1, <1>4 DEF Makes, NodeType
<1>5. ASSUME NEW k \in Keys, Sets(k)
      PROVE  life'[s.key] = life[s.key] /\ version'[s.key] = version[s.key] + 1
  BY <1>1, <1>5 DEF Sets, NodeType
<1>6. \E k \in Keys : Makes(k) \/ Sets(k)
  BY DEF NodeStep, Removes
<1>7. life'[s.key] = life[s.key] + 1 \/ (life'[s.key] = life[s.key] /\ version'[s.key] = version[s.key] + 1)
  BY <1>4, <1>5, <1>6
<1> QED BY <1>1, <1>2, <1>3, <1>7

\* What the goroutine of Watch knows stays true while others write.
LEMMA WatchMeanwhile ==
  ASSUME NodeType, NodeStep, WatchInv, Fires
  PROVE  WatchInv'
<1> USE DEF Fires
<1>1. UNCHANGED <<watch, watched, taken, shown>>
  OBVIOUS
<1>2. event' \in {"none", "changed", "deleted"}
  BY DEF WatchInv, WatchTypeOK
<1>3. (WatchTypeOK /\ (watch # "off" => watched \in Keys))'
  BY <1>1, <1>2 DEF WatchInv, WatchTypeOK
<1>4. watch = "sending" => taken \in Pair /\ After(taken)
  BY BehindStays DEF WatchInv
<1>5. watch \in {"arming", "waiting", "reading"} => shown \in Pair /\ After(shown)
  BY BehindStays DEF WatchInv
<1>6. watch = "reading" \/ (watch = "waiting" /\ event' = "changed") =>
        life'[shown.key] > shown.life \/ (life'[shown.key] = shown.life /\ version'[shown.key] >= shown.version + 1)
  <2>1. CASE watch = "reading" \/ (watch = "waiting" /\ event = "changed")
    BY <2>1, BehindStays DEF WatchInv
  <2>2. CASE watch = "waiting" /\ event # "changed" /\ event' = "changed"
    BY <2>2, WrittenLeavesBehind DEF WatchInv
  <2> QED BY <2>1, <2>2
<1> QED BY <1>1, <1>3, <1>4, <1>5, <1>6 DEF WatchInv, Seen, Since, Behind, After, Newer

\* The steps of the goroutine of Watch keep its invariant.
LEMMA WatchStep ==
  ASSUME NodeType, WatchInv, WatchNext
  PROVE  WatchInv' /\ Elsewhere
<1> USE DEF WatchUntouched, Unwritten, nodeVars, opVars, WatchCalls, Elsewhere, Counts, FailsOrNot
<1>1. UNCHANGED <<nodeVars, opVars, snapshot, result>>
  BY DEF WatchNext, Watch, WatchSends, WatchSets, WatchWakes, WatchReads, WatchStops
<1>2. \A k \in Keys : PairOf(k) \in Pair /\ PairOf(k).key = k /\ Seen(PairOf(k))
  BY DEF NodeType, PairOf, Pair, Seen, Since
<1>3. ASSUME NEW k \in Keys, Watch(k)
      PROVE  WatchInv' /\ Elsewhere
  BY <1>1, <1>2, <1>3 DEF Watch, WatchInv, WatchTypeOK, Seen, Since
<1>4. CASE WatchSends
  BY <1>1, <1>4 DEF WatchSends, WatchInv, WatchTypeOK, Seen, Since
<1>5. CASE WatchSets
  BY <1>1, <1>5 DEF WatchSets, WatchInv, WatchTypeOK, Seen, Since
<1>6. CASE WatchWakes
  BY <1>1, <1>6 DEF WatchWakes, WatchInv, WatchTypeOK, Seen, Since, Behind
<1>7. CASE WatchReads
  <2>1. CASE watch' = "sending"
    <3>1. Newer(PairOf(watched), shown)
      BY <1>7, <2>1 DEF WatchReads, WatchInv, Behind, Since, Newer, PairOf, Pair, NodeType
    <3> QED BY <1>1, <1>2, <1>7, <2>1, <3>1 DEF WatchReads, WatchInv, WatchTypeOK, Seen, Since, Newer
  <2>2. CASE watch' = "arming"
    BY <1>1, <1>7, <2>2 DEF WatchReads, WatchInv, WatchTypeOK, Seen, Since
  <2> QED BY <1>7, <2>1, <2>2 DEF WatchReads
<1>8. CASE WatchStops
  BY <1>1, <1>8 DEF WatchStops, WatchInv, WatchTypeOK
<1> QED BY <1>3, <1>4, <1>5, <1>6, <1>7, <1>8 DEF WatchNext

-----------------------------------------------------------------------------
(* The lock *)

\* No number is given twice.  Who waits or has the lock still has its node unless its
\* session expired, and who has the lock has the first one.
LockInv ==
  /\ LockTypeOK
  /\ \A m, n \in nodes : m.seq = n.seq => m = n
  /\ \A n \in nodes : n.seq <= lastSeq
  /\ \A c \in Clients : mine[c] <= lastSeq
  /\ \A c \in lapsed : lock[c] # "free" /\ \A n \in nodes : n.owner # c
  /\ \A c \in late : lock[c] \in {"held", "refused"}
  /\ \A c \in Clients \ lapsed : lock[c] \in {"queued", "setting", "held"} => Node(mine[c], c) \in nodes
  /\ \A c \in Clients \ lapsed :
       lock[c] \in {"setting", "held"} => \A n \in nodes : mine[c] <= n.seq
  /\ \A c \in Clients \ lapsed : lock[c] = "held" => leader = c \/ leader \in late

\* Of the clients that did not lose their session, one has the first node.
LEMMA OneFirst ==
  ASSUME LockInv, NEW c \in Clients \ lapsed, NEW d \in Clients \ lapsed,
         lock[c] \in {"setting", "held"}, lock[d] \in {"setting", "held"}
  PROVE  c = d
<1>1. Node(mine[c], c) \in nodes /\ Node(mine[d], d) \in nodes
  BY DEF LockInv
<1>2. mine[c] <= Node(mine[d], d).seq /\ mine[d] <= Node(mine[c], c).seq
  BY <1>1 DEF LockInv
<1>3. mine[c] = mine[d]
  BY <1>2 DEF LockInv, LockTypeOK, Node
<1>4. Node(mine[c], c) = Node(mine[d], d)
  BY <1>1, <1>3 DEF LockInv, Node
<1> QED BY <1>4 DEF Node

\* A client that leaves Lock, or loses the lock, takes nodes of its own away and
\* disturbs no other.
LEMMA OthersStay ==
  ASSUME LockInv, NEW c \in Clients, UNCHANGED <<lastSeq, leader, late>>,
         expiries' \in 0..MaxExpiries,
         nodes' \subseteq nodes, \A n \in nodes : n.owner # c => n \in nodes',
         lock' \in [Clients -> {"free", "queued", "setting", "held", "refused"}],
         \A d \in Clients \ {c} : lock'[d] = lock[d] /\ mine'[d] = mine[d],
         mine' \in [Clients -> Nat], mine'[c] \in {0, mine[c]},
         \/ /\ lapsed' = lapsed \cup {c} /\ lock'[c] = lock[c] /\ lock[c] # "free"
            /\ \A n \in nodes' : n.owner # c
         \/ lapsed' = lapsed \ {c} /\ c \notin late /\ lock'[c] = "free"
         \/ lapsed' = lapsed /\ lock[c] \in {"held", "refused"} /\ lock'[c] = "refused"
  PROVE  LockInv'
<1> USE DEF LockInv, LockTypeOK
<1>1. nodes' \subseteq [seq : Nat, owner : Clients]
  OBVIOUS
<1>2. /\ \A d \in Clients \ {c} : d \in lapsed' <=> d \in lapsed
      /\ lapsed' \subseteq Clients /\ late' \subseteq lapsed'
  OBVIOUS
<1>3. LockTypeOK'
  BY <1>1, <1>2
<1>4. /\ \A m, n \in nodes' : m.seq = n.seq => m = n
      /\ \A n \in nodes' : n.seq <= lastSeq'
  OBVIOUS
<1>5. \A d \in Clients : mine'[d] <= lastSeq'
  OBVIOUS
<1>6. \A d \in lapsed' : lock'[d] # "free" /\ \A n \in nodes' : n.owner # d
  <2> TAKE d \in lapsed'
  <2>1. CASE d # c
    BY <1>2, <2>1
  <2>2. CASE d = c
    BY <2>2
  <2> QED BY <2>1, <2>2
<1>7. \A d \in late' : lock'[d] \in {"held", "refused"}
  OBVIOUS
<1>8. \A d \in Clients \ lapsed' :
        lock'[d] \in {"queued", "setting", "held"} => d # c /\ d \in Clients \ lapsed
  BY <1>2
<1>9. \A d \in Clients \ lapsed' :
        lock'[d] \in {"queued", "setting", "held"} => (Node(mine[d], d) \in nodes)'
  <2> SUFFICES ASSUME NEW d \in Clients \ lapsed', lock'[d] \in {"queued", "setting", "held"}
               PROVE  Node(mine'[d], d) \in nodes'
    BY DEF Node
  <2>1. d \in Clients \ lapsed /\ d # c
    BY <1>8
  <2>2. Node(mine[d], d) \in nodes
    BY <2>1
  <2>3. Node(mine[d], d).owner # c
    BY <2>1 DEF Node
  <2> QED BY <2>1, <2>2, <2>3
<1>10. \A d \in Clients \ lapsed' :
         lock'[d] \in {"setting", "held"} => \A n \in nodes' : mine'[d] <= n.seq
  BY <1>8
<1>11. \A d \in Clients \ lapsed' : lock'[d] = "held" => leader' = d \/ leader' \in late'
  BY <1>8
<1> HIDE DEF LockTypeOK
<1> QED BY <1>3, <1>4, <1>5, <1>6, <1>7, <1>9, <1>10, <1>11

\* The steps of Lock, Unlock and the expiry keep the invariant of the lock.
LEMMA LockStep ==
  ASSUME LockInv, LockNext
  PROVE  LockInv' /\ Counts /\ FailsOrNot
<1> USE DEF LockInv, LockTypeOK, Becomes, Counts, FailsOrNot, queueVars
<1>1. ASSUME NEW c \in Clients, LockCall(c)
      PROVE  LockInv' /\ Counts /\ FailsOrNot
  <2> USE DEF LockCall, Fails
  <2>1. /\ lock[c] = "free" /\ lastSeq' = lastSeq + 1 /\ UNCHANGED <<leader, lapsed, late, expiries>>
        /\ c \notin lapsed
    BY <1>1
  <2>2. Node(lastSeq + 1, c) \in [seq : Nat, owner : Clients]
    BY DEF Node
  <2>3. nodes' \in {nodes, nodes \cup {Node(lastSeq + 1, c)}}
    BY <1>1
  <2>4. /\ \A m, n \in nodes' : m.seq = n.seq => m = n
        /\ \A n \in nodes' : n.seq <= lastSeq'
        /\ nodes' \subseteq [seq : Nat, owner : Clients]
    <3>1. \A n \in nodes : n.seq \in Nat /\ n.seq <= lastSeq
      OBVIOUS
    <3>2. Node(lastSeq + 1, c).seq = lastSeq + 1
      BY DEF Node
    <3>3. lastSeq \in Nat
      OBVIOUS
    <3>4. \A n \in nodes : n.seq # lastSeq + 1 /\ n.seq <= lastSeq + 1
      BY <3>1, <3>3
    <3>5. \A n \in nodes' : n.seq <= lastSeq'
      BY <2>1, <2>3, <3>2, <3>3, <3>4
    <3>6. \A m, n \in nodes' : m.seq = n.seq => m = n
      BY <2>3, <3>2, <3>4
    <3> QED BY <2>2, <2>3, <3>5, <3>6
  <2>5. \A n \in nodes' : n \in nodes \/ (n.owner = c /\ n.seq = lastSeq + 1)
    BY <2>3 DEF Node
  <2>6. CASE UNCHANGED <<mine, lock>>
    <3>1. \A d \in Clients : mine[d] <= lastSeq + 1
      OBVIOUS
    <3>2. \A d \in Clients \ lapsed :
            lock[d] \in {"setting", "held"} => \A n \in nodes' : mine[d] <= n.seq
      BY <2>5, <3>1
    <3>3. \A d \in lapsed : lock[d] # "free" /\ \A n \in nodes' : n.owner # d
      BY <2>1, <2>5
    <3>4. \A d \in Clients \ lapsed :
            lock[d] \in {"queued", "setting", "held"} => (Node(mine[d], d) \in nodes)'
      BY <2>3, <2>6 DEF Node
    <3>5. Counts /\ FailsOrNot
      BY <1>1
    <3> QED BY <2>1, <2>4, <2>6, <3>1, <3>2, <3>3, <3>4, <3>5
  <2>7. CASE /\ nodes' = nodes \cup {Node(lastSeq + 1, c)} /\ mine' = [mine EXCEPT ![c] = lastSeq + 1]
             /\ lock' = [lock EXCEPT ![c] = "queued"]
    <3>1. \A d \in Clients : mine'[d] <= lastSeq + 1
      BY <2>7
    <3>2. \A d \in Clients \ lapsed :
            lock'[d] \in {"setting", "held"} => \A n \in nodes' : mine'[d] <= n.seq
      <4> SUFFICES ASSUME NEW d \in Clients \ lapsed, lock'[d] \in {"setting", "held"}, NEW n \in nodes'
                   PROVE  mine'[d] <= n.seq
        OBVIOUS
      <4>1. d # c /\ mine'[d] = mine[d] /\ lock[d] \in {"setting", "held"}
        BY <2>7
      <4>2. n \in nodes => mine[d] <= n.seq
        BY <4>1
      <4>3. n \notin nodes => mine'[d] <= n.seq
        BY <2>5, <3>1
      <4> QED BY <4>1, <4>2, <4>3
    <3>3. \A d \in lapsed : lock'[d] # "free" /\ \A n \in nodes' : n.owner # d
      BY <2>1, <2>5, <2>7
    <3>4. \A d \in Clients \ lapsed :
            lock'[d] \in {"queued", "setting", "held"} => (Node(mine[d], d) \in nodes)'
      BY <2>7 DEF Node
    <3>5. Counts /\ FailsOrNot
      BY <1>1
    <3>6. \A d \in late' : lock'[d] \in {"held", "refused"}
      BY <2>1, <2>7
    <3>7. \A d \in Clients \ lapsed : lock'[d] = "held" => lock[d] = "held"
      BY <2>7
    <3>8. /\ lock' \in [Clients -> {"free", "queued", "setting", "held", "refused"}]
          /\ mine' \in [Clients -> Nat] /\ lastSeq' \in Nat
      BY <2>1, <2>7
    <3> QED BY <2>1, <2>4, <3>1, <3>2, <3>3, <3>4, <3>5, <3>6, <3>7, <3>8
  <2> QED BY <1>1, <2>6, <2>7
<1>2. ASSUME NEW c \in Clients, LockGranted(c)
      PROVE  LockInv' /\ Counts /\ FailsOrNot
  BY <1>2 DEF LockGranted, Node
<1>3. ASSUME NEW c \in Clients, LockFails(c)
      PROVE  LockInv' /\ Counts /\ FailsOrNot
  <2> USE DEF LockFails, Fails
  <2>1. c \notin late
    BY <1>3
  <2>2. mine' \in [Clients -> Nat]
    BY <1>3
  <2>3. lock' \in [Clients -> {"free", "queued", "setting", "held", "refused"}]
    BY <1>3
  <2>4. LockInv'
    BY <1>3, <2>1, <2>2, <2>3, OthersStay
  <2> QED BY <1>3, <2>4
<1>4. ASSUME NEW c \in Clients, LockSets(c)
      PROVE  LockInv' /\ Counts /\ FailsOrNot
  <2> USE DEF LockSets, Fails
  <2>1. /\ UNCHANGED <<queueVars, lapsed, expiries>> /\ leader' \in {leader, c}
        /\ late \subseteq late' /\ late' \subseteq late \cup {c} /\ late' \subseteq lapsed
    BY <1>4
  <2>2. leader' = c /\ c \in lapsed => leader' \in late'
    BY <1>4
  <2>3. \A d \in Clients : d # c => lock'[d] = lock[d]
    BY <1>4
  <2>4. lock'[c] \in {"held", "refused"} /\ (lock'[c] = "held" => leader' = c) /\ lock[c] = "setting"
    BY <1>4
  <2>5. lock' \in [Clients -> {"free", "queued", "setting", "held", "refused"}]
    BY <1>4
  <2>6. \A d \in Clients \ lapsed : lock'[d] = "held" => leader' = d \/ leader' \in late'
    <3> SUFFICES ASSUME NEW d \in Clients \ lapsed, lock'[d] = "held", leader' = c, c \notin lapsed, d # c
                 PROVE  FALSE
      BY <2>1, <2>2, <2>3, <2>4
    <3>1. lock[d] = "held"
      BY <2>3
    <3> QED BY <2>4, <3>1, OneFirst
  <2>7. LockTypeOK'
    BY <2>1, <2>5
  <2>8. /\ \A d \in lapsed' : lock'[d] # "free" /\ \A n \in nodes' : n.owner # d
        /\ \A d \in late' : lock'[d] \in {"held", "refused"}
    BY <2>1, <2>3, <2>4
  <2>9. \A d \in Clients \ lapsed' :
          lock'[d] \in {"queued", "setting", "held"} => (Node(mine[d], d) \in nodes)'
    BY <2>1, <2>3, <2>4 DEF Node
  <2>10. \A d \in Clients \ lapsed' :
           lock'[d] \in {"setting", "held"} => \A n \in nodes' : mine'[d] <= n.seq
    BY <2>1, <2>3, <2>4
  <2>11. Counts /\ FailsOrNot
    BY <1>4
  <2> HIDE DEF LockTypeOK, LockSets
  <2> QED BY <2>1, <2>6, <2>7, <2>8, <2>9, <2>10, <2>11
<1>5. ASSUME NEW c \in Clients, Unlock(c)
      PROVE  LockInv' /\ Counts /\ FailsOrNot
  <2> USE DEF Unlock, Fails
  <2>1. Counts /\ FailsOrNot
    BY <1>5
  <2>2. /\ lock' \in [Clients -> {"free", "queued", "setting", "held", "refused"}]
        /\ mine' \in [Clients -> Nat] /\ mine'[c] \in {0, mine[c]}
    BY <1>5
  <2>3. \A d \in Clients \ {c} : lock'[d] = lock[d] /\ mine'[d] = mine[d]
    BY <1>5
  <2>4. nodes' \subseteq nodes /\ \A n \in nodes : n.owner # c => n \in nodes'
    BY <1>5 DEF Node
  <2>5. \/ lapsed' = lapsed \ {c} /\ c \notin late /\ lock'[c] = "free"
        \/ lapsed' = lapsed /\ lock[c] \in {"held", "refused"} /\ lock'[c] = "refused"
    <3>1. Node(mine[c], c) \in nodes => c \notin lapsed
      BY DEF Node
    <3> QED BY <1>5, <3>1
  <2>6. UNCHANGED <<lastSeq, leader, late, expiries>> /\ expiries' \in 0..MaxExpiries
    BY <1>5
  <2>7. LockInv'
    BY <2>2, <2>3, <2>4, <2>5, <2>6, OthersStay
  <2> QED BY <2>1, <2>7
<1>6. ASSUME NEW c \in Clients, SessionExpires(c)
      PROVE  LockInv' /\ Counts /\ FailsOrNot
  <2> USE DEF SessionExpires
  <2>1. expiries' \in 0..MaxExpiries /\ UNCHANGED <<lastSeq, leader, late>>
    BY <1>6, ExpiriesAssumption
  <2>2. /\ lock' \in [Clients -> {"free", "queued", "setting", "held", "refused"}]
        /\ mine' \in [Clients -> Nat] /\ mine'[c] \in {0, mine[c]}
    BY <1>6
  <2>3. \A d \in Clients \ {c} : lock'[d] = lock[d] /\ mine'[d] = mine[d]
    BY <1>6
  <2>4. /\ nodes' \subseteq nodes /\ \A n \in nodes : n.owner # c => n \in nodes'
        /\ \A n \in nodes' : n.owner # c
    BY <1>6
  <2>5. \/ lapsed' = lapsed \cup {c} /\ lock'[c] = lock[c] /\ lock[c] # "free"
        \/ lapsed' = lapsed \ {c} /\ c \notin late /\ lock'[c] = "free"
    BY <1>6
  <2>6. LockInv'
    BY <2>1, <2>2, <2>3, <2>4, <2>5, OthersStay
  <2> QED BY <1>6, <2>6
<1> QED BY <1>1, <1>2, <1>3, <1>4, <1>5, <1>6 DEF LockNext

-----------------------------------------------------------------------------
(* The store as a whole *)

Inv == StoreInv /\ WatchInv /\ LockInv

\* The composition starts in its invariant.
LEMMA InvInit == Init => Inv
<1> SUFFICES ASSUME Init PROVE Inv
  OBVIOUS
<1>1. StoreInv
  BY StoreInvInit DEF Init
<1>2. WatchInv
  BY DEF Init, WatchInit, WatchInv, WatchTypeOK
<1>3. LockInv
  BY ExpiriesAssumption DEF Init, LockInit, LockInv, LockTypeOK
<1> QED BY <1>1, <1>2, <1>3 DEF Inv

\* The steps of the store and of Watch leave the lock alone.
LEMMA LockMeanwhile ==
  ASSUME LockInv, UNCHANGED lockVars
  PROVE  LockInv'
BY DEF LockInv, LockTypeOK, lockVars, queueVars, Node

\* Every step of the composition keeps its invariant.
LEMMA InvStep == Inv /\ [Next]_vars => Inv'
<1> SUFFICES ASSUME Inv, [Next]_vars PROVE Inv'
  OBVIOUS
<1> USE DEF Inv
<1>1. CASE StoreNext /\ Fires /\ UNCHANGED lockVars
  BY <1>1, StoreInvStep, WatchMeanwhile, LockMeanwhile DEF StoreInv
<1>2. CASE WatchNext /\ UNCHANGED lockVars
  BY <1>2, WatchStep, StoreInvElsewhere, LockMeanwhile DEF StoreInv
<1>3. CASE LockNext /\ UNCHANGED <<nodeVars, opVars, snapshot, result, watchVars>>
  <2>1. LockInv' /\ Elsewhere
    BY <1>3, LockStep DEF Elsewhere
  <2>2. WatchInv'
    BY <1>3 DEF WatchInv, WatchTypeOK, Seen, Since, Behind, watchVars, nodeVars
  <2> QED BY <2>1, <2>2, StoreInvElsewhere
<1>4. CASE UNCHANGED vars
  <2>1. StoreInv'
    BY <1>4, StoreInvElsewhere DEF Elsewhere, Counts, FailsOrNot, vars, storeVars
  <2>2. WatchInv'
    BY <1>4 DEF WatchInv, WatchTypeOK, Seen, Since, Behind, vars, storeVars, watchVars, nodeVars
  <2> QED BY <1>4, <2>1, <2>2, LockMeanwhile DEF vars
<1> QED BY <1>1, <1>2, <1>3, <1>4 DEF Next

\* The invariant always holds.
LEMMA InvHolds == Spec => []Inv
BY InvInit, InvStep, PTL DEF Spec

\* The variables of the store, of the goroutine of Watch and of the lock keep
\* their types, and there is no key without the directory (zookeeper.go).
THEOREM StoreTypes == Spec => []TypeOK
<1>1. Inv => TypeOK
  BY DEF Inv, StoreInv, NodeType, OpType, Ops, Points, Answered, PairsType, WatchInv, LockInv, TypeOK,
     StoreTypeOK
<1> QED BY <1>1, InvHolds, PTL

\* Two clients go on as if they had the lock only when the session of one
\* expired, whatever requests of Lock and Unlock fail and whatever nodes they
\* leave behind (zookeeper.go, lines 430-447).
THEOREM LockIsExclusive == Spec => []LockExclusive
<1>1. LockInv => LockExclusive
  BY OneFirst DEF LockExclusive
<1> QED BY <1>1, InvHolds, PTL DEF Inv

\* The key names the client that has the lock, unless one that lost it wrote its
\* value late (Lock, zookeeper.go, lines 430-440).
THEOREM LeaderIsKnown == Spec => []LeaderKnown
<1>1. LockInv => LeaderKnown
  BY DEF LockInv, LeaderKnown
<1> QED BY <1>1, InvHolds, PTL DEF Inv

\* The reader of Watch gets each value of the key at most once, and in the order
\* they were written, also across a deletion (Watch, zookeeper.go, lines
\* 188-223).
THEOREM WatchKeepsOrder == Spec => WatchInOrder
<1>1. Inv /\ [Next]_vars =>
        [watch = "sending" /\ watch' # watch => shown = NoSnapshot \/ Newer(shown', shown)]_<<shown, watch>>
  <2> SUFFICES ASSUME Inv, [Next]_vars, watch = "sending", watch' # watch
               PROVE  shown = NoSnapshot \/ Newer(shown', shown)
    OBVIOUS
  <2>1. WatchNext
    BY DEF Next, Fires, vars, watchVars
  <2>2. shown' = taken
    BY <2>1 DEF WatchNext, Watch, WatchSends, WatchSets, WatchWakes, WatchReads, WatchStops
  <2> QED BY <2>2 DEF Inv, WatchInv
<1> QED BY <1>1, InvHolds, PTL DEF Spec, WatchInOrder

-----------------------------------------------------------------------------
(* The store implements CompareAndSet *)

Abs == [c \in Clients |-> Abstracted(snapshot[c])]

\* What a pair stands for after the step.
NewState(s) ==
  IF s.key \notin exists' \/ life'[s.key] # s.life THEN "earlier"
  ELSE IF version'[s.key] = s.version THEN "current" ELSE "changed"

NewAbstracted(s) ==
  IF s = NoSnapshot THEN NoSnapshot
  ELSE [key |-> s.key, state |-> NewState(s), listed |-> s.listed]

\* What it stands for when the keys in K were modified or removed.
Turned(s, K, state) ==
  IF s # NoSnapshot /\ s.key \in K /\ StateOf(s) # "earlier"
  THEN [key |-> s.key, state |-> state, listed |-> s.listed] ELSE Abstracted(s)

\* The snapshots of the abstraction after a step.
LEMMA NewAbs == Abs' = [c \in Clients |-> NewAbstracted(snapshot'[c])]
BY DEF Abs, Abstracted, StateOf, NewAbstracted, NewState

\* A snapshot of the abstraction is none only when there is no pair.
LEMMA AbstractedType ==
  ASSUME NEW s \in Pair
  PROVE  Abstracted(s) \in Atomic!Snapshot /\ Abstracted(s) # NoSnapshot
<1>1. s # NoSnapshot
  BY NoSnapshotAssumption
<1>2. s.key \in Keys /\ s.listed \in BOOLEAN /\ StateOf(s) \in {"current", "changed", "earlier"}
  BY DEF Pair, StateOf
<1>3. Abstracted(s) \in Atomic!Snapshot
  BY <1>1, <1>2 DEF Abstracted, Atomic!Snapshot, Atomic!States
<1> QED BY <1>3, AbstractAssumption

\* How the abstraction ages one snapshot, in terms of its pair.
LEMMA AgedIs ==
  ASSUME PairsType, NEW K, NEW but, NEW state, NEW c \in Clients \ but
  PROVE  Atomic!Aged(K, but, state)[c] = Turned(snapshot[c], K, state)
<1>1. Atomic!Aged(K, but, state)[c] =
        IF Abs[c] # NoSnapshot /\ Abs[c].key \in K /\ Abs[c].state # "earlier"
        THEN [Abs[c] EXCEPT !.state = state] ELSE Abs[c]
  BY DEF Atomic!Aged, Abs
<1>2. CASE snapshot[c] = NoSnapshot
  BY <1>1, <1>2 DEF Turned, Abs, Abstracted
<1>3. CASE snapshot[c] # NoSnapshot
  <2>1. snapshot[c] \in Pair
    BY <1>3 DEF PairsType
  <2>2. Abs[c] = [key |-> snapshot[c].key, state |-> StateOf(snapshot[c]), listed |-> snapshot[c].listed]
    BY <1>3 DEF Abs, Abstracted
  <2>3. Abs[c] # NoSnapshot
    BY <2>1, AbstractedType DEF Abs
  <2>4. [Abs[c] EXCEPT !.state = state] =
          [key |-> snapshot[c].key, state |-> state, listed |-> snapshot[c].listed]
    BY <2>2
  <2> QED BY <1>1, <1>3, <2>2, <2>3, <2>4 DEF Turned, Abstracted
<1> QED BY <1>2, <1>3

\* How the abstraction keeps its snapshots, in terms of the pairs.
LEMMA AgedAll ==
  ASSUME PairsType, NEW K, NEW state,
         \A c \in Clients : NewAbstracted(snapshot'[c]) = Turned(snapshot[c], K, state)
  PROVE  Abs' = Atomic!Aged(K, {}, state)
<1>1. \A c \in Clients : Atomic!Aged(K, {}, state)[c] = Turned(snapshot[c], K, state)
  BY AgedIs
<1>2. Atomic!Aged(K, {}, state) = [c \in Clients |-> Atomic!Aged(K, {}, state)[c]]
  BY DEF Atomic!Aged
<1> QED BY <1>1, <1>2, NewAbs

\* How the other snapshots are kept by a step that gives one client a new one.
LEMMA KeepsIs ==
  ASSUME PairsType, NEW K, NEW state, NEW c \in Clients, NEW s,
         NewAbstracted(snapshot'[c]) = s,
         \A d \in Clients \ {c} : NewAbstracted(snapshot'[d]) = Turned(snapshot[d], K, state)
  PROVE  Atomic!Keeps(c, K, s, state)
<1>1. \A d \in Clients : d # c => Atomic!Aged(K, {c}, state)[d] = Turned(snapshot[d], K, state)
  BY AgedIs
<1>2. Abs' = [d \in Clients |-> IF d = c THEN s ELSE Atomic!Aged(K, {c}, state)[d]]
  BY <1>1, NewAbs
<1> QED BY <1>2 DEF Atomic!Keeps, Abs

\* What the steps of the ensemble do to what pairs stand for.
LEMMA SameAbstracted ==
  ASSUME UNCHANGED <<exists, version, life>>, NEW s, NEW state
  PROVE  NewAbstracted(s) = Abstracted(s) /\ NewAbstracted(s) = Turned(s, {}, state)
BY DEF NewAbstracted, NewState, Abstracted, StateOf, Turned

\* To make a key is nothing new for its earlier pairs.
LEMMA MakesAbstracted ==
  ASSUME NodeType, NEW k \in Keys, Makes(k), NEW s, s = NoSnapshot \/ (s \in Pair /\ Seen(s)), NEW state
  PROVE  NewAbstracted(s) = Abstracted(s) /\ NewAbstracted(s) = Turned(s, {}, state)
<1>1. exists' = exists \cup {k} /\ life' = [life EXCEPT ![k] = life[k] + 1] /\ k \notin exists
      /\ version' = [version EXCEPT ![k] = 0]
  BY DEF Makes
<1>2. CASE s = NoSnapshot
  BY <1>2 DEF NewAbstracted, Abstracted, Turned
<1>3. CASE s \in Pair /\ Seen(s)
  <2>1. s.key \in Keys /\ s.life \in Nat
    BY <1>3 DEF Pair
  <2>2. life[s.key] \in Nat /\ life[s.key] >= s.life
    BY <1>3, <2>1 DEF Seen, Since, NodeType
  <2>3. NewState(s) = StateOf(s)
    BY <1>1, <2>1, <2>2 DEF NewState, StateOf, NodeType
  <2> QED BY <2>3 DEF NewAbstracted, Abstracted, Turned
<1> QED BY <1>2, <1>3

\* To set a key makes its current pairs old.
LEMMA SetsAbstracted ==
  ASSUME NodeType, NEW k \in Keys, Sets(k), NEW s, s = NoSnapshot \/ (s \in Pair /\ Seen(s))
  PROVE  NewAbstracted(s) = Turned(s, {k}, "changed")
<1>1. exists' = exists /\ life' = life /\ version' = [version EXCEPT ![k] = version[k] + 1]
  BY DEF Sets
<1>2. CASE s = NoSnapshot
  BY <1>2 DEF NewAbstracted, Abstracted, Turned
<1>3. CASE s # NoSnapshot
  <2>1. s.key \in Keys /\ s.life \in Nat /\ s.version \in Nat
    BY <1>3 DEF Pair
  <2>2. version[s.key] \in Nat /\ (life[s.key] = s.life => version[s.key] >= s.version)
    BY <1>3, <2>1 DEF Seen, Since, NodeType
  <2>3. NewState(s) = IF s.key = k /\ StateOf(s) # "earlier" THEN "changed" ELSE StateOf(s)
    BY <1>1, <2>1, <2>2 DEF NewState, StateOf, NodeType
  <2> QED BY <1>3, <2>3 DEF NewAbstracted, Abstracted, Turned
<1> QED BY <1>2, <1>3

\* To remove keys makes their pairs stale.
LEMMA RemovesAbstracted ==
  ASSUME NEW K \in SUBSET Keys, Removes(K), NEW s
  PROVE  NewAbstracted(s) = Turned(s, K, "earlier")
BY DEF Removes, NewAbstracted, NewState, Abstracted, StateOf, Turned

\* A pair that was just read or written is current.
LEMMA WrittenAbstracted ==
  ASSUME NodeType', NEW k \in Keys, k \in exists'
  PROVE  NewAbstracted(Written(k)) = Atomic!Taken(k)
<1>1. Written(k) # NoSnapshot
  BY PairNow, NoSnapshotAssumption DEF Good
<1> QED BY <1>1 DEF NewAbstracted, NewState, Written, Atomic!Taken

Implements == Atomic!Next \/ UNCHANGED <<exists, Abs, result>>

\* Steps that are none of the abstraction's, and refusals.
LEMMA QuietStep ==
  ASSUME PairsType, UNCHANGED <<exists, version, life, snapshot>>, NEW c \in Clients,
         UNCHANGED result \/ result' = "error"
  PROVE  Implements
<1>1. Abs' = Abs
  BY SameAbstracted, NewAbs DEF Abs
<1>2. CASE UNCHANGED result
  BY <1>1, <1>2 DEF Implements
<1>3. CASE result' = "error"
  BY <1>1, <1>3 DEF Implements, Atomic!Next, Atomic!Refused, Abs
<1> QED BY <1>2, <1>3

\* Writes whose callers learn nothing about their pairs.
LEMMA SilentStep ==
  ASSUME NodeType, PairsType, PairsInv, UNCHANGED <<snapshot, result>>, NEW k \in Keys, NEW K \in SUBSET Keys,
         Makes(k) \/ Sets(k) \/ Removes(K)
  PROVE  Implements
<1>1. \A c \in Clients : snapshot[c] = NoSnapshot \/ (snapshot[c] \in Pair /\ Seen(snapshot[c]))
  BY DEF PairsInv
<1>2. CASE Makes(k)
  <2>1. Abs' = Abs
    BY <1>1, <1>2, MakesAbstracted, NewAbs DEF Abs
  <2>2. Atomic!Create(k)
    BY <1>2, <2>1 DEF Atomic!Create, Makes, Abs
  <2> QED BY <2>2 DEF Implements, Atomic!Next
<1>3. CASE Sets(k)
  <2>1. Abs' = Atomic!Aged({k}, {}, "changed")
    BY <1>1, <1>3, SetsAbstracted, AgedAll
  <2>2. Atomic!Write(k)
    BY <1>3, <2>1 DEF Atomic!Write, Sets, Abs
  <2> QED BY <2>2 DEF Implements, Atomic!Next
<1>4. CASE Removes(K) /\ K # {}
  <2>1. Abs' = Atomic!Aged(K, {}, "earlier")
    BY <1>4, RemovesAbstracted, AgedAll
  <2>2. Atomic!Remove(K)
    BY <1>4, <2>1 DEF Atomic!Remove, Removes, Abs
  <2> QED BY <2>2 DEF Implements, Atomic!Next
<1>5. CASE Removes(K) /\ K = {}
  <2>1. UNCHANGED <<exists, version, life>>
    BY <1>5 DEF Removes
  <2>2. Abs' = Abs
    BY <2>1, SameAbstracted, NewAbs DEF Abs
  <2> QED BY <2>1, <2>2 DEF Implements
<1> QED BY <1>2, <1>3, <1>4, <1>5

\* A client gets a pair, of a Get or of a List, and nothing else changes.
LEMMA ReadStep ==
  ASSUME NodeType, NodeType', PairsType, NEW c \in Clients, NEW k \in Keys, k \in exists,
         UNCHANGED <<exists, version, life, result>>, snapshot' = [snapshot EXCEPT ![c] = Written(k)]
  PROVE  Implements
<1>1. NewAbstracted(snapshot'[c]) = Atomic!Taken(k)
  BY WrittenAbstracted DEF PairsType
<1>2. \A d \in Clients \ {c} : NewAbstracted(snapshot'[d]) = Turned(snapshot[d], {}, "current")
  BY SameAbstracted DEF PairsType
<1>3. Atomic!Keeps(c, {}, Atomic!Taken(k), "current")
  BY <1>1, <1>2, KeepsIs
<1> QED BY <1>3 DEF Implements, Atomic!Next, Atomic!Read

\* A client gets a pair of a List.
LEMMA ListStep ==
  ASSUME PairsType, PairsInv, NEW c \in Clients, picked[c] # NoSnapshot,
         UNCHANGED <<exists, version, life, result>>, snapshot' = [snapshot EXCEPT ![c] = picked[c]]
  PROVE  Implements
<1> DEFINE s == Abstracted(picked[c])
<1>1. picked[c] \in Pair /\ picked[c].listed
  BY DEF PairsInv
<1>2. s \in Atomic!Snapshot
  BY <1>1, AbstractedType
<1>3. s.listed /\ (s.state = "current" => s.key \in exists)
  BY <1>1 DEF Abstracted, StateOf
<1>4. NewAbstracted(snapshot'[c]) = s
  BY SameAbstracted DEF PairsType
<1>5. \A d \in Clients \ {c} : NewAbstracted(snapshot'[d]) = Turned(snapshot[d], {}, "current")
  BY SameAbstracted DEF PairsType
<1> HIDE DEF s
<1>6. Atomic!Keeps(c, {}, s, "current")
  BY <1>4, <1>5, KeepsIs
<1>7. Atomic!List(c, s)
  BY <1>3, <1>6 DEF Atomic!List
<1> QED BY <1>2, <1>7 DEF Implements, Atomic!Next

\* An atomic write that matches its pair is admitted: the pair is current, or of
\* an earlier incarnation.
LEMMA MatchesAdmitted ==
  ASSUME NodeType, PairsType, PairsInv, NEW c \in Clients, snapshot[c] # NoSnapshot, Matches(c)
  PROVE  Atomic!Admitted(c)
<1> DEFINE s == snapshot[c]
<1>1. s \in Pair /\ Seen(s) /\ Indexed(s) /\ s.key \in exists /\ version[s.key] = s.index
  BY DEF PairsInv, Matches
<1>2. s.key \in Keys /\ s.version \in Nat /\ s.index \in Nat
  BY <1>1 DEF Pair
<1>3. life[s.key] = s.life => version[s.key] = s.version
  <2>1. CASE s.listed
    BY <1>1, <1>2, <2>1 DEF Seen, Since, Indexed, NodeType
  <2>2. CASE ~s.listed
    BY <1>1, <2>2 DEF Indexed
  <2> QED BY <2>1, <2>2
<1>4. StateOf(s) \in {"current", "earlier"}
  BY <1>1, <1>3 DEF StateOf
<1>5. Abs[c] = [key |-> s.key, state |-> StateOf(s), listed |-> s.listed] /\ Abs[c] # NoSnapshot
  BY <1>1, AbstractedType DEF Abs, Abstracted
<1> HIDE DEF s
<1>6. Abs[c].key = s.key /\ Abs[c].state = StateOf(s)
  BY <1>5
<1> QED BY <1>1, <1>4, <1>5, <1>6 DEF Atomic!Admitted, Abs

\* An atomic write that does not match is refused for a reason that is true.
LEMMA RefusedStep ==
  ASSUME NodeType, PairsType, PairsInv, NEW c \in Clients, snapshot[c] # NoSnapshot,
         UNCHANGED <<exists, version, life, snapshot>>,
         \/ ~Matches(c) /\ snapshot[c].key \in exists /\ result' = "modified"
         \/ snapshot[c].key \notin exists /\ result' = "missing"
  PROVE  Implements
<1> DEFINE s == snapshot[c]
<1>1. s \in Pair /\ Indexed(s)
  BY DEF PairsInv
<1>2. s.key \in Keys
  BY <1>1 DEF Pair
<1>3. Abs' = Abs
  BY SameAbstracted, NewAbs DEF Abs
<1>4. Abs[c] = [key |-> s.key, state |-> StateOf(s), listed |-> s.listed] /\ Abs[c] # NoSnapshot
  BY <1>1, AbstractedType DEF Abs, Abstracted
<1>5. ~Matches(c) /\ s.key \in exists => s.listed \/ StateOf(s) # "current"
  BY <1>1 DEF Matches, StateOf, Indexed
<1> HIDE DEF s
<1>6. Abs[c].key = s.key /\ Abs[c].state = StateOf(s) /\ Abs[c].listed = s.listed
  BY <1>4
<1>7. Atomic!Refused(c)
  <2>1. CASE ~Matches(c) /\ s.key \in exists /\ result' = "modified"
    BY <1>3, <1>4, <1>5, <1>6, <2>1 DEF Atomic!Refused, Abs
  <2>2. CASE s.key \notin exists /\ result' = "missing"
    BY <1>2, <1>3, <2>2 DEF Atomic!Refused, Abs
  <2> QED BY <2>1, <2>2 DEF s
<1> QED BY <1>7 DEF Implements, Atomic!Next

\* AtomicPut with a pair implements that of the abstraction.
LEMMA AtomicPutStep ==
  ASSUME NodeType, NodeType', PairsType, PairsInv, NEW c \in Clients, AtomicPut(c)
  PROVE  Implements
<1> DEFINE k == snapshot[c].key
<1>1. snapshot[c] \in Pair /\ k \in Keys /\ snapshot[c] # NoSnapshot
  BY DEF AtomicPut, PairsInv, Pair
<1>2. \A d \in Clients : snapshot[d] = NoSnapshot \/ (snapshot[d] \in Pair /\ Seen(snapshot[d]))
  BY DEF PairsInv
<1>3. Abs[c].key = k
  BY <1>1 DEF Abs, Abstracted
<1>4. CASE Matches(c) /\ Sets(k) /\ Answers(c, "ok", Written(k))
  <2>1. snapshot' = [snapshot EXCEPT ![c] = Written(k)] /\ result' = "ok"
    BY <1>4 DEF Answers
  <2>2. k \in exists'
    BY <1>4 DEF Sets
  <2> HIDE DEF k
  <2>3. NewAbstracted(snapshot'[c]) = Atomic!Taken(k)
    BY <1>1, <2>1, <2>2, WrittenAbstracted DEF PairsType
  <2>4. \A d \in Clients \ {c} : NewAbstracted(snapshot'[d]) = Turned(snapshot[d], {k}, "changed")
    BY <1>1, <1>2, <1>4, <2>1, SetsAbstracted DEF PairsType
  <2>5. Atomic!Keeps(c, {k}, Atomic!Taken(k), "changed")
    BY <2>3, <2>4, KeepsIs
  <2>6. Atomic!AtomicPut(c)
    BY <1>1, <1>3, <1>4, <2>1, <2>5, MatchesAdmitted DEF Atomic!AtomicPut, Sets, Abs
  <2> QED BY <2>6 DEF Implements, Atomic!Next
<1>5. CASE Matches(c) /\ Sets(k) /\ result' = "error" /\ UNCHANGED snapshot
  <2> HIDE DEF k
  <2>1. Abs' = Atomic!Aged({k}, {}, "changed")
    BY <1>1, <1>2, <1>5, SetsAbstracted, AgedAll
  <2>2. Atomic!AtomicPut(c)
    BY <1>1, <1>3, <1>5, <2>1, MatchesAdmitted DEF Atomic!AtomicPut, Sets, Abs
  <2> QED BY <2>2 DEF Implements, Atomic!Next
<1>6. CASE \/ ~Matches(c) /\ k \in exists /\ Unwritten /\ Answers(c, "modified", snapshot[c])
           \/ k \notin exists /\ Unwritten /\ Answers(c, "missing", snapshot[c])
  <2>1. UNCHANGED <<exists, version, life, snapshot>>
    BY <1>6 DEF Answers, Unwritten, nodeVars, PairsType
  <2> QED BY <1>1, <1>6, <2>1, RefusedStep DEF Answers
<1> QED BY <1>4, <1>5, <1>6 DEF AtomicPut, AnswersOrNot

\* AtomicDelete implements that of the abstraction.
LEMMA AtomicDeleteStep ==
  ASSUME NodeType, NodeType', PairsType, PairsInv, NEW c \in Clients, AtomicDelete(c)
  PROVE  Implements
<1> DEFINE k == snapshot[c].key
<1>1. snapshot[c] \in Pair /\ k \in Keys /\ snapshot[c] # NoSnapshot
  BY DEF AtomicDelete, PairsInv, Pair
<1>2. Abs[c].key = k
  BY <1>1 DEF Abs, Abstracted
<1>3. CASE Matches(c) /\ Removes({k}) /\ AnswersOrNot(c, snapshot[c])
  <2>1. UNCHANGED snapshot /\ result' \in {"ok", "error"}
    BY <1>3 DEF AnswersOrNot, Answers, PairsType
  <2> HIDE DEF k
  <2>2. Abs' = Atomic!Aged({k}, {}, "earlier")
    BY <1>1, <1>3, <2>1, RemovesAbstracted, AgedAll
  <2>3. Atomic!AtomicDelete(c)
    BY <1>1, <1>2, <1>3, <2>1, <2>2, MatchesAdmitted DEF Atomic!AtomicDelete, Removes, Abs
  <2> QED BY <2>3 DEF Implements, Atomic!Next
<1>4. CASE \/ ~Matches(c) /\ k \in exists /\ Unwritten /\ Answers(c, "modified", snapshot[c])
           \/ k \notin exists /\ Unwritten /\ Answers(c, "missing", snapshot[c])
  <2>1. UNCHANGED <<exists, version, life, snapshot>>
    BY <1>4 DEF Answers, Unwritten, nodeVars, PairsType
  <2> QED BY <1>1, <1>4, <2>1, RefusedStep DEF Answers
<1> QED BY <1>3, <1>4 DEF AtomicDelete

\* The creation of a key by AtomicPut implements that of the abstraction.
LEMMA CreatesStep ==
  ASSUME NodeType, NodeType', PairsType, PairsInv, NEW c \in Clients, NEW k \in Keys, Creates(c, k)
  PROVE  Implements
<1>1. \A d \in Clients : snapshot[d] = NoSnapshot \/ (snapshot[d] \in Pair /\ Seen(snapshot[d]))
  BY DEF PairsInv
<1>2. CASE Makes(k) /\ Answers(c, "ok", Written(k))
  <2>1. snapshot' = [snapshot EXCEPT ![c] = Written(k)] /\ result' = "ok" /\ k \in exists'
    BY <1>2 DEF Answers, Makes
  <2>2. NewAbstracted(snapshot'[c]) = Atomic!Taken(k)
    BY <2>1, WrittenAbstracted DEF PairsType
  <2>3. \A d \in Clients \ {c} : NewAbstracted(snapshot'[d]) = Turned(snapshot[d], {}, "current")
    BY <1>1, <1>2, <2>1, MakesAbstracted DEF PairsType
  <2>4. Atomic!Keeps(c, {}, Atomic!Taken(k), "current")
    BY <2>2, <2>3, KeepsIs
  <2>5. Atomic!AtomicCreate(c, k)
    BY <1>2, <2>1, <2>4 DEF Atomic!AtomicCreate, Makes
  <2> QED BY <2>5 DEF Implements, Atomic!Next
<1>3. CASE Makes(k) /\ result' = "error" /\ UNCHANGED snapshot
  <2>1. Abs' = Abs
    BY <1>1, <1>3, MakesAbstracted, NewAbs DEF Abs
  <2>2. Atomic!AtomicCreate(c, k)
    BY <1>3, <2>1 DEF Atomic!AtomicCreate, Makes, Abs
  <2> QED BY <2>2 DEF Implements, Atomic!Next
<1>4. CASE k \in exists /\ Unwritten /\ Answers(c, "exists", snapshot[c])
  <2>1. UNCHANGED <<exists, version, life, snapshot>> /\ result' = "exists"
    BY <1>4 DEF Answers, Unwritten, nodeVars, PairsType
  <2>2. Abs' = Abs
    BY <2>1, SameAbstracted, NewAbs DEF Abs
  <2>3. Atomic!Refused(c)
    BY <1>4, <2>1, <2>2 DEF Atomic!Refused, Abs
  <2> QED BY <2>3 DEF Implements, Atomic!Next
<1> QED BY <1>2, <1>3, <1>4 DEF Creates, AnswersOrNot

\* Every step of the store is one of the abstraction, or none.
LEMMA StoreNextImplements ==
  ASSUME StoreInv, StoreNext
  PROVE  Implements
<1> USE DEF nodeVars, opVars, Unwritten
<1>1. NodeType /\ NodeType' /\ PairsType /\ PairsInv /\ KeyInv /\ OpType
  BY StoreInvStep DEF StoreInv
<1>2. PICK c \in Clients :
        \/ \E k \in Keys : \/ Get(c, k) \/ Delete(c, k) \/ PutExists(c, k)
                           \/ AtomicCreate(c, k) \/ ListGet(c, k)
        \/ \E o \in {"list", "tree"} : Children(c, o)
        \/ DeleteDirectory(c) \/ PutMakesDirectory(c) \/ PutCreates(c) \/ PutSets(c)
        \/ AtomicPut(c) \/ AtomicDelete(c) \/ CreateMakesDirectory(c) \/ CreateAgain(c)
        \/ ListEnds(c) \/ Multi(c) \/ RequestFails(c)
  BY DEF StoreNext
<1>3. ASSUME UNCHANGED <<exists, version, life, snapshot>>, UNCHANGED result \/ result' = "error"
      PROVE  Implements
  BY <1>1, <1>3, QuietStep
<1>4. ASSUME NEW k \in Keys, Get(c, k)
      PROVE  Implements
  <2>1. Written(k) = PairOf(k)
    BY <1>4 DEF Get, Written, PairOf
  <2> QED BY <1>1, <1>4, <2>1, ReadStep DEF Get
<1>5. ASSUME NEW k \in Keys, Delete(c, k)
      PROVE  Implements
  BY <1>1, <1>5, SilentStep DEF Delete, Silent
<1>6. ASSUME NEW k \in Keys, PutExists(c, k) \/ ListGet(c, k)
      PROVE  Implements
  BY <1>3, <1>6 DEF PutExists, ListGet
<1>7. ASSUME NEW k \in Keys, AtomicCreate(c, k)
      PROVE  Implements
  <2>1. CASE Creates(c, k)
    BY <1>1, <2>1, CreatesStep
  <2>2. CASE UNCHANGED <<nodeVars, snapshot, result>>
    BY <1>3, <2>2
  <2> QED BY <1>7, <2>1, <2>2 DEF AtomicCreate
<1>8. CASE \/ \E o \in {"list", "tree"} : Children(c, o)
           \/ DeleteDirectory(c) \/ PutMakesDirectory(c) \/ CreateMakesDirectory(c) \/ RequestFails(c)
  BY <1>3, <1>8 DEF Children, DeleteDirectory, Silent, PutMakesDirectory, CreateMakesDirectory, RequestFails
<1>9. CASE PutCreates(c) \/ PutSets(c)
  <2>1. key[c] \in Keys /\ {} \in SUBSET Keys
    BY <1>1, <1>9 DEF KeyInv, PutCreates, PutSets, At
  <2>2. CASE (Makes(key[c]) \/ Sets(key[c])) /\ UNCHANGED <<snapshot, result>>
    BY <1>1, <2>1, <2>2, SilentStep
  <2>3. CASE UNCHANGED <<nodeVars, snapshot, result>>
    BY <1>3, <2>3
  <2> QED BY <1>9, <2>2, <2>3 DEF PutCreates, PutSets, Silent
<1>10. CASE AtomicPut(c)
  BY <1>1, <1>10, AtomicPutStep
<1>11. CASE AtomicDelete(c)
  BY <1>1, <1>11, AtomicDeleteStep
<1>12. CASE CreateAgain(c)
  <2>1. key[c] \in Keys
    BY <1>1, <1>12 DEF KeyInv, CreateAgain, At
  <2>2. CASE Creates(c, key[c])
    BY <1>1, <2>1, <2>2, CreatesStep
  <2>3. CASE Unwritten /\ Answers(c, "error", snapshot[c])
    BY <1>1, <1>3, <2>3 DEF Answers, PairsType
  <2> QED BY <1>12, <2>2, <2>3 DEF CreateAgain
<1>13. CASE ListEnds(c)
  <2>1. CASE picked[c] = NoSnapshot
    <3>1. snapshot' = [snapshot EXCEPT ![c] = snapshot[c]]
      BY <1>13, <2>1 DEF ListEnds
    <3> QED BY <1>1, <1>3, <1>13, <3>1 DEF ListEnds, PairsType
  <2>2. CASE picked[c] # NoSnapshot
    <3>1. snapshot' = [snapshot EXCEPT ![c] = picked[c]] /\ UNCHANGED <<exists, version, life, result>>
      BY <1>13, <2>2 DEF ListEnds
    <3> QED BY <1>1, <2>2, <3>1, ListStep
  <2> QED BY <2>1, <2>2
<1>14. CASE Multi(c)
  <2>1. found[c] \in SUBSET Keys
    BY <1>1 DEF OpType
  <2>2. CASE Removes(found[c]) /\ UNCHANGED <<snapshot, result>>
    <3>1. CASE found[c] = {}
      BY <1>3, <2>2, <3>1 DEF Removes
    <3>2. CASE found[c] # {}
      <4>1. PICK k \in Keys : k \in found[c]
        BY <2>1, <3>2
      <4> QED BY <1>1, <2>1, <2>2, SilentStep
    <3> QED BY <3>1, <3>2
  <2>3. CASE UNCHANGED <<nodeVars, snapshot, result>>
    BY <1>3, <2>3
  <2> QED BY <1>14, <2>2, <2>3 DEF Multi, Silent
<1> QED BY <1>2, <1>4, <1>5, <1>6, <1>7, <1>8, <1>9, <1>10, <1>11, <1>12, <1>13, <1>14

\* The requests of the atomic operations, among all the others, implement
\* CompareAndSet: a write with a pair of the present incarnation succeeds only
\* if nobody wrote since the pair was read, whatever fails or is repeated
\* (AtomicPut and AtomicDelete, zookeeper.go, lines 320-403).
THEOREM StoreRefines == Spec => ImplementsCompareAndSet
<1>1. Init => Atomic!Init
  <2> SUFFICES ASSUME Init PROVE Atomic!Init
    OBVIOUS
  <2>1. Abs = [c \in Clients |-> NoSnapshot]
    BY DEF Init, StoreInit, Abs, Abstracted
  <2> QED BY <2>1 DEF Init, StoreInit, Atomic!Init, Abs
<1>2. Inv /\ [Next]_vars => [Atomic!Next]_Atomic!vars
  <2> SUFFICES ASSUME Inv, [Next]_vars PROVE Implements
    BY DEF Implements, Atomic!vars, Abs
  <2>1. CASE StoreNext
    BY <2>1, StoreNextImplements DEF Inv
  <2>2. CASE UNCHANGED <<nodeVars, snapshot, result>>
    BY <2>2, SameAbstracted, NewAbs DEF Implements, Abs, nodeVars
  <2>3. CASE WatchNext
    BY <2>2, <2>3, WatchStep DEF Inv, StoreInv, Elsewhere
  <2> QED BY <2>1, <2>2, <2>3 DEF Next, vars, storeVars
<1> QED BY <1>1, <1>2, InvHolds, PTL DEF Spec, ImplementsCompareAndSet, Atomic!Spec
=============================================================================
