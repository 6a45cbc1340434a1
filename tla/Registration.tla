----------------------------- MODULE Registration -----------------------------
(***************************************************************************)
(* How a process keeps its ephemeral nodes in ZooKeeper: the Registry      *)
(* (register and unregister, one call at a time under its mutex), the      *)
(* store's Put and Delete, and the goroutine of the store that puts every  *)
(* remembered key again when the session comes back.                       *)
(*                                                                         *)
(* Put is not atomic: Exists, Create, the append to s.ephemerals and Set   *)
(* are steps of their own, run by two threads, the caller of the Registry  *)
(* and the goroutine.  s.ephemerals has no lock, so the append is a read   *)
(* and a write.                                                            *)
(*                                                                         *)
(* The environment is the session: it is lost and comes back, it may       *)
(* expire in between, and the node an earlier process left behind          *)
(* disappears when that process' session expires.                          *)
(***************************************************************************)
EXTENDS Naturals, Sequences

CONSTANTS
  Keys,        \* registration keys
  Values,      \* what they are registered with
  Empty,       \* the value of a node that was created but not yet set
  NoNode,      \* the key has no node
  MaxOutages,  \* bound on the connection losses
  MaxCalls     \* bound on the calls to the Registry

ASSUME ValuesAssumption == {Empty, "nothing", "absent"} \cap Values = {}
ASSUME BoundsAssumption == MaxOutages \in Nat /\ MaxCalls \in Nat

VARIABLES
  node,          \* what ZooKeeper holds at each key
  conn,          \* the connection to ZooKeeper is "up" or "down"
  expired,       \* the session expired while it was down
  events,        \* the connection events the goroutine has not read yet
  disconnected,  \* its flag
  backlog,       \* the remembered keys it has still to put again
  ephemerals,    \* the keys to put again after an outage
  pc,            \* where the two threads are
  job,           \* the key and value each of them is working on
  seen,          \* what each of them read of ephemerals in an append
  op,            \* the call of the Registry: "register" or "unregister"
  promise,       \* what the last call told its caller about each key
  outages, calls,
  forgotten      \* history: the keys an append took out of ephemerals

zkVars     == <<node, conn, expired, events, outages>>
replayVars == <<disconnected, backlog>>
callVars   == <<op, promise, calls>>
memory == <<ephemerals, forgotten>>
vars == <<zkVars, replayVars, memory, pc, job, seen, callVars>>

Remembered(list) == {list[i].key : i \in DOMAIN list}

Threads  == {"api", "replay"}
Requests == {"delete", "exists", "create", "set"}
Job      == [key : Keys, value : Values]

\* A node belongs to this session or to that of an earlier process.
Node == [own : BOOLEAN, value : Values \cup {Empty}]

ASSUME NoNodeAssumption == NoNode \notin Node

Key(t)  == job[t].key
Goto(t, label) == pc' = [pc EXCEPT ![t] = label]

-----------------------------------------------------------------------------
(* What a request does to ZooKeeper *)

Deleted(k) == [node EXCEPT ![k] = NoNode]
\* Mutant of Created: the node is created without a value.
CreatedMutant(k) ==
  [node EXCEPT ![k] = IF @ = NoNode THEN [own |-> TRUE, value |-> NoNode] ELSE @]
Created(k) == [node EXCEPT ![k] = IF @ = NoNode THEN [own |-> TRUE, value |-> Empty] ELSE @]
Written(k, v) == IF node[k] = NoNode THEN node ELSE [node EXCEPT ![k].value = v]

Effect(t) ==
  CASE pc[t] = "delete" -> Deleted(Key(t))
    [] pc[t] = "create" -> Created(Key(t))
    [] pc[t] = "set"    -> Written(Key(t), job[t].value)
    [] pc[t] = "exists" -> node

-----------------------------------------------------------------------------
Init ==
  /\ node \in [Keys -> {NoNode} \cup [own : {FALSE}, value : Values]]
  /\ conn = "up" /\ expired = FALSE /\ events = <<>> /\ outages = 0
  /\ disconnected = FALSE /\ backlog = <<>> /\ ephemerals = <<>> /\ forgotten = {}
  /\ pc = [t \in Threads |-> IF t = "api" THEN "idle" ELSE "wait"]
  /\ job \in [Threads -> Job] /\ job["api"] = job["replay"]
  /\ seen = [t \in Threads |-> <<>>]
  /\ op = "register" /\ promise = [k \in Keys |-> "nothing"] /\ calls = 0

(***************************************************************************)
(* The Registry                                                            *)
(***************************************************************************)
Call(name, k, v) ==
  /\ pc["api"] = "idle" /\ calls < MaxCalls
  /\ op' = name /\ calls' = calls + 1
  /\ job' = [job EXCEPT !["api"] = [key |-> k, value |-> v]]
  /\ promise' = [promise EXCEPT ![k] = "nothing"]
  /\ UNCHANGED <<zkVars, replayVars, memory, seen>>

\* Mutant of CallRegister: the key is not deleted first.
CallRegisterMutant(k, v) == Call("register", k, v) /\ Goto("api", "exists")

\* register deletes the key before it puts it.
CallRegister(k, v) == Call("register", k, v) /\ Goto("api", "delete")

CallUnregister(k) ==
  /\ \E v \in Values : Call("unregister", k, v)
  /\ Goto("api", "delete")

\* The call is over; the caller of the Registry gets the answer, that of Put
\* in the goroutine only prints it.
Answer(t, result) ==
  /\ Goto(t, IF t = "api" THEN "idle" ELSE "next")
  /\ promise' = IF t = "api" THEN [promise EXCEPT ![Key(t)] = result] ELSE promise
  /\ UNCHANGED <<op, calls>>

\* A missing node is an error for unregister, not for register.
DeleteKey ==
  /\ pc["api"] = "delete" /\ conn = "up"
  /\ node' = Deleted(Key("api"))
  /\ \/ op = "register" /\ Goto("api", "exists") /\ UNCHANGED callVars
     \/ /\ op = "unregister"
        /\ Answer("api", IF node[Key("api")] = NoNode THEN "nothing" ELSE "absent")
  /\ UNCHANGED <<conn, expired, events, outages, replayVars, memory, job, seen>>

(***************************************************************************)
(* Put, by either thread                                                   *)
(***************************************************************************)
Exists(t) ==
  /\ pc[t] = "exists" /\ conn = "up"
  /\ Goto(t, IF node[Key(t)] = NoNode THEN "create" ELSE "set")
  /\ UNCHANGED <<zkVars, replayVars, memory, job, seen, callVars>>

\* createFullPath; its error is ignored.
Create(t) ==
  /\ pc[t] = "create" /\ conn = "up"
  /\ node' = Created(Key(t))
  /\ Goto(t, "append")
  /\ UNCHANGED <<conn, expired, events, outages, replayVars, memory, job, seen, callVars>>

AppendReads(t) ==
  /\ pc[t] = "append"
  /\ seen' = [seen EXCEPT ![t] = ephemerals]
  /\ Goto(t, "appending")
  /\ UNCHANGED <<zkVars, replayVars, memory, job, callVars>>

AppendWrites(t) ==
  /\ pc[t] = "appending"
  /\ ephemerals' = Append(seen[t], job[t])
  /\ forgotten' = forgotten \cup (Remembered(ephemerals) \ Remembered(ephemerals'))
  /\ seen' = [seen EXCEPT ![t] = <<>>]
  /\ Goto(t, "set")
  /\ UNCHANGED <<zkVars, replayVars, job, callVars>>

Set(t) ==
  /\ pc[t] = "set" /\ conn = "up"
  /\ node' = Written(Key(t), job[t].value)
  /\ Answer(t, IF node[Key(t)] = NoNode THEN "nothing" ELSE job[t].value)
  /\ UNCHANGED <<conn, expired, events, outages, replayVars, memory, job, seen>>

(***************************************************************************)
(* A request gets no answer when the connection is lost: before ZooKeeper  *)
(* carried it out or after.  All but Create end the call with an error.    *)
(***************************************************************************)
LoseConnection ==
  /\ conn = "up" /\ outages < MaxOutages
  /\ conn' = "down" /\ outages' = outages + 1
  /\ events' = Append(events, "lost")
  /\ UNCHANGED expired

NoAnswer(t) ==
  /\ pc[t] \in Requests
  /\ \/ conn = "down" /\ UNCHANGED zkVars
     \/ LoseConnection /\ node' = Effect(t)
  /\ \/ pc[t] = "create" /\ Goto(t, "append") /\ UNCHANGED callVars
     \/ pc[t] # "create" /\ Answer(t, "nothing")
  /\ UNCHANGED <<replayVars, memory, job, seen>>

(***************************************************************************)
(* The goroutine that reads the events                                     *)
(***************************************************************************)
\* Mutant of ReadEvent: the events are only read.
ReadEventMutant ==
  /\ pc["replay"] = "wait" /\ events # <<>>
  /\ events' = Tail(events)
  /\ UNCHANGED <<node, conn, expired, outages, replayVars, memory, pc, job, seen, callVars>>

ReadEvent ==
  /\ pc["replay"] = "wait" /\ events # <<>>
  /\ events' = Tail(events)
  /\ \/ /\ Head(events) = "lost" /\ disconnected' = TRUE
        /\ UNCHANGED <<pc, backlog>>
     \/ /\ Head(events) = "session" /\ disconnected
        /\ Goto("replay", "next") /\ backlog' = ephemerals
        /\ UNCHANGED disconnected
     \/ /\ Head(events) = "session" /\ ~disconnected
        /\ UNCHANGED <<pc, disconnected, backlog>>
  /\ UNCHANGED <<node, conn, expired, outages, memory, job, seen, callVars>>

PutAgain ==
  /\ pc["replay"] = "next" /\ backlog # <<>>
  /\ job' = [job EXCEPT !["replay"] = Head(backlog)]
  /\ backlog' = Tail(backlog)
  /\ Goto("replay", "exists")
  /\ UNCHANGED <<zkVars, disconnected, memory, seen, callVars>>

ReplayEnds ==
  /\ pc["replay"] = "next" /\ backlog = <<>>
  /\ disconnected' = FALSE
  /\ Goto("replay", "wait")
  /\ UNCHANGED <<zkVars, backlog, memory, job, seen, callVars>>

(***************************************************************************)
(* The session                                                             *)
(***************************************************************************)
ConnectionLost ==
  /\ LoseConnection
  /\ UNCHANGED <<node, replayVars, memory, pc, job, seen, callVars>>

SessionExpires ==
  /\ conn = "down" /\ ~expired
  /\ expired' = TRUE
  /\ node' = [k \in Keys |-> IF node[k] # NoNode /\ node[k].own THEN NoNode ELSE node[k]]
  /\ UNCHANGED <<conn, events, outages, replayVars, memory, pc, job, seen, callVars>>

\* The client is told of the expiry when it reconnects, with a new session.
Reconnects ==
  /\ conn = "down"
  /\ conn' = "up" /\ expired' = FALSE
  /\ events' = events \o (IF expired THEN <<"lost", "session">> ELSE <<"session">>)
  /\ UNCHANGED <<node, outages, replayVars, memory, pc, job, seen, callVars>>

EarlierSessionExpires(k) ==
  /\ node[k] # NoNode /\ ~node[k].own
  /\ node' = Deleted(k)
  /\ UNCHANGED <<conn, expired, events, outages, replayVars, memory, pc, job, seen, callVars>>

-----------------------------------------------------------------------------
ThreadStep(t) == Exists(t) \/ Create(t) \/ AppendReads(t) \/ AppendWrites(t)
                   \/ Set(t) \/ NoAnswer(t)

ReplayStep == ReadEvent \/ PutAgain \/ ReplayEnds

Next ==
  \/ \E k \in Keys : CallUnregister(k) \/ \E v \in Values : CallRegister(k, v)
  \/ DeleteKey
  \/ \E t \in Threads : ThreadStep(t)
  \/ ReplayStep
  \/ ConnectionLost \/ SessionExpires \/ Reconnects
  \/ \E k \in Keys : EarlierSessionExpires(k)

(***************************************************************************)
(* Fairness: both threads run, and ZooKeeper can be reached again after an *)
(* outage (their number is bounded).                                       *)
(***************************************************************************)
Fairness ==
  /\ WF_vars(DeleteKey) /\ WF_vars(ReplayStep) /\ WF_vars(Reconnects)
  /\ \A t \in Threads : WF_vars(ThreadStep(t))

Spec == Init /\ [][Next]_vars
FairSpec == Spec /\ Fairness

-----------------------------------------------------------------------------
(* Properties *)

\* The types of the variables.
TypeOK ==
  /\ node \in [Keys -> Node \cup {NoNode}]
  /\ conn \in {"up", "down"} /\ expired \in BOOLEAN
  /\ events \in Seq({"lost", "session"}) /\ disconnected \in BOOLEAN
  /\ backlog \in Seq(Job) /\ ephemerals \in Seq(Job)
  /\ pc \in [Threads -> Requests \cup {"idle", "wait", "next", "append", "appending"}]
  /\ job \in [Threads -> Job] /\ seen \in [Threads -> Seq(Job)]
  /\ op \in {"register", "unregister"}
  /\ promise \in [Keys -> Values \cup {"nothing", "absent"}]
  /\ outages \in Nat /\ calls \in Nat /\ forgotten \subseteq Keys

\* Nothing is under way: the session is up and the goroutine has dealt with all
\* the events.
Settled == conn = "up" /\ events = <<>> /\ pc["replay"] = "wait"

\* A successful register lasts: whenever nothing is under way, the key has a
\* node of the current session with the registered value, whatever outages,
\* expiries and earlier processes there were, unless the store forgot it
\* (registry.go, lines 56-69; zookeeper.go, lines 66-83).
RegisteredStays ==
  Settled => \A k \in Keys : promise[k] \in Values /\ k \notin forgotten =>
               node[k] = [own |-> TRUE, value |-> promise[k]]

\* After an outage a registered key comes back without anybody's help, unless
\* it is forgotten or somebody calls the Registry for it again.
RegisteredAgain ==
  \A k \in Keys, v \in Values :
    promise[k] = v ~> \/ node[k] = [own |-> TRUE, value |-> v]
                      \/ promise[k] # v \/ k \in forgotten

\* A key whose unregister succeeded has no node until it is registered again
\* (registry.go, lines 71-82: "unregister key succeed").
UnregisteredStaysAbsent == \A k \in Keys : promise[k] = "absent" => node[k] = NoNode
=============================================================================
