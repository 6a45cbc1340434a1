-------------------------- MODULE RegistrationProofs --------------------------
(***************************************************************************)
(* The safety of Registration for any set of keys and any number of calls  *)
(* and outages, as long as every key has one value.                        *)
(***************************************************************************)
EXTENDS Registration, TLAPS

-----------------------------------------------------------------------------
(* Types *)

\* What a thread needs to know of its job.
LEMMA JobFacts ==
  ASSUME TypeOK, NEW t \in Threads
  PROVE  Key(t) \in Keys /\ job[t].value \in Values /\ job[t] \in Job
BY DEF TypeOK, Job, Key

\* What a request makes of the nodes has their type.
LEMMA NodeFacts ==
  ASSUME TypeOK, NEW k \in Keys
  PROVE  /\ Deleted(k) \in [Keys -> Node \cup {NoNode}]
         /\ Created(k) \in [Keys -> Node \cup {NoNode}]
         /\ \A v \in Values : Written(k, v) \in [Keys -> Node \cup {NoNode}]
BY DEF TypeOK, Node, Deleted, Created, Written

\* Writing a node keeps its owner, and makes no NoNode.
LEMMA NodeRecord ==
  ASSUME NEW n \in Node, NEW v \in Values \cup {Empty}
  PROVE  /\ [n EXCEPT !.value = v] = [own |-> n.own, value |-> v]
         /\ [own |-> n.own, value |-> v] \in Node
         /\ [own |-> n.own, value |-> v] # NoNode /\ [own |-> TRUE, value |-> v] # NoNode
<1>1. n.own \in BOOLEAN /\ [n EXCEPT !.value = v] = [own |-> n.own, value |-> v]
  BY DEF Node
<1>2. \A b \in BOOLEAN : [own |-> b, value |-> v] \in Node
  BY DEF Node
<1> QED BY <1>1, <1>2, NoNodeAssumption

\* So has what a request does on behalf of a thread.
LEMMA EffectType ==
  ASSUME TypeOK, NEW t \in Threads, pc[t] \in Requests
  PROVE  Effect(t) \in [Keys -> Node \cup {NoNode}]
<1>1. node \in [Keys -> Node \cup {NoNode}]
  BY DEF TypeOK
<1> QED BY <1>1, JobFacts, NodeFacts DEF Effect, Requests

\* A list of jobs remembers keys only.
LEMMA RememberedKeys ==
  ASSUME NEW s \in Seq(Job)
  PROVE  Remembered(s) \subseteq Keys
<1>1. \A i \in DOMAIN s : s[i] \in Job
  OBVIOUS
<1> QED BY <1>1 DEF Remembered, Job

\* The initial states are typed.
LEMMA TypeInit == Init => TypeOK
<1> SUFFICES ASSUME Init
             PROVE  TypeOK
  OBVIOUS
<1>1. node \in [Keys -> Node \cup {NoNode}]
  BY DEF Init, Node
<1>2. conn \in {"up", "down"} /\ expired \in BOOLEAN /\ disconnected \in BOOLEAN
  BY DEF Init
<1>3. /\ events \in Seq({"lost", "session"}) /\ backlog \in Seq(Job) /\ ephemerals \in Seq(Job)
      /\ outages \in Nat /\ calls \in Nat /\ forgotten \subseteq Keys
  BY DEF Init
<1>4. pc \in [Threads -> Requests \cup {"idle", "wait", "next", "append", "appending"}]
  BY DEF Init
<1>5. job \in [Threads -> Job] /\ seen \in [Threads -> Seq(Job)]
  BY DEF Init
<1>6. op \in {"register", "unregister"} /\ promise \in [Keys -> Values \cup {"nothing", "absent"}]
  BY DEF Init
<1> QED BY <1>1, <1>2, <1>3, <1>4, <1>5, <1>6 DEF TypeOK

\* An answer moves the thread on, and is one of the promises.
LEMMA AnswerType ==
  ASSUME TypeOK, NEW t \in Threads, NEW r \in Values \cup {"nothing", "absent"}, Answer(t, r)
  PROVE  /\ pc' \in [Threads -> Requests \cup {"idle", "wait", "next", "append", "appending"}]
         /\ promise' \in [Keys -> Values \cup {"nothing", "absent"}]
         /\ op' = op /\ calls' = calls
BY JobFacts DEF TypeOK, Answer, Goto

\* Every step keeps the types.
LEMMA TypeStep == TypeOK /\ [Next]_vars => TypeOK'
<1> SUFFICES ASSUME TypeOK, [Next]_vars
             PROVE  TypeOK'
  OBVIOUS
<1> USE DEF TypeOK, zkVars, replayVars, callVars, memory
<1>1. ASSUME NEW k \in Keys, NEW v \in Values,
             \/ Call("unregister", k, v) /\ Goto("api", "delete")
             \/ CallRegister(k, v)
      PROVE  TypeOK'
  <2>1. job' \in [Threads -> Job] /\ promise' \in [Keys -> Values \cup {"nothing", "absent"}]
    <3>1. [key |-> k, value |-> v] \in Job
      BY DEF Job
    <3>2. /\ job' = [job EXCEPT !["api"] = [key |-> k, value |-> v]]
          /\ promise' = [promise EXCEPT ![k] = "nothing"]
      BY <1>1 DEF CallRegister, Call
    <3> QED BY <3>1, <3>2
  <2>2. pc' \in [Threads -> Requests \cup {"idle", "wait", "next", "append", "appending"}]
    BY <1>1 DEF CallRegister, Goto, Requests
  <2>3. op' \in {"register", "unregister"} /\ calls' \in Nat
    BY <1>1 DEF CallRegister, Call
  <2>4. UNCHANGED <<zkVars, replayVars, memory, seen>>
    BY <1>1 DEF CallRegister, Call
  <2> QED BY <2>1, <2>2, <2>3, <2>4
<1>2. CASE DeleteKey
  <2>1. Key("api") \in Keys /\ "api" \in Threads
    BY JobFacts DEF Threads
  <2>2. /\ pc' \in [Threads -> Requests \cup {"idle", "wait", "next", "append", "appending"}]
        /\ promise' \in [Keys -> Values \cup {"nothing", "absent"}]
        /\ op' = op /\ calls' = calls
    <3>1. CASE Goto("api", "exists") /\ UNCHANGED callVars
      BY <3>1 DEF Goto, Requests
    <3>2. CASE Answer("api", IF node[Key("api")] = NoNode THEN "nothing" ELSE "absent")
      BY <2>1, <3>2, AnswerType
    <3> QED BY <1>2, <3>1, <3>2 DEF DeleteKey
  <2> QED BY <1>2, <2>1, <2>2, NodeFacts DEF DeleteKey
<1>3. ASSUME NEW t \in Threads, Exists(t) \/ AppendReads(t)
      PROVE  TypeOK'
  BY <1>3 DEF Exists, AppendReads, Goto, Requests
<1>4. ASSUME NEW t \in Threads, Create(t)
      PROVE  TypeOK'
  BY <1>4, JobFacts, NodeFacts DEF Create, Goto
<1>5. ASSUME NEW t \in Threads, AppendWrites(t)
      PROVE  TypeOK'
  <2>1. ephemerals' \in Seq(Job) /\ seen' \in [Threads -> Seq(Job)]
    BY <1>5, JobFacts DEF AppendWrites
  <2>2. Remembered(ephemerals) \subseteq Keys
    BY RememberedKeys
  <2> QED BY <1>5, <2>1, <2>2 DEF AppendWrites, Goto, Requests
<1>6. ASSUME NEW t \in Threads, Set(t)
      PROVE  TypeOK'
  <2>1. /\ pc' \in [Threads -> Requests \cup {"idle", "wait", "next", "append", "appending"}]
        /\ promise' \in [Keys -> Values \cup {"nothing", "absent"}]
        /\ op' = op /\ calls' = calls
    BY <1>6, AnswerType, JobFacts DEF Set
  <2> QED BY <1>6, <2>1, JobFacts, NodeFacts DEF Set
<1>7. LoseConnection => outages' \in Nat /\ events' \in Seq({"lost", "session"})
                       /\ conn' \in {"up", "down"} /\ expired' \in BOOLEAN
  BY DEF LoseConnection
<1>8. ASSUME NEW t \in Threads, NoAnswer(t)
      PROVE  TypeOK'
  <2>1. /\ pc' \in [Threads -> Requests \cup {"idle", "wait", "next", "append", "appending"}]
        /\ promise' \in [Keys -> Values \cup {"nothing", "absent"}]
        /\ op' = op /\ calls' = calls
    <3>1. CASE Goto(t, "append") /\ UNCHANGED callVars
      BY <3>1 DEF Goto
    <3>2. CASE Answer(t, "nothing")
      BY <3>2, AnswerType
    <3> QED BY <1>8, <3>1, <3>2 DEF NoAnswer
  <2>2. /\ node' \in [Keys -> Node \cup {NoNode}] /\ outages' \in Nat
        /\ events' \in Seq({"lost", "session"}) /\ conn' \in {"up", "down"} /\ expired' \in BOOLEAN
    BY <1>7, <1>8, EffectType DEF NoAnswer
  <2> QED BY <1>8, <2>1, <2>2 DEF NoAnswer
<1>9. CASE ReadEvent
  <2>1. events' \in Seq({"lost", "session"})
    BY <1>9 DEF ReadEvent
  <2>2. pc' \in [Threads -> Requests \cup {"idle", "wait", "next", "append", "appending"}]
    BY <1>9 DEF ReadEvent, Goto
  <2>3. backlog' \in Seq(Job) /\ disconnected' \in BOOLEAN
    BY <1>9 DEF ReadEvent
  <2> QED BY <1>9, <2>1, <2>2, <2>3 DEF ReadEvent
<1>10. CASE PutAgain
  <2>1. Head(backlog) \in Job /\ backlog' \in Seq(Job)
    BY <1>10 DEF PutAgain
  <2>2. job' \in [Threads -> Job]
    BY <1>10, <2>1 DEF PutAgain
  <2>3. pc' \in [Threads -> Requests \cup {"idle", "wait", "next", "append", "appending"}]
    BY <1>10 DEF PutAgain, Goto, Requests
  <2> QED BY <1>10, <2>1, <2>2, <2>3 DEF PutAgain
<1>11. CASE ReplayEnds
  BY <1>11 DEF ReplayEnds, Goto
<1>12. CASE ConnectionLost
  BY <1>7, <1>12 DEF ConnectionLost
<1>13. CASE SessionExpires
  BY <1>13 DEF SessionExpires
<1>14. CASE Reconnects
  <2>1. events' \in Seq({"lost", "session"})
    <3>1. \A s \in Seq({"lost", "session"}) : events \o s \in Seq({"lost", "session"})
      OBVIOUS
    <3>2. <<"lost", "session">> \in Seq({"lost", "session"}) /\ <<"session">> \in Seq({"lost", "session"})
      OBVIOUS
    <3>3. events' = events \o <<"lost", "session">> \/ events' = events \o <<"session">>
      BY <1>14 DEF Reconnects
    <3> QED BY <3>1, <3>2, <3>3
  <2> QED BY <1>14, <2>1 DEF Reconnects
<1>15. ASSUME NEW k \in Keys, EarlierSessionExpires(k)
       PROVE  TypeOK'
  BY <1>15, NodeFacts DEF EarlierSessionExpires
<1>16. CASE UNCHANGED vars
  BY <1>16 DEF vars
<1> QED BY <1>1, <1>2, <1>3, <1>4, <1>5, <1>6, <1>8, <1>9, <1>10, <1>11, <1>12, <1>13, <1>14, <1>15,
           <1>16 DEF Next, CallUnregister, ThreadStep, ReplayStep

\* Every variable keeps its type.
THEOREM TypeCorrect == Spec => []TypeOK
BY TypeInit, TypeStep, PTL DEF Spec

-----------------------------------------------------------------------------
(* The parts of the invariant of RegisteredStays *)

Working == {"exists", "create", "append", "appending", "set"}

\* The store remembers the key, or an append took it out.
Kept(k) == k \in Remembered(ephemerals) \cup forgotten

\* Every session event the goroutine will read makes it put its keys again: a
\* loss comes right before it, or was the last event that was read.
EventsInv ==
  /\ conn = "down" =>
       IF events = <<>> THEN disconnected /\ pc["replay"] = "wait"
                        ELSE events[Len(events)] = "lost"
  /\ \A i \in DOMAIN events : events[i] = "session" =>
       IF i = 1 THEN disconnected /\ pc["replay"] = "wait" ELSE events[i - 1] = "lost"
  /\ pc["replay"] = "wait" => backlog = <<>>

\* A call takes back what was promised before it starts, and a node that is not
\* from this session is gone by the time a call puts its own.
CallInv ==
  /\ pc["api"] # "idle" => promise[Key("api")] = "nothing"
  /\ pc["api"] \in Working => op = "register"
  /\ pc["api"] \in {"idle", "delete"} \cup Working
  /\ pc["replay"] \in {"wait", "next"} \cup Working
  /\ \A k \in Keys :
       promise[k] \in Values \/ (pc["api"] \in Working /\ Key("api") = k) =>
         (node[k] # NoNode => node[k].own)

\* Whatever has a node of this session, or is put again, is remembered, but for
\* the key whose append is still to come.
KeptInv ==
  /\ pc["replay"] \in Working => Kept(Key("replay"))
  /\ \A k \in Remembered(backlog) : Kept(k)
  /\ \A k \in Keys : node[k] # NoNode /\ node[k].own =>
       Kept(k) \/ (pc["api"] \in {"append", "appending"} /\ Key("api") = k)

\* The goroutine will put its keys again.
Owed == conn = "down" \/ \E i \in DOMAIN events : events[i] = "session"

\* It is about to put this one.
Coming(k) ==
  \/ k \in Remembered(backlog)
  \/ Key("replay") = k /\ pc["replay"] \in {"exists", "create"}
  \/ Key("replay") = k /\ pc["replay"] \in {"append", "appending", "set"} /\ node[k] # NoNode

\* A key that was promised has its node, or will get it.
PromiseInv ==
  \A k \in Keys : promise[k] \in Values =>
    /\ Kept(k)
    /\ k \notin forgotten =>
         \/ node[k] = [own |-> TRUE, value |-> promise[k]]
         \/ Owed \/ Coming(k)

StaysInv == EventsInv /\ CallInv /\ KeptInv /\ PromiseInv

-----------------------------------------------------------------------------
(* The events *)

\* A loss adds one event, which is no session.
LEMMA LostAppended ==
  ASSUME TypeOK, LoseConnection
  PROVE  /\ events' # <<>> /\ events'[Len(events')] = "lost"
         /\ \A i \in DOMAIN events' : events'[i] = "session" =>
              i \in DOMAIN events /\ events'[i] = events[i] /\ (i # 1 => events'[i - 1] = events[i - 1])
<1>1. events \in Seq({"lost", "session"}) /\ events' = Append(events, "lost")
  BY DEF TypeOK, LoseConnection
<1> QED BY <1>1

\* The steps that read no event and do not reconnect.
LEMMA EventsKept ==
  ASSUME TypeOK, EventsInv,
         UNCHANGED <<conn, events>> \/ LoseConnection,
         pc["replay"] = "wait" => pc'["replay"] = "wait" /\ UNCHANGED <<disconnected, backlog>>,
         pc'["replay"] = "wait" => pc["replay"] = "wait" \/ backlog' = <<>>
  PROVE  EventsInv'
<1>1. pc'["replay"] = "wait" => backlog' = <<>>
  BY DEF EventsInv
<1>2. CASE UNCHANGED <<conn, events>>
  BY <1>1, <1>2 DEF EventsInv
<1>3. CASE LoseConnection
  BY <1>1, <1>3, LostAppended DEF EventsInv
<1> QED BY <1>2, <1>3

\* A thread that is working leaves a waiting goroutine alone.
LEMMA ThreadKeeps ==
  ASSUME TypeOK, NEW t \in Threads, ThreadStep(t)
  PROVE  /\ UNCHANGED <<conn, events>> \/ LoseConnection
         /\ UNCHANGED <<disconnected, backlog>>
         /\ pc["replay"] = "wait" <=> pc'["replay"] = "wait"
<1> USE DEF TypeOK, Threads, zkVars, replayVars, Goto, Answer
<1>1. CASE Exists(t) \/ Create(t) \/ AppendReads(t) \/ AppendWrites(t)
  BY <1>1 DEF Exists, Create, AppendReads, AppendWrites
<1>2. CASE Set(t)
  BY <1>2 DEF Set
<1>3. CASE NoAnswer(t)
  BY <1>3 DEF NoAnswer, Requests
<1> QED BY <1>1, <1>2, <1>3 DEF ThreadStep

\* Every step keeps EventsInv.
LEMMA EventsStep == TypeOK /\ EventsInv /\ [Next]_vars => EventsInv'
<1> SUFFICES ASSUME TypeOK, EventsInv, [Next]_vars
             PROVE  EventsInv'
  OBVIOUS
<1>1. ASSUME NEW k \in Keys, NEW v \in Values,
             \/ Call("unregister", k, v) /\ Goto("api", "delete")
             \/ CallRegister(k, v)
      PROVE  EventsInv'
  <2>1. pc'["replay"] = pc["replay"] /\ UNCHANGED <<conn, events, disconnected, backlog>>
    BY <1>1 DEF CallRegister, Call, Goto, zkVars, replayVars, TypeOK, Threads
  <2> QED BY <2>1, EventsKept
<1>2. CASE DeleteKey
  <2>1. pc'["replay"] = pc["replay"] /\ UNCHANGED <<conn, events, disconnected, backlog>>
    BY <1>2 DEF DeleteKey, Answer, Goto, replayVars, TypeOK, Threads
  <2> QED BY <2>1, EventsKept
<1>3. ASSUME NEW t \in Threads, ThreadStep(t)
      PROVE  EventsInv'
  BY <1>3, ThreadKeeps, EventsKept
<1>4. CASE ReadEvent
  <2>1. /\ events \in Seq({"lost", "session"}) /\ events # <<>> /\ events' = Tail(events)
        /\ pc["replay"] = "wait" /\ conn' = conn /\ backlog = <<>>
    BY <1>4 DEF ReadEvent, TypeOK, EventsInv
  <2>2. /\ Len(events') = Len(events) - 1 /\ \A i \in DOMAIN events' : events'[i] = events[i + 1]
        /\ \A i \in DOMAIN events' : i + 1 \in DOMAIN events /\ i + 1 # 1
        /\ 1 \in DOMAIN events /\ Head(events) = events[1]
    BY <2>1
  <2>3. CASE Head(events) = "lost"
    <3>1. disconnected' = TRUE /\ pc' = pc /\ backlog' = backlog
      BY <1>4, <2>3 DEF ReadEvent
    <3>2. \A i \in DOMAIN events' : events'[i] = "session" /\ i # 1 => events'[i - 1] = "lost"
      <4> SUFFICES ASSUME NEW i \in DOMAIN events', events'[i] = "session", i # 1
                   PROVE  events'[i - 1] = "lost"
        OBVIOUS
      <4>1. i - 1 \in DOMAIN events' /\ (i - 1) + 1 = i /\ (i + 1) - 1 = i
        BY <2>1
      <4> QED BY <2>2, <4>1 DEF EventsInv
    <3>3. conn = "down" /\ events' # <<>> => events'[Len(events')] = "lost"
      <4>1. events' # <<>> => Len(events') \in DOMAIN events' /\ Len(events') + 1 = Len(events)
        BY <2>1
      <4> QED BY <2>1, <2>2, <4>1 DEF EventsInv
    <3> QED BY <2>1, <3>1, <3>2, <3>3 DEF EventsInv
  <2>4. CASE Head(events) = "session"
    <3>1. disconnected /\ disconnected' = disconnected /\ pc'["replay"] = "next"
      BY <1>4, <2>2, <2>4 DEF ReadEvent, EventsInv, Goto, TypeOK, Threads
    <3>2. \A i \in DOMAIN events' : events'[i] = "session" => i # 1 /\ events'[i - 1] = "lost"
      <4> SUFFICES ASSUME NEW i \in DOMAIN events', events'[i] = "session"
                   PROVE  i # 1 /\ events'[i - 1] = "lost"
        OBVIOUS
      <4>1. events[i] = "lost" /\ i \in DOMAIN events
        <5>1. i + 1 \in DOMAIN events /\ (i + 1) - 1 = i /\ i \in DOMAIN events
          BY <2>1, <2>2
        <5> QED BY <2>2, <5>1 DEF EventsInv
      <4>2. i # 1
        BY <2>2, <2>4, <4>1
      <4>3. i - 1 \in DOMAIN events' /\ (i - 1) + 1 = i
        BY <2>1, <4>2
      <4> QED BY <2>2, <4>1, <4>2, <4>3
    <3>3. conn = "down" => events' # <<>> /\ events'[Len(events')] = "lost"
      <4>1. conn = "down" => events[Len(events)] = "lost"
        BY <2>1 DEF EventsInv
      <4>2. conn = "down" => Len(events) # 1
        BY <2>2, <2>4, <4>1
      <4>3. conn = "down" => Len(events') \in DOMAIN events' /\ Len(events') + 1 = Len(events) /\ events' # <<>>
        BY <2>1, <2>2, <4>2
      <4> QED BY <2>2, <4>1, <4>3
    <3> QED BY <2>1, <3>1, <3>2, <3>3 DEF EventsInv
  <2> QED BY <1>4, <2>3, <2>4 DEF ReadEvent
<1>5. CASE PutAgain \/ ReplayEnds
  <2>1. pc["replay"] = "next" /\ UNCHANGED <<conn, events>> /\ (pc'["replay"] = "wait" => backlog' = <<>>)
    BY <1>5 DEF PutAgain, ReplayEnds, Goto, zkVars, TypeOK, Threads
  <2> QED BY <2>1, EventsKept
<1>6. CASE ConnectionLost
  BY <1>6, EventsKept DEF ConnectionLost, replayVars
<1>7. CASE SessionExpires \/ (\E k \in Keys : EarlierSessionExpires(k))
  BY <1>7, EventsKept DEF SessionExpires, EarlierSessionExpires, replayVars
<1>8. CASE Reconnects
  <2>1. events \in Seq({"lost", "session"}) /\ conn = "down" /\ conn' = "up" /\ pc' = pc
        /\ UNCHANGED <<disconnected, backlog>>
    BY <1>8 DEF Reconnects, TypeOK, replayVars
  <2>2. \/ events' = events \o <<"session">>
        \/ events' = events \o <<"lost", "session">>
    BY <1>8 DEF Reconnects
  <2>3. CASE events' = events \o <<"session">>
    <3>1. /\ Len(events') = Len(events) + 1 /\ events'[Len(events) + 1] = "session"
          /\ \A i \in DOMAIN events : events'[i] = events[i]
      BY <2>1, <2>3
    <3>2. ASSUME NEW i \in DOMAIN events', events'[i] = "session"
          PROVE  IF i = 1 THEN disconnected /\ pc["replay"] = "wait" ELSE events'[i - 1] = "lost"
      <4>1. CASE i \in DOMAIN events
        <5>1. i # 1 => i - 1 \in DOMAIN events
          BY <2>1, <4>1
        <5> QED BY <2>1, <3>1, <3>2, <4>1, <5>1 DEF EventsInv
      <4>2. CASE i = Len(events) + 1
        <5>1. CASE events = <<>>
          BY <2>1, <4>2, <5>1 DEF EventsInv
        <5>2. CASE events # <<>>
          <6>1. Len(events) \in DOMAIN events /\ i - 1 = Len(events) /\ i # 1
            BY <2>1, <4>2, <5>2
          <6> QED BY <2>1, <3>1, <5>2, <6>1 DEF EventsInv
        <5> QED BY <5>1, <5>2
      <4> QED BY <2>1, <2>3, <4>1, <4>2
    <3> QED BY <2>1, <3>2 DEF EventsInv
  <2>4. CASE events' = events \o <<"lost", "session">>
    <3>1. /\ Len(events') = Len(events) + 2 /\ events'[Len(events) + 1] = "lost"
          /\ \A i \in DOMAIN events : events'[i] = events[i]
      BY <2>1, <2>4
    <3>2. ASSUME NEW i \in DOMAIN events', events'[i] = "session"
          PROVE  IF i = 1 THEN disconnected /\ pc["replay"] = "wait" ELSE events'[i - 1] = "lost"
      <4>1. CASE i \in DOMAIN events
        BY <2>1, <3>1, <3>2, <4>1 DEF EventsInv
      <4>2. CASE i = Len(events) + 2
        BY <2>1, <3>1, <4>2
      <4>3. i # Len(events) + 1
        BY <3>1, <3>2
      <4> QED BY <2>1, <2>4, <3>1, <4>1, <4>2, <4>3
    <3> QED BY <2>1, <3>2 DEF EventsInv
  <2> QED BY <2>2, <2>3, <2>4
<1>9. CASE UNCHANGED vars
  BY <1>9 DEF vars, zkVars, replayVars, EventsInv
<1> QED BY <1>1, <1>2, <1>3, <1>4, <1>5, <1>6, <1>7, <1>8, <1>9 DEF Next, CallUnregister, ReplayStep

-----------------------------------------------------------------------------
(* The node *)

\* What a request of a thread does to the nodes.
NodeChange(t) ==
  \A k \in Keys :
    \/ node'[k] = node[k]
    \/ k = Key(t) /\ pc[t] = "delete" /\ node'[k] = NoNode
    \/ /\ k = Key(t) /\ pc[t] = "create" /\ node[k] = NoNode
       /\ node'[k] = [own |-> TRUE, value |-> Empty]
    \/ /\ k = Key(t) /\ pc[t] = "set" /\ node[k] # NoNode
       /\ node'[k] = [own |-> node[k].own, value |-> job[t].value]

\* The effect of a request, key by key.
LEMMA EffectChanges ==
  ASSUME TypeOK, NEW t \in Threads, pc[t] \in Requests, node' = Effect(t)
  PROVE  NodeChange(t)
<1>1. Key(t) \in Keys /\ node \in [Keys -> Node \cup {NoNode}]
  BY JobFacts DEF TypeOK
<1>2. CASE pc[t] = "delete"
  BY <1>1, <1>2 DEF Effect, Deleted, NodeChange
<1>3. CASE pc[t] = "create"
  BY <1>1, <1>3 DEF Effect, Created, NodeChange
<1>4. CASE pc[t] = "set"
  <2>1. node' = Written(Key(t), job[t].value)
    BY <1>4 DEF Effect
  <2>2. node[Key(t)] # NoNode =>
          [node[Key(t)] EXCEPT !.value = job[t].value] = [own |-> node[Key(t)].own, value |-> job[t].value]
    BY <1>1 DEF Node
  <2> QED BY <1>1, <1>4, <2>1, <2>2 DEF Written, NodeChange
<1>5. CASE pc[t] = "exists"
  BY <1>5 DEF Effect, NodeChange
<1> QED BY <1>2, <1>3, <1>4, <1>5 DEF Requests

\* The same of every step of a thread.
LEMMA ThreadChanges ==
  ASSUME TypeOK, NEW t \in Threads, ThreadStep(t) \/ (DeleteKey /\ t = "api")
  PROVE  NodeChange(t)
<1>1. CASE UNCHANGED node
  BY <1>1 DEF NodeChange
<1>2. CASE pc[t] \in Requests /\ node' = Effect(t)
  BY <1>2, EffectChanges
<1> QED BY <1>1, <1>2 DEF ThreadStep, DeleteKey, Exists, Create, AppendReads, AppendWrites, Set, NoAnswer,
          Effect, Requests, zkVars

\* A node that is missing or of this session does not become that of an earlier one.
LEMMA OwnStays ==
  ASSUME TypeOK, [Next]_vars, NEW k \in Keys, node[k] # NoNode => node[k].own
  PROVE  node'[k] # NoNode => node'[k].own
<1>1. ASSUME NEW t \in Threads, ThreadStep(t) \/ (DeleteKey /\ t = "api")
      PROVE  node'[k] # NoNode => node'[k].own
  <2>1. CASE node'[k] = node[k] \/ node'[k] = NoNode
    BY <2>1
  <2>2. CASE node'[k] = [own |-> TRUE, value |-> Empty]
    BY <2>2
  <2>3. CASE node[k] # NoNode /\ node'[k] = [own |-> node[k].own, value |-> job[t].value]
    <3>1. node'[k].own = node[k].own
      BY <2>3
    <3> QED BY <2>3, <3>1
  <2> QED BY <1>1, <2>1, <2>2, <2>3, ThreadChanges DEF NodeChange
<1>2. CASE DeleteKey
  BY <1>1, <1>2 DEF Threads
<1>3. CASE SessionExpires \/ (\E h \in Keys : EarlierSessionExpires(h))
  BY <1>3 DEF SessionExpires, EarlierSessionExpires, Deleted, TypeOK
<1>4. ASSUME NEW h \in Keys, CallUnregister(h) \/ (\E v \in Values : CallRegister(h, v))
      PROVE  node'[k] = node[k]
  BY <1>4 DEF CallUnregister, CallRegister, Call, zkVars
<1>5. CASE ReplayStep \/ ConnectionLost \/ Reconnects \/ UNCHANGED vars
  BY <1>5 DEF ReplayStep, ReadEvent, PutAgain, ReplayEnds, ConnectionLost, Reconnects, vars, zkVars
<1> QED BY <1>1, <1>2, <1>3, <1>4, <1>5 DEF Next

-----------------------------------------------------------------------------
(* The calls *)

\* Every step keeps CallInv.
LEMMA CallInvStep == TypeOK /\ CallInv /\ [Next]_vars => CallInv'
<1> SUFFICES ASSUME TypeOK, CallInv, [Next]_vars
             PROVE  CallInv'
  OBVIOUS
<1> DEFINE Mine(k) == promise[k] \in Values \/ (pc["api"] \in Working /\ Key("api") = k)
           Ours == /\ pc["api"] # "idle" => promise[Key("api")] = "nothing"
                   /\ pc["api"] \in Working => op = "register"
                   /\ pc["api"] \in {"idle", "delete"} \cup Working
                   /\ pc["replay"] \in {"wait", "next"} \cup Working
           Good == \A k \in Keys : Mine(k)' => Mine(k) \/ node'[k] = NoNode
<1>0. Ours' /\ Good => CallInv'
  BY OwnStays DEF CallInv
<1> USE DEF TypeOK, Threads, Requests, Working, Goto, Key, zkVars, callVars
<1>1. ASSUME NEW h \in Keys, NEW v \in Values,
             \/ Call("unregister", h, v) /\ Goto("api", "delete")
             \/ CallRegister(h, v)
      PROVE  Ours' /\ Good
  <2>1. /\ pc' = [pc EXCEPT !["api"] = "delete"] /\ promise' = [promise EXCEPT ![h] = "nothing"]
        /\ job' = [job EXCEPT !["api"] = [key |-> h, value |-> v]]
    BY <1>1 DEF CallRegister, Call
  <2> QED BY <2>1, ValuesAssumption DEF CallInv
<1>2. ASSUME DeleteKey
      PROVE  Ours' /\ Good
  <2>1. job' = job /\ node' = Deleted(Key("api"))
    BY <1>2 DEF DeleteKey
  <2>2. CASE op = "register" /\ Goto("api", "exists") /\ UNCHANGED callVars
    BY <1>2, <2>1, <2>2 DEF CallInv, DeleteKey, Deleted
  <2>3. CASE Answer("api", IF node[Key("api")] = NoNode THEN "nothing" ELSE "absent")
    BY <1>2, <2>1, <2>3, ValuesAssumption DEF CallInv, DeleteKey, Answer
  <2> QED BY <1>2, <2>2, <2>3 DEF DeleteKey
<1>3. ASSUME NEW t \in Threads, Exists(t) \/ Create(t) \/ AppendReads(t) \/ AppendWrites(t)
      PROVE  Ours' /\ Good
  BY <1>3 DEF CallInv, Exists, Create, AppendReads, AppendWrites
<1>4. ASSUME NEW t \in Threads, Set(t)
      PROVE  Ours' /\ Good
  BY <1>4, ValuesAssumption DEF CallInv, Set, Answer
<1>5. ASSUME NEW t \in Threads, NoAnswer(t)
      PROVE  Ours' /\ Good
  BY <1>5, ValuesAssumption DEF CallInv, NoAnswer, Answer
<1>6. ASSUME ReplayStep
      PROVE  Ours' /\ Good
  BY <1>6 DEF CallInv, ReplayStep, ReadEvent, PutAgain, ReplayEnds
<1>7. ASSUME \/ ConnectionLost \/ SessionExpires \/ Reconnects \/ UNCHANGED vars
             \/ \E k \in Keys : EarlierSessionExpires(k)
      PROVE  Ours' /\ Good
  BY <1>7 DEF CallInv, ConnectionLost, SessionExpires, Reconnects, EarlierSessionExpires, vars
<1>8. Ours' /\ Good
  BY <1>1, <1>2, <1>3, <1>4, <1>5, <1>6, <1>7 DEF Next, CallUnregister, ThreadStep
<1> QED BY <1>0, <1>8

-----------------------------------------------------------------------------
(* What the store remembers *)

\* What an append and a tail do to the keys of a list.
LEMMA RememberedFacts ==
  ASSUME NEW s \in Seq(Job), NEW x \in Job
  PROVE  /\ x.key \in Remembered(Append(s, x))
         /\ s # <<>> => /\ Remembered(Tail(s)) \subseteq Remembered(s)
                       /\ Head(s).key \in Remembered(s)
                       /\ Remembered(s) \subseteq {Head(s).key} \cup Remembered(Tail(s))
<1>1. Len(s) + 1 \in DOMAIN Append(s, x) /\ Append(s, x)[Len(s) + 1] = x
  OBVIOUS
<1>2. ASSUME s # <<>>
      PROVE  /\ \A i \in DOMAIN Tail(s) : i + 1 \in DOMAIN s /\ Tail(s)[i] = s[i + 1]
             /\ \A i \in DOMAIN s : i = 1 \/ (i - 1 \in DOMAIN Tail(s) /\ Tail(s)[i - 1] = s[i])
             /\ 1 \in DOMAIN s /\ Head(s) = s[1]
  BY <1>2
<1>3. s # <<>> => Remembered(Tail(s)) \subseteq Remembered(s)
  BY <1>2 DEF Remembered
<1>4. s # <<>> => Remembered(s) \subseteq {Head(s).key} \cup Remembered(Tail(s))
  <2> SUFFICES ASSUME s # <<>>, NEW i \in DOMAIN s
               PROVE  s[i].key \in {Head(s).key} \cup Remembered(Tail(s))
    BY DEF Remembered
  <2>1. CASE i = 1
    BY <1>2, <2>1
  <2>2. CASE i - 1 \in DOMAIN Tail(s) /\ Tail(s)[i - 1] = s[i]
    BY <2>2 DEF Remembered
  <2> QED BY <1>2, <2>1, <2>2
<1>5. s # <<>> => Head(s).key \in Remembered(s)
  BY <1>2 DEF Remembered
<1>6. x.key \in Remembered(Append(s, x))
  BY <1>1 DEF Remembered
<1> QED BY <1>3, <1>4, <1>5, <1>6

\* What is remembered, or was forgotten, stays so.
LEMMA KeptStays ==
  ASSUME TypeOK, [Next]_vars
  PROVE  forgotten \subseteq forgotten' /\ \A k \in Keys : Kept(k) => (Kept(k))'
<1>1. ASSUME NEW t \in Threads, AppendWrites(t)
      PROVE  forgotten \subseteq forgotten' /\ \A k \in Keys : Kept(k) => (Kept(k))'
  BY <1>1 DEF AppendWrites, Kept
<1>2. CASE UNCHANGED memory
  BY <1>2 DEF memory, Kept, Remembered
<1> QED BY <1>1, <1>2 DEF Next, CallUnregister, CallRegister, Call, DeleteKey, ThreadStep, Exists, Create,
       AppendReads, Set, NoAnswer, ReplayStep, ReadEvent, PutAgain, ReplayEnds, ConnectionLost,
       SessionExpires, Reconnects, EarlierSessionExpires, vars

\* Every step keeps KeptInv.
LEMMA KeptInvStep == TypeOK /\ CallInv /\ KeptInv /\ [Next]_vars => KeptInv'
<1> SUFFICES ASSUME TypeOK, CallInv, KeptInv, [Next]_vars
             PROVE  KeptInv'
  OBVIOUS
<1>0. \A k \in Keys : Kept(k) => (Kept(k))'
  BY KeptStays
<1>1. /\ \A t \in Threads : Key(t) \in Keys
      /\ Remembered(backlog) \subseteq Keys /\ Remembered(ephemerals) \subseteq Keys
  BY JobFacts, RememberedKeys DEF TypeOK
<1> DEFINE Own(k) == node[k] # NoNode /\ node[k].own
           Late(k) == pc["api"] \in {"append", "appending"} /\ Key("api") = k
           \* The goroutine's part, and the api's.
           Replays == /\ (pc["replay"] \in Working => Kept(Key("replay")))'
                      /\ (\A k \in Remembered(backlog) : Kept(k))'
           Calls == /\ \A k \in Keys : Own(k)' => Own(k) \/ Kept(k) \/ Late(k)'
                    /\ \A k \in Keys : Late(k) => Late(k)' \/ (Kept(k))'
<1>2. Replays /\ Calls => KeptInv'
  BY <1>0 DEF KeptInv
<1> USE DEF TypeOK, Threads, Requests, Goto, zkVars, replayVars
<1>3. ASSUME UNCHANGED <<pc, job, node, backlog>>
      PROVE  Replays /\ Calls
  BY <1>0, <1>1, <1>3 DEF KeptInv, Key
<1>4. ASSUME NEW h \in Keys, NEW v \in Values,
             \/ Call("unregister", h, v) /\ Goto("api", "delete")
             \/ CallRegister(h, v)
      PROVE  Replays /\ Calls
  <2>1. /\ pc["api"] = "idle" /\ pc'["replay"] = pc["replay"] /\ job'["replay"] = job["replay"]
        /\ UNCHANGED <<node, backlog>>
    BY <1>4 DEF CallRegister, Call
  <2> QED BY <2>1, <1>0, <1>1 DEF KeptInv, Key
<1>5. ASSUME NEW t \in Threads, ThreadStep(t) \/ (DeleteKey /\ t = "api")
      PROVE  Replays /\ Calls
  <2>1. UNCHANGED <<job, backlog>> /\ \A u \in Threads : u # t => pc'[u] = pc[u]
    BY <1>5 DEF ThreadStep, DeleteKey, Exists, Create, AppendReads, AppendWrites, Set, NoAnswer, Answer
  <2>2. t = "replay" => pc["replay"] \in Working
    BY <1>5 DEF ThreadStep, Exists, Create, AppendReads, AppendWrites, Set, NoAnswer, Working, CallInv
  <2>3. Replays
    BY <1>0, <1>1, <2>1, <2>2 DEF KeptInv, Key
  <2>4. ASSUME NEW k \in Keys, Own(k)'
        PROVE  Own(k) \/ Kept(k) \/ Late(k)'
    <3>1. CASE node'[k] = node[k]
      BY <2>4, <3>1
    <3>2. CASE node[k] # NoNode /\ node'[k] = [own |-> node[k].own, value |-> job[t].value]
      <4>1. node'[k].own = node[k].own
        BY <3>2
      <4> QED BY <2>4, <3>2, <4>1
    <3>3. CASE k = Key(t) /\ pc[t] = "create"
      <4>1. CASE t = "replay"
        BY <3>3, <4>1, <2>2 DEF KeptInv
      <4>2. CASE t = "api"
        <5>1. pc'["api"] = "append"
          BY <1>5, <3>3, <4>2 DEF ThreadStep, DeleteKey, Exists, Create, AppendReads, AppendWrites, Set, NoAnswer
        <5> QED BY <2>1, <3>3, <4>2, <5>1 DEF Key
      <4> QED BY <4>1, <4>2
    <3> QED BY <1>5, <2>4, <3>1, <3>2, <3>3, ThreadChanges DEF NodeChange
  <2>5. ASSUME NEW k \in Keys, Late(k)
        PROVE  Late(k)' \/ (Kept(k))'
    <3>1. CASE t # "api"
      BY <2>1, <2>5, <3>1 DEF Key
    <3>2. CASE t = "api" /\ AppendReads("api")
      BY <2>1, <2>5, <3>2 DEF Key, AppendReads
    <3>3. CASE t = "api" /\ AppendWrites("api")
      <4>1. ephemerals' = Append(seen["api"], job["api"]) /\ job["api"].key = k
        BY <2>5, <3>3 DEF Key, AppendWrites
      <4> QED BY <4>1, RememberedFacts DEF Kept
    <3>4. t = "api" => AppendReads("api") \/ AppendWrites("api")
      BY <1>5, <2>5 DEF ThreadStep, DeleteKey, Exists, Create, Set, NoAnswer
    <3> QED BY <3>1, <3>2, <3>3, <3>4
  <2> QED BY <2>3, <2>4, <2>5
<1>6. ASSUME ReadEvent
      PROVE  Replays /\ Calls
  <2>1. /\ UNCHANGED <<job, node, ephemerals>> /\ pc'["api"] = pc["api"]
        /\ pc'["replay"] \in {pc["replay"], "next"} /\ backlog' \in {backlog, ephemerals}
    BY <1>6 DEF ReadEvent, memory
  <2> QED BY <2>1, <1>0, <1>1 DEF KeptInv, Key, Kept, Working
<1>7. ASSUME PutAgain
      PROVE  Replays /\ Calls
  <2>1. /\ UNCHANGED node /\ pc'["api"] = pc["api"] /\ job'["api"] = job["api"]
        /\ job'["replay"] = Head(backlog) /\ backlog # <<>> /\ backlog' = Tail(backlog)
    BY <1>7 DEF PutAgain
  <2>2. Head(backlog).key \in Remembered(backlog) /\ Remembered(Tail(backlog)) \subseteq Remembered(backlog)
    BY <2>1, RememberedFacts
  <2>3. Replays
    BY <2>1, <2>2, <1>0, <1>1 DEF KeptInv, Key
  <2> QED BY <2>1, <2>3 DEF Key
<1>8. ASSUME ReplayEnds
      PROVE  Replays /\ Calls
  <2>1. UNCHANGED <<job, node, backlog>> /\ pc'["api"] = pc["api"] /\ pc'["replay"] = "wait"
    BY <1>8 DEF ReplayEnds
  <2> QED BY <2>1, <1>0, <1>1 DEF KeptInv, Key, Working
<1>9. ASSUME SessionExpires \/ (\E k \in Keys : EarlierSessionExpires(k))
      PROVE  Replays /\ Calls
  <2>1. UNCHANGED <<job, pc, backlog>> /\ \A k \in Keys : node'[k] \in {node[k], NoNode}
    BY <1>9 DEF SessionExpires, EarlierSessionExpires, Deleted
  <2> QED BY <2>1, <1>0, <1>1 DEF KeptInv, Key
<1>10. ConnectionLost \/ Reconnects \/ UNCHANGED vars => UNCHANGED <<pc, job, node, backlog>>
  BY DEF ConnectionLost, Reconnects, vars
<1> QED BY <1>2, <1>3, <1>4, <1>5, <1>6, <1>7, <1>8, <1>9, <1>10 DEF Next, CallUnregister, ReplayStep

-----------------------------------------------------------------------------
(* What was promised *)

\* A key registered again with another value may end with the old one: the list
\* is put again from its oldest entry (zookeeper.go, line 77).
OneValue == \A v, w \in Values : v = w

\* What is owed stays so until the goroutine starts with a fresh list.
LEMMA OwedStays ==
  ASSUME TypeOK, EventsInv, [Next]_vars
  PROVE  /\ Owed => Owed' \/ (ReadEvent /\ pc'["replay"] = "next" /\ backlog' = ephemerals)
         /\ LoseConnection \/ Reconnects \/ SessionExpires => Owed'
<1>0. events \in Seq({"lost", "session"})
  BY DEF TypeOK
<1>1. CASE UNCHANGED <<conn, events>>
  <2>1. Owed => Owed'
    BY <1>1 DEF Owed
  <2>2. SessionExpires => Owed'
    BY <1>1 DEF Owed, SessionExpires
  <2> QED BY <1>1, <2>1, <2>2 DEF LoseConnection, Reconnects
<1>2. CASE LoseConnection
  BY <1>2 DEF LoseConnection, Owed
<1>3. CASE Reconnects
  <2>1. \/ events' = events \o <<"session">> /\ Len(events) + 1 \in DOMAIN events'
           /\ events'[Len(events) + 1] = "session"
        \/ events' = events \o <<"lost", "session">> /\ Len(events) + 2 \in DOMAIN events'
           /\ events'[Len(events) + 2] = "session"
    BY <1>0, <1>3 DEF Reconnects
  <2> QED BY <2>1 DEF Owed
<1>4. CASE ReadEvent
  <2>1. events # <<>> /\ events' = Tail(events) /\ conn' = conn
    BY <1>4 DEF ReadEvent
  <2>2. /\ 1 \in DOMAIN events /\ Head(events) = events[1]
        /\ \A i \in DOMAIN events : i # 1 => i - 1 \in DOMAIN events' /\ events'[i - 1] = events[i]
    BY <1>0, <2>1
  <2>3. CASE Head(events) = "session"
    <3>1. disconnected
      BY <2>2, <2>3 DEF EventsInv
    <3> QED BY <1>4, <2>3, <3>1 DEF ReadEvent, Goto, TypeOK, Threads, LoseConnection, Reconnects, SessionExpires
  <2>4. CASE Head(events) # "session"
    <3>1. Owed => Owed'
      BY <2>1, <2>2, <2>4 DEF Owed
    <3>2. SessionExpires => Owed'
      BY <1>4 DEF SessionExpires, Owed
    <3> QED BY <1>2, <1>3, <3>1, <3>2
  <2> QED BY <2>3, <2>4
<1> QED BY <1>1, <1>2, <1>3, <1>4 DEF Next, CallUnregister, CallRegister, Call, DeleteKey, ThreadStep, Exists,
       Create, AppendReads, AppendWrites, Set, NoAnswer, ReplayStep, PutAgain, ReplayEnds, ConnectionLost,
       SessionExpires, EarlierSessionExpires, vars, zkVars

\* The key has the node that was promised.
Put(k) == node[k] # NoNode /\ node[k] = [own |-> TRUE, value |-> promise[k]]

\* A new promise is made by the last request of Put, which found the node.
LEMMA Promised ==
  ASSUME TypeOK, CallInv, [Next]_vars, NEW k \in Keys, promise'[k] \in Values
  PROVE  \/ promise[k] \in Values /\ promise'[k] = promise[k]
         \/ /\ Set("api") /\ Key("api") = k /\ node[k] # NoNode /\ node[k].own
            /\ node'[k] = [own |-> TRUE, value |-> promise'[k]]
<1> USE ValuesAssumption DEF TypeOK, Threads, callVars
<1>1. CASE UNCHANGED promise
  BY <1>1
<1>2. ASSUME NEW h \in Keys, NEW v \in Values, Call("unregister", h, v) \/ CallRegister(h, v)
      PROVE  promise'[k] = promise[k]
  BY <1>2 DEF CallRegister, Call
<1>3. ASSUME NEW t \in Threads, NEW r \in {"nothing", "absent"}, Answer(t, r)
      PROVE  promise'[k] = promise[k]
  BY <1>3 DEF Answer
<1>4. CASE Set("api")
  <2>1. /\ pc["api"] = "set" /\ node' = Written(Key("api"), job["api"].value)
        /\ promise' = [promise EXCEPT ![Key("api")] =
                         IF node[Key("api")] = NoNode THEN "nothing" ELSE job["api"].value]
    BY <1>4 DEF Set, Answer
  <2>2. CASE Key("api") # k
    BY <2>1, <2>2
  <2>3. CASE Key("api") = k
    <3>1. node[k] # NoNode /\ promise'[k] = job["api"].value
      BY <2>1, <2>3
    <3>2. node[k].own /\ node[k] \in Node
      BY <2>1, <2>3, <3>1 DEF CallInv, Working
    <3>3. node[k].own = TRUE
      BY <3>2 DEF Node
    <3>4. [node[k] EXCEPT !.value = job["api"].value] = [own |-> TRUE, value |-> job["api"].value]
      <4>1. [node[k] EXCEPT !.value = job["api"].value]
              = [own |-> node[k].own, value |-> job["api"].value]
        BY <3>2, NodeRecord, JobFacts
      <4> QED BY <3>3, <4>1
    <3> QED BY <1>4, <2>1, <2>3, <3>1, <3>2, <3>4 DEF Written
  <2> QED BY <2>2, <2>3
<1>5. CASE Set("replay")
  BY <1>5 DEF Set, Answer
<1> QED BY <1>1, <1>2, <1>3, <1>4, <1>5 DEF Next, CallUnregister, DeleteKey, ThreadStep, Exists, Create,
       AppendReads, AppendWrites, NoAnswer, ReplayStep, ReadEvent, PutAgain, ReplayEnds, ConnectionLost,
       SessionExpires, Reconnects, EarlierSessionExpires, vars

\* A call on another key than a promised one.
LEMMA OtherKey ==
  ASSUME TypeOK, CallInv, NEW k \in Keys, promise[k] \in Values, pc["api"] # "idle"
  PROVE  Key("api") # k
BY ValuesAssumption DEF CallInv

\* While nothing is owed, a node that is there stays there, and one that comes is kept.
LEMMA GoodStays ==
  ASSUME TypeOK, StaysInv, OneValue, [Next]_vars, ~Owed, ~Owed',
         NEW k \in Keys, promise[k] \in Values, promise'[k] = promise[k]
  PROVE  /\ node[k] # NoNode => node'[k] # NoNode
         /\ Put(k) => (Put(k))'
<1>1. node[k] # NoNode => node[k].own
  BY DEF StaysInv, CallInv
<1>2. node \in [Keys -> Node \cup {NoNode}] /\ node' \in [Keys -> Node \cup {NoNode}]
  BY TypeStep DEF TypeOK
<1>3. CASE node'[k] = node[k]
  BY <1>3 DEF Put
<1>4. ASSUME NEW t \in Threads, ThreadStep(t) \/ (DeleteKey /\ t = "api")
      PROVE  /\ node[k] # NoNode => node'[k] # NoNode
             /\ Put(k) => (Put(k))'
  <2>1. ~(k = Key(t) /\ pc[t] = "delete")
    <3>1. t = "api" \/ t = "replay"
      BY DEF Threads
    <3>2. pc["replay"] # "delete"
      BY DEF StaysInv, CallInv, Working
    <3>3. k = Key("api") => pc["api"] = "idle"
      BY OtherKey DEF StaysInv
    <3> QED BY <3>1, <3>2, <3>3
  <2>2. CASE node[k] = NoNode
    BY <2>2 DEF Put
  <2>3. CASE node[k] # NoNode /\ node'[k] = [own |-> node[k].own, value |-> job[t].value]
    <3>1. node[k] \in Node
      BY <1>2, <2>3
    <3>2. job[t].value = promise[k]
      BY JobFacts DEF OneValue
    <3>3. Put(k) => node[k].own = TRUE
      BY DEF Put
    <3>4. node'[k] # NoNode
      BY <2>3, <3>1, JobFacts, NodeRecord
    <3> QED BY <2>3, <3>2, <3>3, <3>4 DEF Put
  <2> QED BY <1>3, <1>4, <2>1, <2>2, <2>3, ThreadChanges DEF NodeChange
<1>5. ASSUME NEW h \in Keys, EarlierSessionExpires(h)
      PROVE  node'[k] = node[k]
  BY <1>1, <1>2, <1>5 DEF EarlierSessionExpires, Deleted
<1>6. CASE DeleteKey
  BY <1>4, <1>6 DEF Threads
<1>7. ~SessionExpires
  BY OwedStays DEF StaysInv
<1> QED BY <1>3, <1>4, <1>5, <1>6, <1>7 DEF Next, CallUnregister, CallRegister, Call, ReplayStep, ReadEvent,
       PutAgain, ReplayEnds, ConnectionLost, Reconnects, vars, zkVars

\* While nothing is owed, what the goroutine is about to put gets there.
LEMMA ComingArrives ==
  ASSUME TypeOK, StaysInv, OneValue, [Next]_vars, ~Owed, ~Owed',
         NEW k \in Keys, promise[k] \in Values, promise'[k] = promise[k], Coming(k)
  PROVE  (Coming(k))' \/ (Put(k))'
<1> USE DEF TypeOK, Threads, zkVars, replayVars, Goto
<1>0. node[k] # NoNode => node'[k] # NoNode
  BY GoodStays
<1>1. CASE UNCHANGED <<backlog, pc, job>>
  BY <1>0, <1>1 DEF Coming, Key
<1>2. ASSUME UNCHANGED backlog, pc'["replay"] = pc["replay"], job'["replay"] = job["replay"]
      PROVE  (Coming(k))'
  BY <1>0, <1>2 DEF Coming, Key
<1>3. ASSUME NEW h \in Keys, NEW v \in Values,
             \/ Call("unregister", h, v) /\ Goto("api", "delete")
             \/ CallRegister(h, v)
      PROVE  (Coming(k))'
  <2>1. UNCHANGED backlog /\ pc'["replay"] = pc["replay"] /\ job'["replay"] = job["replay"]
    BY <1>3 DEF CallRegister, Call
  <2> QED BY <1>2, <2>1
<1>4. ASSUME DeleteKey \/ ThreadStep("api")
      PROVE  (Coming(k))'
  <2>1. UNCHANGED backlog /\ pc'["replay"] = pc["replay"] /\ job'["replay"] = job["replay"]
    BY <1>4 DEF DeleteKey, ThreadStep, Exists, Create, AppendReads, AppendWrites, Set, NoAnswer, Answer
  <2> QED BY <1>2, <2>1
<1>5. ASSUME ThreadStep("replay")
      PROVE  (Coming(k))' \/ (Put(k))'
  <2>0. UNCHANGED <<backlog, job>>
    BY <1>5 DEF ThreadStep, Exists, Create, AppendReads, AppendWrites, Set, NoAnswer
  <2>1. CASE k \in Remembered(backlog)
    BY <2>0, <2>1 DEF Coming
  <2>2. CASE k \notin Remembered(backlog)
    <3>1. Key("replay") = k /\ Key("replay")' = k
      BY <2>0, <2>2 DEF Coming, Key
    <3>2. CASE Exists("replay")
      BY <3>1, <3>2 DEF Exists, Coming
    <3>3. CASE Create("replay")
      <4>1. pc'["replay"] = "append" /\ node' = Created(k)
        BY <3>1, <3>3 DEF Create
      <4>2. node'[k] # NoNode
        <5>1. [own |-> TRUE, value |-> Empty] \in Node
          BY DEF Node
        <5> QED BY <4>1, <5>1, NoNodeAssumption DEF Created
      <4> QED BY <3>1, <4>1, <4>2 DEF Coming
    <3>4. CASE AppendReads("replay") \/ AppendWrites("replay")
      BY <1>0, <2>2, <3>1, <3>4 DEF AppendReads, AppendWrites, Coming
    <3>5. CASE Set("replay")
      <4>1. node[k] # NoNode /\ node' = Written(k, job["replay"].value) /\ node[k] \in Node
        BY <2>2, <3>1, <3>5 DEF Set, Coming
      <4>2. node[k].own = TRUE
        BY <4>1 DEF StaysInv, CallInv, Node
      <4>3. job["replay"].value = promise[k]
        BY JobFacts DEF OneValue
      <4>4. [node[k] EXCEPT !.value = promise[k]] = [own |-> node[k].own, value |-> promise[k]]
        BY <4>1, NodeRecord
      <4>5. node'[k] = [own |-> TRUE, value |-> promise[k]]
        BY <4>1, <4>2, <4>3, <4>4 DEF Written
      <4> QED BY <1>0, <4>1, <4>5 DEF Put
    <3>6. ~NoAnswer("replay")
      <4>1. ~LoseConnection
        BY OwedStays DEF StaysInv
      <4> QED BY <4>1 DEF NoAnswer, Owed
    <3> QED BY <1>5, <3>2, <3>3, <3>4, <3>5, <3>6 DEF ThreadStep
  <2> QED BY <2>1, <2>2
<1>6. ~ReadEvent \/ UNCHANGED <<backlog, pc, job>>
  <2>1. ASSUME ReadEvent
        PROVE  FALSE
    <3>1. pc["replay"] = "wait" /\ backlog = <<>>
      BY <2>1 DEF ReadEvent, StaysInv, EventsInv
    <3> QED BY <3>1 DEF Coming, Remembered
  <2> QED BY <2>1
<1>7. ASSUME PutAgain
      PROVE  (Coming(k))'
  <2>1. /\ pc["replay"] = "next" /\ pc'["replay"] = "exists" /\ backlog # <<>>
        /\ job'["replay"] = Head(backlog) /\ backlog' = Tail(backlog)
    BY <1>7 DEF PutAgain
  <2>2. k \in Remembered(backlog)
    BY <2>1 DEF Coming
  <2>3. k = Head(backlog).key \/ k \in Remembered(Tail(backlog))
    BY <2>1, <2>2, RememberedFacts, JobFacts
  <2> QED BY <2>1, <2>3 DEF Coming, Key
<1>8. ~ReplayEnds
  <2>1. ReplayEnds => pc["replay"] = "next" /\ backlog = <<>>
    BY DEF ReplayEnds
  <2> QED BY <2>1 DEF Coming, Remembered
<1> QED BY <1>1, <1>3, <1>4, <1>5, <1>6, <1>7, <1>8 DEF Next, CallUnregister, ReplayStep, ConnectionLost,
       SessionExpires, Reconnects, EarlierSessionExpires, vars

\* Every step keeps PromiseInv, when every key has one value.
LEMMA PromiseInvStep == TypeOK /\ StaysInv /\ OneValue /\ [Next]_vars => PromiseInv'
<1> SUFFICES ASSUME TypeOK, StaysInv, OneValue, [Next]_vars, NEW k \in Keys, promise'[k] \in Values
             PROVE  /\ (Kept(k))'
                    /\ k \notin forgotten' =>
                         \/ node'[k] = [own |-> TRUE, value |-> promise'[k]]
                         \/ Owed' \/ (Coming(k))'
  BY DEF PromiseInv
<1>1. CASE promise[k] \in Values /\ promise'[k] = promise[k]
  <2>1. (Kept(k))'
    BY <1>1, KeptStays DEF StaysInv, PromiseInv
  <2>2. ASSUME k \notin forgotten', ~Owed'
        PROVE  (Put(k))' \/ (Coming(k))'
    <3>1. k \notin forgotten
      BY <2>2, KeptStays
    <3>2. CASE Owed
      <4>1. ReadEvent /\ backlog' = ephemerals
        BY <2>2, <3>2, OwedStays DEF StaysInv
      <4>2. k \in Remembered(ephemerals)
        BY <1>1, <3>1 DEF StaysInv, PromiseInv, Kept
      <4> QED BY <4>1, <4>2 DEF Coming
    <3>3. CASE ~Owed /\ Coming(k)
      BY <1>1, <2>2, <3>3, ComingArrives
    <3>4. CASE ~Owed /\ node[k] = [own |-> TRUE, value |-> promise[k]]
      <4>1. [own |-> TRUE, value |-> promise[k]] \in Node
        BY <1>1 DEF Node
      <4>2. Put(k)
        BY <3>4, <4>1, NoNodeAssumption DEF Put
      <4> QED BY <1>1, <2>2, <3>4, <4>2, GoodStays
    <3> QED BY <1>1, <3>1, <3>2, <3>3, <3>4 DEF StaysInv, PromiseInv
  <2> QED BY <2>1, <2>2 DEF Put
<1>2. CASE /\ Set("api") /\ Key("api") = k /\ node[k] # NoNode /\ node[k].own
           /\ node'[k] = [own |-> TRUE, value |-> promise'[k]]
  <2>1. Kept(k)
    BY <1>2 DEF Set, StaysInv, KeptInv
  <2> QED BY <1>2, <2>1, KeptStays
<1> QED BY <1>1, <1>2, Promised DEF StaysInv

\* The invariant holds at the start, when nothing is promised.
LEMMA StaysInit == Init => StaysInv
<1> SUFFICES ASSUME Init
             PROVE  StaysInv
  OBVIOUS
<1>1. /\ conn = "up" /\ events = <<>> /\ backlog = <<>> /\ pc["api"] = "idle" /\ pc["replay"] = "wait"
      /\ \A k \in Keys : promise[k] = "nothing"
      /\ \A k \in Keys : node[k] # NoNode => node[k].own = FALSE
  BY DEF Init, Threads
<1>2. EventsInv
  BY <1>1 DEF EventsInv
<1>3. CallInv
  <2>1. promise[Key("api")] = "nothing" \/ pc["api"] = "idle"
    BY <1>1
  <2> QED BY <1>1, <2>1, ValuesAssumption DEF CallInv, Working
<1>4. KeptInv
  BY <1>1 DEF KeptInv, Working, Remembered
<1>5. PromiseInv
  BY <1>1, ValuesAssumption DEF PromiseInv
<1> QED BY <1>2, <1>3, <1>4, <1>5 DEF StaysInv

\* A registered key whose append was not overwritten has its node whenever
\* nothing is under way, after any number of outages and expiries, when every
\* key has one value.
THEOREM RegisteredAlwaysStays ==
  ASSUME OneValue
  PROVE  Spec => []RegisteredStays
<1>1. Init => TypeOK /\ StaysInv
  BY TypeInit, StaysInit
<1>2. TypeOK /\ StaysInv /\ [Next]_vars => (TypeOK /\ StaysInv)'
  BY OneValue, TypeStep, EventsStep, CallInvStep, KeptInvStep, PromiseInvStep DEF StaysInv
<1>3. TypeOK /\ StaysInv => RegisteredStays
  <2> SUFFICES ASSUME TypeOK, StaysInv, Settled, NEW k \in Keys, promise[k] \in Values, k \notin forgotten
               PROVE  node[k] = [own |-> TRUE, value |-> promise[k]]
    BY DEF RegisteredStays
  <2>1. backlog = <<>> /\ pc["replay"] = "wait"
    BY DEF Settled, StaysInv, EventsInv
  <2>2. ~Coming(k)
    BY <2>1 DEF Coming, Remembered
  <2>3. ~Owed
    BY DEF Settled, Owed
  <2> QED BY <2>2, <2>3 DEF StaysInv, PromiseInv
<1> QED BY <1>1, <1>2, <1>3, PTL DEF Spec
=============================================================================
