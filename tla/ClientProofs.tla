----------------------------- MODULE ClientProofs -----------------------------
(***************************************************************************)
(* What Client guarantees for any number of callers, services,             *)
(* configurations and failures, and Picks for any backends, balancers and  *)
(* numbers of picks.                                                       *)
(***************************************************************************)
EXTENDS Client, Picks, FiniteSetTheorems, SequenceTheorems, TLAPS

-----------------------------------------------------------------------------
(* Types *)

\* What a step of a caller needs to know of its configuration.
LEMMA ConfigFacts ==
  ASSUME ClientTypeOK, NEW g \in Callers
  PROVE  /\ conf[g].service \in Services \cup {NoService}
         /\ conf[g].registry \in {"none", "plain", "zookeeper"}
         /\ conf[g].balancer \in V1Balancers \cup Experimental
         /\ NameOf(conf[g].balancer) \in Names
<1>1. conf[g] \in ClientConfig
  BY DEF ClientTypeOK
<1> QED BY <1>1 DEF ClientConfig, NameOf, Names

LEMMA ClientTypeInit == ClientInit => ClientTypeOK
<1>1. NoConfig \in ClientConfig
  BY DEF NoConfig, ClientConfig, V1Balancers, Experimental
<1>2. ClientInit => /\ process = "running" /\ resolvers \in Services \cup {NoService}
                    /\ balancers \in [Names -> {"none", "plain", "weight"}]
                    /\ {register, lock} \subseteq Callers \cup {NoOne} /\ node \subseteq Services
                    /\ conf \in [Callers -> ClientConfig]
  BY <1>1 DEF ClientInit
<1>3. ClientInit => \A g \in Callers : pc[g] = "idle" /\ lock # g
  BY NoOneAssumption DEF ClientInit
<1>4. ClientInit => /\ service \in [Callers -> Services \cup {NoService}]
                    /\ weight \in [Callers -> {"none", "plain", "weight"}]
                    /\ via \in [Callers -> Callers \cup {NoOne}]
                    /\ announced \in [Callers -> {"no", "yes", "failed"}]
  BY DEF ClientInit
<1>5. ClientInit => /\ opened \subseteq Callers /\ met \in [Callers -> SUBSET Callers]
                    /\ failures \in 0..MaxFailures
  BY FailuresAssumption DEF ClientInit
<1>6. ClientInit => pc \in [Callers -> {"idle"}]
  BY DEF ClientInit
<1> QED BY <1>2, <1>3, <1>4, <1>5, <1>6 DEF ClientTypeOK

\* The steps of RegisterClient.
Announces(g) ==
  ReadsRegister(g) \/ DeletesNode(g) \/ AsksExists(g) \/ CreatesNode(g) \/ SetsNode(g)

\* Only clients of a service get as far as announcing themselves.
Announcing == {"test", "locking", "opening", "announcing", "waiting"} \cup Requests
OfService == \A g \in Callers : pc[g] \in Announcing => conf[g].service # NoService

LEMMA ClientTypeStep == ClientTypeOK /\ OfService /\ [ClientNext]_clientVars => ClientTypeOK'
<1> SUFFICES ASSUME ClientTypeOK, OfService, [ClientNext]_clientVars
             PROVE  ClientTypeOK'
  OBVIOUS
<1> USE DEF ClientTypeOK, clientVars, tableVars, sharedVars, gotVars, annVars, At, Goes,
            Fatal, Running
<1>1. Fails => failures' \in 0..MaxFailures
  BY FailuresAssumption DEF Fails
<1>2. ASSUME NEW g \in Callers, NEW cf \in Configs, NewClientCalled(g, cf)
      PROVE  ClientTypeOK'
  <2>1. conf' \in [Callers -> ClientConfig]
    BY <1>2, ConfigsAssumption DEF NewClientCalled
  <2>2. met' \in [Callers -> SUBSET Callers]
    <3>1. {i \in Callers : Inside(i)} \in SUBSET Callers
      OBVIOUS
    <3>2. \A h \in Callers : (IF h = g THEN {i \in Callers : Inside(i)}
                              ELSE IF Inside(h) THEN met[h] \cup {g} ELSE met[h]) \in SUBSET Callers
      BY <3>1
    <3> QED BY <1>2, <3>2 DEF NewClientCalled
  <2> QED BY <1>2, <2>1, <2>2 DEF NewClientCalled
<1>3. ASSUME NEW g \in Callers, RegistersResolver(g) \/ WithoutResolver(g)
      PROVE  ClientTypeOK'
  BY <1>3, ConfigFacts DEF RegistersResolver, WithoutResolver
<1>4. ASSUME NEW g \in Callers, RegistersBalancer(g)
      PROVE  ClientTypeOK'
  <2>1. balancers' \in [Names -> {"none", "plain", "weight"}]
    BY <1>4, ConfigFacts DEF RegistersBalancer
  <2> QED BY <1>4, <2>1 DEF RegistersBalancer
<1>5. ASSUME NEW g \in Callers, WithBalancerName(g)
      PROVE  ClientTypeOK'
  <2>1. weight' \in [Callers -> {"none", "plain", "weight"}]
    BY <1>5, ConfigFacts DEF WithBalancerName
  <2> QED BY <1>5, <2>1 DEF WithBalancerName
<1>6. ASSUME NEW g \in Callers, OriginInit(g)
      PROVE  ClientTypeOK'
  <2>1. /\ weight' \in [Callers -> {"none", "plain", "weight"}]
        /\ service' \in [Callers -> Services \cup {NoService}]
    BY <1>6, ConfigFacts DEF OriginInit
  <2> QED BY <1>6, <2>1 DEF OriginInit
<1>7. ASSUME NEW g \in Callers, Dial(g)
      PROVE  ClientTypeOK'
  BY <1>1, <1>7 DEF Dial
<1>8. ASSUME NEW g \in Callers, NEW h \in Callers, TablesRace(g, h)
      PROVE  ClientTypeOK'
  BY <1>8 DEF TablesRace
<1>9. ASSUME NEW g \in Callers, TestsRegister(g)
      PROVE  ClientTypeOK'
  BY <1>9 DEF TestsRegister
<1>10. ASSUME NEW g \in Callers, TakesLock(g)
       PROVE  ClientTypeOK'
  BY <1>10, NoOneAssumption DEF TakesLock
<1>11. ASSUME NEW g \in Callers, OpensRegister(g)
       PROVE  ClientTypeOK'
  BY <1>1, <1>11, NoOneAssumption DEF OpensRegister
<1>12. ASSUME NEW g \in Callers, ReadsRegister(g) \/ DeletesNode(g) \/ AsksExists(g)
       PROVE  ClientTypeOK'
  BY <1>1, <1>12 DEF ReadsRegister, DeletesNode, AsksExists, Requests
<1>13. ASSUME NEW g \in Callers, CreatesNode(g)
       PROVE  ClientTypeOK'
  <2>1. node' \subseteq Services
    BY <1>13, ConfigFacts DEF CreatesNode, OfService, Announcing, Requests
  <2> QED BY <1>1, <1>13, <2>1 DEF CreatesNode, Requests
<1>14. ASSUME NEW g \in Callers, SetsNode(g)
       PROVE  ClientTypeOK'
  BY <1>1, <1>14 DEF SetsNode, Requests
<1>15. CASE UNCHANGED clientVars
  BY <1>15
<1> QED BY <1>2, <1>3, <1>4, <1>5, <1>6, <1>7, <1>8, <1>9, <1>10, <1>11, <1>12, <1>13, <1>14, <1>15
        DEF ClientNext, Announces

LEMMA OfServiceStep == ClientTypeOK /\ OfService /\ [ClientNext]_clientVars => OfService'
<1> SUFFICES ASSUME ClientTypeOK, OfService, [ClientNext]_clientVars
             PROVE  OfService'
  OBVIOUS
<1> USE DEF OfService, Announcing, Requests, ClientTypeOK, At, Goes, Fatal
<1>1. ASSUME NEW g \in Callers, NEW cf \in Configs, NewClientCalled(g, cf)
      PROVE  OfService'
  BY <1>1 DEF NewClientCalled
<1>2. ASSUME NEW g \in Callers,
             \/ RegistersResolver(g) \/ WithoutResolver(g) \/ RegistersBalancer(g)
             \/ WithBalancerName(g) \/ OriginInit(g)
      PROVE  OfService'
  BY <1>2 DEF RegistersResolver, WithoutResolver, RegistersBalancer, WithBalancerName, OriginInit
<1>3. ASSUME NEW g \in Callers, Dial(g) \/ (\E h \in Callers : TablesRace(g, h))
      PROVE  OfService'
  BY <1>3 DEF Dial, TablesRace
<1>4. ASSUME NEW g \in Callers, TestsRegister(g) \/ TakesLock(g) \/ OpensRegister(g)
      PROVE  OfService'
  BY <1>4 DEF TestsRegister, TakesLock, OpensRegister
<1>5. ASSUME NEW g \in Callers, Announces(g)
      PROVE  OfService'
  BY <1>5 DEF Announces, ReadsRegister, DeletesNode, AsksExists, CreatesNode, SetsNode
<1>6. CASE UNCHANGED clientVars
  BY <1>6 DEF clientVars
<1> QED BY <1>1, <1>2, <1>3, <1>4, <1>5, <1>6 DEF ClientNext, Announces

LEMMA CallTypeInit == CallInit => CallTypeOK
<1>1. 0 \in 0..MaxTries /\ 0 \in 0..MaxCalls /\ 0 \in Nat
  BY CallBounds
<1>2. CallInit => logger \in BOOLEAN
  BY Zenon DEF CallInit
<1>3. CallInit => calls \in 0..MaxCalls
  BY <1>1 DEF CallInit
<1>4. CallInit => /\ call \in [Callers -> {"idle", "user", "attempt"}]
                  /\ kind \in [Callers -> {"unary", "stream"}]
                  /\ deadline \in [Callers -> {"none", "caller", "client"}]
  BY DEF CallInit
<1>5. CallInit => slow \in [Callers -> BOOLEAN]
  BY DEF CallInit
<1>6. CallInit => tries \in [Callers -> 0..MaxTries]
  BY <1>1 DEF CallInit
<1> QED BY <1>2, <1>3, <1>4, <1>5, <1>6 DEF CallTypeOK

LEMMA CallTypeStep == CallTypeOK /\ CallNext => CallTypeOK'
<1> SUFFICES ASSUME CallTypeOK, CallNext
             PROVE  CallTypeOK'
  OBVIOUS
<1> USE CallBounds DEF CallTypeOK, In, Comes
<1>1. CASE SetMonitorLog
  BY <1>1 DEF SetMonitorLog
<1>2. ASSUME NEW g \in Callers, HelloWorld(g) \/ NewStream(g)
      PROVE  CallTypeOK'
  <2>1. \E k \in {"unary", "stream"} : Invoked(g, k)
    BY <1>2 DEF HelloWorld, NewStream
  <2> QED BY <2>1 DEF Invoked
<1>3. ASSUME NEW g \in Callers, Attempt(g)
      PROVE  CallTypeOK'
  BY <1>3 DEF Attempt, TimeOut
<1>4. ASSUME NEW g \in Callers, Tarries(g)
      PROVE  CallTypeOK'
  BY <1>4 DEF Tarries
<1>5. ASSUME NEW g \in Callers, Answered(g) \/ DeadlineExceeded(g)
      PROVE  CallTypeOK'
  BY <1>5 DEF Answered, DeadlineExceeded, Monitored
<1>6. ASSUME NEW g \in Callers, CallReturns(g)
      PROVE  CallTypeOK'
  BY <1>6 DEF CallReturns
<1> QED BY <1>1, <1>2, <1>3, <1>4, <1>5, <1>6 DEF CallNext

\* A call changes nothing of NewClient but that it may end the process.
LEMMA CallKeeps ==
  ASSUME ClientTypeOK, CallNext, Others
  PROVE  ClientTypeOK'
<1>1. process' \in {process, "panicked"}
  BY DEF CallNext, SetMonitorLog, HelloWorld, NewStream, Invoked, Attempt, Tarries, Answered,
         DeadlineExceeded, Monitored, CallReturns
<1> QED BY <1>1 DEF ClientTypeOK, Others, tableVars, sharedVars, gotVars, annVars

TypeInv == TypeOK /\ OfService

LEMMA TypeInit == Init => TypeInv
<1>1. ClientInit => OfService
  BY DEF ClientInit, OfService, Announcing, Requests
<1> QED BY <1>1, ClientTypeInit, CallTypeInit DEF Init, TypeInv, TypeOK

LEMMA TypeStep == TypeInv /\ [Next]_vars => TypeInv'
<1> SUFFICES ASSUME ClientTypeOK, CallTypeOK, OfService, [Next]_vars
             PROVE  ClientTypeOK' /\ CallTypeOK' /\ OfService'
  BY DEF TypeInv, TypeOK
<1>1. CASE ClientNext /\ UNCHANGED callVars
  BY <1>1, ClientTypeStep, OfServiceStep DEF CallTypeOK, callVars
<1>2. CASE CallNext /\ Others
  <2>1. OfService'
    BY <1>2 DEF OfService, Others
  <2> QED BY <1>2, <2>1, CallTypeStep, CallKeeps
<1>3. CASE UNCHANGED vars
  BY <1>3, ClientTypeStep, OfServiceStep DEF vars, CallTypeOK, callVars
<1> QED BY <1>1, <1>2, <1>3 DEF Next

\* Every variable keeps its type, and the lock of the registry is held exactly
\* while a connection to it is opened.
THEOREM TypeCorrect == Spec => []TypeOK
<1>1. TypeInv => TypeOK
  BY DEF TypeInv
<1> QED BY <1>1, TypeInit, TypeStep, PTL DEF Spec

LEMMA Typed == Spec => []TypeInv
BY TypeInit, TypeStep, PTL DEF Spec

-----------------------------------------------------------------------------
(* Calls of NewClient that overlap *)

\* Two callers in NewClient know of each other, and nobody knows of one that has
\* not called.
MetInv ==
  /\ \A g, h \in Callers : g # h /\ Inside(g) /\ Inside(h) => h \in met[g] /\ g \in met[h]
  /\ \A g \in Callers : \A h \in met[g] : pc[h] # "idle"

\* What a step of a caller does to the positions: nobody else moves, nobody comes
\* back to "idle", and only a call changes a configuration or who met whom.
LEMMA Moves ==
  ASSUME ClientTypeOK, ClientNext
  PROVE  \/ \E g \in Callers, cf \in Configs : NewClientCalled(g, cf)
         \/ /\ UNCHANGED <<conf, met>>
            /\ \A g \in Callers : pc'[g] = pc[g] \/ (Inside(g) /\ pc'[g] # "idle")
<1> USE DEF ClientTypeOK, At, Goes, Fatal, Inside
<1>1. ASSUME NEW g \in Callers,
             \/ RegistersResolver(g) \/ WithoutResolver(g) \/ RegistersBalancer(g)
             \/ WithBalancerName(g) \/ OriginInit(g)
      PROVE  /\ UNCHANGED <<conf, met>>
             /\ \A h \in Callers : pc'[h] = pc[h] \/ (Inside(h) /\ pc'[h] # "idle")
  BY <1>1 DEF RegistersResolver, WithoutResolver, RegistersBalancer, WithBalancerName, OriginInit
<1>2. ASSUME NEW g \in Callers, Dial(g) \/ (\E h \in Callers : TablesRace(g, h))
      PROVE  /\ UNCHANGED <<conf, met>>
             /\ \A h \in Callers : pc'[h] = pc[h] \/ (Inside(h) /\ pc'[h] # "idle")
  BY <1>2 DEF Dial, TablesRace
<1>3. ASSUME NEW g \in Callers, TestsRegister(g) \/ TakesLock(g) \/ OpensRegister(g)
      PROVE  /\ UNCHANGED <<conf, met>>
             /\ \A h \in Callers : pc'[h] = pc[h] \/ (Inside(h) /\ pc'[h] # "idle")
  BY <1>3 DEF TestsRegister, TakesLock, OpensRegister
<1>4. ASSUME NEW g \in Callers, Announces(g)
      PROVE  /\ UNCHANGED <<conf, met>>
             /\ \A h \in Callers : pc'[h] = pc[h] \/ (Inside(h) /\ pc'[h] # "idle")
  BY <1>4 DEF Announces, ReadsRegister, DeletesNode, AsksExists, CreatesNode, SetsNode
<1> QED BY <1>1, <1>2, <1>3, <1>4 DEF ClientNext, Announces

\* Who met whom only grows, but for the caller that starts.
LEMMA Called ==
  ASSUME ClientTypeOK, NEW g \in Callers, NEW cf \in Configs, NewClientCalled(g, cf)
  PROVE  /\ pc[g] = "idle" /\ pc'[g] \in {"experiment", "origin"} /\ conf'[g] = cf
         /\ met'[g] = {i \in Callers : Inside(i)}
         /\ \A h \in Callers : h # g =>
              /\ pc'[h] = pc[h] /\ conf'[h] = conf[h] /\ met[h] \subseteq met'[h]
              /\ met'[h] = IF Inside(h) THEN met[h] \cup {g} ELSE met[h]
         /\ UNCHANGED <<tableVars, sharedVars, gotVars, annVars>>
BY DEF NewClientCalled, ClientTypeOK, At

LEMMA MetInit == ClientInit => MetInv
BY DEF ClientInit, MetInv, Inside

LEMMA MetStep == ClientTypeOK /\ MetInv /\ [ClientNext]_clientVars => MetInv'
<1> SUFFICES ASSUME ClientTypeOK, MetInv, [ClientNext]_clientVars
             PROVE  MetInv'
  OBVIOUS
<1>1. \A g \in Callers : met[g] \subseteq Callers
  BY DEF ClientTypeOK
<1>2. ASSUME UNCHANGED <<conf, met>>,
             \A g \in Callers : pc'[g] = pc[g] \/ (Inside(g) /\ pc'[g] # "idle")
      PROVE  MetInv'
  <2>1. \A g \in Callers : (Inside(g))' => Inside(g)
    BY <1>2 DEF Inside
  <2>2. \A g \in Callers : pc[g] # "idle" => pc'[g] # "idle"
    BY <1>2
  <2> QED BY <1>1, <1>2, <2>1, <2>2 DEF MetInv
<1>3. ASSUME NEW g \in Callers, NEW cf \in Configs, NewClientCalled(g, cf)
      PROVE  MetInv'
  <2>1. \A h \in Callers : h # g => ((Inside(h))' <=> Inside(h))
    BY <1>3, Called DEF Inside
  <2>2. \A h \in Callers : pc[h] # "idle" \/ h = g => pc'[h] # "idle"
    BY <1>3, Called
  <2>3. ASSUME NEW h \in Callers, NEW k \in Callers, h # k, (Inside(h))', (Inside(k))'
        PROVE  k \in met'[h]
    <3>1. CASE h = g
      BY <1>3, <2>1, <2>3, <3>1, Called
    <3>2. CASE h # g /\ k = g
      BY <1>3, <2>1, <2>3, <3>2, Called
    <3>3. CASE h # g /\ k # g
      BY <1>3, <2>1, <2>3, <3>3, Called DEF MetInv
    <3> QED BY <3>1, <3>2, <3>3
  <2>4. ASSUME NEW h \in Callers, NEW k \in met'[h]
        PROVE  pc'[k] # "idle"
    <3>1. CASE h = g
      BY <1>3, <2>2, <3>1, Called DEF Inside
    <3>2. CASE h # g
      <4>1. met'[h] \in {met[h], met[h] \cup {g}}
        BY <1>3, <3>2, Called
      <4>2. k \in met[h] => k \in Callers /\ pc[k] # "idle"
        BY <1>1 DEF MetInv
      <4> QED BY <2>2, <2>4, <4>1, <4>2
    <3> QED BY <3>1, <3>2
  <2> QED BY <2>3, <2>4 DEF MetInv
<1>4. CASE UNCHANGED clientVars
  BY <1>4 DEF clientVars, MetInv, Inside
<1> QED BY <1>2, <1>3, <1>4, Moves

-----------------------------------------------------------------------------
(* The connection to the registry *)

Overlap(g, h) == h \in met[g] \/ g \in met[h]
Opened == {"announcing", "waiting"} \cup Requests

\* Whoever is about to open a connection, although one was opened, tested while
\* there was none: its call and that of the opener overlap.
OpenedInv ==
  /\ opened # {} => register # NoOne
  /\ \A g \in Callers : pc[g] \in Opened => register # NoOne
  /\ \A g \in opened : pc[g] \in Opened \cup {"ready"}
  /\ \A g \in opened, h \in Callers : pc[h] \in {"locking", "opening"} => Overlap(g, h)
  /\ \A g, h \in opened : g # h => Overlap(g, h)

\* Steps of NewClient that leave the registry alone.
LEMMA OpenedKept ==
  ASSUME ClientTypeOK, OpenedInv, UNCHANGED <<register, opened>>,
         \A g \in Callers : met[g] \subseteq met'[g],
         \A g \in Callers : pc'[g] \in Opened => pc[g] \in Opened \/ register # NoOne,
         \A g \in Callers : pc[g] \in Opened \cup {"ready"} => pc'[g] \in Opened \cup {"ready"},
         \A g \in Callers : pc'[g] \in {"locking", "opening"} =>
                           pc[g] \in {"locking", "opening"} \/ register = NoOne
  PROVE  OpenedInv'
<1>1. opened \subseteq Callers
  BY DEF ClientTypeOK
<1>2. \A g, h \in Callers : Overlap(g, h) => (Overlap(g, h))'
  BY DEF Overlap
<1>3. \A g \in opened, h \in Callers : pc'[h] \in {"locking", "opening"} => Overlap(g, h)
  BY DEF OpenedInv
<1> QED BY <1>1, <1>2, <1>3 DEF OpenedInv

LEMMA OpenedStep ==
  ClientTypeOK /\ MetInv /\ OpenedInv /\ [ClientNext]_clientVars => OpenedInv'
<1> SUFFICES ASSUME ClientTypeOK, MetInv, OpenedInv, [ClientNext]_clientVars
             PROVE  OpenedInv'
  OBVIOUS
<1> USE DEF At, Goes, Fatal, Opened, Requests
<1>1. ASSUME NEW g \in Callers, NEW cf \in Configs, NewClientCalled(g, cf)
      PROVE  OpenedInv'
  <2>1. met[g] \subseteq met'[g] \/ g \notin opened
    BY <1>1, Called DEF OpenedInv
  <2>2. \A h \in Callers : pc[h] # pc'[h] =>
          h = g /\ pc[h] = "idle" /\ pc'[h] \in {"experiment", "origin"}
    BY <1>1, Called
  <2>3. opened \subseteq Callers
    BY DEF ClientTypeOK
  <2>4. \A i, j \in Callers : i # g /\ j # g /\ Overlap(i, j) => (Overlap(i, j))'
    BY <1>1, Called DEF Overlap
  <2>5. g \notin opened
    BY <1>1, Called DEF OpenedInv
  <2>6. UNCHANGED <<register, opened>>
    BY <1>1, Called DEF sharedVars
  <2>7. pc'[g] \notin Opened \cup {"locking", "opening"}
    BY <1>1, Called
  <2>8. (\A h \in Callers : pc[h] \in Opened => register # NoOne)'
    BY <2>2, <2>6, <2>7 DEF OpenedInv
  <2>9. (\A h \in opened : pc[h] \in Opened \cup {"ready"})'
    BY <2>2, <2>3, <2>5, <2>6 DEF OpenedInv
  <2>10. (\A i \in opened, h \in Callers : pc[h] \in {"locking", "opening"} => Overlap(i, h))'
    <3> SUFFICES ASSUME NEW i \in opened, NEW h \in Callers, pc'[h] \in {"locking", "opening"}
                 PROVE  (Overlap(i, h))'
      BY <2>6
    <3>1. h # g /\ i # g /\ pc'[h] = pc[h]
      BY <2>2, <2>5, <2>7
    <3> QED BY <2>3, <2>4, <3>1 DEF OpenedInv
  <2>11. (\A i, j \in opened : i # j => Overlap(i, j))'
    BY <2>3, <2>4, <2>5, <2>6 DEF OpenedInv
  <2> QED BY <2>6, <2>8, <2>9, <2>10, <2>11 DEF OpenedInv
<1>2. ASSUME NEW g \in Callers,
             \/ RegistersResolver(g) \/ WithoutResolver(g) \/ RegistersBalancer(g)
             \/ WithBalancerName(g) \/ OriginInit(g) \/ Dial(g)
             \/ (\E h \in Callers : TablesRace(g, h))
      PROVE  OpenedInv'
  BY <1>2, OpenedKept DEF RegistersResolver, WithoutResolver, RegistersBalancer, WithBalancerName,
     OriginInit, Dial, TablesRace, sharedVars, ClientTypeOK
<1>3. ASSUME NEW g \in Callers, TestsRegister(g) \/ TakesLock(g)
      PROVE  OpenedInv'
  BY <1>3, OpenedKept DEF TestsRegister, TakesLock, sharedVars, ClientTypeOK
<1>4. ASSUME NEW g \in Callers, OpensRegister(g)
      PROVE  OpenedInv'
  <2>1. CASE Fatal /\ UNCHANGED sharedVars
    BY <2>1, OpenedKept DEF sharedVars, ClientTypeOK
  <2>2. CASE opened' = opened \cup {g} /\ register' = g /\ Goes(g, "announcing")
    <3>1. register' # NoOne /\ UNCHANGED met /\ opened \subseteq Callers
      BY <2>2, NoOneAssumption DEF ClientTypeOK
    <3>2. /\ pc[g] = "opening" /\ pc'[g] = "announcing"
          /\ \A h \in Callers : h # g => pc'[h] = pc[h]
      BY <1>4, <2>2 DEF OpensRegister, ClientTypeOK
    <3>3. \A h \in Callers : h # g /\ pc[h] \in {"locking", "opening"} => Overlap(g, h)
      BY <3>2 DEF MetInv, Inside, Overlap
    <3>4. \A h \in opened : Overlap(h, g) /\ Overlap(g, h)
      BY <3>1, <3>2 DEF OpenedInv, Overlap
    <3>5. \A i, j \in Callers : Overlap(i, j) <=> (Overlap(i, j))'
      BY <3>1 DEF Overlap
    <3>6. \A i \in opened', h \in Callers : pc'[h] \in {"locking", "opening"} => Overlap(i, h)
      BY <2>2, <3>1, <3>2, <3>3 DEF OpenedInv
    <3>7. \A i, j \in opened' : i # j => Overlap(i, j)
      BY <2>2, <3>1, <3>4 DEF OpenedInv
    <3>8. \A i \in opened' : pc'[i] \in Opened \cup {"ready"}
      BY <2>2, <3>1, <3>2 DEF OpenedInv
    <3>9. opened' \subseteq Callers
      BY <2>2, <3>1
    <3> QED BY <3>1, <3>5, <3>6, <3>7, <3>8, <3>9 DEF OpenedInv
  <2> QED BY <1>4, <2>1, <2>2 DEF OpensRegister
<1>5. ASSUME NEW g \in Callers, Announces(g)
      PROVE  OpenedInv'
  BY <1>5, OpenedKept DEF Announces, ReadsRegister, DeletesNode, AsksExists, CreatesNode, SetsNode, sharedVars, ClientTypeOK
<1>6. CASE UNCHANGED clientVars
  BY <1>6, OpenedKept DEF clientVars, sharedVars
<1> QED BY <1>1, <1>2, <1>3, <1>4, <1>5, <1>6 DEF ClientNext, Announces

RegistryInv == TypeInv /\ MetInv /\ OpenedInv

LEMMA RegistryInit == Init => RegistryInv
<1>1. ClientInit => OpenedInv
  BY DEF ClientInit, OpenedInv, Opened, Requests
<1> QED BY <1>1, MetInit, TypeInit DEF Init, RegistryInv

LEMMA RegistryStep == RegistryInv /\ [Next]_vars => RegistryInv'
<1> SUFFICES ASSUME RegistryInv, [Next]_vars
             PROVE  RegistryInv'
  OBVIOUS
<1>1. TypeInv'
  BY TypeStep DEF RegistryInv
<1>2. [ClientNext]_clientVars => MetInv' /\ OpenedInv'
  BY MetStep, OpenedStep DEF RegistryInv, TypeInv, TypeOK
<1>3. CASE CallNext /\ Others
  <2>1. UNCHANGED <<pc, met, register, opened>>
    BY <1>3 DEF Others, sharedVars
  <2>2. MetInv'
    BY <2>1 DEF RegistryInv, MetInv, Inside
  <2>3. OpenedInv'
    BY <2>1 DEF RegistryInv, OpenedInv, Overlap
  <2> QED BY <1>1, <2>2, <2>3 DEF RegistryInv
<1> QED BY <1>1, <1>2, <1>3 DEF RegistryInv, Next, vars

\* Several connections to the registry are opened only by calls of NewClient that
\* overlap, and nobody announces itself before there is one.
THEOREM RegistryOnlyOnce == Spec => []RegistryOpenedOnce
<1>1. RegistryInv => RegistryOpenedOnce
  BY DEF RegistryInv, OpenedInv, Overlap, Opened, RegistryOpenedOnce
<1> QED BY <1>1, RegistryInit, RegistryStep, PTL DEF Spec

-----------------------------------------------------------------------------
(* The announcement *)

\* Only a caller that is done has announced itself: while one may still delete the
\* node of its service, not all of that service have.
AnnounceInv ==
  /\ \A g \in Callers : pc[g] # "ready" => announced[g] = "no"
  /\ \A s \in Services :
       s \notin node =>
         \A g \in Callers : conf[g].service = s /\ announced[g] = "yes" =>
           \E h \in Callers : conf[h].service = s /\ pc[h] # "idle" /\ announced[h] # "yes"

LEMMA AnnounceStep == ClientTypeOK /\ AnnounceInv /\ [ClientNext]_clientVars => AnnounceInv'
<1> SUFFICES ASSUME ClientTypeOK, AnnounceInv, [ClientNext]_clientVars
             PROVE  AnnounceInv'
  OBVIOUS
\* A step that goes on without a word leaves the reason a node is missing.
<1>1. ASSUME UNCHANGED <<node, announced, conf>>,
             \A g \in Callers : pc'[g] = pc[g] \/ (Inside(g) /\ pc'[g] # "idle")
      PROVE  AnnounceInv'
  BY <1>1 DEF AnnounceInv, Inside
<1>2. ASSUME NEW g \in Callers, NEW cf \in Configs, NewClientCalled(g, cf)
      PROVE  AnnounceInv'
  <2>1. UNCHANGED <<node, announced>> /\ announced[g] = "no" /\ pc'[g] \notin {"idle", "ready"}
    BY <1>2, Called DEF annVars, AnnounceInv
  <2>2. \A h \in Callers : h # g => pc'[h] = pc[h] /\ conf'[h] = conf[h]
    BY <1>2, Called
  <2>3. ASSUME NEW s \in Services, s \notin node', NEW h \in Callers,
               conf'[h].service = s, announced'[h] = "yes"
        PROVE  \E k \in Callers : conf'[k].service = s /\ pc'[k] # "idle" /\ announced'[k] # "yes"
    <3>1. PICK k \in Callers : conf[k].service = s /\ pc[k] # "idle" /\ announced[k] # "yes"
      BY <2>1, <2>2, <2>3 DEF AnnounceInv
    <3>2. k # g
      BY <1>2, <3>1, Called
    <3> QED BY <2>1, <2>2, <3>1, <3>2
  <2> QED BY <2>1, <2>2, <2>3 DEF AnnounceInv
<1>3. ASSUME NEW g \in Callers, Announces(g)
      PROVE  AnnounceInv'
  <2>1. UNCHANGED conf /\ \A h \in Callers : h # g => pc'[h] = pc[h] /\ announced'[h] = announced[h]
    BY <1>3 DEF Announces, ReadsRegister, DeletesNode, AsksExists, CreatesNode, SetsNode, Goes, ClientTypeOK
  <2>2. pc[g] \notin {"idle", "ready"} /\ announced[g] = "no"
    BY <1>3 DEF Announces, ReadsRegister, DeletesNode, AsksExists, CreatesNode, SetsNode, At, AnnounceInv
  <2>3. pc'[g] # "idle" /\ (pc'[g] # "ready" => announced'[g] = "no")
    BY <1>3, <2>2 DEF Announces, ReadsRegister, DeletesNode, AsksExists, CreatesNode, SetsNode, Goes, ClientTypeOK
  <2>4. announced'[g] = "yes" => conf[g].service \in node'
    BY <1>3, <2>2 DEF Announces, ReadsRegister, DeletesNode, AsksExists, CreatesNode, SetsNode, ClientTypeOK
  <2>5. \A s \in Services : s # conf[g].service => (s \in node' <=> s \in node)
    BY <1>3 DEF Announces, ReadsRegister, DeletesNode, AsksExists, CreatesNode, SetsNode
  <2>6. ASSUME NEW s \in Services, s \notin node', NEW h \in Callers,
               conf'[h].service = s, announced'[h] = "yes"
        PROVE  \E k \in Callers : conf'[k].service = s /\ pc'[k] # "idle" /\ announced'[k] # "yes"
    <3>1. CASE s = conf[g].service
      BY <2>1, <2>3, <2>4, <2>6, <3>1
    <3>2. CASE s # conf[g].service
      BY <2>1, <2>5, <2>6, <3>2 DEF AnnounceInv
    <3> QED BY <3>1, <3>2
  <2> QED BY <2>1, <2>3, <2>6 DEF AnnounceInv
<1>4. ASSUME ClientNext,
             ~ \E g \in Callers : Announces(g),
             ~ \E g \in Callers, cf \in Configs : NewClientCalled(g, cf)
      PROVE  UNCHANGED <<node, announced>>
  BY <1>4 DEF ClientNext, Announces, RegistersResolver, WithoutResolver, RegistersBalancer, WithBalancerName,
     OriginInit, Dial, TablesRace, TestsRegister, TakesLock, OpensRegister, annVars
<1>5. CASE UNCHANGED clientVars
  BY <1>1, <1>5 DEF clientVars, annVars
<1> QED BY <1>1, <1>2, <1>3, <1>4, <1>5, Moves

\* However the requests of several connections to the registry interleave, the
\* node of a service is there once its clients are all through and none of them
\* failed (Register, registry.go, lines 56-69; client.go, lines 144-157).
THEOREM NodeOfTheAnnounced == Spec => []AnnouncedTogether
<1>1. Init => AnnounceInv
  BY DEF Init, ClientInit, AnnounceInv
<1>2. TypeInv /\ AnnounceInv /\ [Next]_vars => AnnounceInv'
  <2> SUFFICES ASSUME TypeInv, AnnounceInv, [Next]_vars
               PROVE  AnnounceInv'
    OBVIOUS
  <2>1. CASE [ClientNext]_clientVars
    BY <2>1, AnnounceStep DEF TypeInv, TypeOK
  <2>2. CASE Others
    BY <2>2 DEF Others, annVars, AnnounceInv
  <2> QED BY <2>1, <2>2 DEF Next, vars
<1>3. AnnounceInv => AnnouncedTogether
  BY DEF AnnounceInv, AnnouncedTogether
<1> QED BY <1>1, <1>2, <1>3, Typed, PTL DEF Spec

-----------------------------------------------------------------------------
(* The builders *)

Flag(name)    == IF name \in WithWeight THEN "weight" ELSE "plain"
Asked(g, s)   == \E h \in met[g] \cup {g} : conf[h].service = s
Weighed(g, f) == \E h \in met[g] \cup {g} : f = Flag(conf[h].balancer)
Dialled       == {"test", "locking", "opening", "announcing", "waiting", "ready"} \cup Requests

\* From the moment a caller wrote the tables, the builders it will read were made
\* by itself or by a call it met.
Builds(g) ==
  /\ IF pc[g] = "idle" THEN service[g] = NoService ELSE conf[g] \in Configs
  /\ pc[g] \in {"experiment", "balancer", "option"} => conf[g].experimental
  /\ pc[g] = "origin" => ~conf[g].experimental
  /\ pc[g] \in {"balancer", "option", "dial"} /\ conf[g].experimental /\ conf[g].service # NoService
       => resolvers # NoService /\ Asked(g, resolvers)
  /\ pc[g] = "option" => Weighed(g, balancers[NameOf(conf[g].balancer)])
  /\ pc[g] \in {"dial"} \cup Dialled => Weighed(g, weight[g])
  /\ service[g] # NoService => Asked(g, service[g])
  /\ pc[g] = "dial" /\ ~conf[g].experimental => service[g] # NoService
  /\ pc[g] \in Dialled /\ conf[g].service # NoService /\ conf[g].registry = "zookeeper"
       => service[g] # NoService

BuildInv == \A g \in Callers : Builds(g)

\* What somebody a caller met asked for stays so.
LEMMA AskedStays ==
  ASSUME ClientTypeOK, MetInv, ClientNext, NEW g \in Callers, pc[g] # "idle"
  PROVE  /\ \A s : Asked(g, s) => (Asked(g, s))'
         /\ \A f : Weighed(g, f) => (Weighed(g, f))'
<1>1. \A h \in met[g] \cup {g} : pc[h] # "idle" /\ h \in Callers
  BY DEF MetInv, ClientTypeOK
<1>2. met[g] \subseteq met'[g] /\ \A h \in met[g] \cup {g} : conf'[h] = conf[h]
  <2>1. ASSUME NEW k \in Callers, NEW cf \in Configs, NewClientCalled(k, cf)
        PROVE  met[g] \subseteq met'[g] /\ \A h \in met[g] \cup {g} : conf'[h] = conf[h]
    BY <1>1, <2>1, Called
  <2>2. CASE UNCHANGED <<conf, met>>
    BY <2>2
  <2> QED BY <2>1, <2>2, Moves
<1> QED BY <1>2 DEF Asked, Weighed

\* What a step of another caller does to one.
LEMMA BuildOfOthers ==
  ASSUME ClientTypeOK, NEW g \in Callers, Builds(g), pc[g] # "idle",
         pc'[g] = pc[g], conf'[g] = conf[g], weight'[g] = weight[g], service'[g] = service[g],
         \A s : Asked(g, s) => (Asked(g, s))',
         \A f : Weighed(g, f) => (Weighed(g, f))',
         \/ ~Inside(g) \/ resolvers' = resolvers
         \/ resolvers' # NoService /\ (Asked(g, resolvers))',
         \A n \in Names : \/ ~Inside(g) \/ balancers'[n] = balancers[n]
                        \/ Weighed(g, balancers'[n])
  PROVE  (Builds(g))'
<1>1. NameOf(conf[g].balancer) \in Names
  BY ConfigFacts
<1>2. pc'[g] \in {"balancer", "option", "dial"} /\ conf'[g].experimental /\ conf'[g].service # NoService
        => resolvers' # NoService /\ (Asked(g, resolvers))'
  BY DEF Builds, Inside
<1>3. pc'[g] = "option" => (Weighed(g, balancers[NameOf(conf[g].balancer)]))'
  <2> SUFFICES ASSUME pc[g] = "option"
               PROVE  \E h \in met'[g] \cup {g} :
                        balancers'[NameOf(conf[g].balancer)] = Flag(conf'[h].balancer)
    BY DEF Weighed
  <2>1. \E h \in met[g] \cup {g} : balancers[NameOf(conf[g].balancer)] = Flag(conf[h].balancer)
    BY DEF Builds, Weighed
  <2>2. \E h \in met[g] \cup {g} : balancers'[NameOf(conf[g].balancer)] = Flag(conf[h].balancer)
    BY <1>1, <2>1 DEF Inside, Weighed
  <2> QED BY <2>2 DEF Weighed
<1>4. /\ pc'[g] \in {"dial"} \cup Dialled => (Weighed(g, weight[g]))'
      /\ service'[g] # NoService => (Asked(g, service[g]))'
  BY DEF Builds
<1>5. /\ pc'[g] # "idle" /\ conf'[g] \in Configs
      /\ pc'[g] \in {"experiment", "balancer", "option"} => conf'[g].experimental
      /\ pc'[g] = "origin" => ~conf'[g].experimental
      /\ pc'[g] = "dial" /\ ~conf'[g].experimental => service'[g] # NoService
      /\ pc'[g] \in Dialled /\ conf'[g].service # NoService /\ conf'[g].registry = "zookeeper"
           => service'[g] # NoService
  BY DEF Builds
<1> QED BY <1>2, <1>3, <1>4, <1>5 DEF Builds

LEMMA BuildOfIdle ==
  ASSUME NEW g \in Callers, pc'[g] = "idle", service'[g] = NoService
  PROVE  (Builds(g))'
BY DEF Builds, Dialled, Requests

LEMMA OthersStep ==
  ASSUME ClientTypeOK, MetInv, NEW g \in Callers, Builds(g), NEW k \in Callers, k # g,
         ClientNext,
         \/ \E cf \in Configs : NewClientCalled(k, cf)
         \/ RegistersResolver(k) \/ WithoutResolver(k) \/ RegistersBalancer(k)
         \/ WithBalancerName(k) \/ OriginInit(k) \/ Dial(k) \/ (\E h \in Callers : TablesRace(k, h))
         \/ TestsRegister(k) \/ TakesLock(k) \/ OpensRegister(k)
         \/ Announces(k)
  PROVE  (Builds(g))'
<1> USE DEF ClientTypeOK, At, Goes, Fatal, tableVars, gotVars
<1>1. pc'[g] = pc[g] /\ conf'[g] = conf[g] /\ weight'[g] = weight[g] /\ service'[g] = service[g]
  <2>1. CASE \E cf \in Configs : NewClientCalled(k, cf)
    BY <2>1 DEF NewClientCalled
  <2>2. CASE \/ RegistersResolver(k) \/ WithoutResolver(k) \/ RegistersBalancer(k)
             \/ WithBalancerName(k) \/ OriginInit(k) \/ Dial(k) \/ (\E h \in Callers : TablesRace(k, h))
    BY <2>2 DEF RegistersResolver, WithoutResolver, RegistersBalancer, WithBalancerName, OriginInit,
       Dial, TablesRace
  <2>3. CASE TestsRegister(k) \/ TakesLock(k) \/ OpensRegister(k)
    BY <2>3 DEF TestsRegister, TakesLock, OpensRegister
  <2>4. CASE Announces(k)
    BY <2>4 DEF Announces, ReadsRegister, DeletesNode, AsksExists, CreatesNode, SetsNode
  <2> QED BY <2>1, <2>2, <2>3, <2>4
<1>2. CASE pc[g] = "idle"
  BY <1>1, <1>2, BuildOfIdle DEF Builds
<1>3. CASE pc[g] # "idle"
  <2>1. /\ \A s : Asked(g, s) => (Asked(g, s))'
        /\ \A f : Weighed(g, f) => (Weighed(g, f))'
    BY <1>3, AskedStays
  <2>2. Inside(g) /\ Inside(k) => k \in met[g]
    BY DEF MetInv
  <2>3. CASE RegistersResolver(k)
    <3>1. /\ Inside(k) /\ balancers' = balancers
          /\ resolvers' = conf[k].service /\ resolvers' # NoService
      BY <2>3 DEF RegistersResolver, Inside
    <3>2. Inside(g) => (Asked(g, resolvers))'
      <4>1. UNCHANGED <<conf, met>>
        BY <2>3 DEF RegistersResolver
      <4> QED BY <2>2, <3>1, <4>1 DEF Asked
    <3> QED BY <1>1, <1>3, <2>1, <3>1, <3>2, BuildOfOthers
  <2>4. CASE RegistersBalancer(k)
    <3>1. Inside(k) /\ resolvers' = resolvers
      BY <2>4 DEF RegistersBalancer, Inside
    <3>2. \A n \in Names : balancers'[n] = balancers[n] \/ balancers'[n] = Flag(conf[k].balancer)
      BY <2>4 DEF RegistersBalancer, Flag
    <3>3. \A n \in Names : \/ ~Inside(g) \/ balancers'[n] = balancers[n]
                         \/ Weighed(g, balancers'[n])
      BY <2>2, <3>1, <3>2 DEF Weighed
    <3> QED BY <1>1, <1>3, <2>1, <3>1, <3>3, BuildOfOthers
  <2>5. CASE ~RegistersResolver(k) /\ ~RegistersBalancer(k)
    <3>1. UNCHANGED <<resolvers, balancers>>
      BY <2>5 DEF NewClientCalled, WithoutResolver, WithBalancerName, OriginInit, Dial, TablesRace,
         TestsRegister, TakesLock, OpensRegister, Announces, ReadsRegister, DeletesNode, AsksExists, CreatesNode, SetsNode
    <3> QED BY <1>1, <1>3, <2>1, <3>1, BuildOfOthers
  <2> QED BY <2>3, <2>4, <2>5
<1> QED BY <1>2, <1>3

\* A direct client leaves the address of the registry empty (client.go, line 44).
DirectConfigs == \A cf \in Configs : cf.service = NoService => cf.registry # "zookeeper"

LEMMA OwnStep ==
  ASSUME ClientTypeOK, MetInv, DirectConfigs, NEW g \in Callers, Builds(g), ClientNext,
         \/ \E cf \in Configs : NewClientCalled(g, cf)
         \/ RegistersResolver(g) \/ WithoutResolver(g) \/ RegistersBalancer(g)
         \/ WithBalancerName(g) \/ OriginInit(g) \/ Dial(g) \/ (\E h \in Callers : TablesRace(g, h))
         \/ TestsRegister(g) \/ TakesLock(g) \/ OpensRegister(g)
         \/ Announces(g)
  PROVE  (Builds(g))'
<1> USE DEF ClientTypeOK, At, Goes, Fatal, tableVars, gotVars, Dialled, Requests
<1>1. pc[g] # "idle" => /\ \A s : Asked(g, s) => (Asked(g, s))'
                        /\ \A f : Weighed(g, f) => (Weighed(g, f))'
  BY AskedStays
<1>2. ASSUME NEW cf \in Configs, NewClientCalled(g, cf)
      PROVE  (Builds(g))'
  <2>1. /\ service'[g] = NoService /\ conf'[g] = cf
        /\ pc'[g] = IF cf.experimental THEN "experiment" ELSE "origin"
    BY <1>2 DEF NewClientCalled, Builds
  <2> QED BY <2>1 DEF Builds
<1>3. CASE RegistersResolver(g)
  <2>1. /\ pc[g] = "experiment" /\ pc'[g] \in {"experiment", "balancer"}
        /\ UNCHANGED <<conf, met, service, weight>>
        /\ resolvers' = conf[g].service /\ conf[g].service # NoService
    BY <1>3 DEF RegistersResolver
  <2>2. (Asked(g, resolvers))'
    BY <2>1 DEF Asked
  <2>3. service'[g] # NoService => (Asked(g, service[g]))'
    BY <1>1, <2>1 DEF Builds
  <2> QED BY <2>1, <2>2, <2>3 DEF Builds
<1>4. CASE WithoutResolver(g)
  <2>1. /\ pc[g] = "experiment" /\ pc'[g] \in {"experiment", "balancer"}
        /\ UNCHANGED <<conf, met, service, weight>> /\ conf[g].service = NoService
    BY <1>4 DEF WithoutResolver
  <2>3. service'[g] # NoService => (Asked(g, service[g]))'
    BY <1>1, <2>1 DEF Builds
  <2> QED BY <2>1, <2>3 DEF Builds
<1>5. CASE RegistersBalancer(g)
  <2>1. /\ pc[g] = "balancer" /\ pc'[g] \in {"balancer", "option"}
        /\ UNCHANGED <<conf, met, service, weight, resolvers>>
    BY <1>5 DEF RegistersBalancer
  <2>2. pc'[g] = "option" => balancers'[NameOf(conf[g].balancer)] = Flag(conf[g].balancer)
    BY <1>5, ConfigFacts DEF RegistersBalancer, Flag
  <2>3. pc'[g] = "option" => (Weighed(g, balancers[NameOf(conf[g].balancer)]))'
    BY <2>1, <2>2 DEF Weighed
  <2>4. /\ service'[g] # NoService => (Asked(g, service[g]))'
        /\ Asked(g, resolvers) => (Asked(g, resolvers))'
    BY <1>1, <2>1 DEF Builds
  <2> QED BY <2>1, <2>3, <2>4 DEF Builds
<1>6. CASE WithBalancerName(g)
  <2>1. /\ pc[g] = "option" /\ pc'[g] = "dial"
        /\ UNCHANGED <<conf, met, service, resolvers>>
        /\ weight'[g] = balancers[NameOf(conf[g].balancer)]
    BY <1>6 DEF WithBalancerName
  <2>2. (Weighed(g, weight[g]))'
    BY <2>1 DEF Weighed, Builds
  <2>3. /\ service'[g] # NoService => (Asked(g, service[g]))'
        /\ Asked(g, resolvers) => (Asked(g, resolvers))'
    BY <1>1, <2>1 DEF Builds
  <2> QED BY <2>1, <2>2, <2>3 DEF Builds
<1>7. CASE OriginInit(g)
  <2>1. /\ pc[g] = "origin" /\ pc'[g] \in {"origin", "dial"}
        /\ UNCHANGED <<conf, met, resolvers>>
        /\ pc'[g] = "origin" => UNCHANGED service
        /\ pc'[g] = "dial" => /\ service'[g] = conf[g].service /\ conf[g].service # NoService
                             /\ weight'[g] = Flag(conf[g].balancer)
    BY <1>7 DEF OriginInit, Flag
  <2>2. pc'[g] = "dial" => (Weighed(g, weight[g]))' /\ (Asked(g, service[g]))'
    BY <2>1 DEF Weighed, Asked
  <2>3. pc'[g] = "origin" /\ service'[g] # NoService => (Asked(g, service[g]))'
    BY <1>1, <2>1 DEF Builds
  <2> QED BY <2>1, <2>2, <2>3 DEF Builds
<1>8. CASE Dial(g)
  <2>1. /\ pc[g] = "dial" /\ pc'[g] \in {"dial", "ready", "test"}
        /\ UNCHANGED <<conf, met, resolvers, weight>> /\ conf[g] \in Configs
        /\ pc'[g] = "dial" => UNCHANGED service
        /\ pc'[g] # "dial" => service'[g] = IF conf[g].experimental /\ conf[g].registry = "zookeeper"
                                            THEN resolvers ELSE service[g]
    BY <1>8 DEF Dial, Builds
  <2>2. (Weighed(g, weight[g]))' /\ (Asked(g, resolvers) => (Asked(g, resolvers))')
    BY <1>1, <2>1 DEF Builds
  <2>3. conf[g].experimental /\ conf[g].registry = "zookeeper"
          => resolvers # NoService /\ (Asked(g, resolvers))'
    BY <1>1, <2>1 DEF Builds, DirectConfigs
  <2>4. service[g] # NoService => Asked(g, service[g])
    BY DEF Builds
  <2>5. service'[g] # NoService => (Asked(g, service[g]))'
    BY <1>1, <2>1, <2>3, <2>4 DEF Asked
  <2>6. pc'[g] # "dial" /\ conf[g].service # NoService /\ conf[g].registry = "zookeeper"
          => service'[g] # NoService
    BY <2>1, <2>3 DEF Builds
  <2> QED BY <2>1, <2>2, <2>3, <2>5, <2>6 DEF Builds
<1>9. CASE \/ TestsRegister(g) \/ TakesLock(g) \/ OpensRegister(g)
           \/ Announces(g)
  <2>1. /\ pc[g] \in Dialled /\ pc'[g] \in Dialled
        /\ UNCHANGED <<conf, met, service, weight>>
    BY <1>9 DEF TestsRegister, TakesLock, OpensRegister, Announces, ReadsRegister, DeletesNode, AsksExists, CreatesNode, SetsNode
  <2>2. (Weighed(g, weight[g]))' /\ (service'[g] # NoService => (Asked(g, service[g]))')
    BY <1>1, <2>1 DEF Builds
  <2> QED BY <2>1, <2>2 DEF Builds
<1>10. CASE \E h \in Callers : TablesRace(g, h)
  <2>1. UNCHANGED <<pc, conf, met, service, weight, resolvers, balancers>>
    BY <1>10 DEF TablesRace
  <2> QED BY <2>1 DEF Builds, Asked, Weighed
<1> QED BY <1>2, <1>3, <1>4, <1>5, <1>6, <1>7, <1>8, <1>9, <1>10

OwnInv == TypeInv /\ MetInv /\ BuildInv

LEMMA OwnInit == Init => OwnInv
<1>1. ClientInit => BuildInv
  BY DEF ClientInit, BuildInv, Builds, Dialled, Requests
<1> QED BY <1>1, MetInit, TypeInit DEF Init, OwnInv

LEMMA OwnInvStep == DirectConfigs /\ OwnInv /\ [Next]_vars => OwnInv'
<1> SUFFICES ASSUME DirectConfigs, OwnInv, [Next]_vars
             PROVE  OwnInv'
  OBVIOUS
<1>1. TypeInv'
  BY TypeStep DEF OwnInv
<1>2. ASSUME UNCHANGED clientVars \/ (CallNext /\ Others)
      PROVE  MetInv' /\ BuildInv'
  <2>1. UNCHANGED <<pc, conf, met, service, weight, resolvers, balancers>>
    BY <1>2 DEF Others, clientVars, tableVars, gotVars
  <2>2. MetInv'
    BY <2>1 DEF OwnInv, MetInv, Inside
  <2>3. BuildInv'
    BY <2>1 DEF OwnInv, BuildInv, Builds, Asked, Weighed
  <2> QED BY <2>2, <2>3
<1>3. ASSUME ClientNext
      PROVE  MetInv' /\ BuildInv'
  <2>1. MetInv'
    BY <1>3, MetStep DEF OwnInv, TypeInv, TypeOK
  <2>2. ASSUME NEW g \in Callers
        PROVE  (Builds(g))'
    <3>1. PICK k \in Callers :
            \/ \E cf \in Configs : NewClientCalled(k, cf)
            \/ RegistersResolver(k) \/ WithoutResolver(k) \/ RegistersBalancer(k)
            \/ WithBalancerName(k) \/ OriginInit(k) \/ Dial(k) \/ (\E h \in Callers : TablesRace(k, h))
            \/ TestsRegister(k) \/ TakesLock(k) \/ OpensRegister(k)
            \/ Announces(k)
      BY <1>3 DEF ClientNext, Announces
    <3>2. ClientTypeOK /\ MetInv /\ Builds(g)
      BY DEF OwnInv, TypeInv, TypeOK, BuildInv
    <3> QED BY <1>3, <3>1, <3>2, OthersStep, OwnStep
  <2> QED BY <2>1, <2>2 DEF BuildInv
<1>4. ClientNext \/ UNCHANGED clientVars \/ (CallNext /\ Others)
  BY DEF Next, vars
<1>5. MetInv' /\ BuildInv'
  BY <1>2, <1>3, <1>4
<1> QED BY <1>1, <1>5 DEF OwnInv

\* The connection of a client resolves the service, and weighs the backends, that
\* its own call or one that overlapped it asked for.
THEOREM BuildersOfTheTime ==
  ASSUME DirectConfigs
  PROVE  Spec => []OwnBuilders
<1>1. OwnInv => OwnBuilders
  <2> SUFFICES ASSUME OwnInv, NEW g \in Callers, pc[g] = "ready"
               PROVE  /\ service[g] # NoService => \E h \in met[g] \cup {g} : conf[h].service = service[g]
                      /\ conf[g].service # NoService /\ conf[g].registry = "zookeeper"
                           => service[g] # NoService
                      /\ \E h \in met[g] \cup {g} : weight[g] = Flag(conf[h].balancer)
    BY DEF OwnBuilders, Flag
  <2>1. Builds(g)
    BY DEF OwnInv, BuildInv
  <2> QED BY <2>1 DEF Builds, Asked, Weighed, Dialled
<1>2. OwnInv /\ [Next]_vars => OwnInv'
  BY OwnInvStep
<1> QED BY <1>1, <1>2, OwnInit, PTL DEF Spec

-----------------------------------------------------------------------------
(* Picks: counting *)

Lists == INSTANCE AddressesProofs WITH Weight <- TRUE

\* The instances count as the module does.
LEMMA Cards ==
  \A S : /\ Weighted!Cardinality(S) = Cardinality(S)
         /\ Rotating!Cardinality(S) = Cardinality(S)
         /\ Lists!Cardinality(S) = Cardinality(S)
BY DEF Weighted!Cardinality, Rotating!Cardinality, Lists!Cardinality, Cardinality

-----------------------------------------------------------------------------
(* Sums of integers, counted unit by unit: the positive ones less the others. *)

Units(f, A) == UNION {{i} \X (1..f[i]) : i \in A}
Minus(f) == [i \in DOMAIN f |-> -f[i]]
TotalOf(f, A) == Cardinality(Units(f, A)) - Cardinality(Units(Minus(f), A))

\* What holds of no elements, and of some and one more, holds of all finitely many.
LEMMA SetInduction ==
  ASSUME NEW D, IsFiniteSet(D), NEW Q, {} \in Q,
         \A T \in SUBSET D, i \in D : T \in Q /\ i \notin T => T \cup {i} \in Q
  PROVE  \A T \in SUBSET D : T \in Q
<1> DEFINE Bad == {T \in SUBSET D : T \notin Q}
           Sizes == {Cardinality(T) : T \in Bad}
<1>1. \A T \in SUBSET D : IsFiniteSet(T) /\ Cardinality(T) \in Nat
  BY FS_Subset, FS_CardinalityType
<1>2. SUFFICES ASSUME Bad # {} PROVE FALSE
  OBVIOUS
<1>3. Sizes \in SUBSET Nat /\ Sizes # {}
  BY <1>1, <1>2
<1>4. PICK n \in Sizes : \A m \in Sizes : n <= m
  <2> HIDE DEF Sizes
  <2> QED BY <1>3, DefaultWeightAssumption, Lists!Least
<1>5. PICK T \in Bad : n = Cardinality(T)
  BY <1>4
<1>6. PICK i : i \in T
  BY <1>5
<1> DEFINE U == T \ {i}
<1>7. Cardinality(U) = Cardinality(T) - 1 /\ U \in SUBSET D
  BY <1>1, <1>5, <1>6, FS_RemoveElement
<1>8. U \notin Bad
  <2> SUFFICES ASSUME U \in Bad PROVE FALSE
    OBVIOUS
  <2>1. n <= Cardinality(U)
    BY <1>4
  <2> QED BY <1>1, <1>5, <1>7, <2>1
<1>9. U \in Q /\ i \in D /\ i \notin U /\ U \cup {i} = T
  BY <1>5, <1>6, <1>7, <1>8
<1> QED BY <1>5, <1>7, <1>9

\* One more element adds its units.
LEMMA MoreUnits ==
  ASSUME NEW D, IsFiniteSet(D), NEW f \in [D -> Int]
  PROVE  /\ Cardinality(Units(f, {})) = 0
         /\ \A A \in SUBSET D : IsFiniteSet(Units(f, A)) /\ Cardinality(Units(f, A)) \in Nat
         /\ \A A \in SUBSET D, i \in D : i \notin A =>
              Cardinality(Units(f, A \cup {i}))
                = Cardinality(Units(f, A)) + (IF f[i] > 0 THEN f[i] ELSE 0)
<1> DEFINE one(i) == {i} \X (1..f[i])
<1>1. \A i \in D : /\ IsFiniteSet(one(i))
                   /\ Cardinality(one(i)) = IF f[i] > 0 THEN f[i] ELSE 0
  <2> TAKE i \in D
  <2> DEFINE k == f[i]
  <2>1. k \in Int
    OBVIOUS
  <2> HIDE DEF k
  <2>2. IsFiniteSet(1..k) /\ Cardinality(1..k) = IF k > 0 THEN k ELSE 0
    BY <2>1, FS_Interval
  <2>3. IsFiniteSet({i}) /\ Cardinality({i}) = 1
    BY FS_Singleton
  <2>4. IsFiniteSet({i} \X (1..k)) /\ Cardinality({i} \X (1..k)) = 1 * Cardinality(1..k)
    BY <2>2, <2>3, FS_Product
  <2>5. Cardinality({i} \X (1..k)) = IF k > 0 THEN k ELSE 0
    BY <2>1, <2>2, <2>4
  <2> QED BY <2>4, <2>5 DEF k
<1>2. \A A \in SUBSET D : IsFiniteSet(Units(f, A))
  <2> TAKE A \in SUBSET D
  <2> DEFINE All == {one(i) : i \in A}
             g == [i \in A |-> one(i)]
  <2>1. IsFiniteSet(A)
    BY FS_Subset
  <2>2. g \in Surjection(A, All)
    BY DEF Surjection
  <2>3. \A T \in All : IsFiniteSet(T)
    BY <1>1
  <2>4. Units(f, A) = UNION All
    BY DEF Units
  <2> HIDE DEF All, g
  <2>5. IsFiniteSet(All)
    BY <2>1, <2>2, FS_Surjection
  <2> QED BY <2>3, <2>4, <2>5, FS_UNION
<1>3. \A A \in SUBSET D : Cardinality(Units(f, A)) \in Nat
  BY <1>2, FS_CardinalityType
<1>4. ASSUME NEW A \in SUBSET D, NEW i \in D, i \notin A
      PROVE  Cardinality(Units(f, A \cup {i}))
               = Cardinality(Units(f, A)) + (IF f[i] > 0 THEN f[i] ELSE 0)
  <2> DEFINE R == Units(f, A)
             o == one(i)
  <2>1. Units(f, A \cup {i}) = R \cup o
    BY DEF Units
  <2>2. R \cap o = {}
    BY <1>4 DEF Units
  <2>3. IsFiniteSet(R) /\ Cardinality(R) \in Nat
    BY <1>2, <1>3
  <2>4. IsFiniteSet(o) /\ Cardinality(o) = IF f[i] > 0 THEN f[i] ELSE 0
    BY <1>1
  <2>5. f[i] \in Int
    OBVIOUS
  <2> HIDE DEF R, o
  <2>6. Cardinality(R \cup o) = Cardinality(R) + Cardinality(o) - Cardinality(R \cap o)
    BY <2>3, <2>4, FS_Union
  <2>7. Cardinality(R \cap o) = 0
    BY <2>2, FS_EmptySet
  <2>8. Cardinality(R \cup o) = Cardinality(R) + Cardinality(o)
    BY <2>3, <2>4, <2>5, <2>6, <2>7
  <2> QED BY <2>1, <2>4, <2>8 DEF R
<1>5. Cardinality(Units(f, {})) = 0
  <2>1. Units(f, {}) = {}
    BY DEF Units
  <2> QED BY <2>1, FS_EmptySet
<1> QED BY <1>2, <1>3, <1>4, <1>5

\* A total is an integer; none add up to zero, and each adds itself.
LEMMA TotalFacts ==
  ASSUME NEW D, IsFiniteSet(D), NEW f \in [D -> Int]
  PROVE  /\ TotalOf(f, {}) = 0
         /\ \A A \in SUBSET D : TotalOf(f, A) \in Int
         /\ \A A \in SUBSET D, i \in D : i \notin A => TotalOf(f, A \cup {i}) = TotalOf(f, A) + f[i]
<1> DEFINE g == Minus(f)
<1>1. g \in [D -> Int] /\ \A i \in D : g[i] = -f[i] /\ f[i] \in Int
  BY DEF Minus
<1> HIDE DEF g
<1>2. /\ Cardinality(Units(f, {})) = 0 /\ Cardinality(Units(g, {})) = 0
      /\ \A A \in SUBSET D : Cardinality(Units(f, A)) \in Nat /\ Cardinality(Units(g, A)) \in Nat
  BY <1>1, MoreUnits
<1>3. ASSUME NEW A \in SUBSET D, NEW i \in D, i \notin A
      PROVE  TotalOf(f, A \cup {i}) = TotalOf(f, A) + f[i]
  <2>1. Cardinality(Units(f, A \cup {i})) = Cardinality(Units(f, A)) + (IF f[i] > 0 THEN f[i] ELSE 0)
    BY <1>3, MoreUnits
  <2>2. Cardinality(Units(g, A \cup {i})) = Cardinality(Units(g, A)) + (IF g[i] > 0 THEN g[i] ELSE 0)
    BY <1>1, <1>3, MoreUnits
  <2> DEFINE p == Cardinality(Units(f, A))
             q == Cardinality(Units(g, A))
  <2>3. p \in Nat /\ q \in Nat
    BY <1>2
  <2>4. /\ TotalOf(f, A) = p - q
        /\ TotalOf(f, A \cup {i}) = (p + (IF f[i] > 0 THEN f[i] ELSE 0))
                                      - (q + (IF g[i] > 0 THEN g[i] ELSE 0))
    BY <2>1, <2>2 DEF TotalOf, g
  <2>5. g[i] = -f[i] /\ f[i] \in Int
    BY <1>1
  <2> HIDE DEF p, q
  <2> QED BY <2>3, <2>4, <2>5
<1> QED BY <1>2, <1>3 DEF TotalOf, g

\* The total of two disjoint sets.
LEMMA TotalSplits ==
  ASSUME NEW D, IsFiniteSet(D), NEW f \in [D -> Int], NEW B \in SUBSET D
  PROVE  \A A \in SUBSET D : A \cap B = {} => TotalOf(f, A \cup B) = TotalOf(f, A) + TotalOf(f, B)
<1> DEFINE Q == {A \in SUBSET D : A \cap B = {} => TotalOf(f, A \cup B) = TotalOf(f, A) + TotalOf(f, B)}
<1>1. {} \in Q
  <2>1. TotalOf(f, B) \in Int /\ TotalOf(f, {}) = 0 /\ {} \cup B = B
    BY TotalFacts
  <2> QED BY <2>1
<1>2. ASSUME NEW T \in SUBSET D, NEW i \in D, T \in Q, i \notin T, (T \cup {i}) \cap B = {}
      PROVE  TotalOf(f, (T \cup {i}) \cup B) = TotalOf(f, T \cup {i}) + TotalOf(f, B)
  <2> DEFINE U == T \cup B
  <2>1. i \notin U /\ U \in SUBSET D /\ (T \cup {i}) \cup B = U \cup {i}
    BY <1>2
  <2>2. TotalOf(f, T \cup {i}) = TotalOf(f, T) + f[i]
    BY <1>2, TotalFacts
  <2>3. TotalOf(f, U) = TotalOf(f, T) + TotalOf(f, B)
    BY <1>2
  <2> HIDE DEF U, Q
  <2>4. TotalOf(f, U \cup {i}) = TotalOf(f, U) + f[i]
    BY <2>1, TotalFacts
  <2>5. TotalOf(f, T) \in Int /\ TotalOf(f, B) \in Int /\ f[i] \in Int
    BY TotalFacts
  <2>6. TotalOf(f, U \cup {i}) = TotalOf(f, T \cup {i}) + TotalOf(f, B)
    BY <2>2, <2>3, <2>4, <2>5
  <2> QED BY <2>1, <2>6
<1>3. \A T \in SUBSET D : T \in Q
  <2>1. \A T \in SUBSET D, i \in D : T \in Q /\ i \notin T => T \cup {i} \in Q
    BY <1>2
  <2> HIDE DEF Q
  <2> QED BY <1>1, <2>1, SetInduction
<1> QED BY <1>3

\* A total of numbers up to a limit, and of two at once.
LEMMA TotalLimit ==
  ASSUME NEW D, IsFiniteSet(D), NEW f \in [D -> Int], NEW g \in [D -> Int], NEW t \in Int
  PROVE  \A A \in SUBSET D : (\A i \in A : f[i] + g[i] <= t) =>
           TotalOf(f, A) + TotalOf(g, A) <= Cardinality(A) * t
<1> DEFINE Q == {A \in SUBSET D : (\A i \in A : f[i] + g[i] <= t) =>
                   TotalOf(f, A) + TotalOf(g, A) <= Cardinality(A) * t}
<1>1. {} \in Q
  BY TotalFacts, FS_EmptySet
<1>2. ASSUME NEW T \in SUBSET D, NEW i \in D, T \in Q, i \notin T,
             \A j \in T \cup {i} : f[j] + g[j] <= t
      PROVE  TotalOf(f, T \cup {i}) + TotalOf(g, T \cup {i}) <= Cardinality(T \cup {i}) * t
  <2>1. IsFiniteSet(T) /\ Cardinality(T) \in Nat /\ Cardinality(T \cup {i}) = Cardinality(T) + 1
    BY <1>2, FS_Subset, FS_CardinalityType, FS_AddElement
  <2>2. /\ TotalOf(f, T \cup {i}) = TotalOf(f, T) + f[i]
        /\ TotalOf(g, T \cup {i}) = TotalOf(g, T) + g[i]
        /\ TotalOf(f, T) \in Int /\ TotalOf(g, T) \in Int /\ f[i] \in Int /\ g[i] \in Int
    BY <1>2, TotalFacts
  <2>3. TotalOf(f, T) + TotalOf(g, T) <= Cardinality(T) * t /\ f[i] + g[i] <= t
    BY <1>2
  <2> DEFINE k == Cardinality(T)
  <2>4. k \in Nat /\ (k + 1) * t = k * t + t
    BY <2>1
  <2>5. k * t \in Int
    BY <2>4
  <2> QED BY <2>1, <2>2, <2>3, <2>4, <2>5
<1>3. \A T \in SUBSET D : T \in Q
  <2>1. \A T \in SUBSET D, i \in D : T \in Q /\ i \notin T => T \cup {i} \in Q
    BY <1>2
  <2> HIDE DEF Q
  <2> QED BY <1>1, <2>1, SetInduction
<1> QED BY <1>3

\* In particular a total of zeros, and of numbers from zero to a limit.
LEMMA TotalZero ==
  ASSUME NEW D, IsFiniteSet(D), NEW f \in [D -> Int], \A i \in D : f[i] = 0
  PROVE  \A A \in SUBSET D : TotalOf(f, A) = 0
<1> DEFINE Q == {A \in SUBSET D : TotalOf(f, A) = 0}
<1>1. {} \in Q
  BY TotalFacts
<1>2. \A T \in SUBSET D, i \in D : T \in Q /\ i \notin T => T \cup {i} \in Q
  BY TotalFacts
<1>3. \A T \in SUBSET D : T \in Q
  <2> HIDE DEF Q
  <2> QED BY <1>1, <1>2, SetInduction
<1> QED BY <1>3

LEMMA TotalUpTo ==
  ASSUME NEW D, IsFiniteSet(D), NEW f \in [D -> Int], NEW t \in Int, \A i \in D : f[i] <= t
  PROVE  \A A \in SUBSET D : TotalOf(f, A) <= Cardinality(A) * t
<1> DEFINE zero == [i \in D |-> 0]
<1>1. zero \in [D -> Int] /\ \A i \in D : zero[i] = 0 /\ f[i] + zero[i] <= t
  OBVIOUS
<1> HIDE DEF zero
<1>2. \A A \in SUBSET D : TotalOf(zero, A) = 0
  BY <1>1, TotalZero
<1>3. ASSUME NEW A \in SUBSET D
      PROVE  TotalOf(f, A) <= Cardinality(A) * t
  <2>1. TotalOf(f, A) + TotalOf(zero, A) <= Cardinality(A) * t
    BY <1>1, TotalLimit
  <2>2. TotalOf(f, A) \in Int /\ TotalOf(zero, A) = 0
    BY <1>2, TotalFacts
  <2> QED BY <2>1, <2>2
<1> QED BY <1>3

LEMMA TotalNat ==
  ASSUME NEW D, IsFiniteSet(D), NEW f \in [D -> Int], \A i \in D : 0 <= f[i]
  PROVE  \A A \in SUBSET D : TotalOf(f, A) >= 0
<1> DEFINE Q == {A \in SUBSET D : TotalOf(f, A) >= 0}
<1>1. {} \in Q
  BY TotalFacts
<1>2. ASSUME NEW T \in SUBSET D, NEW i \in D, T \in Q, i \notin T
      PROVE  T \cup {i} \in Q
  <2>1. TotalOf(f, T \cup {i}) = TotalOf(f, T) + f[i] /\ TotalOf(f, T) \in Int /\ f[i] \in Int
    BY <1>2, TotalFacts
  <2> QED BY <1>2, <2>1
<1>3. \A T \in SUBSET D : T \in Q
  <2> HIDE DEF Q
  <2> QED BY <1>1, <1>2, SetInduction
<1> QED BY <1>3

\* The total of the same numbers in other places.
MovedTo(from, A) == {from[i] : i \in A}

LEMMA TotalMoves ==
  ASSUME NEW D, IsFiniteSet(D), NEW f \in [D -> Int],
         NEW E, IsFiniteSet(E), NEW g \in [E -> Int],
         NEW from \in Injection(E, D), \A i \in E : g[i] = f[from[i]]
  PROVE  \A A \in SUBSET E : /\ MovedTo(from, A) \in SUBSET D
                             /\ Cardinality(MovedTo(from, A)) = Cardinality(A)
                             /\ TotalOf(g, A) = TotalOf(f, MovedTo(from, A))
<1> DEFINE Image(A) == {from[i] : i \in A}
           Q == {A \in SUBSET E : /\ Cardinality(Image(A)) = Cardinality(A)
                                  /\ TotalOf(g, A) = TotalOf(f, Image(A))}
<1>0. /\ \A i \in E : from[i] \in D
      /\ \A i, j \in E : from[i] = from[j] => i = j
  BY DEF Injection, IsInjective
<1>1. {} \in Q
  <2>1. Image({}) = {}
    OBVIOUS
  <2>2. TotalOf(g, {}) = TotalOf(f, {})
    BY TotalFacts
  <2> QED BY <2>1, <2>2
<1>2. ASSUME NEW T \in SUBSET E, NEW i \in E, T \in Q, i \notin T
      PROVE  T \cup {i} \in Q
  <2> DEFINE B == Image(T)
             x == from[i]
  <2>1. B \in SUBSET D /\ x \in D /\ x \notin B /\ Image(T \cup {i}) = B \cup {x}
    BY <1>0, <1>2
  <2>2. Cardinality(B) = Cardinality(T) /\ TotalOf(g, T) = TotalOf(f, B)
    BY <1>2
  <2>3. g[i] = f[x]
    OBVIOUS
  <2> HIDE DEF B, x, Q, Image
  <2>4. TotalOf(f, B \cup {x}) = TotalOf(f, B) + f[x]
    BY <2>1, TotalFacts
  <2>5. TotalOf(g, T \cup {i}) = TotalOf(g, T) + g[i]
    BY <1>2, TotalFacts
  <2>6. Cardinality(B \cup {x}) = Cardinality(B) + 1
    BY <2>1, FS_Subset, FS_AddElement
  <2>7. Cardinality(T \cup {i}) = Cardinality(T) + 1
    BY <1>2, FS_Subset, FS_AddElement
  <2> QED BY <2>1, <2>2, <2>3, <2>4, <2>5, <2>6, <2>7 DEF Q
<1>3. \A T \in SUBSET E : T \in Q
  <2>1. \A T \in SUBSET E, i \in E : T \in Q /\ i \notin T => T \cup {i} \in Q
    BY <1>2
  <2> HIDE DEF Q
  <2> QED BY <1>1, <2>1, SetInduction
<1>4. \A A \in SUBSET E : Image(A) \in SUBSET D
  BY <1>0
<1>5. \A A : MovedTo(from, A) = Image(A)
  BY DEF MovedTo
<1> HIDE DEF Image
<1> QED BY <1>3, <1>4, <1>5

-----------------------------------------------------------------------------
(* A weighted pick, on numbers: everyone in S gains its weight, and the one that  *)
(* then has the most pays the total.                                              *)

Both(A, S) == A \cap S
Rest(A, S) == A \ S
Joined(A, R) == A \cup R

AfterGain(c, w, S, m) ==
  [i \in DOMAIN c |-> IF i \notin S THEN c[i]
                      ELSE c[i] + w[i] - (IF i = m THEN TotalOf(w, S) ELSE 0)]

\* What a set of entries is owed after a pick.
LEMMA GainTotal ==
  ASSUME NEW D, IsFiniteSet(D), NEW c \in [D -> Int], NEW w \in [D -> Int],
         NEW S \in SUBSET D, NEW m \in S
  PROVE  /\ AfterGain(c, w, S, m) \in [D -> Int]
         /\ \A A \in SUBSET D :
              /\ m \notin A => TotalOf(AfterGain(c, w, S, m), A) = TotalOf(c, A) + TotalOf(w, Both(A, S))
              /\ m \in A => TotalOf(AfterGain(c, w, S, m), A) + TotalOf(w, S)
                              = TotalOf(c, A) + TotalOf(w, Both(A, S))
<1> DEFINE d == AfterGain(c, w, S, m)
           W == TotalOf(w, S)
           Q == {A \in SUBSET D : TotalOf(d, A) = TotalOf(c, A) + TotalOf(w, A \cap S)
                                                    - (IF m \in A THEN W ELSE 0)}
<1>1. W \in Int
  BY TotalFacts
<1>2. \A i \in D : /\ i \notin S => d[i] = c[i]
                   /\ i \in S /\ i # m => d[i] = c[i] + w[i]
                   /\ i = m => d[i] = c[i] + w[i] - W
  <2>1. \A i \in D : d[i] = IF i \notin S THEN c[i] ELSE c[i] + w[i] - (IF i = m THEN W ELSE 0)
    BY DEF AfterGain
  <2>2. \A i \in D : c[i] \in Int /\ w[i] \in Int
    OBVIOUS
  <2> HIDE DEF d, W
  <2> QED BY <1>1, <2>1, <2>2
<1>3. d \in [D -> Int]
  <2>1. \A i \in D : c[i] \in Int /\ w[i] \in Int
    OBVIOUS
  <2>2. d = [i \in D |-> d[i]]
    BY DEF AfterGain
  <2> HIDE DEF d, W
  <2>3. \A i \in D : d[i] \in Int
    BY <1>1, <1>2, <2>1
  <2> QED BY <2>2, <2>3
<1> HIDE DEF d
<1>4. {} \in Q
  <2>1. {} \cap S = {} /\ m \notin {}
    OBVIOUS
  <2>2. TotalOf(d, {}) = 0 /\ TotalOf(c, {}) = 0 /\ TotalOf(w, {}) = 0
    BY <1>3, TotalFacts
  <2> QED BY <2>1, <2>2
<1>5. ASSUME NEW T \in SUBSET D, NEW i \in D, T \in Q, i \notin T
      PROVE  T \cup {i} \in Q
  <2> DEFINE U == T \cap S
             pay == IF m \in T THEN W ELSE 0
             all == T \cup {i}
             rest == IF m \in all THEN W ELSE 0
  <2>1. TotalOf(d, T) = TotalOf(c, T) + TotalOf(w, U) - pay
    BY <1>5
  <2>2. TotalOf(d, all) = TotalOf(d, T) + d[i]
    BY <1>3, <1>5, TotalFacts
  <2>3. TotalOf(c, all) = TotalOf(c, T) + c[i]
    BY <1>5, TotalFacts
  <2>4. all \cap S = IF i \in S THEN U \cup {i} ELSE U
    OBVIOUS
  <2>5. i \in S => TotalOf(w, U \cup {i}) = TotalOf(w, U) + w[i]
    <3>1. U \in SUBSET D /\ i \notin U
      BY <1>5
    <3> HIDE DEF U
    <3> QED BY <3>1, TotalFacts
  <2>6. rest = IF i = m THEN W ELSE pay
    BY <1>5
  <2>7. i = m => pay = 0
    BY <1>5
  <2>8. TotalOf(c, T) \in Int /\ TotalOf(w, U) \in Int /\ pay \in Int /\ c[i] \in Int /\ w[i] \in Int
    BY <1>1, TotalFacts
  <2>9. all \in SUBSET D
    BY <1>5
  <2> HIDE DEF U, pay, all, rest, W
  <2>10. TotalOf(d, all) = TotalOf(c, all) + TotalOf(w, all \cap S) - rest
    <3>1. CASE i \notin S
      <4>1. d[i] = c[i] /\ TotalOf(w, all \cap S) = TotalOf(w, U) /\ rest = pay
        BY <1>2, <2>4, <2>6, <3>1
      <4> QED BY <2>1, <2>2, <2>3, <2>8, <4>1
    <3>2. CASE i \in S /\ i # m
      <4>1. d[i] = c[i] + w[i] /\ TotalOf(w, all \cap S) = TotalOf(w, U) + w[i] /\ rest = pay
        BY <1>2, <2>4, <2>5, <2>6, <3>2
      <4> QED BY <2>1, <2>2, <2>3, <2>8, <4>1
    <3>3. CASE i = m
      <4>1. /\ d[i] = c[i] + w[i] - W /\ TotalOf(w, all \cap S) = TotalOf(w, U) + w[i]
            /\ rest = W /\ pay = 0
        BY <1>2, <2>4, <2>5, <2>6, <2>7, <3>3
      <4> QED BY <1>1, <2>1, <2>2, <2>3, <2>8, <4>1
    <3> QED BY <3>1, <3>2, <3>3
  <2> QED BY <2>9, <2>10 DEF all, rest
<1>6. \A T \in SUBSET D : T \in Q
  <2>1. \A T \in SUBSET D, i \in D : T \in Q /\ i \notin T => T \cup {i} \in Q
    BY <1>5
  <2> HIDE DEF Q
  <2> QED BY <1>4, <2>1, SetInduction
<1>7. \A A \in SUBSET D : /\ m \notin A => TotalOf(d, A) = TotalOf(c, A) + TotalOf(w, Both(A, S))
                          /\ m \in A => TotalOf(d, A) + W = TotalOf(c, A) + TotalOf(w, Both(A, S))
  <2> TAKE A \in SUBSET D
  <2>1. TotalOf(d, A) = TotalOf(c, A) + TotalOf(w, A \cap S) - (IF m \in A THEN W ELSE 0)
    BY <1>6
  <2>2. TotalOf(c, A) \in Int /\ TotalOf(w, A \cap S) \in Int /\ TotalOf(d, A) \in Int
    BY <1>3, TotalFacts
  <2> DEFINE x == TotalOf(w, Both(A, S))
  <2>3. TotalOf(w, A \cap S) = x
    BY DEF Both
  <2> HIDE DEF W, x, Q
  <2>4. CASE m \in A
    BY <1>1, <2>1, <2>2, <2>3, <2>4 DEF x
  <2>5. CASE m \notin A
    BY <1>1, <2>1, <2>2, <2>3, <2>5 DEF x
  <2> QED BY <2>4, <2>5
<1> QED BY <1>3, <1>7 DEF d, W

\* How much k entries out of n may owe or be owed together, with weights up to h.
Limit(h, n, k) == h * (k * (2 * n - k - 1))

Within(c, D, h, n) ==
  \A A \in SUBSET D : /\ TotalOf(c, A) <= Limit(h, n, Cardinality(A))
                      /\ -Limit(h, n, Cardinality(A)) <= TotalOf(c, A)

UpTo(w, D, h) == \A i \in D : 0 <= w[i] /\ w[i] <= h
HasMost(c, w, S, m) == \A j \in S : c[j] + w[j] <= c[m] + w[m]

\* How the limit for some entries relates to that for more and for fewer.
LEMMA LimitSteps ==
  ASSUME NEW h \in Int, NEW n \in Int, NEW k \in Int, NEW a \in Int
  PROVE  /\ Limit(h, n, k) \in Int
         /\ Limit(h, n, k + 1) = Limit(h, n, k) + h * (2 * n - 2 * k - 2)
         /\ Limit(h, n, k - 1) = Limit(h, n, k) - h * (2 * n - 2 * k)
         /\ Limit(h, n, k - a) = Limit(h, n, k) - a * (h * (2 * n - 2 * k + a - 1))
         /\ Limit(h, n, k + a) = Limit(h, n, k) + a * (h * (2 * n - 2 * k - a - 1))
         /\ h * (2 * n - 2 * k + a - 1) \in Int /\ h * (a + 1 - 2 * n + 2 * k) \in Int
BY DEF Limit

\* Fewer entries have no larger a limit.
LEMMA LimitGrows ==
  ASSUME NEW h \in Nat, NEW n \in Nat, NEW k \in Nat, k < n
  PROVE  Limit(h, n, k) <= Limit(h, n, k + 1)
<1> DEFINE more == 2 * n - 2 * k - 2
<1>1. more \in Nat /\ h * more \in Nat
  <2>1. more \in Nat
    OBVIOUS
  <2> HIDE DEF more
  <2> QED BY <2>1
<1>2. Limit(h, n, k) \in Int /\ Limit(h, n, k + 1) = Limit(h, n, k) + h * more
  BY LimitSteps
<1> HIDE DEF more
<1> QED BY <1>1, <1>2

\* Those that lie in S and those that do not.
LEMMA PartFacts ==
  ASSUME NEW D, IsFiniteSet(D), NEW A \in SUBSET D, NEW S \in SUBSET D
  PROVE  /\ Cardinality(A) = Cardinality(Rest(A, S)) + Cardinality(Both(A, S))
         /\ Cardinality(Rest(A, S)) \in Nat
         /\ Cardinality(Joined(A, Rest(S, A))) = Cardinality(A) + Cardinality(Rest(S, A))
         /\ Cardinality(A) \in Nat /\ Cardinality(Both(A, S)) \in Nat /\ Cardinality(Rest(S, A)) \in Nat
         /\ IsFiniteSet(A) /\ IsFiniteSet(S)
<1>1. IsFiniteSet(A) /\ IsFiniteSet(S)
  BY FS_Subset
<1>2. IsFiniteSet(A \cap S) /\ IsFiniteSet(S \ A)
  BY <1>1, FS_Intersection, FS_Difference
<1>3. A \cap (S \ A) = {}
  OBVIOUS
<1>4. Cardinality(A \cap (S \ A)) = 0
  BY <1>3, FS_EmptySet
<1>5. Cardinality(A) \in Nat /\ Cardinality(A \cap S) \in Nat /\ Cardinality(S \ A) \in Nat
  BY <1>1, <1>2, FS_CardinalityType
<1>6. Cardinality(A \ S) = Cardinality(A) - Cardinality(A \cap S) /\ Cardinality(A \ S) \in Nat
  BY <1>1, FS_Difference, FS_CardinalityType
<1> DEFINE R == S \ A
<1>7. Cardinality(A \cup R) = Cardinality(A) + Cardinality(R) - Cardinality(A \cap R)
  <2> HIDE DEF R
  <2> QED BY <1>1, <1>2, FS_Union DEF R
<1> QED BY <1>1, <1>4, <1>5, <1>6, <1>7 DEF Both, Rest, Joined

\* A pick keeps what entries owe and are owed together within the limits: they can
\* only be owed more when one that was owed still more was picked, and only owe
\* more when one that was owed most had to pay for others.
LEMMA PickStaysBelow ==
  ASSUME NEW D, IsFiniteSet(D), NEW c \in [D -> Int], NEW w \in [D -> Int],
         NEW h \in Nat, NEW n \in Nat, Cardinality(D) <= n,
         UpTo(w, D, h), NEW S \in SUBSET D, NEW m \in S, HasMost(c, w, S, m),
         Within(c, D, h, n), NEW A \in SUBSET D
  PROVE  TotalOf(AfterGain(c, w, S, m), A) <= Limit(h, n, Cardinality(A))
<1> DEFINE d == AfterGain(c, w, S, m)
           B == Both(A, S)
<1>0. d \in [D -> Int]
  BY GainTotal
<1>1. /\ m \notin A => TotalOf(d, A) = TotalOf(c, A) + TotalOf(w, B)
      /\ m \in A => TotalOf(d, A) + TotalOf(w, S) = TotalOf(c, A) + TotalOf(w, B)
  BY GainTotal
<1> DEFINE C == Rest(A, S)
           k == Cardinality(A)
           a == Cardinality(B)
<1>2. k \in Nat /\ a \in Nat /\ Cardinality(C) = k - a
  <2>1. /\ Cardinality(A) = Cardinality(Rest(A, S)) + Cardinality(Both(A, S))
        /\ Cardinality(A) \in Nat /\ Cardinality(Both(A, S)) \in Nat /\ Cardinality(Rest(A, S)) \in Nat
    BY PartFacts
  <2> QED BY <2>1
<1> DEFINE t == h * (2 * n - 2 * k + a - 1)
<1>3. t \in Int /\ Limit(h, n, k) \in Int
  <2>1. h \in Int /\ n \in Int /\ k \in Int /\ a \in Int
    BY <1>2
  <2> HIDE DEF k, a
  <2> QED BY <2>1, LimitSteps
<1>4. B \in SUBSET D /\ C \in SUBSET D /\ B \cap C = {} /\ C \cup B = A
  BY DEF Both, Rest
<1> HIDE DEF d, B, C, k, a, t
<1>5. /\ TotalOf(d, A) \in Int /\ TotalOf(c, A) \in Int /\ TotalOf(w, B) \in Int /\ TotalOf(w, S) \in Int
      /\ TotalOf(c, B) \in Int /\ TotalOf(c, C) \in Int
      /\ c[m] \in Int /\ w[m] \in Int /\ w[m] <= h
  BY <1>0, <1>4, TotalFacts DEF UpTo
<1>6. TotalOf(c, A) <= Limit(h, n, k)
  BY DEF Within, k
<1>7. CASE m \in A
  <2> DEFINE R == Rest(S, A)
  <2>1. R \in SUBSET D /\ B \cap R = {} /\ B \cup R = S
    BY DEF B, Both, Rest
  <2>2. TotalOf(w, S) = TotalOf(w, B) + TotalOf(w, R) /\ TotalOf(w, R) \in Int
    <3> HIDE DEF R
    <3> QED BY <1>4, <2>1, TotalSplits, TotalFacts
  <2>3. TotalOf(w, R) >= 0
    BY <2>1, TotalNat DEF UpTo
  <2> HIDE DEF R
  <2>4. TotalOf(d, A) <= Limit(h, n, k)
    BY <1>1, <1>3, <1>5, <1>6, <1>7, <2>2, <2>3
  <2> QED BY <2>4 DEF d, k
<1>8. CASE m \notin A /\ c[m] + w[m] >= t
  <2> DEFINE E == A \cup {m}
  <2>1. E \in SUBSET D /\ Cardinality(E) = k + 1
    BY <1>8, FS_Subset, FS_AddElement DEF k
  <2>2. TotalOf(c, E) = TotalOf(c, A) + c[m]
    BY <1>8, TotalFacts
  <2>3. TotalOf(c, E) <= Limit(h, n, k + 1)
    BY <2>1 DEF Within
  <2>4. TotalOf(w, B) <= a * h
    BY <1>4, TotalUpTo DEF UpTo, a
  <2>5. TotalOf(d, A) = TotalOf(c, A) + TotalOf(w, B)
    BY <1>1, <1>5, <1>8
  <2>6. Limit(h, n, k + 1) = Limit(h, n, k) + h * (2 * n - 2 * k - 2)
    BY <1>2 DEF Limit
  <2>7. h * (2 * n - 2 * k - 2) - t + h + a * h = 0
    BY <1>2 DEF t
  <2> DEFINE x == h * (2 * n - 2 * k - 2)
             y == a * h
  <2>8. x \in Int /\ y \in Int
    BY <1>2
  <2> HIDE DEF E, x, y
  <2>9. TotalOf(d, A) <= Limit(h, n, k)
    BY <1>3, <1>5, <1>8, <2>2, <2>3, <2>4, <2>5, <2>6, <2>7, <2>8 DEF x, y
  <2> QED BY <2>9 DEF d, k
<1>9. CASE m \notin A /\ c[m] + w[m] < t
  <2>1. \A i \in B : c[i] + w[i] <= t
    <3>1. \A i \in B : i \in S /\ c[i] \in Int /\ w[i] \in Int
      BY <1>4 DEF B, Both
    <3> QED BY <1>3, <1>5, <1>9, <3>1 DEF HasMost
  <2>2. TotalOf(c, B) + TotalOf(w, B) <= a * t
    BY <1>3, <1>4, <2>1, TotalLimit DEF a
  <2>3. TotalOf(c, C) <= Limit(h, n, k - a)
    BY <1>2, <1>4 DEF Within
  <2>4. TotalOf(c, A) = TotalOf(c, C) + TotalOf(c, B)
    BY <1>4, TotalSplits
  <2>5. TotalOf(d, A) = TotalOf(c, A) + TotalOf(w, B)
    BY <1>1, <1>5, <1>9
  <2>6. Limit(h, n, k - a) = Limit(h, n, k) - a * t
    <3>1. h \in Int /\ n \in Int /\ k \in Int /\ a \in Int
      BY <1>2
    <3> QED BY <3>1 DEF Limit, t
  <2>7. a * t \in Int
    BY <1>2, <1>3
  <2> DEFINE x == a * t
  <2> HIDE DEF x
  <2>8. TotalOf(d, A) <= Limit(h, n, k)
    BY <1>3, <1>5, <2>2, <2>3, <2>4, <2>5, <2>6, <2>7 DEF x
  <2> QED BY <2>8 DEF d, k
<1> QED BY <1>3, <1>5, <1>7, <1>8, <1>9

LEMMA PickStaysAbove ==
  ASSUME NEW D, IsFiniteSet(D), NEW c \in [D -> Int], NEW w \in [D -> Int],
         NEW h \in Nat, NEW n \in Nat, Cardinality(D) <= n,
         UpTo(w, D, h), NEW S \in SUBSET D, NEW m \in S, HasMost(c, w, S, m),
         Within(c, D, h, n), NEW A \in SUBSET D
  PROVE  -Limit(h, n, Cardinality(A)) <= TotalOf(AfterGain(c, w, S, m), A)
<1> DEFINE d == AfterGain(c, w, S, m)
           B == Both(A, S)
<1>0. d \in [D -> Int]
  BY GainTotal
<1>1. /\ m \notin A => TotalOf(d, A) = TotalOf(c, A) + TotalOf(w, B)
      /\ m \in A => TotalOf(d, A) + TotalOf(w, S) = TotalOf(c, A) + TotalOf(w, B)
  BY GainTotal
<1> DEFINE R == Rest(S, A)
           k == Cardinality(A)
           b == Cardinality(R)
<1>2. k \in Nat /\ b \in Nat /\ Cardinality(Joined(A, R)) = k + b /\ IsFiniteSet(A)
  BY PartFacts
<1> DEFINE t == h * (b + 1 - 2 * n + 2 * k)
<1>3. t \in Int /\ Limit(h, n, k) \in Int
  <2>1. h \in Int /\ n \in Int /\ k \in Int /\ b \in Int
    BY <1>2
  <2> HIDE DEF k, b
  <2> QED BY <2>1, LimitSteps
<1>4. /\ B \in SUBSET D /\ R \in SUBSET D /\ B \cap R = {} /\ B \cup R = S
      /\ A \cap R = {} /\ Joined(A, R) \in SUBSET D
  BY DEF Both, Rest, Joined
<1> HIDE DEF d, B, R, k, b, t
<1>5. /\ TotalOf(d, A) \in Int /\ TotalOf(c, A) \in Int /\ TotalOf(w, B) \in Int /\ TotalOf(w, S) \in Int
      /\ TotalOf(c, R) \in Int /\ TotalOf(w, R) \in Int
      /\ c[m] \in Int /\ w[m] \in Int /\ w[m] <= h
  BY <1>0, <1>4, TotalFacts DEF UpTo
<1>6. -Limit(h, n, k) <= TotalOf(c, A)
  BY DEF Within, k
<1>7. CASE m \notin A
  <2>1. TotalOf(w, B) >= 0
    BY <1>4, TotalNat DEF UpTo
  <2> QED BY <1>1, <1>3, <1>5, <1>6, <1>7, <2>1 DEF d, k
<1>8. m \in A => TotalOf(d, A) = TotalOf(c, A) - TotalOf(w, R)
  <2>1. TotalOf(w, S) = TotalOf(w, B) + TotalOf(w, R)
    BY <1>4, TotalSplits
  <2> QED BY <1>1, <1>5, <2>1
<1>9. CASE m \in A /\ c[m] + w[m] >= t
  <2> DEFINE E == A \ {m}
  <2>1. E \in SUBSET D /\ m \notin E /\ A = E \cup {m} /\ Cardinality(E) = k - 1
    <3>1. Cardinality(E) = k - 1
      BY <1>2, <1>9, FS_RemoveElement DEF k
    <3> QED BY <1>9, <3>1
  <2> HIDE DEF E
  <2>2. TotalOf(c, A) = TotalOf(c, E) + c[m] /\ TotalOf(c, E) \in Int
    BY <2>1, TotalFacts
  <2>3. -Limit(h, n, k - 1) <= TotalOf(c, E)
    BY <2>1 DEF Within
  <2>4. TotalOf(w, R) <= b * h
    BY <1>4, TotalUpTo DEF UpTo, b
  <2>5. Limit(h, n, k - 1) = Limit(h, n, k) - h * (2 * n - 2 * k)
    BY <1>2 DEF Limit
  <2>6. h * (2 * n - 2 * k) + t - h - b * h = 0
    BY <1>2 DEF t
  <2> DEFINE x == h * (2 * n - 2 * k)
             y == b * h
  <2>7. x \in Int /\ y \in Int
    BY <1>2
  <2> HIDE DEF x, y
  <2>8. -Limit(h, n, k) <= TotalOf(d, A)
    BY <1>3, <1>5, <1>8, <1>9, <2>2, <2>3, <2>4, <2>5, <2>6, <2>7 DEF x, y
  <2> QED BY <2>8 DEF d, k
<1>10. CASE m \in A /\ c[m] + w[m] < t
  <2>1. \A i \in R : c[i] + w[i] <= t
    <3>1. \A i \in R : i \in S /\ c[i] \in Int /\ w[i] \in Int
      BY <1>4
    <3> QED BY <1>3, <1>5, <1>10, <3>1 DEF HasMost
  <2>2. TotalOf(c, R) + TotalOf(w, R) <= b * t
    BY <1>3, <1>4, <2>1, TotalLimit DEF b
  <2>3. -Limit(h, n, k + b) <= TotalOf(c, Joined(A, R))
    BY <1>2, <1>4 DEF Within
  <2>4. TotalOf(c, Joined(A, R)) = TotalOf(c, A) + TotalOf(c, R)
    BY <1>4, TotalSplits DEF Joined
  <2>5. Limit(h, n, k + b) = Limit(h, n, k) + b * (h * (2 * n - 2 * k - b - 1))
    BY <1>2 DEF Limit
  <2>6. b * (h * (2 * n - 2 * k - b - 1)) = -(b * t)
    BY <1>2 DEF t
  <2>7. b * t \in Int
    BY <1>2, <1>3
  <2> DEFINE x == b * t
             y == b * (h * (2 * n - 2 * k - b - 1))
  <2> HIDE DEF x, y
  <2>8. -Limit(h, n, k) <= TotalOf(d, A)
    BY <1>3, <1>5, <1>8, <1>10, <2>2, <2>3, <2>4, <2>5, <2>6, <2>7 DEF x, y
  <2> QED BY <2>8 DEF d, k
<1> QED BY <1>3, <1>5, <1>7, <1>9, <1>10

-----------------------------------------------------------------------------
(* The heaviest *)

\* Among finitely many numbered things there is a first of those with the most.
LEMMA FirstMost ==
  ASSUME NEW D \in SUBSET Nat, IsFiniteSet(D), NEW g \in [D -> Int], NEW S \in SUBSET D, S # {}
  PROVE  \E i \in S : \A j \in S : g[j] < g[i] \/ (g[j] = g[i] /\ i <= j)
<1> DEFINE First(T) == \E i \in T : \A j \in T : g[j] < g[i] \/ (g[j] = g[i] /\ i <= j)
           Q == {T \in SUBSET D : T # {} => First(T)}
<1>1. {} \in Q
  OBVIOUS
<1>2. ASSUME NEW T \in SUBSET D, NEW x \in D, T \in Q, x \notin T
      PROVE  First(T \cup {x})
  <2>1. \A i \in D : i \in Nat /\ g[i] \in Int
    OBVIOUS
  <2>2. CASE T = {}
    BY <2>1, <2>2
  <2>3. CASE T # {}
    <3>1. PICK i \in T : \A j \in T : g[j] < g[i] \/ (g[j] = g[i] /\ i <= j)
      BY <1>2, <2>3
    <3>2. CASE g[x] < g[i] \/ (g[x] = g[i] /\ i <= x)
      BY <3>1, <3>2
    <3>3. CASE ~ (g[x] < g[i] \/ (g[x] = g[i] /\ i <= x))
      <4>1. \A j \in T : g[j] < g[x] \/ (g[j] = g[x] /\ x <= j)
        BY <2>1, <3>1, <3>3
      <4> QED BY <2>1, <4>1
    <3> QED BY <3>2, <3>3
  <2> QED BY <2>2, <2>3
<1>3. \A T \in SUBSET D : T \in Q
  <2>1. \A T \in SUBSET D, x \in D : T \in Q /\ x \notin T => T \cup {x} \in Q
    BY <1>2
  <2> HIDE DEF Q
  <2> QED BY <1>1, <2>1, SetInduction
<1> QED BY <1>3

\* No weight is above the heaviest.
LEMMA HeaviestFacts ==
  Heaviest \in Nat /\ \A m \in Metas : GetWeightByMetadata(m) <= Heaviest
<1> DEFINE D == {GetWeightByMetadata(m) : m \in Metas}
           g == [x \in D |-> x]
<1>1. D \in SUBSET Nat /\ D # {} /\ IsFiniteSet(D)
  BY MetasAssumption, DefaultWeightAssumption DEF GetWeightByMetadata
<1>2. \A m \in Metas : GetWeightByMetadata(m) \in D
  OBVIOUS
<1>3. Heaviest = Max(D)
  BY DEF Heaviest
<1>4. \A x \in D : g[x] = x
  OBVIOUS
<1>5. g = [x \in D |-> g[x]]
  OBVIOUS
<1> HIDE DEF D, g
<1>6. g \in [D -> Int]
  BY <1>1, <1>4, <1>5
<1>7. PICK x \in D : \A y \in D : g[y] < g[x] \/ (g[y] = g[x] /\ x <= y)
  BY <1>1, <1>6, FirstMost
<1>8. \A y \in D : x >= y
  BY <1>1, <1>4, <1>7
<1>9. Max(D) \in D /\ \A y \in D : Max(D) >= y
  BY <1>8 DEF Max
<1> QED BY <1>1, <1>2, <1>3, <1>9

-----------------------------------------------------------------------------
(* Picks: types *)

Entry == [addr : Address, connected : BOOLEAN, weight : 0..Heaviest, current : Int]

\* What served counts the picks of.
Counted == IF V1 THEN DOMAIN addrs ELSE DOMAIN subConns

PicksTypeInv ==
  /\ balancer \in RoundRobins \cup Pickers
  /\ addrs \in Seq(Entry) /\ next \in Int /\ next >= -1
  /\ servers \in Listing /\ updates \subseteq Update
  /\ longest \in Nat /\ Len(addrs) <= longest
  /\ subConns \in Seq(Address) /\ pnext \in Nat
  /\ served \in [Counted -> Nat]

\* What an update, Up and down do to a list: an entry joins, leaves, or gets
\* another flag or weight.
Without(list, k) == [i \in 1..(Len(list) - 1) |-> list[IF i < k THEN i ELSE i + 1]]
Altered(list, new) ==
  \/ new = list
  \/ \E e \in Entry : e.current = 0 /\ new = Append(list, e)
  \/ \E k \in DOMAIN list : new = Without(list, k)
  \/ \E k \in DOMAIN list, e \in Entry : e.current = list[k].current /\ new = [list EXCEPT ![k] = e]

\* An entry for an address, and one with another flag or weight.
LEMMA EntryFacts ==
  /\ \A e \in Entry : /\ e.addr \in Address /\ e.connected \in BOOLEAN /\ e.current \in Int
                      /\ e.weight \in Nat /\ e.weight <= Heaviest
  /\ \A e \in Entry, x \in 0..Heaviest : /\ [e EXCEPT !.weight = x] \in Entry
                                         /\ [e EXCEPT !.weight = x].current = e.current
  /\ \A e \in Entry, up \in BOOLEAN : /\ [e EXCEPT !.connected = up] \in Entry
                                      /\ [e EXCEPT !.connected = up].current = e.current
BY HeaviestFacts DEF Entry

\* The weights of metadata and the entries of addresses, in either kind of balancer.
LEMMA WeightUp ==
  ASSUME NEW a \in Address
  PROVE  /\ Weighted!GetWeightByMetadata(a.meta) \in 0..Heaviest
         /\ Weighted!NewAddrInfo(a) \in Entry /\ Weighted!NewAddrInfo(a).current = 0
         /\ Rotating!NewAddrInfo(a) \in Entry /\ Rotating!NewAddrInfo(a).current = 0
<1> DEFINE x == GetWeightByMetadata(a.meta)
<1>1. x \in Nat
  BY DefaultWeightAssumption DEF GetWeightByMetadata
<1>2. x \in 0..Heaviest
  <2>1. a.meta \in Metas
    BY DEF Address
  <2>2. x <= Heaviest
    BY <2>1, HeaviestFacts
  <2> HIDE DEF x
  <2> QED BY <1>1, <2>2, HeaviestFacts
<1>3. /\ Weighted!GetWeightByMetadata(a.meta) = x
      /\ Weighted!NewAddrInfo(a) = [addr |-> a, connected |-> FALSE, weight |-> x, current |-> 0]
      /\ Rotating!NewAddrInfo(a) = [addr |-> a, connected |-> FALSE, weight |-> x, current |-> 0]
  BY DEF Weighted!NewAddrInfo, Rotating!NewAddrInfo, Weighted!GetWeightByMetadata,
         Rotating!GetWeightByMetadata, GetWeightByMetadata
<1> HIDE DEF x
<1> QED BY <1>2, <1>3 DEF Entry

\* The first entry with an address or a name is one of the entries.
LEMMA FirstFacts ==
  ASSUME addrs \in Seq(Entry), NEW a
  PROVE  /\ (\E i \in DOMAIN addrs : addrs[i].addr = a) =>
              /\ Weighted!FirstAt(LAMBDA i : addrs[i].addr = a) \in DOMAIN addrs
              /\ Rotating!FirstAt(LAMBDA i : addrs[i].addr = a) \in DOMAIN addrs
         /\ (\E i \in DOMAIN addrs : addrs[i].addr.name = a) =>
              Weighted!FirstAt(LAMBDA i : addrs[i].addr.name = a) \in DOMAIN addrs
<1>1. DOMAIN addrs \in SUBSET Nat
  OBVIOUS
<1>2. ASSUME \E i \in DOMAIN addrs : addrs[i].addr = a
      PROVE  \E i \in DOMAIN addrs : /\ addrs[i].addr = a
                                     /\ \A j \in DOMAIN addrs : addrs[j].addr = a => i <= j
  <2> DEFINE S == {i \in DOMAIN addrs : addrs[i].addr = a}
  <2>1. S \in SUBSET Nat /\ S # {}
    BY <1>1, <1>2
  <2>2. PICK i \in S : \A j \in S : i <= j
    <3> HIDE DEF S
    <3> QED BY <2>1, DefaultWeightAssumption, Lists!Least
  <2> QED BY <2>2
<1>3. ASSUME \E i \in DOMAIN addrs : addrs[i].addr.name = a
      PROVE  \E i \in DOMAIN addrs : /\ addrs[i].addr.name = a
                                     /\ \A j \in DOMAIN addrs : addrs[j].addr.name = a => i <= j
  <2> DEFINE S == {i \in DOMAIN addrs : addrs[i].addr.name = a}
  <2>1. S \in SUBSET Nat /\ S # {}
    BY <1>1, <1>3
  <2>2. PICK i \in S : \A j \in S : i <= j
    <3> HIDE DEF S
    <3> QED BY <2>1, DefaultWeightAssumption, Lists!Least
  <2> QED BY <2>2
<1> QED BY <1>2, <1>3 DEF Weighted!FirstAt, Rotating!FirstAt

\* A batch alters the list update by update.
LEMMA AppliedFacts ==
  ASSUME PicksTypeInv, NEW u \in updates, Apply(u)
  PROVE  Altered(addrs, addrs') /\ next' \in {next, -1} /\ V1
<1>1. addrs \in Seq(Entry) /\ u.addr \in Address /\ \A i \in DOMAIN addrs : addrs[i] \in Entry
  BY DEF PicksTypeInv, Update
<1> DEFINE a == u.addr
           at == IF balancer = "WRoundRobin" THEN Weighted!FirstAt(LAMBDA i : addrs[i].addr = a)
                 ELSE Rotating!FirstAt(LAMBDA i : addrs[i].addr = a)
           named == Weighted!FirstAt(LAMBDA i : addrs[i].addr.name = a.name)
           there == \E i \in DOMAIN addrs : addrs[i].addr = a
           known == \E i \in DOMAIN addrs : addrs[i].addr.name = a.name
           x == Weighted!GetWeightByMetadata(a.meta)
<1>2. /\ there => at \in DOMAIN addrs
      /\ known => named \in DOMAIN addrs
  <2>1. there => /\ Weighted!FirstAt(LAMBDA i : addrs[i].addr = a) \in DOMAIN addrs
                 /\ Rotating!FirstAt(LAMBDA i : addrs[i].addr = a) \in DOMAIN addrs
    BY <1>1, FirstFacts DEF Weighted!FirstAt, Rotating!FirstAt
  <2>2. known => named \in DOMAIN addrs
    BY <1>1, FirstFacts DEF Weighted!FirstAt, Rotating!FirstAt
  <2> QED BY <2>1, <2>2 DEF Weighted!FirstAt, Rotating!FirstAt
<1>3. x \in 0..Heaviest
  BY <1>1, WeightUp
<1>4. \/ UNCHANGED <<addrs, next>>
      \/ \E e \in Entry : e.current = 0 /\ addrs' = Append(addrs, e) /\ next' = next
      \/ next' = -1 /\ (addrs' = addrs \/ (there /\ addrs' = Without(addrs, at)))
      \/ known /\ next' = next /\ addrs' = [addrs EXCEPT ![named].weight = x]
  <2>1. CASE balancer = "WRoundRobin"
    <3>1. Weighted!Applies(u)
      BY <2>1 DEF Apply
    <3>2. CASE Weighted!ApplyAdd(u.addr)
      BY <1>1, <3>2, WeightUp DEF Weighted!ApplyAdd
    <3>3. CASE Weighted!ApplyDelete(u.addr)
      BY <2>1, <3>3 DEF Weighted!ApplyDelete, Weighted!AddressesOf, Weighted!WithoutEntry, Without
    <3>4. CASE Weighted!ApplyModify(u.addr)
      BY <3>4 DEF Weighted!ApplyModify
    <3> QED BY <3>1, <3>2, <3>3, <3>4 DEF Weighted!Applies
  <2>2. CASE balancer = "RoundRobin"
    <3>1. Rotating!Applies(u)
      BY <2>2 DEF Apply
    <3>2. CASE Rotating!ApplyAdd(u.addr)
      BY <1>1, <3>2, WeightUp DEF Rotating!ApplyAdd
    <3>3. CASE Rotating!ApplyDelete(u.addr)
      BY <2>2, <3>3 DEF Rotating!ApplyDelete, Rotating!AddressesOf, Rotating!WithoutEntry, Without
    <3>4. CASE Rotating!ApplyModify(u.addr)
      BY <3>4 DEF Rotating!ApplyModify
    <3> QED BY <3>1, <3>2, <3>3, <3>4 DEF Rotating!Applies
  <2> QED BY <2>1, <2>2 DEF Apply
<1>5. V1
  BY DEF Apply, V1, RoundRobins
<1> HIDE DEF a, at, named, x, there, known
<1>6. ASSUME known, addrs' = [addrs EXCEPT ![named].weight = x]
      PROVE  Altered(addrs, addrs')
  <2> DEFINE e == [addrs[named] EXCEPT !.weight = x]
  <2>1. e \in Entry /\ e.current = addrs[named].current
    BY <1>1, <1>2, <1>3, <1>6, EntryFacts
  <2>2. addrs' = [addrs EXCEPT ![named] = e]
    BY <1>6
  <2> HIDE DEF e
  <2> QED BY <1>2, <1>6, <2>1, <2>2 DEF Altered
<1> QED BY <1>2, <1>4, <1>5, <1>6 DEF Altered

\* So do Up and down.
LEMMA ConnectFacts ==
  ASSUME PicksTypeInv, NEW i \in DOMAIN addrs, NEW up \in BOOLEAN, Connect(i, up)
  PROVE  Altered(addrs, addrs') /\ next' = next /\ longest' = longest /\ Len(addrs') = Len(addrs)
<1> DEFINE e == [addrs[i] EXCEPT !.connected = up]
<1>1. addrs \in Seq(Entry) /\ addrs[i] \in Entry
  BY DEF PicksTypeInv
<1>2. e \in Entry /\ e.current = addrs[i].current
  BY <1>1, EntryFacts
<1>3. addrs' = [addrs EXCEPT ![i] = e]
  BY DEF Connect
<1> HIDE DEF e
<1>4. next' = next /\ longest' = longest
  BY DEF Connect
<1>5. Len(addrs') = Len(addrs)
  BY <1>1, <1>2, <1>3
<1>6. Altered(addrs, addrs')
  BY <1>1, <1>2, <1>3 DEF Altered
<1> QED BY <1>4, <1>5, <1>6

\* An altered list is a list.
LEMMA AlteredType ==
  ASSUME NEW list \in Seq(Entry), NEW new, Altered(list, new)
  PROVE  new \in Seq(Entry) /\ Len(new) \in Nat
<1>1. ASSUME NEW k \in DOMAIN list, new = Without(list, k)
      PROVE  new \in Seq(Entry)
  <2> DEFINE n == Len(list) - 1
  <2>1. n \in Nat /\ k \in 1..(n + 1) /\ DOMAIN list = 1..(n + 1)
    OBVIOUS
  <2>2. new = [i \in 1..n |-> list[IF i < k THEN i ELSE i + 1]]
    BY <1>1 DEF Without
  <2> HIDE DEF n
  <2>3. \A i \in 1..n : (IF i < k THEN i ELSE i + 1) \in DOMAIN list
    BY <2>1
  <2>4. \A i \in 1..n : list[IF i < k THEN i ELSE i + 1] \in Entry
    BY <2>3
  <2> QED BY <2>1, <2>2, <2>4
<1> QED BY <1>1 DEF Altered

\* A pick serves one entry or connection once more.
LEMMA ServedType ==
  ASSUME PicksTypeInv, NEW i, Serve(i)
  PROVE  /\ served' \in [Counted -> Nat]
         /\ i \in Counted => served'[i] = served[i] + 1
         /\ \A j \in Counted : j # i => served'[j] = served[j]
         /\ UNCHANGED <<balancer, servers, updates, longest>>
<1>1. /\ served \in [Counted -> Nat] /\ served' = [served EXCEPT ![i] = served[i] + 1]
      /\ UNCHANGED <<balancer, servers, updates, longest>>
  BY DEF PicksTypeInv, Serve
<1>2. \A j \in Counted : served'[j] = IF j = i THEN served[i] + 1 ELSE served[j]
  BY <1>1
<1>3. \A j \in Counted : served'[j] \in Nat
  BY <1>1, <1>2
<1>4. DOMAIN served' = Counted /\ served' = [j \in Counted |-> served'[j]]
  BY <1>1
<1> QED BY <1>1, <1>2, <1>3, <1>4

\* The weighted selection touches nothing but the current weights.
LEMMA AfterPickFacts ==
  ASSUME addrs \in Seq(Entry), NEW S \in SUBSET DOMAIN addrs, NEW sel,
         addrs' = Weighted!AfterPick(S, sel)
  PROVE  /\ addrs' \in Seq(Entry) /\ DOMAIN addrs' = DOMAIN addrs
         /\ \A i \in DOMAIN addrs : /\ addrs'[i].addr = addrs[i].addr
                                    /\ addrs'[i].connected = addrs[i].connected
                                    /\ addrs'[i].weight = addrs[i].weight
<1>1. Weighted!TotalWeight(S) \in Nat
  <2>1. addrs \in Seq(Lists!AddrInfo)
    <3>1. \A i \in DOMAIN addrs : addrs[i] \in Lists!AddrInfo
      <4> TAKE i \in DOMAIN addrs
      <4>1. addrs[i] \in Entry
        OBVIOUS
      <4> QED BY <4>1, HeaviestFacts DEF Entry, Address, Lists!AddrInfo, Lists!Address
    <3> QED BY <3>1
  <2>2. Lists!TotalWeight(S) \in Nat
    BY <2>1, DefaultWeightAssumption, Lists!TotalWeightType
  <2>3. Weighted!TotalWeight(S) = Lists!TotalWeight(S)
    BY Cards DEF Weighted!TotalWeight, Lists!TotalWeight
  <2> QED BY <2>2, <2>3
<1> DEFINE T == Weighted!TotalWeight(S)
           now(i) == IF i \notin S THEN addrs[i]
                     ELSE [addrs[i] EXCEPT !.current = Weighted!Gained(i) - (IF i = sel THEN T ELSE 0)]
<1>2. addrs' = [i \in DOMAIN addrs |-> now(i)]
  BY DEF Weighted!AfterPick
<1>3. \A i \in DOMAIN addrs : /\ now(i) \in Entry /\ now(i).addr = addrs[i].addr
                              /\ now(i).connected = addrs[i].connected
                              /\ now(i).weight = addrs[i].weight
  <2> TAKE i \in DOMAIN addrs
  <2>1. addrs[i] \in Entry
    OBVIOUS
  <2> DEFINE t == IF i = sel THEN T ELSE 0
  <2>2. t \in Int
    BY <1>1
  <2>3. Weighted!Gained(i) \in Int
    <3>1. addrs[i].current \in Int /\ addrs[i].weight \in Int
      BY <2>1, EntryFacts
    <3> QED BY <3>1 DEF Weighted!Gained
  <2>4. Weighted!Gained(i) - t \in Int
    <3> HIDE DEF t
    <3> QED BY <2>2, <2>3
  <2> DEFINE c == Weighted!Gained(i) - t
  <2>5. c \in Int /\ now(i) \in {addrs[i], [addrs[i] EXCEPT !.current = c]}
    BY <2>4
  <2> HIDE DEF c, now
  <2> QED BY <2>1, <2>5 DEF Entry
<1>4. DOMAIN addrs = 1..Len(addrs) /\ Len(addrs) \in Nat
  OBVIOUS
<1> HIDE DEF now
<1> QED BY <1>2, <1>3, <1>4

\* Get of either round robin keeps the list, but for the current weights.
LEMMA GetFacts ==
  ASSUME PicksTypeInv, NEW i \in DOMAIN addrs, WeightedGet(i) \/ RotatingGet(i)
  PROVE  /\ addrs' \in Seq(Entry) /\ DOMAIN addrs' = DOMAIN addrs /\ Len(addrs') = Len(addrs)
         /\ next' \in Int /\ next' >= -1 /\ V1 /\ Serve(i) /\ UNCHANGED pickerVars
<1>1. addrs \in Seq(Entry) /\ next \in Int /\ next >= -1
  BY DEF PicksTypeInv
<1>2. CASE WeightedGet(i)
  <2> DEFINE S == Weighted!Candidates
  <2>1. S \in SUBSET DOMAIN addrs
    BY DEF Weighted!Candidates, Weighted!GetAvailableAddrs
  <2>2. next' = next /\ (addrs' = addrs \/ addrs' = Weighted!AfterPick(S, i))
    BY <1>2 DEF WeightedGet, Weighted!selectOneAddr
  <2> HIDE DEF S
  <2>3. addrs' \in Seq(Entry) /\ DOMAIN addrs' = DOMAIN addrs
    BY <1>1, <2>1, <2>2, AfterPickFacts
  <2>4. Len(addrs') = Len(addrs)
    BY <1>1, <2>3
  <2> QED BY <1>1, <1>2, <2>2, <2>3, <2>4 DEF WeightedGet, V1, RoundRobins
<1>3. CASE RotatingGet(i)
  <2>1. addrs' = addrs /\ (next' = next \/ next' = Rotating!NextIndex(Rotating!Candidates))
    BY <1>3 DEF RotatingGet, Rotating!selectOneAddr
  <2>2. next' \in {next, 0, next + 1}
    BY <2>1 DEF Rotating!NextIndex
  <2> QED BY <1>1, <1>3, <2>1, <2>2 DEF RotatingGet, V1, RoundRobins
<1> QED BY <1>2, <1>3

\* The types at the start.
LEMMA PicksTypeInit == PicksInit => PicksTypeInv
<1> SUFFICES ASSUME PicksInit PROVE PicksTypeInv
  OBVIOUS
<1>1. NoServers \in Listing
  BY DEF NoServers, Listing
<1> QED BY <1>1 DEF PicksInit, PicksTypeInv, Counted, Nobody

\* A batch and a change of a connection keep the types and start a new count.
LEMMA ChangeType ==
  ASSUME PicksTypeInv,
         \/ \E u \in updates : Apply(u)
         \/ \E i \in DOMAIN addrs, up \in BOOLEAN : Connect(i, up)
  PROVE  /\ PicksTypeInv' /\ (\A i \in DOMAIN served' : served'[i] = 0)
         /\ Altered(addrs, addrs') /\ balancer' = balancer /\ V1
         /\ longest <= longest' /\ UNCHANGED pickerVars
<1>1. /\ Altered(addrs, addrs') /\ next' \in {next, -1} /\ V1 /\ balancer' = balancer
      /\ served' = Nobody(addrs') /\ UNCHANGED <<servers, pickerVars>> /\ updates' \subseteq updates
      /\ longest' = IF Len(addrs') > longest THEN Len(addrs') ELSE longest
  <2>1. ASSUME NEW u \in updates, Apply(u)
        PROVE  /\ Altered(addrs, addrs') /\ next' \in {next, -1} /\ V1 /\ balancer' = balancer
               /\ served' = Nobody(addrs') /\ UNCHANGED <<servers, pickerVars>> /\ updates' \subseteq updates
               /\ longest' = IF Len(addrs') > longest THEN Len(addrs') ELSE longest
    BY <2>1, AppliedFacts DEF Apply
  <2>2. ASSUME NEW i \in DOMAIN addrs, NEW up \in BOOLEAN, Connect(i, up)
        PROVE  /\ Altered(addrs, addrs') /\ next' \in {next, -1} /\ V1 /\ balancer' = balancer
               /\ served' = Nobody(addrs') /\ UNCHANGED <<servers, pickerVars>> /\ updates' \subseteq updates
               /\ longest' = IF Len(addrs') > longest THEN Len(addrs') ELSE longest
    <3>1. longest' = IF Len(addrs') > longest THEN Len(addrs') ELSE longest
      BY <2>2, ConnectFacts DEF PicksTypeInv
    <3> QED BY <2>2, <3>1, ConnectFacts DEF Connect, Change
  <2> QED BY <2>1, <2>2
<1>2. addrs' \in Seq(Entry) /\ Len(addrs') \in Nat
  BY <1>1, AlteredType DEF PicksTypeInv
<1>3. longest' \in Nat /\ Len(addrs') <= longest' /\ longest <= longest'
  BY <1>1, <1>2 DEF PicksTypeInv
<1>4. V1'
  BY <1>1 DEF V1
<1>5. served' \in [Counted' -> Nat] /\ \A i \in DOMAIN served' : served'[i] = 0
  BY <1>1, <1>4 DEF Nobody, Counted
<1>6. next' \in Int /\ next' >= -1
  BY <1>1 DEF PicksTypeInv
<1>7. /\ balancer' \in RoundRobins \cup Pickers /\ servers' \in Listing /\ updates' \subseteq Update
      /\ subConns' \in Seq(Address) /\ pnext' \in Nat
  BY <1>1 DEF PicksTypeInv, pickerVars
<1> QED BY <1>1, <1>2, <1>3, <1>5, <1>6, <1>7 DEF PicksTypeInv

\* A new picker keeps its connections in some order.
LEMMA BuildType ==
  ASSUME PicksTypeInv, NEW ready \in Listing, Build(ready)
  PROVE  /\ PicksTypeInv' /\ (\A i \in DOMAIN served' : served'[i] = 0)
         /\ pnext' = 0 /\ ~V1 /\ UNCHANGED <<balancer, v1Vars>>
<1> DEFINE R == {Addr(b, ready[b]) : b \in DOMAIN ready}
<1>1. PICK order \in SetToSeqs(R) : subConns' = order /\ served' = Nobody(order)
  BY DEF Build
<1>2. R \in SUBSET Address /\ DOMAIN ready \in SUBSET Backends
  BY DEF Listing, Addr, Address
<1>3. IsFiniteSet(R)
  <2> DEFINE g == [b \in DOMAIN ready |-> Addr(b, ready[b])]
  <2>1. g \in Surjection(DOMAIN ready, R)
    BY DEF Surjection
  <2>2. IsFiniteSet(DOMAIN ready)
    BY <1>2, BackendsAssumption, FS_Subset
  <2> HIDE DEF g, R
  <2> QED BY <2>1, <2>2, FS_Surjection
<1> DEFINE n == Cardinality(R)
<1>4. n \in Nat
  <2> HIDE DEF R
  <2> QED BY <1>3, FS_CardinalityType
<1>5. order \in [1..n -> R]
  BY <1>1 DEF SetToSeqs
<1> HIDE DEF R, n
<1>6. order \in Seq(Address)
  BY <1>2, <1>4, <1>5
<1>7. ~V1 /\ ~V1' /\ pnext' = 0 /\ UNCHANGED <<balancer, v1Vars>>
  BY DEF Build, Change, V1
<1>8. served' \in [Counted' -> Nat] /\ \A i \in DOMAIN served' : served'[i] = 0
  BY <1>1, <1>7 DEF Counted, Nobody
<1> QED BY <1>1, <1>6, <1>7, <1>8 DEF PicksTypeInv, v1Vars

\* The other picks and the steps in between.
Idle == UNCHANGED <<balancer, addrs, next, longest, subConns, pnext, served>>

LEMMA PickerType ==
  ASSUME PicksTypeInv, NEW i, Serve(i), ~V1, UNCHANGED <<addrs, next, subConns>>, pnext' \in Nat
  PROVE  PicksTypeInv'
<1>1. served' \in [Counted -> Nat] /\ UNCHANGED <<balancer, servers, updates, longest>>
  BY ServedType
<1>2. Counted' = Counted
  BY <1>1 DEF Counted, V1
<1> QED BY <1>1, <1>2 DEF PicksTypeInv

\* What a step is, as far as the picks go.
LEMMA Steps ==
  ASSUME PicksTypeInv, [PicksNext]_picksVars
  PROVE  \/ \E u \in updates : Apply(u)
         \/ \E i \in DOMAIN addrs, up \in BOOLEAN : Connect(i, up)
         \/ \E ready \in Listing : Build(ready)
         \/ \E i \in DOMAIN addrs : WeightedGet(i) \/ RotatingGet(i)
         \/ RotatingPick
         \/ /\ balancer \in Pickers \ {"RoundRobinExperimental"}
            /\ (\E i : Serve(i)) /\ UNCHANGED <<addrs, next, pickerVars>>
         \/ Idle /\ servers' \in Listing /\ updates' \subseteq Update
<1>1. ASSUME NEW pairs \in Listing, Listed(pairs)
      PROVE  Idle /\ servers' \in Listing /\ updates' \subseteq Update
  <2>1. GetUpdate(servers, pairs) \subseteq Update
    BY DefaultWeightAssumption, Lists!UpdatesType DEF PicksTypeInv, GetUpdate, Lists!GetUpdate, Update,
       Lists!Update, Listing, Lists!Listing, Upd, Lists!Upd, ListedOp, Lists!ListedOp, Addr, Lists!Addr,
       Operations, Lists!Operations, Address, Lists!Address
  <2> QED BY <1>1, <2>1 DEF Listed, Change, Idle, pickerVars
<1>2. CASE DrawPanics \/ UNCHANGED picksVars
  BY <1>2 DEF DrawPanics, picksVars, Idle, v1Vars, pickerVars, PicksTypeInv
<1>3. ASSUME NEW k \in DOMAIN subConns, HeaviestPick(k) \/ UniformPick(k)
      PROVE  /\ balancer \in Pickers \ {"RoundRobinExperimental"}
             /\ (\E i : Serve(i)) /\ UNCHANGED <<addrs, next, pickerVars>>
  BY <1>3 DEF HeaviestPick, UniformPick, Pickers
<1>4. CASE DrawPick
  BY <1>4 DEF DrawPick, Pickers
<1> QED BY <1>1, <1>2, <1>3, <1>4 DEF PicksNext

\* Every step keeps the types, and a client its balancer.
LEMMA PicksTypeStep ==
  PicksTypeInv /\ [PicksNext]_picksVars => PicksTypeInv' /\ balancer' = balancer
<1> SUFFICES ASSUME PicksTypeInv, [PicksNext]_picksVars PROVE PicksTypeInv' /\ balancer' = balancer
  OBVIOUS
<1>1. ASSUME NEW i \in DOMAIN addrs, WeightedGet(i) \/ RotatingGet(i)
      PROVE  PicksTypeInv' /\ balancer' = balancer
  <2>1. /\ addrs' \in Seq(Entry) /\ DOMAIN addrs' = DOMAIN addrs /\ Len(addrs') = Len(addrs)
        /\ next' \in Int /\ next' >= -1 /\ V1 /\ Serve(i) /\ UNCHANGED pickerVars
    BY <1>1, GetFacts
  <2>2. served' \in [Counted -> Nat] /\ UNCHANGED <<balancer, servers, updates, longest>>
    BY <2>1, ServedType
  <2>3. Counted' = Counted
    BY <2>1, <2>2 DEF Counted, V1
  <2> QED BY <2>1, <2>2, <2>3 DEF PicksTypeInv, pickerVars
<1>2. CASE RotatingPick
  <2>1. Serve(pnext + 1) /\ UNCHANGED <<addrs, next, subConns>> /\ ~V1
    BY <1>2 DEF RotatingPick, V1, RoundRobins
  <2>2. pnext' \in Nat
    <3>1. Len(subConns) \in Nat /\ Len(subConns) > 0 /\ pnext + 1 \in Nat
      BY <1>2 DEF RotatingPick, PicksTypeInv
    <3>2. pnext' = (pnext + 1) % Len(subConns)
      BY <1>2 DEF RotatingPick
    <3> QED BY <3>1, <3>2
  <2> QED BY <2>1, <2>2, PickerType, ServedType
<1>3. ASSUME NEW i, Serve(i), balancer \in Pickers \ {"RoundRobinExperimental"},
             UNCHANGED <<addrs, next, pickerVars>>
      PROVE  PicksTypeInv' /\ balancer' = balancer
  <2>1. ~V1 /\ pnext' \in Nat /\ subConns' = subConns
    BY <1>3 DEF V1, RoundRobins, Pickers, PicksTypeInv, pickerVars
  <2> QED BY <1>3, <2>1, PickerType, ServedType
<1>4. CASE Idle /\ servers' \in Listing /\ updates' \subseteq Update
  BY <1>4 DEF Idle, PicksTypeInv, Counted, V1
<1> QED BY <1>1, <1>2, <1>3, <1>4, Steps, ChangeType, BuildType

\* The types of Picks.
LEMMA PicksTyped == PicksSpec => []PicksTypeInv
BY PicksTypeInit, PicksTypeStep, PTL DEF PicksSpec

-----------------------------------------------------------------------------
(* Picks: turns *)

\* The entries that rotation chooses from, and where each is among them.
Conn == Rotating!Candidates
Rank(i) == Cardinality({j \in Conn : j < i})
NumConn == Cardinality(Conn)

\* They are finitely many.
LEMMA ConnFinite ==
  ASSUME PicksTypeInv
  PROVE  IsFiniteSet(Conn) /\ NumConn \in Nat /\ Conn \subseteq Nat
<1>1. DOMAIN addrs = 1..Len(addrs) /\ Len(addrs) \in Nat
  BY DEF PicksTypeInv
<1>2. IsFiniteSet(DOMAIN addrs)
  BY <1>1, FS_Interval
<1>3. Conn \in SUBSET DOMAIN addrs /\ Conn \subseteq Nat
  BY <1>1 DEF Conn, Rotating!Candidates, Rotating!GetAvailableAddrs
<1> QED BY <1>2, <1>3, FS_Subset, FS_CardinalityType DEF NumConn

\* The ranks number the entries from zero, each number once.
LEMMA RankFacts ==
  ASSUME PicksTypeInv
  PROVE  /\ \A i \in Conn : Rank(i) \in 0..NumConn - 1
         /\ \A i, j \in Conn : Rank(i) = Rank(j) => i = j
         /\ \A m \in 0..NumConn - 1 : \E i \in Conn : Rank(i) = m
<1> DEFINE Below(i) == {j \in Conn : j < i}
           n == NumConn
<1>1. IsFiniteSet(Conn) /\ n \in Nat /\ Conn \subseteq Nat
  BY ConnFinite
<1>2. \A i \in Conn : Below(i) \in SUBSET (Conn \ {i}) /\ Rank(i) = Cardinality(Below(i))
  BY <1>1 DEF Rank
<1>3. \A i, j \in Conn : i < j => Below(i) \cup {i} \in SUBSET Below(j) /\ i \notin Below(i)
  <2> SUFFICES ASSUME NEW i \in Conn, NEW j \in Conn, i < j
               PROVE  Below(i) \cup {i} \in SUBSET Below(j) /\ i \notin Below(i)
    OBVIOUS
  <2>1. \A k \in Conn : k < i => k < j
    BY <1>1
  <2>2. ~ (i < i)
    BY <1>1
  <2> QED BY <2>1, <2>2
<1> HIDE DEF Below, n
<1>4. \A i \in Conn : IsFiniteSet(Below(i)) /\ Rank(i) \in 0..n - 1
  <2> TAKE i \in Conn
  <2> DEFINE others == Conn \ {i}
  <2>1. IsFiniteSet(others) /\ Cardinality(others) = n - 1
    BY <1>1, FS_RemoveElement DEF NumConn, n
  <2>2. Below(i) \in SUBSET others
    BY <1>2
  <2> HIDE DEF others
  <2>3. IsFiniteSet(Below(i)) /\ Cardinality(Below(i)) <= n - 1
    BY <2>1, <2>2, FS_Subset
  <2>4. Cardinality(Below(i)) \in Nat
    BY <2>3, FS_CardinalityType
  <2> QED BY <1>1, <1>2, <2>3, <2>4
<1>5. \A i, j \in Conn : i < j => Rank(i) < Rank(j)
  <2> SUFFICES ASSUME NEW i \in Conn, NEW j \in Conn, i < j PROVE Rank(i) < Rank(j)
    OBVIOUS
  <2> DEFINE B == Below(i)
  <2>1. B \cup {i} \in SUBSET Below(j) /\ i \notin B
    BY <1>3
  <2>2. IsFiniteSet(B) /\ IsFiniteSet(Below(j))
    BY <1>4
  <2>3. Cardinality(B \cup {i}) = Cardinality(B) + 1
    BY <2>1, <2>2, FS_AddElement
  <2>4. Cardinality(B \cup {i}) <= Cardinality(Below(j))
    BY <2>1, <2>2, FS_Subset
  <2>5. Rank(i) \in Int /\ Rank(j) \in Int
    BY <1>1, <1>4
  <2> QED BY <1>2, <2>3, <2>4, <2>5
<1>6. \A i, j \in Conn : Rank(i) = Rank(j) => i = j
  <2> SUFFICES ASSUME NEW i \in Conn, NEW j \in Conn, Rank(i) = Rank(j), i # j PROVE FALSE
    OBVIOUS
  <2>1. i < j \/ j < i
    BY <1>1
  <2>2. Rank(i) \in Int /\ Rank(j) \in Int
    BY <1>1, <1>4
  <2> QED BY <1>5, <2>1, <2>2
<1>7. \A i \in Conn : Rank(i) \in 0..n - 1
  BY <1>4
<1> DEFINE r == [i \in Conn |-> Rank(i)]
<1>8. r \in Injection(Conn, 0..n - 1)
  BY <1>6, <1>7 DEF Injection, IsInjective
<1>9. IsFiniteSet(0..n - 1) /\ Cardinality(0..n - 1) = n
  BY <1>1, FS_Interval
<1>10. r \in Surjection(Conn, 0..n - 1)
  <2> HIDE DEF r, n
  <2> QED BY <1>1, <1>8, <1>9, FS_Injection DEF NumConn, n
<1>11. \A m \in 0..n - 1 : \E i \in Conn : Rank(i) = m
  BY <1>10 DEF Surjection
<1> QED BY <1>6, <1>7, <1>11 DEF n

\* The ranks that had their turn in a round that began at rank s, when x was the
\* last: the round may have gone past the end of the list.
HadTurn(s, x, r) == IF s <= x THEN s <= r /\ r <= x ELSE r <= x \/ s <= r

\* Everyone was served equally often, but for those who had their turn already.
InTurn(q, s) ==
  \A i \in Conn : served[i] = IF HadTurn(s, next, Rank(i)) THEN q + 1 ELSE q

TurnInv ==
  balancer = "RoundRobin" /\ NumConn > 1 =>
    \E q \in Nat :
      \/ \A i \in Conn : served[i] = q
      \/ next \in 0..NumConn - 1 /\ \E s \in 0..NumConn - 1 : InTurn(q, s)

\* The experimental picker starts from the first of its connections.
PickerInv ==
  balancer = "RoundRobinExperimental" =>
    /\ subConns # <<>> => pnext < Len(subConns)
    /\ \E q \in Nat : \A k \in DOMAIN subConns :
         served[k] = IF k <= pnext THEN q + 1 ELSE q

\* A pick by rotation serves the next one in turn.
LEMMA RotatingTurn ==
  ASSUME PicksTypeInv, TurnInv, NumConn > 1, NEW i \in DOMAIN addrs, RotatingGet(i)
  PROVE  TurnInv'
<1> DEFINE n == NumConn
           y == IF next + 1 >= n THEN 0 ELSE next + 1
<1>1. n \in Nat /\ IsFiniteSet(Conn)
  BY ConnFinite
<1>2. Conn \subseteq Counted /\ balancer = "RoundRobin" /\ Serve(i)
  <2>1. balancer = "RoundRobin" /\ Serve(i)
    BY DEF RotatingGet
  <2> QED BY <2>1 DEF Conn, Rotating!Candidates, Rotating!GetAvailableAddrs, Counted, V1, RoundRobins
<1>3. Conn # {i}
  BY FS_Singleton DEF NumConn
<1>4. /\ next' = Rotating!NextIndex(Conn) /\ i = Rotating!NthOf(Conn, next')
      /\ addrs' = addrs /\ balancer' = balancer
  BY <1>3 DEF RotatingGet, Rotating!selectOneAddr, Conn, Serve
<1>5. next' = y
  BY <1>4, Cards DEF Rotating!NextIndex, NumConn
<1>6. y \in 0..n - 1
  BY <1>1 DEF PicksTypeInv
<1>7. i \in Conn /\ Rank(i) = y
  <2>1. \E j \in Conn : Rank(j) = y
    BY <1>6, RankFacts
  <2>2. i = CHOOSE j \in Conn : Cardinality({k \in Conn : k < j}) = y
    BY <1>4, <1>5, Cards DEF Rotating!NthOf
  <2>3. \E j \in Conn : Cardinality({k \in Conn : k < j}) = y
    BY <2>1 DEF Rank
  <2> QED BY <2>2, <2>3 DEF Rank
<1>10. /\ served'[i] = served[i] + 1
       /\ \A j \in Conn : j # i => served'[j] = served[j]
  BY <1>2, <1>7, ServedType
<1>11. /\ \A j \in Conn : Rank(j) \in 0..n - 1
       /\ \A j \in Conn : j # i => Rank(j) # y
  BY <1>7, RankFacts
<1>12. Conn' = Conn /\ NumConn' = n /\ \A j \in Conn : Rank(j)' = Rank(j)
  <2>1. Conn' = Conn
    BY <1>4 DEF Conn, Rotating!Candidates, Rotating!GetAvailableAddrs
  <2> QED BY <2>1 DEF NumConn, Rank
<1>13. PICK q \in Nat :
         \/ \A j \in Conn : served[j] = q
         \/ next \in 0..n - 1 /\ \E s \in 0..n - 1 : InTurn(q, s)
  BY <1>2 DEF TurnInv
<1> HIDE DEF n, y
<1>14. SUFFICES \E p \in Nat, s \in 0..n - 1 :
                  \A j \in Conn : served'[j] = IF HadTurn(s, y, Rank(j)) THEN p + 1 ELSE p
  <2>1. balancer' = "RoundRobin" => \E p \in Nat, s \in 0..n - 1 : InTurn(p, s)'
    BY <1>5, <1>12, <1>14 DEF InTurn
  <2> QED BY <1>5, <1>6, <1>12, <2>1 DEF TurnInv
<1>15. \A r \in 0..n - 1 : HadTurn(y, y, r) <=> r = y
  BY <1>1, <1>6 DEF HadTurn
<1>16. ASSUME NEW p \in Nat, \A j \in Conn : served[j] = p
       PROVE  \A j \in Conn : served'[j] = IF HadTurn(y, y, Rank(j)) THEN p + 1 ELSE p
  BY <1>7, <1>10, <1>11, <1>15, <1>16
<1>17. CASE \A j \in Conn : served[j] = q
  BY <1>6, <1>16, <1>17
<1>18. ASSUME next \in 0..n - 1, NEW s \in 0..n - 1, InTurn(q, s)
       PROVE  \E p \in Nat, t \in 0..n - 1 :
                \A j \in Conn : served'[j] = IF HadTurn(t, y, Rank(j)) THEN p + 1 ELSE p
  <2>1. /\ y = s => \A r \in 0..n - 1 : HadTurn(s, next, r)
        /\ y # s => /\ ~ HadTurn(s, next, y)
                    /\ \A r \in 0..n - 1 : HadTurn(s, y, r) <=> HadTurn(s, next, r) \/ r = y
    <3>1. n \in Nat /\ next \in 0..n - 1 /\ s \in 0..n - 1 /\ y = IF next + 1 >= n THEN 0 ELSE next + 1
      BY <1>1, <1>18 DEF y
    <3> QED BY <3>1 DEF HadTurn
  <2>2. CASE y = s
    <3>1. \A j \in Conn : served[j] = q + 1
      BY <1>11, <1>18, <2>1, <2>2 DEF InTurn
    <3>2. q + 1 \in Nat
      OBVIOUS
    <3>3. \A j \in Conn : served'[j] = IF HadTurn(y, y, Rank(j)) THEN (q + 1) + 1 ELSE q + 1
      BY <1>16, <3>1, <3>2
    <3> QED BY <1>6, <3>2, <3>3
  <2>3. CASE y # s
    <3>1. \A j \in Conn : served'[j] = IF HadTurn(s, y, Rank(j)) THEN q + 1 ELSE q
      BY <1>7, <1>10, <1>11, <1>18, <2>1, <2>3 DEF InTurn
    <3> QED BY <1>18, <3>1
  <2> QED BY <2>2, <2>3
<1> QED BY <1>13, <1>17, <1>18

\* So does one of the experimental picker.
LEMMA PickerTurn ==
  ASSUME PicksTypeInv, PickerInv, RotatingPick
  PROVE  PickerInv'
<1> DEFINE n == Len(subConns)
<1>1. n \in Nat /\ n > 0 /\ DOMAIN subConns = 1..n
  BY DEF PicksTypeInv, RotatingPick
<1>2. /\ balancer = "RoundRobinExperimental" /\ subConns # <<>> /\ Serve(pnext + 1)
      /\ pnext' = (pnext + 1) % n /\ subConns' = subConns
  BY DEF RotatingPick
<1> HIDE DEF n
<1>3. pnext \in Nat /\ pnext < n /\ pnext + 1 \in 1..n
  BY <1>1, <1>2 DEF PicksTypeInv, PickerInv, n
<1>4. pnext' = IF pnext + 1 = n THEN 0 ELSE pnext + 1
  BY <1>1, <1>2, <1>3
<1>5. /\ served'[pnext + 1] = served[pnext + 1] + 1
      /\ \A k \in 1..n : k # pnext + 1 => served'[k] = served[k]
  BY <1>1, <1>2, <1>3, ServedType DEF Counted, V1, RoundRobins
<1>6. PICK q \in Nat : \A k \in 1..n : served[k] = IF k <= pnext THEN q + 1 ELSE q
  BY <1>1, <1>2 DEF PickerInv
<1>7. CASE pnext + 1 = n
  <2>1. \A k \in 1..n : served'[k] = q + 1
    BY <1>1, <1>3, <1>5, <1>6, <1>7
  <2>2. \A k \in 1..n : served'[k] = IF k <= pnext' THEN (q + 1) + 1 ELSE q + 1
    BY <1>1, <1>4, <1>7, <2>1
  <2>3. q + 1 \in Nat /\ pnext' < n
    BY <1>1, <1>4, <1>7
  <2> QED BY <1>1, <1>2, <2>2, <2>3 DEF PickerInv, n
<1>8. CASE pnext + 1 # n
  <2>1. \A k \in 1..n : served'[k] = IF k <= pnext' THEN q + 1 ELSE q
    BY <1>1, <1>3, <1>4, <1>5, <1>6, <1>8
  <2>2. pnext' < n
    BY <1>1, <1>3, <1>4, <1>8
  <2> QED BY <1>1, <1>2, <2>1, <2>2 DEF PickerInv, n
<1> QED BY <1>7, <1>8

\* Equal counts, but for those that had their turn, are what TakesTurns says.
LEMMA TurnsTaken == PicksTypeInv /\ TurnInv /\ PickerInv => TakesTurns
<1> SUFFICES ASSUME PicksTypeInv, TurnInv, PickerInv,
                    balancer \in {"RoundRobin", "RoundRobinExperimental"},
                    NEW i \in Rotated, NEW j \in Rotated
             PROVE  served[i] <= served[j] + 1
  BY DEF TakesTurns
<1>1. CASE balancer = "RoundRobin"
  <2>1. i \in Conn /\ j \in Conn
    BY <1>1 DEF Rotated, V1, RoundRobins, Conn
  <2>0. served[i] \in Nat /\ served[j] \in Nat
    BY <1>1, <2>1 DEF PicksTypeInv, Counted, V1, RoundRobins, Conn, Rotating!Candidates,
                      Rotating!GetAvailableAddrs
  <2>2. CASE NumConn > 1
    <3>1. PICK q \in Nat : served[i] \in {q, q + 1} /\ served[j] \in {q, q + 1}
      BY <1>1, <2>1, <2>2 DEF TurnInv, InTurn
    <3> QED BY <3>1
  <2>3. CASE ~ (NumConn > 1)
    <3>1. NumConn \in Nat /\ IsFiniteSet(Conn)
      BY ConnFinite
    <3>2. NumConn = 1
      BY <2>1, <2>3, <3>1, FS_EmptySet DEF NumConn
    <3>3. i = j
      BY <2>1, <3>1, <3>2, FS_Singleton DEF NumConn
    <3> QED BY <2>0, <3>3
  <2> QED BY <2>2, <2>3
<1>2. CASE balancer = "RoundRobinExperimental"
  <2>1. i \in DOMAIN subConns /\ j \in DOMAIN subConns
    BY <1>2 DEF Rotated, V1, RoundRobins
  <2>2. PICK q \in Nat : served[i] \in {q, q + 1} /\ served[j] \in {q, q + 1}
    BY <1>2, <2>1 DEF PickerInv
  <2> QED BY <2>2
<1> QED BY <1>1, <1>2

\* Nobody was picked since the last change.
Anew == \A i \in DOMAIN served : served[i] = 0

\* Everyone has had equally many turns then.
LEMMA TurnsAnew == PicksTypeInv /\ Anew => TurnInv
BY DEF PicksTypeInv, Anew, TurnInv, Counted, V1, RoundRobins, Conn, Rotating!Candidates,
       Rotating!GetAvailableAddrs

\* A step of somebody else leaves the turns alone.
LEMMA TurnIdle ==
  ASSUME TurnInv, PickerInv, Idle
  PROVE  TurnInv' /\ PickerInv'
<1>1. UNCHANGED <<balancer, addrs, next, subConns, pnext, served>>
  BY DEF Idle
<1>2. Conn' = Conn
  BY <1>1 DEF Conn, Rotating!Candidates, Rotating!GetAvailableAddrs
<1>3. NumConn' = NumConn /\ \A i : Rank(i)' = Rank(i)
  BY <1>2 DEF NumConn, Rank
<1>4. \A q, s : InTurn(q, s)' <=> InTurn(q, s)
  BY <1>1, <1>2, <1>3 DEF InTurn
<1>5. TurnInv'
  BY <1>1, <1>2, <1>3, <1>4 DEF TurnInv
<1> QED BY <1>1, <1>5 DEF PickerInv

\* Every step keeps the turns, or starts to count anew.
LEMMA TurnStep ==
  PicksTypeInv /\ TurnInv /\ PickerInv /\ [PicksNext]_picksVars => (TurnInv' \/ Anew') /\ PickerInv'
<1> SUFFICES ASSUME PicksTypeInv, TurnInv, PickerInv, [PicksNext]_picksVars
             PROVE  (TurnInv' \/ Anew') /\ PickerInv'
  OBVIOUS
<1>1. PicksTypeInv' /\ balancer' = balancer
  BY PicksTypeStep
<1>2. CASE \/ \E u \in updates : Apply(u)
           \/ \E i \in DOMAIN addrs, up \in BOOLEAN : Connect(i, up)
  <2>1. Anew' /\ V1
    BY <1>2, ChangeType DEF Anew
  <2> QED BY <1>1, <2>1 DEF PickerInv, V1, RoundRobins
<1>3. ASSUME NEW ready \in Listing, Build(ready)
      PROVE  Anew' /\ PickerInv'
  <2>1. Anew' /\ pnext' = 0 /\ ~V1
    BY <1>3, BuildType DEF Anew
  <2>2. DOMAIN subConns' = 1..Len(subConns') /\ Len(subConns') \in Nat
    BY <1>1 DEF PicksTypeInv
  <2>3. subConns' # <<>> => Len(subConns') > 0
    BY <1>1, <2>2 DEF PicksTypeInv
  <2>4. ~V1'
    BY <1>1, <2>1 DEF V1
  <2>5. \A k \in DOMAIN subConns' : served'[k] = 0 /\ ~ (k <= pnext')
    BY <1>1, <2>1, <2>2, <2>4 DEF Anew, PicksTypeInv, Counted
  <2> QED BY <2>1, <2>3, <2>5 DEF PickerInv
<1>4. ASSUME NEW i \in DOMAIN addrs, WeightedGet(i) \/ RotatingGet(i)
      PROVE  TurnInv' /\ PickerInv'
  <2>1. balancer \in {"RoundRobin", "WRoundRobin"}
    BY <1>4 DEF WeightedGet, RotatingGet
  <2>2. PickerInv'
    BY <1>1, <2>1 DEF PickerInv
  <2>3. CASE balancer = "RoundRobin" /\ NumConn > 1
    BY <1>4, <2>2, <2>3, RotatingTurn DEF WeightedGet
  <2>4. CASE balancer = "RoundRobin" /\ ~ (NumConn > 1)
    <3>1. addrs' = addrs
      BY <1>4, <2>4 DEF WeightedGet, RotatingGet, Rotating!selectOneAddr
    <3>2. Conn' = Conn
      BY <3>1 DEF Conn, Rotating!Candidates, Rotating!GetAvailableAddrs
    <3> QED BY <2>2, <2>4, <3>2 DEF TurnInv, NumConn
  <2>5. CASE balancer # "RoundRobin"
    BY <1>1, <2>2, <2>5 DEF TurnInv
  <2> QED BY <2>3, <2>4, <2>5
<1>5. CASE RotatingPick
  <2>1. TurnInv'
    BY <1>1, <1>5 DEF RotatingPick, TurnInv
  <2> QED BY <1>5, <2>1, PickerTurn
<1>6. CASE balancer \in Pickers \ {"RoundRobinExperimental"}
  BY <1>1, <1>6 DEF TurnInv, PickerInv, Pickers
<1>7. CASE Idle
  BY <1>7, TurnIdle
<1> QED BY <1>2, <1>3, <1>4, <1>5, <1>6, <1>7, Steps

\* Rotation takes turns from any change on, wherever the index was and whatever
\* left, came or connected, second entries of a backend included (selectOneAddr,
\* roundrobin_v1.go, lines 290-295; Pick, roundrobin.go, lines 68-73).
THEOREM RotationTakesTurns == PicksSpec => []TakesTurns
<1>1. PicksInit => Anew /\ PickerInv
  BY DEF PicksInit, Anew, PickerInv, Nobody
<1> QED BY <1>1, PicksTyped, TurnsAnew, TurnStep, TurnsTaken, PTL DEF PicksSpec

-----------------------------------------------------------------------------
(* Picks: debts *)

-----------------------------------------------------------------------------
(* The list as two functions. *)

CurrentsOf(list) == [i \in DOMAIN list |-> list[i].current]
WeightsOf(list) == [i \in DOMAIN list |-> list[i].weight]
Orderly(list) == list \in Seq(Entry)

\* What they are functions of.
LEMMA ListFacts ==
  ASSUME NEW list, Orderly(list)
  PROVE  /\ IsFiniteSet(DOMAIN list) /\ DOMAIN list \in SUBSET Nat
         /\ Len(list) \in Nat /\ Cardinality(DOMAIN list) = Len(list)
         /\ CurrentsOf(list) \in [DOMAIN list -> Int] /\ WeightsOf(list) \in [DOMAIN list -> Int]
         /\ \A i \in DOMAIN list : /\ CurrentsOf(list)[i] = list[i].current /\ list[i].current \in Int
                                   /\ WeightsOf(list)[i] = list[i].weight /\ list[i].weight \in Nat
                                   /\ list[i].weight <= Heaviest
<1>1. DOMAIN list = 1..Len(list) /\ Len(list) \in Nat /\ \A i \in DOMAIN list : list[i] \in Entry
  BY DEF Orderly
<1>2. IsFiniteSet(DOMAIN list) /\ DOMAIN list \in SUBSET Nat /\ Cardinality(DOMAIN list) = Len(list)
  <2> DEFINE n == Len(list)
  <2>1. n \in Nat /\ DOMAIN list = 1..n
    BY <1>1
  <2> HIDE DEF n
  <2>2. IsFiniteSet(1..n) /\ Cardinality(1..n) = IF 1 > n THEN 0 ELSE n - 1 + 1
    BY <2>1, FS_Interval
  <2>3. Cardinality(1..n) = n
    BY <2>1, <2>2
  <2> QED BY <2>1, <2>2, <2>3 DEF n
<1>3. \A i \in DOMAIN list : /\ list[i].current \in Int /\ list[i].weight \in Nat
                            /\ list[i].weight <= Heaviest
  BY <1>1, EntryFacts
<1> QED BY <1>1, <1>2, <1>3 DEF CurrentsOf, WeightsOf

\* The same numbers have the same total.
LEMMA TotalSame ==
  ASSUME NEW D, NEW E, NEW f \in [D -> Int], NEW g \in [E -> Int],
         NEW A \in SUBSET D, A \in SUBSET E, \A i \in A : f[i] = g[i]
  PROVE  TotalOf(f, A) = TotalOf(g, A)
<1>1. Units(f, A) = Units(g, A)
  BY DEF Units
<1>2. Units(Minus(f), A) = Units(Minus(g), A)
  <2>1. \A i \in A : Minus(f)[i] = Minus(g)[i]
    BY DEF Minus
  <2> QED BY <2>1 DEF Units
<1> QED BY <1>1, <1>2 DEF TotalOf

\* What holds of the list, whatever happened to it: no entries together owe more,
\* or are owed more, than so many can in a list that never had more than n.
DebtsWithin(list, n) ==
  /\ UpTo(WeightsOf(list), DOMAIN list, Heaviest)
  /\ Within(CurrentsOf(list), DOMAIN list, Heaviest, n)

\* A limit is not negative.
LEMMA LimitType ==
  ASSUME NEW h \in Nat, NEW n \in Nat, NEW k \in Nat, k <= n
  PROVE  Limit(h, n, k) \in Nat
<1>1. CASE k = 0
  BY <1>1 DEF Limit
<1>2. CASE k # 0
  <2> DEFINE x == 2 * n - k - 1
  <2>1. x \in Nat
    BY <1>2
  <2> HIDE DEF x
  <2>2. h * (k * x) \in Nat
    BY <2>1
  <2> QED BY <2>2 DEF Limit, x
<1> QED BY <1>1, <1>2

\* A list that may be longer has a limit that is no less.
LEMMA LimitWidens ==
  ASSUME NEW h \in Nat, NEW n \in Nat, NEW m \in Nat, n <= m, NEW k \in Nat
  PROVE  Limit(h, n, k) <= Limit(h, m, k) /\ Limit(h, n, k) \in Int /\ Limit(h, m, k) \in Int
<1> DEFINE x == 2 * n - k - 1
           y == 2 * m - k - 1
<1>1. x \in Int /\ y \in Int /\ y - x \in Nat
  OBVIOUS
<1> HIDE DEF x, y
<1>2. k * (y - x) \in Nat
  BY <1>1
<1> DEFINE d == k * (y - x)
<1>3. d \in Nat /\ k * x \in Int /\ k * y \in Int /\ k * y = k * x + d
  BY <1>1, <1>2
<1> HIDE DEF d
<1> DEFINE u == k * x
           v == k * y
<1>4. u \in Int /\ v \in Int /\ v = u + d
  BY <1>3
<1> HIDE DEF u, v
<1>5. h * d \in Nat /\ h * u \in Int /\ h * v \in Int /\ h * v = h * u + h * d
  BY <1>3, <1>4
<1>6. h * u <= h * v
  <2> DEFINE p == h * d
             q == h * u
  <2>1. p \in Nat /\ q \in Int /\ h * v = q + p
    BY <1>5
  <2> HIDE DEF p, q
  <2>2. q <= q + p
    BY <2>1
  <2> QED BY <2>1, <2>2 DEF q
<1>7. Limit(h, n, k) = h * u /\ Limit(h, m, k) = h * v
  BY DEF Limit, u, v, x, y
<1> QED BY <1>5, <1>6, <1>7

\* So debts that were within the old limits are within the new ones.
LEMMA DebtsWiden ==
  ASSUME NEW list, Orderly(list), NEW n \in Nat, NEW m \in Nat, n <= m, DebtsWithin(list, n)
  PROVE  DebtsWithin(list, m)
<1> DEFINE D == DOMAIN list
           c == CurrentsOf(list)
<1>1. IsFiniteSet(D) /\ c \in [D -> Int]
  BY ListFacts
<1>2. UpTo(WeightsOf(list), D, Heaviest) /\ Within(c, D, Heaviest, n)
  BY DEF DebtsWithin
<1> HIDE DEF D, c
<1>3. ASSUME NEW A \in SUBSET D
      PROVE  /\ TotalOf(c, A) <= Limit(Heaviest, m, Cardinality(A))
             /\ -Limit(Heaviest, m, Cardinality(A)) <= TotalOf(c, A)
  <2> DEFINE k == Cardinality(A)
             p == Limit(Heaviest, n, k)
             q == Limit(Heaviest, m, k)
             t == TotalOf(c, A)
  <2>1. k \in Nat
    BY <1>1, FS_Subset, FS_CardinalityType
  <2> HIDE DEF k
  <2>2. p <= q /\ p \in Int /\ q \in Int
    BY <2>1, HeaviestFacts, LimitWidens
  <2>3. t \in Int
    BY <1>1, TotalFacts
  <2>4. t <= p /\ -p <= t
    BY <1>2 DEF Within, k
  <2> HIDE DEF p, q, t
  <2>5. t <= q /\ -q <= t
    BY <2>2, <2>3, <2>4
  <2> QED BY <2>5 DEF t, q, k
<1>4. Within(c, D, Heaviest, m)
  BY <1>3 DEF Within
<1> QED BY <1>2, <1>4 DEF DebtsWithin, D, c

\* Nor does a change of flags and weights alter what anyone owes.
LEMMA SameDebts ==
  ASSUME NEW list, NEW new, Orderly(list), Orderly(new), NEW n \in Nat, DebtsWithin(list, n),
         DOMAIN new = DOMAIN list,
         \A i \in DOMAIN list : new[i].current = list[i].current
  PROVE  DebtsWithin(new, n)
<1>1. CurrentsOf(new) = CurrentsOf(list)
  BY DEF CurrentsOf
<1>2. UpTo(WeightsOf(new), DOMAIN new, Heaviest)
  BY ListFacts DEF UpTo
<1> QED BY <1>1, <1>2 DEF DebtsWithin

\* Those that stay when one leaves owe what they owed.
LEMMA FewerDebts ==
  ASSUME NEW list, NEW new, Orderly(list), Orderly(new), NEW n \in Nat, DebtsWithin(list, n),
         NEW from \in Injection(DOMAIN new, DOMAIN list),
         \A i \in DOMAIN new : new[i] = list[from[i]]
  PROVE  DebtsWithin(new, n)
<1> DEFINE D == DOMAIN list
           E == DOMAIN new
           f == CurrentsOf(list)
           g == CurrentsOf(new)
<1>1. /\ IsFiniteSet(D) /\ f \in [D -> Int] /\ IsFiniteSet(E) /\ g \in [E -> Int]
      /\ \A i \in D : f[i] = list[i].current
      /\ \A i \in E : g[i] = new[i].current
  BY ListFacts
<1>2. \A i \in E : from[i] \in D
  BY DEF Injection
<1>3. \A i \in E : g[i] = f[from[i]]
  BY <1>1, <1>2
<1>4. UpTo(WeightsOf(new), E, Heaviest)
  <2>1. \A i \in E : /\ WeightsOf(new)[i] = new[i].weight /\ new[i].weight \in Nat
                      /\ new[i].weight <= Heaviest
    BY ListFacts
  <2> QED BY <2>1 DEF UpTo
<1>5. Within(f, D, Heaviest, n)
  BY DEF DebtsWithin
<1> HIDE DEF D, E, f, g
<1>6. ASSUME NEW A \in SUBSET E
      PROVE  /\ TotalOf(g, A) <= Limit(Heaviest, n, Cardinality(A))
             /\ -Limit(Heaviest, n, Cardinality(A)) <= TotalOf(g, A)
  <2> DEFINE B == MovedTo(from, A)
  <2>1. from \in Injection(E, D)
    BY DEF D, E
  <2>2. B \in SUBSET D /\ Cardinality(B) = Cardinality(A) /\ TotalOf(g, A) = TotalOf(f, B)
    BY <1>1, <1>3, <2>1, TotalMoves
  <2> HIDE DEF B
  <2> QED BY <1>5, <2>2 DEF Within
<1>7. Within(g, E, Heaviest, n)
  BY <1>6 DEF Within
<1> QED BY <1>4, <1>7 DEF DebtsWithin, E, g

\* One that joins owes nothing yet.
LEMMA MoreDebts ==
  ASSUME NEW list, NEW new, Orderly(list), Orderly(new), NEW n \in Nat, DebtsWithin(list, n),
         NEW x, DOMAIN new = DOMAIN list \cup {x}, x \notin DOMAIN list,
         \A i \in DOMAIN list : new[i] = list[i],
         new[x].current = 0, Cardinality(DOMAIN new) <= n
  PROVE  DebtsWithin(new, n)
<1> DEFINE D == DOMAIN list
           E == DOMAIN new
           f == CurrentsOf(list)
           g == CurrentsOf(new)
<1>1. /\ IsFiniteSet(D) /\ f \in [D -> Int] /\ IsFiniteSet(E) /\ g \in [E -> Int]
      /\ \A i \in D : f[i] = list[i].current
      /\ \A i \in E : g[i] = new[i].current
      /\ Cardinality(E) \in Nat /\ Cardinality(E) <= n
  BY ListFacts
<1>2. E = D \cup {x} /\ x \notin D
  OBVIOUS
<1>3. g[x] = 0 /\ \A i \in D : g[i] = f[i]
  BY <1>1, <1>2
<1>4. UpTo(WeightsOf(new), E, Heaviest)
  <2>1. \A i \in E : /\ WeightsOf(new)[i] = new[i].weight /\ new[i].weight \in Nat
                      /\ new[i].weight <= Heaviest
    BY ListFacts
  <2> QED BY <2>1 DEF UpTo
<1>5. Within(f, D, Heaviest, n)
  BY DEF DebtsWithin
<1> HIDE DEF D, E, f, g
<1>6. ASSUME NEW A \in SUBSET D
      PROVE  TotalOf(g, A) = TotalOf(f, A) /\ TotalOf(f, A) \in Int
  <2>1. A \in SUBSET E /\ \A i \in A : f[i] = g[i]
    BY <1>2, <1>3
  <2>2. TotalOf(f, A) = TotalOf(g, A)
    BY <1>1, <2>1, TotalSame
  <2> QED BY <1>1, <2>2, TotalFacts
<1>7. ASSUME NEW A \in SUBSET E
      PROVE  /\ TotalOf(g, A) <= Limit(Heaviest, n, Cardinality(A))
             /\ -Limit(Heaviest, n, Cardinality(A)) <= TotalOf(g, A)
  <2>1. CASE x \notin A
    <3>1. A \in SUBSET D
      BY <1>2, <2>1
    <3>2. TotalOf(g, A) = TotalOf(f, A)
      BY <1>6, <3>1
    <3> QED BY <1>5, <3>1, <3>2 DEF Within
  <2>2. CASE x \in A
    <3> DEFINE B == A \ {x}
               k == Cardinality(B)
    <3>1. B \in SUBSET D /\ B \in SUBSET E /\ x \in E /\ x \notin B /\ A = B \cup {x}
      BY <1>2, <2>2
    <3>2. IsFiniteSet(A) /\ Cardinality(A) \in Nat /\ Cardinality(A) <= n
      BY <1>1, FS_Subset, FS_CardinalityType
    <3>3. k = Cardinality(A) - 1 /\ k \in Nat /\ k < n /\ Cardinality(A) = k + 1
      <4>1. IsFiniteSet(B) /\ k = Cardinality(A) - 1
        BY <2>2, <3>2, FS_RemoveElement
      <4>2. k \in Nat
        BY <4>1, FS_CardinalityType
      <4> HIDE DEF k
      <4> QED BY <1>1, <3>2, <4>1, <4>2
    <3> HIDE DEF B, k
    <3>4. TotalOf(g, A) = TotalOf(g, B) + g[x]
      BY <1>1, <3>1, TotalFacts
    <3>5. TotalOf(g, B) = TotalOf(f, B) /\ TotalOf(f, B) \in Int
      BY <1>6, <3>1
    <3>6. TotalOf(f, B) <= Limit(Heaviest, n, k) /\ -Limit(Heaviest, n, k) <= TotalOf(f, B)
      BY <1>5, <3>1 DEF Within, k
    <3>7. Limit(Heaviest, n, k) <= Limit(Heaviest, n, k + 1)
      BY <1>1, <3>3, HeaviestFacts, LimitGrows
    <3>8. Limit(Heaviest, n, k) \in Nat /\ Limit(Heaviest, n, k + 1) \in Nat
      <4>1. k \in Nat /\ k <= n /\ n \in Nat
        BY <1>1, <3>3
      <4>2. k + 1 \in Nat /\ k + 1 <= n
        BY <1>1, <3>3
      <4>3. Limit(Heaviest, n, k) \in Nat
        BY <4>1, HeaviestFacts, LimitType
      <4> QED BY <4>1, <4>2, <4>3, HeaviestFacts, LimitType
    <3>9. Limit(Heaviest, n, Cardinality(A)) = Limit(Heaviest, n, k + 1)
      BY <3>3
    <3> QED BY <1>3, <3>4, <3>5, <3>6, <3>7, <3>8, <3>9
  <2> QED BY <2>1, <2>2
<1>8. Within(g, E, Heaviest, n)
  BY <1>7 DEF Within
<1> QED BY <1>4, <1>8 DEF DebtsWithin, E, g

\* Whatever an update, Up or down does to a list that has no more than n entries
\* afterwards: the debts stay within the limits of n.
LEMMA AlteredDebts ==
  ASSUME NEW list, NEW new, Orderly(list), Altered(list, new), NEW n \in Nat, Len(new) <= n,
         DebtsWithin(list, n)
  PROVE  DebtsWithin(new, n)
<1>1. Orderly(new)
  BY AlteredType DEF Orderly
<1>2. ASSUME NEW e \in Entry, e.current = 0, new = Append(list, e)
      PROVE  DebtsWithin(new, n)
  <2> DEFINE x == Len(list) + 1
  <2>1. /\ DOMAIN new = DOMAIN list \cup {x} /\ x \notin DOMAIN list
        /\ new[x] = e /\ \A i \in DOMAIN list : new[i] = list[i]
    BY <1>2 DEF Orderly
  <2>2. Cardinality(DOMAIN new) <= n
    BY <1>1, ListFacts
  <2> HIDE DEF x
  <2> QED BY <1>1, <1>2, <2>1, <2>2, MoreDebts
<1>3. ASSUME NEW k \in DOMAIN list, new = Without(list, k)
      PROVE  DebtsWithin(new, n)
  <2> DEFINE fromAt(j) == IF j < k THEN j ELSE j + 1
             from == [j \in DOMAIN new |-> fromAt(j)]
             last == Len(list) - 1
  <2>1. last \in Nat /\ DOMAIN list = 1..(last + 1) /\ k \in 1..(last + 1)
    BY DEF Orderly
  <2>2. new = [j \in 1..last |-> list[fromAt(j)]]
    BY <1>3 DEF Without
  <2> HIDE DEF last
  <2>3. DOMAIN new = 1..last
    BY <2>2
  <2>4. \A j \in DOMAIN new : fromAt(j) \in DOMAIN list
    BY <2>1, <2>3
  <2>5. \A i, j \in DOMAIN new : fromAt(i) = fromAt(j) => i = j
    BY <2>1, <2>3
  <2>6. \A j \in DOMAIN new : new[j] = list[fromAt(j)]
    BY <2>2, <2>3
  <2> HIDE DEF fromAt
  <2>7. from \in Injection(DOMAIN new, DOMAIN list)
    BY <2>4, <2>5 DEF Injection, IsInjective
  <2>8. \A j \in DOMAIN new : new[j] = list[from[j]]
    BY <2>6
  <2> HIDE DEF from
  <2> QED BY <1>1, <2>7, <2>8, FewerDebts
<1>4. ASSUME NEW k \in DOMAIN list, NEW e \in Entry, e.current = list[k].current,
             new = [list EXCEPT ![k] = e]
      PROVE  DebtsWithin(new, n)
  <2>1. DOMAIN new = DOMAIN list
    BY <1>4
  <2>2. \A j \in DOMAIN list : new[j].current = list[j].current
    BY <1>4
  <2> QED BY <1>1, <2>1, <2>2, SameDebts
<1> QED BY <1>2, <1>3, <1>4 DEF Altered

\* The limits are those of the longest list there was.
DebtInv == DebtsWithin(addrs, longest)

\* What the watcher and Up and down do keeps the debts within the limits.
LEMMA DebtChange ==
  ASSUME PicksTypeInv, DebtInv,
         \/ \E u \in updates : Apply(u)
         \/ \E i \in DOMAIN addrs, up \in BOOLEAN : Connect(i, up)
  PROVE  DebtInv'
<1>1. PicksTypeInv' /\ Altered(addrs, addrs') /\ longest <= longest'
  BY ChangeType
<1>2. Orderly(addrs) /\ longest \in Nat /\ longest' \in Nat /\ Len(addrs') <= longest'
  BY <1>1 DEF PicksTypeInv, Orderly
<1>3. DebtsWithin(addrs, longest')
  BY <1>1, <1>2, DebtsWiden DEF DebtInv
<1>4. DebtsWithin(addrs', longest')
  BY <1>1, <1>2, <1>3, AlteredDebts
<1> QED BY <1>4 DEF DebtInv

\* The weighted selection, on the two functions.
LEMMA SelectionFacts ==
  ASSUME PicksTypeInv, NEW i \in DOMAIN addrs, WeightedGet(i)
  PROVE  /\ i \in Available /\ Available \in SUBSET DOMAIN addrs
         /\ Weighted!TotalWeight(Available) = TotalOf(WeightsOf(addrs), Available)
         /\ Cardinality(Available) > 1 =>
              /\ HasMost(CurrentsOf(addrs), WeightsOf(addrs), Available, i)
              /\ DOMAIN addrs' = DOMAIN addrs /\ WeightsOf(addrs') = WeightsOf(addrs)
              /\ CurrentsOf(addrs') = AfterGain(CurrentsOf(addrs), WeightsOf(addrs), Available, i)
         /\ ~ (Cardinality(Available) > 1) => addrs' = addrs
<1> DEFINE S == Available
           D == DOMAIN addrs
           c == CurrentsOf(addrs)
           w == WeightsOf(addrs)
           T == Weighted!TotalWeight(S)
<1>1. /\ IsFiniteSet(D) /\ D \in SUBSET Nat /\ c \in [D -> Int] /\ w \in [D -> Int]
      /\ \A j \in D : c[j] = addrs[j].current /\ w[j] = addrs[j].weight /\ w[j] \in Nat
  BY ListFacts DEF PicksTypeInv, Orderly
<1>2. i \in S /\ S \in SUBSET D /\ Weighted!selectOneAddr(S, i)
  BY DEF WeightedGet, Available, Weighted!Candidates, Weighted!GetAvailableAddrs
<1>3. T = TotalOf(w, S)
  <2>1. Units(w, S) = UNION {{j} \X (1..addrs[j].weight) : j \in S}
    BY <1>1, <1>2 DEF Units
  <2>2. Cardinality(Units(Minus(w), S)) = 0
    <3>1. \A j \in S : 1..Minus(w)[j] = {}
      <4> SUFFICES ASSUME NEW j \in S PROVE 1..Minus(w)[j] = {}
        OBVIOUS
      <4>1. w[j] \in Nat /\ j \in DOMAIN w
        BY <1>1, <1>2
      <4>2. Minus(w)[j] = -w[j]
        BY <4>1 DEF Minus
      <4> QED BY <4>1, <4>2
    <3>2. Units(Minus(w), S) = {}
      BY <3>1 DEF Units
    <3> QED BY <3>2, FS_EmptySet
  <2>3. S \in SUBSET D /\ Cardinality(Units(w, S)) \in Nat
    BY <1>1, <1>2, MoreUnits
  <2> QED BY <2>1, <2>2, <2>3, Cards DEF Weighted!TotalWeight, TotalOf
<1>4. CASE Cardinality(S) > 1
  <2>1. S # {i}
    BY <1>4, FS_Singleton
  <2>2. i = Weighted!MostOwed(S) /\ addrs' = Weighted!AfterPick(S, i)
    BY <1>2, <2>1 DEF Weighted!selectOneAddr
  <2> DEFINE g == [j \in D |-> c[j] + w[j]]
  <2>3. g \in [D -> Int] /\ \A j \in D : g[j] = c[j] + w[j] /\ Weighted!Gained(j) = g[j] /\ g[j] \in Int
    <3>1. \A j \in D : c[j] \in Int /\ w[j] \in Int
      BY <1>1
    <3> HIDE DEF c, w, D
    <3>2. \A j \in D : c[j] + w[j] \in Int
      BY <3>1
    <3> QED BY <1>1, <3>2 DEF Weighted!Gained
  <2> HIDE DEF S, D, c, w, T, g
  <2>4. \E k \in S : \A j \in S : g[j] < g[k] \/ (g[j] = g[k] /\ k <= j)
    <3>1. S # {} /\ S \in SUBSET D /\ IsFiniteSet(D) /\ D \in SUBSET Nat /\ g \in [D -> Int]
      BY <1>1, <1>2, <2>3
    <3> QED BY <3>1, FirstMost
  <2>5. \E k \in S : \A j \in S : \/ Weighted!Gained(j) < Weighted!Gained(k)
                                  \/ Weighted!Gained(j) = Weighted!Gained(k) /\ k <= j
    BY <1>2, <2>3, <2>4
  <2>6. \A j \in S : \/ Weighted!Gained(j) < Weighted!Gained(i)
                     \/ Weighted!Gained(j) = Weighted!Gained(i) /\ i <= j
    BY <2>2, <2>5 DEF Weighted!MostOwed
  <2>7. \A j \in S : c[j] + w[j] <= c[i] + w[i]
    <3>1. \A j \in S : g[j] <= g[i]
      BY <1>2, <2>3, <2>6
    <3> QED BY <1>2, <2>3, <3>1
  <2>8. HasMost(c, w, S, i)
    BY <2>7 DEF HasMost
  <2>9. DOMAIN addrs' = DOMAIN addrs /\ \A j \in DOMAIN addrs : addrs'[j].weight = addrs[j].weight
    BY <1>2, <2>2, AfterPickFacts DEF PicksTypeInv, D
  <2>10. WeightsOf(addrs') = w
    BY <2>9 DEF WeightsOf, w
  <2>11. CurrentsOf(addrs') = AfterGain(c, w, S, i)
    <3>1. \A j \in D : addrs[j] \in Entry
      BY DEF PicksTypeInv, D
    <3>2. \A j \in D : addrs'[j].current
                         = IF j \notin S THEN c[j] ELSE c[j] + w[j] - (IF j = i THEN T ELSE 0)
      <4> TAKE j \in D
      <4>1. CASE j \notin S
        <5>1. addrs'[j] = addrs[j]
          BY <2>2, <4>1 DEF Weighted!AfterPick, D
        <5> QED BY <1>1, <4>1, <5>1
      <4>2. CASE j \in S
        <5> DEFINE v == Weighted!Gained(j) - (IF j = i THEN T ELSE 0)
        <5>1. Weighted!Gained(j) = c[j] + w[j]
          BY <2>3
        <5>2. addrs'[j] = [addrs[j] EXCEPT !.current = Weighted!Gained(j) - (IF j = i THEN T ELSE 0)]
          BY <2>2, <4>2 DEF Weighted!AfterPick, D, T
        <5>3. addrs'[j] = [addrs[j] EXCEPT !.current = v]
          BY <5>2
        <5> HIDE DEF v
        <5>4. addrs'[j].current = v
          BY <3>1, <5>3 DEF Entry
        <5>5. v = c[j] + w[j] - (IF j = i THEN T ELSE 0)
          <6> DEFINE x == IF j = i THEN T ELSE 0
          <6>1. T \in Int
            BY <1>1, <1>2, <1>3, TotalFacts
          <6>2. x \in Int /\ c[j] \in Int /\ w[j] \in Int
            BY <1>1, <6>1
          <6>3. v = Weighted!Gained(j) - x
            BY DEF v
          <6> HIDE DEF x
          <6>4. v = c[j] + w[j] - x
            BY <5>1, <6>2, <6>3
          <6> QED BY <6>4 DEF x
        <5> QED BY <4>2, <5>4, <5>5
      <4> QED BY <4>1, <4>2
    <3>3. DOMAIN c = D
      BY <1>1
    <3>4. CurrentsOf(addrs') = [j \in D |-> addrs'[j].current]
      BY <2>9 DEF CurrentsOf, D
    <3> QED BY <1>3, <3>2, <3>3, <3>4 DEF AfterGain
  <2> QED BY <1>2, <1>3, <1>4, <2>8, <2>9, <2>10, <2>11 DEF S, c, w, D, T
<1>5. CASE ~ (Cardinality(S) > 1)
  BY <1>2, <1>3, <1>5, Cards DEF Weighted!selectOneAddr
<1> QED BY <1>4, <1>5

\* A pick of the weighted balancer keeps the debts within the limits.
LEMMA DebtPick ==
  ASSUME PicksTypeInv, DebtInv, NEW i \in DOMAIN addrs, WeightedGet(i)
  PROVE  DebtInv'
<1> DEFINE S == Available
           D == DOMAIN addrs
           c == CurrentsOf(addrs)
           w == WeightsOf(addrs)
           n == longest
           d == AfterGain(c, w, S, i)
<1>1. /\ IsFiniteSet(D) /\ c \in [D -> Int] /\ w \in [D -> Int]
      /\ n \in Nat /\ Cardinality(D) <= n /\ Heaviest \in Nat /\ longest' = n
  BY ListFacts, HeaviestFacts DEF PicksTypeInv, Orderly, WeightedGet, Serve
<1>2. i \in S /\ S \in SUBSET D
  BY SelectionFacts
<1>3. UpTo(w, D, Heaviest) /\ Within(c, D, Heaviest, n)
  BY DEF DebtInv, DebtsWithin
<1>4. CASE Cardinality(S) > 1
  <2>1. HasMost(c, w, S, i)
    BY <1>4, SelectionFacts
  <2>2. DOMAIN addrs' = D /\ WeightsOf(addrs') = w /\ CurrentsOf(addrs') = d
    BY <1>4, SelectionFacts
  <2> HIDE DEF S, D, c, w, n
  <2>3. \A A \in SUBSET D : /\ TotalOf(d, A) <= Limit(Heaviest, n, Cardinality(A))
                            /\ -Limit(Heaviest, n, Cardinality(A)) <= TotalOf(d, A)
    BY <1>1, <1>2, <1>3, <2>1, PickStaysBelow, PickStaysAbove
  <2> HIDE DEF d
  <2>4. Within(d, D, Heaviest, n)
    BY <2>3 DEF Within
  <2> QED BY <1>1, <1>3, <2>2, <2>4 DEF DebtInv, DebtsWithin, n
<1>5. CASE ~ (Cardinality(S) > 1)
  <2>1. addrs' = addrs
    BY <1>5, SelectionFacts
  <2> QED BY <1>1, <2>1 DEF DebtInv
<1> QED BY <1>4, <1>5

\* At the start there is nobody.
LEMMA DebtInit == PicksInit => DebtInv
<1> SUFFICES ASSUME PicksInit PROVE DebtInv
  OBVIOUS
<1>1. addrs = <<>> /\ longest = 0 /\ Orderly(addrs) /\ DOMAIN addrs = {}
  BY DEF PicksInit, Orderly
<1> DEFINE c == CurrentsOf(addrs)
<1>2. IsFiniteSet({}) /\ Cardinality({}) = 0 /\ c \in [{} -> Int]
  BY <1>1, FS_EmptySet DEF CurrentsOf
<1> HIDE DEF c
<1>3. TotalOf(c, {}) = 0
  BY <1>2, TotalFacts
<1>4. Limit(Heaviest, 0, 0) = 0
  BY HeaviestFacts DEF Limit
<1>5. Within(c, {}, Heaviest, 0)
  <2> SUFFICES ASSUME NEW A \in SUBSET {}
               PROVE  /\ TotalOf(c, A) <= Limit(Heaviest, 0, Cardinality(A))
                      /\ -Limit(Heaviest, 0, Cardinality(A)) <= TotalOf(c, A)
    BY DEF Within
  <2>1. A = {}
    OBVIOUS
  <2>2. TotalOf(c, A) = 0 /\ Limit(Heaviest, 0, Cardinality(A)) = 0
    BY <1>2, <1>3, <1>4, <2>1
  <2> QED BY <2>2
<1> QED BY <1>1, <1>5 DEF DebtInv, DebtsWithin, UpTo, c

\* Every step keeps the debts within the limits.
LEMMA DebtStep == PicksTypeInv /\ DebtInv /\ [PicksNext]_picksVars => DebtInv'
<1> SUFFICES ASSUME PicksTypeInv, DebtInv, [PicksNext]_picksVars PROVE DebtInv'
  OBVIOUS
<1>1. ASSUME addrs' = addrs, longest' = longest PROVE DebtInv'
  BY <1>1 DEF DebtInv
<1>2. ASSUME NEW ready \in Listing, Build(ready)
      PROVE  DebtInv'
  BY <1>1, <1>2 DEF Build, v1Vars
<1>3. ASSUME NEW i \in DOMAIN addrs, WeightedGet(i) \/ RotatingGet(i)
      PROVE  DebtInv'
  BY <1>1, <1>3, DebtPick DEF RotatingGet, Rotating!selectOneAddr, Serve
<1>4. CASE RotatingPick \/ ((\E i : Serve(i)) /\ UNCHANGED <<addrs, next, pickerVars>>)
  BY <1>1, <1>4 DEF RotatingPick, Serve
<1>5. CASE Idle
  BY <1>1, <1>5 DEF Idle
<1> QED BY <1>2, <1>3, <1>4, <1>5, Steps, DebtChange

LEMMA MaxDebtType == PicksTypeInv => MaxDebt \in Int /\ MaxDebt = Limit(Heaviest, longest, 1)
<1> SUFFICES ASSUME PicksTypeInv PROVE MaxDebt \in Int /\ MaxDebt = Limit(Heaviest, longest, 1)
  OBVIOUS
<1> DEFINE h == Heaviest
           n == longest
<1>1. h \in Int /\ n \in Int
  BY HeaviestFacts DEF PicksTypeInv
<1> HIDE DEF h, n
<1>2. 2 * h * (n - 1) = h * (1 * (2 * n - 1 - 1)) /\ 2 * h * (n - 1) \in Int
  BY <1>1
<1> QED BY <1>2 DEF MaxDebt, Limit, h, n

\* What one entry may owe or be owed.
LEMMA OneDebt ==
  ASSUME PicksTypeInv, DebtInv
  PROVE  \A i \in DOMAIN addrs : addrs[i].current \in (-MaxDebt)..MaxDebt
<1> SUFFICES ASSUME NEW i \in DOMAIN addrs PROVE addrs[i].current \in (-MaxDebt)..MaxDebt
  OBVIOUS
<1> DEFINE c == CurrentsOf(addrs)
           D == DOMAIN addrs
           none == {}
           one == none \cup {i}
<1>1. /\ IsFiniteSet(D) /\ c \in [D -> Int]
      /\ c[i] = addrs[i].current /\ addrs[i].current \in Int
  BY ListFacts DEF PicksTypeInv, Orderly
<1>2. one \in SUBSET D /\ Cardinality(one) = 1
  <2>1. one = {i}
    OBVIOUS
  <2> HIDE DEF one
  <2> QED BY <2>1, FS_Singleton
<1>3. TotalOf(c, one) = TotalOf(c, none) + c[i] /\ TotalOf(c, none) = 0
  <2>1. none \in SUBSET D /\ i \notin none /\ i \in D
    OBVIOUS
  <2>2. TotalOf(c, none) = 0
    BY <1>1, TotalFacts
  <2> HIDE DEF c, D, none
  <2> QED BY <1>1, <2>1, <2>2, TotalFacts
<1>4. /\ TotalOf(c, one) <= Limit(Heaviest, longest, Cardinality(one))
      /\ -Limit(Heaviest, longest, Cardinality(one)) <= TotalOf(c, one)
  <2> HIDE DEF one
  <2> QED BY <1>2 DEF DebtInv, DebtsWithin, Within
<1> HIDE DEF c, none, one
<1>5. TotalOf(c, one) = addrs[i].current
  BY <1>1, <1>3
<1> QED BY <1>1, <1>2, <1>4, <1>5, MaxDebtType

\* However long it runs, with backends coming, going and being re-weighted and with
\* the second entries that leaves, the weighted balancer owes no entry more than
\* MaxDebt, and none owes it more (roundrobin_v1.go, lines 46-95 and 269-288).
THEOREM DebtsStayBounded == PicksSpec => []DebtsBounded
<1>1. PicksTypeInv /\ DebtInv => DebtsBounded
  BY OneDebt DEF DebtsBounded
<1> QED BY <1>1, PicksTyped, DebtInit, DebtStep, PTL DEF PicksSpec

-----------------------------------------------------------------------------
(* Picks: shares *)

\* How a count of picks grows.
LEMMA CountFacts ==
  ASSUME NEW D, IsFiniteSet(D), NEW s \in [D -> Nat]
  PROVE  /\ Cardinality(Units(s, D)) \in Nat
         /\ (\A b \in D : s[b] = 0) => Cardinality(Units(s, D)) = 0
         /\ \A b \in D : Cardinality(Units([s EXCEPT ![b] = s[b] + 1], D))
                                  = Cardinality(Units(s, D)) + 1
<1>1. s \in [D -> Int]
  OBVIOUS
<1>2. IsFiniteSet(Units(s, D)) /\ Cardinality(Units(s, D)) \in Nat
  BY <1>1, MoreUnits
<1>3. ASSUME \A b \in D : s[b] = 0
      PROVE  Cardinality(Units(s, D)) = 0
  <2>1. Units(s, D) = {}
    BY <1>3 DEF Units
  <2> QED BY <2>1, FS_EmptySet
<1>4. ASSUME NEW b \in D
      PROVE  Cardinality(Units([s EXCEPT ![b] = s[b] + 1], D))
               = Cardinality(Units(s, D)) + 1
  <2> DEFINE t == [s EXCEPT ![b] = s[b] + 1]
             last == <<b, s[b] + 1>>
  <2>1. \A c \in D : {c} \X (1..t[c]) = IF c = b THEN ({c} \X (1..s[c])) \cup {last}
                                                 ELSE {c} \X (1..s[c])
    <3> TAKE c \in D
    <3>1. CASE c = b
      <4>1. t[c] = s[c] + 1 /\ s[c] \in Nat
        BY <3>1
      <4>2. 1..t[c] = (1..s[c]) \cup {s[c] + 1}
        <5> HIDE DEF t
        <5> QED BY <4>1
      <4> HIDE DEF t
      <4> QED BY <3>1, <4>2
    <3>2. CASE c # b
      BY <3>2
    <3> QED BY <3>1, <3>2
  <2> HIDE DEF t
  <2>2. Units(t, D) = Units(s, D) \cup {last}
    <3> HIDE DEF last
    <3> QED BY <2>1 DEF Units
  <2>3. last \notin Units(s, D)
    BY DEF Units
  <2> DEFINE R == Units(s, D)
  <2> HIDE DEF last, R
  <2>4. Cardinality(R \cup {last}) = Cardinality(R) + 1
    BY <1>2, <2>3, FS_AddElement DEF R
  <2> QED BY <2>2, <2>4 DEF R, t
<1> QED BY <1>2, <1>3, <1>4

\* The picks are counted so.
LEMMA PicksCount ==
  PicksTypeInv =>
    /\ Picks \in Nat
    /\ (\A i \in DOMAIN served : served[i] = 0) => Picks = 0
    /\ \A i \in DOMAIN served : served' = [served EXCEPT ![i] = served[i] + 1] => Picks' = Picks + 1
<1> SUFFICES ASSUME PicksTypeInv
             PROVE  /\ Picks \in Nat
                    /\ (\A i \in DOMAIN served : served[i] = 0) => Picks = 0
                    /\ \A i \in DOMAIN served :
                         served' = [served EXCEPT ![i] = served[i] + 1] => Picks' = Picks + 1
  OBVIOUS
<1> DEFINE D == DOMAIN served
<1>1. IsFiniteSet(D) /\ served \in [D -> Nat]
  <2>1. /\ DOMAIN addrs = 1..Len(addrs) /\ Len(addrs) \in Nat
        /\ DOMAIN subConns = 1..Len(subConns) /\ Len(subConns) \in Nat
    BY DEF PicksTypeInv
  <2>2. IsFiniteSet(DOMAIN addrs) /\ IsFiniteSet(DOMAIN subConns)
    BY <2>1, FS_Interval
  <2> QED BY <2>2 DEF PicksTypeInv, Counted
<1>2. Picks = Cardinality(Units(served, D))
  BY DEF Picks, Units
<1>3. ASSUME NEW i \in D, served' = [served EXCEPT ![i] = served[i] + 1]
      PROVE  Picks' = Picks + 1
  <2> DEFINE t == [served EXCEPT ![i] = served[i] + 1]
  <2>1. DOMAIN served' = D
    BY <1>1, <1>3
  <2>2. Picks' = Cardinality(Units(served', D))
    BY <2>1 DEF Picks, Units
  <2>3. Cardinality(Units(t, D)) = Cardinality(Units(served, D)) + 1
    BY <1>1, CountFacts
  <2> QED BY <1>2, <1>3, <2>2, <2>3
<1>4. Picks \in Nat /\ ((\A i \in D : served[i] = 0) => Picks = 0)
  BY <1>1, <1>2, CountFacts
<1> QED BY <1>3, <1>4

\* The weights of those that may be picked have a sum.
LEMMA AvailableTotal ==
  ASSUME PicksTypeInv
  PROVE  Available \in SUBSET DOMAIN addrs /\ Weighted!TotalWeight(Available) \in Nat
<1>1. Available \in SUBSET DOMAIN addrs
  BY DEF Available, Weighted!Candidates, Weighted!GetAvailableAddrs
<1>2. Weighted!TotalWeight(Available) = Cardinality(Units(WeightsOf(addrs), Available))
  <2>1. Units(WeightsOf(addrs), Available) = UNION {{j} \X (1..addrs[j].weight) : j \in Available}
    BY <1>1 DEF Units, WeightsOf
  <2> QED BY <2>1, Cards DEF Weighted!TotalWeight
<1>3. Orderly(addrs)
  BY DEF PicksTypeInv, Orderly
<1> QED BY <1>1, <1>2, <1>3, ListFacts, MoreUnits

\* What a pick adds to both sides of the account of an entry.
LEMMA Accounts ==
  ASSUME NEW p \in Int, NEW w \in Int, NEW s \in Int, NEW t \in Int, NEW c \in Int, NEW z \in Int,
         p * w + z = s * t + c
  PROVE  /\ (p + 1) * w + z = s * t + (c + w)
         /\ (p + 1) * w + z = (s + 1) * t + (c + w - t)
<1>1. (p + 1) * w = p * w + w /\ (s + 1) * t = s * t + t
  OBVIOUS
<1> DEFINE x == p * w
           y == s * t
<1>2. x \in Int /\ y \in Int
  OBVIOUS
<1> HIDE DEF x, y
<1> QED BY <1>1, <1>2 DEF x, y

\* The account of an entry since the last change: what its weight earned it in the
\* picks is what it paid for and what it is owed now, but for what it was owed or
\* owed then.
Settled(i) ==
  \E z \in (-MaxDebt)..MaxDebt :
    Picks * addrs[i].weight + z
      = served[i] * Weighted!TotalWeight(Available) + addrs[i].current
FairInv ==
  balancer = "WRoundRobin" /\ Cardinality(Available) > 1 => \A i \in Available : Settled(i)

\* Nobody has been served since a change.
LEMMA FairAnew ==
  ASSUME PicksTypeInv, DebtInv, Anew
  PROVE  FairInv
<1> SUFFICES ASSUME balancer = "WRoundRobin", NEW i \in Available PROVE Settled(i)
  BY DEF FairInv
<1> DEFINE T == Weighted!TotalWeight(Available)
           c == addrs[i].current
           w == addrs[i].weight
<1>1. i \in DOMAIN addrs /\ T \in Nat
  BY AvailableTotal
<1>2. c \in (-MaxDebt)..MaxDebt /\ c \in Int /\ w \in Int
  BY <1>1, OneDebt, ListFacts DEF PicksTypeInv, Orderly
<1>3. Picks = 0
  BY PicksCount DEF Anew
<1>4. served[i] = 0
  BY <1>1 DEF Anew, PicksTypeInv, Counted, V1, RoundRobins
<1> HIDE DEF T, c, w
<1>5. Picks * w + c = served[i] * T + c
  BY <1>1, <1>2, <1>3, <1>4
<1> QED BY <1>2, <1>5 DEF Settled, T, c, w

\* A pick settles the account of every available entry.
LEMMA FairPick ==
  ASSUME PicksTypeInv, FairInv, NEW m \in DOMAIN addrs, WeightedGet(m)
  PROVE  FairInv'
<1> DEFINE S == Available
           D == DOMAIN addrs
           c == CurrentsOf(addrs)
           w == WeightsOf(addrs)
           T == TotalOf(w, S)
           p == Picks
<1>1. /\ IsFiniteSet(D) /\ c \in [D -> Int] /\ w \in [D -> Int]
      /\ \A i \in D : c[i] = addrs[i].current /\ w[i] = addrs[i].weight
  BY ListFacts DEF PicksTypeInv, Orderly
<1>2. m \in S /\ S \in SUBSET D /\ Weighted!TotalWeight(S) = T
  BY SelectionFacts
<1>3. /\ balancer = "WRoundRobin" /\ longest' = longest
      /\ served' = [served EXCEPT ![m] = served[m] + 1]
  BY DEF WeightedGet, Serve
<1>4. DOMAIN served = D /\ \A i \in D : served[i] \in Nat
  BY <1>3 DEF PicksTypeInv, Counted, V1, RoundRobins
<1>5. p \in Nat /\ Picks' = p + 1
  BY <1>2, <1>3, <1>4, PicksCount
<1>6. T \in Int
  BY <1>1, <1>2, TotalFacts
<1>7. CASE ~ (Cardinality(S) > 1)
  <2>1. addrs' = addrs
    BY <1>7, SelectionFacts
  <2>2. Available' = S
    BY <2>1 DEF Available, Weighted!Candidates, Weighted!GetAvailableAddrs
  <2> QED BY <1>7, <2>2 DEF FairInv
<1>8. CASE Cardinality(S) > 1
  <2>1. /\ DOMAIN addrs' = D /\ WeightsOf(addrs') = w
        /\ CurrentsOf(addrs') = AfterGain(c, w, S, m)
    BY <1>8, SelectionFacts
  <2>2. \A i \in D : /\ addrs'[i].weight = w[i]
                     /\ addrs'[i].current = AfterGain(c, w, S, m)[i]
    <3>1. \A i \in DOMAIN addrs' : /\ WeightsOf(addrs')[i] = addrs'[i].weight
                                   /\ CurrentsOf(addrs')[i] = addrs'[i].current
      BY DEF WeightsOf, CurrentsOf
    <3> QED BY <2>1, <3>1
  <2>3. \A i \in D : addrs'[i].connected = addrs[i].connected
    <3>1. addrs' = addrs \/ addrs' = Weighted!AfterPick(S, m)
      BY DEF WeightedGet, Weighted!selectOneAddr, Available
    <3>2. \A i \in D : addrs[i] \in Entry
      BY DEF PicksTypeInv
    <3>3. \A i \in D : \E v : addrs'[i] \in {addrs[i], [addrs[i] EXCEPT !.current = v]}
      BY <3>1 DEF Weighted!AfterPick
    <3> QED BY <3>2, <3>3 DEF Entry
  <2>4. Available' = S
    <3>1. \A i \in D : addrs'[i].weight = addrs[i].weight
      BY <1>1, <2>2
    <3>2. {i \in DOMAIN addrs' : addrs'[i].connected /\ addrs'[i].weight > 0}
            = {i \in DOMAIN addrs : addrs[i].connected /\ addrs[i].weight > 0}
      BY <2>1, <2>3, <3>1
    <3>3. {i \in DOMAIN addrs' : addrs'[i].weight > 0} = {i \in DOMAIN addrs : addrs[i].weight > 0}
      BY <2>1, <3>1
    <3>4. /\ Weighted!GetAvailableAddrs(TRUE)' = Weighted!GetAvailableAddrs(TRUE)
          /\ Weighted!GetAvailableAddrs(FALSE)' = Weighted!GetAvailableAddrs(FALSE)
      BY <3>2, <3>3 DEF Weighted!GetAvailableAddrs
    <3> QED BY <3>4 DEF Available, Weighted!Candidates
  <2>5. Weighted!TotalWeight(Available)' = T
    <3>1. Weighted!TotalWeight(Available)' = Cardinality(UNION {{i} \X (1..addrs'[i].weight) : i \in S})
      BY <2>4, Cards DEF Weighted!TotalWeight
    <3>2. Weighted!TotalWeight(S) = Cardinality(UNION {{i} \X (1..addrs[i].weight) : i \in S})
      BY Cards DEF Weighted!TotalWeight
    <3>3. \A i \in S : addrs'[i].weight = addrs[i].weight
      BY <1>1, <1>2, <2>2
    <3>4. {{i} \X (1..addrs'[i].weight) : i \in S} = {{i} \X (1..addrs[i].weight) : i \in S}
      BY <3>3
    <3> QED BY <1>2, <3>1, <3>2, <3>4
  <2>6. ASSUME NEW i \in S
        PROVE  Settled(i)'
    <3> DEFINE s == served[i]
    <3>1. i \in D /\ s \in Int /\ p \in Int /\ w[i] \in Int /\ c[i] \in Int
      BY <1>1, <1>2, <1>4, <1>5
    <3>2. PICK z \in (-MaxDebt)..MaxDebt : p * w[i] + z = s * T + c[i]
      <4>1. Settled(i)
        BY <1>3, <1>8 DEF FairInv
      <4> QED BY <1>1, <1>2, <3>1, <4>1 DEF Settled
    <3>3. z \in Int
      BY <3>2, MaxDebtType
    <3>4. /\ (p + 1) * w[i] + z = s * T + (c[i] + w[i])
          /\ (p + 1) * w[i] + z = (s + 1) * T + (c[i] + w[i] - T)
      <4> DEFINE wi == w[i]
                 ci == c[i]
      <4> HIDE DEF p, s, T, w, c, wi, ci
      <4>1. p \in Int /\ wi \in Int /\ s \in Int /\ T \in Int /\ ci \in Int /\ p * wi + z = s * T + ci
        BY <1>6, <3>1, <3>2 DEF wi, ci
      <4>2. /\ (p + 1) * wi + z = s * T + (ci + wi)
            /\ (p + 1) * wi + z = (s + 1) * T + (ci + wi - T)
        BY <3>3, <4>1, Accounts
      <4> QED BY <4>2 DEF wi, ci
    <3>5. MaxDebt' = MaxDebt
      BY <1>3 DEF MaxDebt, Heaviest
    <3>6. (i = m => served'[i] = s + 1) /\ (i # m => served'[i] = s)
      BY <1>3, <1>4, <3>1
    <3>7. /\ i = m => addrs'[i].current = c[i] + w[i] - T
          /\ i # m => addrs'[i].current = c[i] + w[i]
      <4>1. AfterGain(c, w, S, m)[i] = c[i] + w[i] - (IF i = m THEN T ELSE 0)
        BY <1>1, <3>1 DEF AfterGain
      <4> HIDE DEF S, D, c, w, T
      <4> QED BY <1>6, <2>2, <3>1, <4>1
    <3>8. Picks' * addrs'[i].weight + z = served'[i] * T + addrs'[i].current
      <4>1. Picks' * addrs'[i].weight + z = (p + 1) * w[i] + z
        BY <1>5, <2>2, <3>1
      <4> HIDE DEF c, w, T, p, s
      <4>2. CASE i = m
        BY <3>4, <3>6, <3>7, <4>1, <4>2
      <4>3. CASE i # m
        BY <3>4, <3>6, <3>7, <4>1, <4>3
      <4> QED BY <4>2, <4>3
    <3> HIDE DEF T
    <3> QED BY <2>5, <3>2, <3>5, <3>8 DEF Settled
  <2> QED BY <2>4, <2>6 DEF FairInv
<1> QED BY <1>7, <1>8

\* A step of somebody else leaves the accounts alone.
LEMMA FairIdle ==
  ASSUME FairInv, UNCHANGED <<balancer, addrs, longest, served>>
  PROVE  FairInv'
<1>1. /\ Available' = Available /\ Picks' = Picks
      /\ Weighted!TotalWeight(Available)' = Weighted!TotalWeight(Available)
  BY DEF Available, Weighted!Candidates, Weighted!GetAvailableAddrs, Weighted!TotalWeight, Picks
<1>2. MaxDebt' = MaxDebt
  BY DEF MaxDebt, Heaviest
<1>3. \A i : Settled(i)' <=> Settled(i)
  BY <1>1, <1>2 DEF Settled
<1> QED BY <1>1, <1>3 DEF FairInv

\* Every step settles the accounts, or starts them anew.
LEMMA FairStep == PicksTypeInv /\ FairInv /\ [PicksNext]_picksVars => FairInv' \/ Anew'
<1> SUFFICES ASSUME PicksTypeInv, FairInv, [PicksNext]_picksVars PROVE FairInv' \/ Anew'
  OBVIOUS
<1>0. balancer' = balancer
  BY PicksTypeStep
<1>1. CASE Idle
  BY <1>1, FairIdle DEF Idle
<1>2. ASSUME NEW i \in DOMAIN addrs, WeightedGet(i) \/ RotatingGet(i)
      PROVE  FairInv'
  BY <1>0, <1>2, FairPick DEF RotatingGet, FairInv
<1>3. CASE RotatingPick \/ balancer \in Pickers \ {"RoundRobinExperimental"}
  BY <1>0, <1>3 DEF RotatingPick, Pickers, FairInv
<1>4. CASE \/ \E u \in updates : Apply(u)
           \/ \E i \in DOMAIN addrs, up \in BOOLEAN : Connect(i, up)
  BY <1>4, ChangeType DEF Anew
<1>5. ASSUME NEW ready \in Listing, Build(ready)
      PROVE  Anew'
  BY <1>5, BuildType DEF Anew
<1> QED BY <1>1, <1>2, <1>3, <1>4, <1>5, Steps

\* Settled accounts are fair.
LEMMA SettledFair == PicksTypeInv /\ DebtInv /\ FairInv => FairShare
<1> SUFFICES ASSUME PicksTypeInv, DebtInv, FairInv,
                    balancer = "WRoundRobin" /\ Cardinality(Available) > 1,
                    NEW i \in Available
             PROVE  Picks * addrs[i].weight - served[i] * Weighted!TotalWeight(Available)
                      \in (-2 * MaxDebt)..(2 * MaxDebt)
  BY DEF FairShare
<1>1. PICK z \in (-MaxDebt)..MaxDebt :
        Picks * addrs[i].weight + z
          = served[i] * Weighted!TotalWeight(Available) + addrs[i].current
  BY DEF FairInv, Settled
<1>2. i \in DOMAIN addrs /\ Weighted!TotalWeight(Available) \in Nat
  BY AvailableTotal
<1>3. addrs[i].current \in (-MaxDebt)..MaxDebt /\ addrs[i].weight \in Int
  BY <1>2, OneDebt, ListFacts DEF PicksTypeInv, Orderly
<1>4. Picks \in Int /\ served[i] \in Int
  BY <1>2, PicksCount DEF PicksTypeInv, Counted, V1, RoundRobins
<1> DEFINE x == Picks * addrs[i].weight
           y == served[i] * Weighted!TotalWeight(Available)
           c == addrs[i].current
<1>5. x \in Int /\ y \in Int /\ MaxDebt \in Int
  BY <1>2, <1>3, <1>4, MaxDebtType
<1> HIDE DEF x, y, c
<1>6. x + z = y + c /\ c \in (-MaxDebt)..MaxDebt
  BY <1>1, <1>3 DEF x, y, c
<1>7. x - y \in (-2 * MaxDebt)..(2 * MaxDebt)
  BY <1>5, <1>6
<1> QED BY <1>7 DEF x, y

\* From any change on, and for any number of picks, the weighted balancer serves
\* every entry it may pick by its weight, up to what it and the others were owed
\* before (selectOneAddr, roundrobin_v1.go, lines 269-288).
THEOREM SharesAreFair == PicksSpec => []FairShare
<1>1. PicksTypeInv /\ DebtInv /\ Anew => FairInv
  BY FairAnew
<1>2. PicksInit => Anew
  BY DEF PicksInit, Nobody, Anew
<1> QED BY <1>1, <1>2, PicksTypeInit, PicksTypeStep, DebtInit, DebtStep, FairStep, SettledFair, PTL
     DEF PicksSpec
=============================================================================
