------------------------------- MODULE NewClient -------------------------------
(***************************************************************************)
(* NewClient, called by several goroutines of one process.  They share     *)
(* gRPC's tables of resolver and balancer builders, which NewClient        *)
(* overwrites for its own use and reads again while it dials, and the      *)
(* connection to the registry, which the first of them opens.              *)
(*                                                                         *)
(* The tables are plain maps that are meant to be filled at start-up: two  *)
(* goroutines at them may crash the process.  RegisterClient is a sequence *)
(* of requests under the mutex of its Registry; the key is that of the     *)
(* host (url.go, lines 32-34), the same for all these callers.             *)
(***************************************************************************)
EXTENDS Naturals, FiniteSets

CONSTANTS
  Callers, NoOne,
  Services, NoService,
  Configs,       \* the configurations NewClient is called with
  MaxFailures    \* bound on the requests that fail

V1Balancers  == {"WRoundRobin", "RoundRobin", "Random", "WRandom"}
Experimental == {"WRoundRobinExperimental", "RoundRobinExperimental",
                 "RandomExperimental", "WRandomExperimental"}
WithWeight   == {"WRoundRobin", "WRandom", "WRoundRobinExperimental", "WRandomExperimental"}
Names        == {"roundrobin_new", "random"}

NameOf(balancer) == IF balancer \in {"WRoundRobinExperimental", "RoundRobinExperimental"}
                    THEN "roundrobin_new" ELSE "random"

\* registry: the address is given, and names the scheme of the resolver.
ClientConfig == [service : Services \cup {NoService}, registry : {"none", "plain", "zookeeper"},
                 direct : BOOLEAN, balancer : V1Balancers \cup Experimental, experimental : BOOLEAN]

ASSUME ConfigsAssumption == Configs \subseteq ClientConfig /\ NoService \notin Services
ASSUME NoOneAssumption == NoOne \notin Callers
ASSUME FailuresAssumption == MaxFailures \in Nat

VARIABLES
  process,      \* "running", or how it ended
  resolvers,    \* the service of the builder of scheme "zookeeper"
  balancers,    \* the weight flag of the builder of each name
  register,     \* register.r: the caller that opened it
  lock,         \* who holds register's lock
  node,         \* the services that have a node of this host's client
  pc, conf,     \* where each caller is, with which configuration
  service,      \* the service its connection resolves
  weight,       \* the weight flag of its balancer
  via,          \* the Registry it announces itself with
  announced,    \* how that ended
  opened,       \* history: the callers that opened a Registry
  met,          \* history: who else was in NewClient during its call
  failures

tableVars  == <<resolvers, balancers>>
sharedVars == <<register, lock, opened>>
gotVars    == <<service, weight>>
annVars    == <<node, via, announced, failures>>
clientVars == <<process, tableVars, sharedVars, gotVars, annVars, pc, conf, met>>

NoConfig == [service |-> NoService, registry |-> "none", direct |-> FALSE,
             balancer |-> "WRoundRobin", experimental |-> FALSE]

ClientInit ==
  /\ process = "running" /\ resolvers = NoService
  /\ balancers = [n \in Names |-> "none"]
  /\ register = NoOne /\ lock = NoOne /\ node = {}
  /\ pc = [g \in Callers |-> "idle"] /\ conf = [g \in Callers |-> NoConfig]
  /\ service = [g \in Callers |-> NoService] /\ weight = [g \in Callers |-> "none"]
  /\ via = [g \in Callers |-> NoOne] /\ announced = [g \in Callers |-> "no"]
  /\ opened = {} /\ met = [g \in Callers |-> {}] /\ failures = 0

Running == process = "running"
Inside(g) == pc[g] \notin {"idle", "ready"}
At(g, p) == Running /\ pc[g] = p
Goes(g, p) == pc' = [pc EXCEPT ![g] = p] /\ UNCHANGED <<process, conf, met>>

\* logrus.Fatal
Fatal == process' = "fatal" /\ UNCHANGED <<pc, conf, met>>
Fails == failures < MaxFailures /\ failures' = failures + 1

NewClientCalled(g, cf) ==
  /\ At(g, "idle")
  /\ pc' = [pc EXCEPT ![g] = IF cf.experimental THEN "experiment" ELSE "origin"]
  /\ conf' = [conf EXCEPT ![g] = cf]
  /\ met' = [h \in Callers |-> IF h = g THEN {i \in Callers : Inside(i)}
                               ELSE IF Inside(h) THEN met[h] \cup {g} ELSE met[h]]
  /\ UNCHANGED <<process, tableVars, sharedVars, gotVars, annVars>>

-----------------------------------------------------------------------------
(* experimentInit: the builder of the resolver is replaced before the       *)
(* configuration is checked, and that of the balancer is read again when    *)
(* the dial option is made.                                                 *)

\* Mutant of RegistersResolver: a builder that is there already is kept.
RegistersResolverMutant(g) ==
  /\ At(g, "experiment") /\ conf[g].service # NoService
  /\ resolvers' = IF resolvers = NoService THEN conf[g].service ELSE resolvers
  /\ IF conf[g].registry = "none" THEN Fatal ELSE Goes(g, "balancer")
  /\ UNCHANGED <<balancers, sharedVars, gotVars, annVars>>

RegistersResolver(g) ==
  /\ At(g, "experiment") /\ conf[g].service # NoService
  /\ resolvers' = conf[g].service
  /\ IF conf[g].registry = "none" THEN Fatal ELSE Goes(g, "balancer")
  /\ UNCHANGED <<balancers, sharedVars, gotVars, annVars>>

WithoutResolver(g) ==
  /\ At(g, "experiment") /\ conf[g].service = NoService
  /\ IF conf[g].direct THEN Goes(g, "balancer") ELSE Fatal
  /\ UNCHANGED <<tableVars, sharedVars, gotVars, annVars>>

RegistersBalancer(g) ==
  /\ At(g, "balancer")
  /\ IF conf[g].balancer \in Experimental
     THEN /\ balancers' = [balancers EXCEPT ![NameOf(conf[g].balancer)] =
                             IF conf[g].balancer \in WithWeight THEN "weight" ELSE "plain"]
          /\ Goes(g, "option")
     ELSE Fatal /\ UNCHANGED balancers
  /\ UNCHANGED <<resolvers, sharedVars, gotVars, annVars>>

WithBalancerName(g) ==
  /\ At(g, "option")
  /\ weight' = [weight EXCEPT ![g] = balancers[NameOf(conf[g].balancer)]]
  /\ Goes(g, "dial")
  /\ UNCHANGED <<tableVars, sharedVars, service, annVars>>

\* originInit: everything is made for this client.  Direct addresses are refused.
OriginInit(g) ==
  /\ At(g, "origin")
  /\ IF /\ conf[g].service # NoService /\ conf[g].registry # "none"
        /\ conf[g].balancer \in V1Balancers
     THEN /\ service' = [service EXCEPT ![g] = conf[g].service]
          /\ weight' = [weight EXCEPT ![g] =
                          IF conf[g].balancer \in WithWeight THEN "weight" ELSE "plain"]
          /\ Goes(g, "dial")
     ELSE Fatal /\ UNCHANGED gotVars
  /\ UNCHANGED <<tableVars, sharedVars, annVars>>

\* The builder of the resolver is looked up by the scheme of the target, though a
\* classic client has its own resolver; an ensemble that cannot be reached ends the
\* process.
Dial(g) ==
  /\ At(g, "dial")
  /\ \/ /\ service' = IF conf[g].experimental /\ conf[g].registry = "zookeeper"
                      THEN [service EXCEPT ![g] = resolvers] ELSE service
        /\ Goes(g, IF conf[g].service = NoService THEN "ready" ELSE "test")
        /\ UNCHANGED failures
     \/ Fails /\ Fatal /\ UNCHANGED service
  /\ UNCHANGED <<tableVars, sharedVars, weight, node, via, announced>>

WritesTable(g) == \/ pc[g] = "experiment" /\ conf[g].service # NoService
                  \/ pc[g] = "balancer"
ReadsTable(g)  == pc[g] \in {"option", "dial"}

\* The Go runtime detects some of the accesses to a map that overlap a write.
TablesRace(g, h) ==
  /\ Running /\ g # h /\ WritesTable(g) /\ (WritesTable(h) \/ ReadsTable(h))
  /\ process' = "crashed"
  /\ UNCHANGED <<tableVars, sharedVars, gotVars, annVars, pc, conf, met>>

-----------------------------------------------------------------------------
(* The connection to the registry: tested without the lock, and not again   *)
(* with it.                                                                 *)

TestsRegister(g) ==
  /\ At(g, "test")
  /\ Goes(g, IF register = NoOne THEN "locking" ELSE "announcing")
  /\ UNCHANGED <<tableVars, sharedVars, gotVars, annVars>>

\* Mutant of TakesLock: the connection is opened without the lock.
TakesLockMutant(g) ==
  /\ At(g, "locking")
  /\ lock' = g /\ Goes(g, "opening")
  /\ UNCHANGED <<tableVars, register, opened, gotVars, annVars>>

TakesLock(g) ==
  /\ At(g, "locking") /\ lock = NoOne
  /\ lock' = g /\ Goes(g, "opening")
  /\ UNCHANGED <<tableVars, register, opened, gotVars, annVars>>

\* Mutant of OpensRegister: the new Registry is not kept for the others.
OpensRegisterMutant(g) ==
  /\ At(g, "opening")
  /\ opened' = opened \cup {g} /\ lock' = NoOne
  /\ Goes(g, "announcing") /\ UNCHANGED <<tableVars, register, gotVars, annVars>>

OpensRegister(g) ==
  /\ At(g, "opening")
  /\ \/ /\ opened' = opened \cup {g} /\ register' = g /\ lock' = NoOne
        /\ Goes(g, "announcing") /\ UNCHANGED failures
     \/ Fails /\ Fatal /\ UNCHANGED sharedVars
  /\ UNCHANGED <<tableVars, gotVars, node, via, announced>>

-----------------------------------------------------------------------------
(* RegisterClient *)

Requests == {"exists", "create", "set"}

\* RegisterClient is called on the Registry of this moment.
ReadsRegister(g) ==
  /\ At(g, "announcing")
  /\ via' = [via EXCEPT ![g] = register]
  /\ Goes(g, "waiting")
  /\ UNCHANGED <<tableVars, sharedVars, gotVars, node, announced, failures>>

\* The mutex of that Registry is free, and Delete is asked.
DeletesNode(g) ==
  /\ At(g, "waiting")
  /\ \A h \in Callers : pc[h] \in Requests => via[h] # via[g]
  /\ \/ node' = node \ {conf[g].service} /\ Goes(g, "exists") /\ UNCHANGED <<announced, failures>>
     \/ /\ Fails /\ node' \in {node, node \ {conf[g].service}}
        /\ announced' = [announced EXCEPT ![g] = "failed"] /\ Goes(g, "ready")
  /\ UNCHANGED <<tableVars, sharedVars, gotVars, via>>

AsksExists(g) ==
  /\ At(g, "exists")
  /\ \/ /\ Goes(g, IF conf[g].service \in node THEN "set" ELSE "create")
        /\ UNCHANGED <<announced, failures>>
     \/ Fails /\ announced' = [announced EXCEPT ![g] = "failed"] /\ Goes(g, "ready")
  /\ UNCHANGED <<tableVars, sharedVars, gotVars, node, via>>

\* Errors of Create are ignored.
CreatesNode(g) ==
  /\ At(g, "create") /\ Goes(g, "set")
  /\ \/ node' = node \cup {conf[g].service} /\ UNCHANGED failures
     \/ Fails /\ UNCHANGED node
  /\ UNCHANGED <<tableVars, sharedVars, gotVars, via, announced>>

\* Mutant of SetsNode: the error of Set is dropped.
SetsNodeMutant(g) ==
  /\ At(g, "set") /\ Goes(g, "ready")
  /\ announced' = [announced EXCEPT ![g] = "yes"]
  /\ UNCHANGED <<tableVars, sharedVars, gotVars, node, via, failures>>

SetsNode(g) ==
  /\ At(g, "set") /\ Goes(g, "ready")
  /\ \/ /\ announced' = [announced EXCEPT ![g] = IF conf[g].service \in node THEN "yes" ELSE "failed"]
        /\ UNCHANGED failures
     \/ Fails /\ announced' = [announced EXCEPT ![g] = "failed"]
  /\ UNCHANGED <<tableVars, sharedVars, gotVars, node, via>>

-----------------------------------------------------------------------------
ClientNext ==
  \E g \in Callers :
    \/ \E cf \in Configs : NewClientCalled(g, cf)
    \/ RegistersResolver(g) \/ WithoutResolver(g) \/ RegistersBalancer(g) \/ WithBalancerName(g)
    \/ OriginInit(g) \/ Dial(g) \/ (\E h \in Callers : TablesRace(g, h))
    \/ TestsRegister(g) \/ TakesLock(g) \/ OpensRegister(g)
    \/ ReadsRegister(g) \/ DeletesNode(g) \/ AsksExists(g) \/ CreatesNode(g) \/ SetsNode(g)

-----------------------------------------------------------------------------
(* Properties *)

\* The types of the variables; the lock is held while a connection is opened.
ClientTypeOK ==
  /\ process \in {"running", "fatal", "crashed", "panicked"}
  /\ resolvers \in Services \cup {NoService}
  /\ balancers \in [Names -> {"none", "plain", "weight"}]
  /\ {register, lock} \subseteq Callers \cup {NoOne} /\ node \subseteq Services
  /\ pc \in [Callers -> {"idle", "experiment", "origin", "balancer", "option", "dial", "test",
                         "locking", "opening", "announcing", "waiting", "ready"}
                        \cup Requests]
  /\ \A g \in Callers : pc[g] = "opening" <=> lock = g
  /\ conf \in [Callers -> ClientConfig]
  /\ service \in [Callers -> Services \cup {NoService}]
  /\ weight \in [Callers -> {"none", "plain", "weight"}]
  /\ via \in [Callers -> Callers \cup {NoOne}] /\ announced \in [Callers -> {"no", "yes", "failed"}]
  /\ opened \subseteq Callers /\ met \in [Callers -> SUBSET Callers] /\ failures \in 0..MaxFailures

\* The builders are overwritten by every call.  Nevertheless the connection of a
\* client resolves the service, and weighs the backends, that this call or one
\* that overlapped it asked for (client.go, lines 60-86 and 124-139).
OwnBuilders ==
  \A g \in Callers : pc[g] = "ready" =>
    LET seen == {conf[h] : h \in met[g] \cup {g}}
    IN /\ service[g] # NoService => \E cf \in seen : cf.service = service[g]
       /\ conf[g].service # NoService /\ conf[g].registry = "zookeeper" => service[g] # NoService
       /\ \E cf \in seen : weight[g] = IF cf.balancer \in WithWeight THEN "weight" ELSE "plain"

\* Several connections to the registry are opened only by calls that overlap, and
\* none announces itself before there is one (client.go, lines 144-154).
RegistryOpenedOnce ==
  /\ \A g, h \in opened : g # h => h \in met[g] \/ g \in met[h]
  /\ \A g \in Callers : pc[g] \in {"announcing", "waiting"} \cup Requests => register # NoOne

\* Two connections mean two mutexes, and requests that interleave.  Still, once
\* all the calls are over and none of them failed, the node of a service that a
\* client announced is there (registry.go, lines 56-69; client.go, lines 144-157).
AnnouncedTogether ==
  \A s \in Services :
    LET of == {g \in Callers : conf[g].service = s /\ pc[g] # "idle"}
    IN (\A g \in of : announced[g] = "yes") /\ of # {} => s \in node
=============================================================================
