-------------------------------- MODULE Server --------------------------------
(***************************************************************************)
(* The life of a server process: it reads its configuration, connects to   *)
(* the registry, is given its services, and starts.  Start serves and, a   *)
(* second later, registers the services that want it in a goroutine of its *)
(* own; the signal handler shuts the server down, with one goroutine per   *)
(* service that tries to unregister it, or reloads the configuration.      *)
(*                                                                         *)
(* A call of the Registry is one step: its mutex keeps the calls apart,    *)
(* and Registration models what happens inside.  It may fail, with or      *)
(* without an effect on the node of the service.  A node of an earlier     *)
(* process with the same host and port may still be there at the start.    *)
(* The store's goroutine puts every key it remembers again when a session  *)
(* comes back, also those that were unregistered meanwhile.                *)
(*                                                                         *)
(* Of the two delays only their order matters: the pause before a second   *)
(* attempt to unregister, three seconds, ends after the second the         *)
(* registration waits for.                                                 *)
(***************************************************************************)
EXTENDS Naturals, FiniteSets

CONSTANTS
  Services,     \* the services to be registered
  MaxSignals,   \* bound on the signals
  MaxErrors,    \* bound on the failed calls of the Registry
  MaxExpiries,  \* bound on the returns of its connection to the store
  MaxRpcs       \* bound on the RPCs

ASSUME BoundsAssumption == {MaxSignals, MaxErrors, MaxExpiries, MaxRpcs} \subseteq Nat

VARIABLES
  serving,   \* the gRPC server
  process,   \* how far its start has come, "running", or how it ended
  registry,  \* the configuration has an address of the registry
  wanted,    \* the services to be announced (~NoRegistration)
  handler,   \* where handleSignal is
  reg, todo, \* the registering goroutine, and the services it has yet to register
  unreg,     \* the goroutine of Shutdown for each service
  tries,     \* its failed attempts
  node,      \* whose node each service has
  leftover,  \* the services that had a node of an earlier process at the start
  ephemerals,  \* the services the store puts again when a session comes back
  replay,    \* those it has yet to put
  revived,   \* history: the services it has announced again
  rpcs,      \* the RPCs in progress
  signals, errors, expiries, rpcsStarted

setupVars == <<registry, wanted>>
grpcVars  == <<setupVars, serving, rpcs, rpcsStarted>>
regVars   == <<reg, todo>>
unregVars == <<unreg, tries>>
replayVars == <<replay, revived, expiries>>
storeVars == <<leftover, replayVars>>
nodeVars  == <<node, ephemerals, storeVars, errors>>
vars == <<grpcVars, process, handler, regVars, unregVars, nodeVars, signals>>

Retry == 3

Running == process = "running"

Init ==
  /\ process = "config" /\ registry = FALSE /\ wanted = {}
  /\ serving = "listening" /\ handler = "starting"
  /\ reg = "sleeping" /\ todo = {}
  /\ unreg = [k \in Services |-> "idle"] /\ tries = [k \in Services |-> 0]
  /\ node \in [Services -> {"none", "earlier"}]
  /\ leftover = {k \in Services : node[k] = "earlier"}
  /\ ephemerals = {} /\ replay = {} /\ revived = {} /\ expiries = 0
  /\ rpcs = 0 /\ rpcsStarted = 0 /\ signals = 0 /\ errors = 0

(***************************************************************************)
(* Before Start.  logrus.Fatal ends the process.                           *)
(***************************************************************************)
Setup(from, to) ==
  /\ process = from /\ process' = to
  /\ UNCHANGED <<serving, rpcs, rpcsStarted, handler, reg, unregVars, nodeVars, signals>>

\* Without a file there is no configuration; one that cannot be read or parsed, or
\* that names no application, is refused.
GetConfFromFile ==
  \/ Setup("config", "new") /\ registry' \in BOOLEAN /\ UNCHANGED <<wanted, todo>>
  \/ Setup("config", "killed") /\ UNCHANGED <<setupVars, todo>>

NewServer ==
  /\ \/ Setup("new", "offering")
     \/ registry /\ Setup("new", "killed")
  /\ UNCHANGED <<setupVars, todo>>

\* A service that wants to be announced needs the registry; a second one of the
\* same name replaces the first.
Register(k, announce) ==
  /\ IF announce /\ ~registry THEN Setup("offering", "killed") /\ UNCHANGED wanted
     ELSE /\ Setup("offering", "offering")
          /\ wanted' = IF announce THEN wanted \cup {k} ELSE wanted \ {k}
  /\ UNCHANGED <<registry, todo>>

\* Mutant of Start: NoRegistration is forgotten.
StartMutant ==
  /\ Setup("offering", "running") /\ todo' = Services
  /\ UNCHANGED setupVars

\* The port may be taken.
Start ==
  /\ \/ Setup("offering", "running") /\ todo' = wanted
     \/ Setup("offering", "killed") /\ UNCHANGED todo
  /\ UNCHANGED setupVars

(***************************************************************************)
(* Start                                                                   *)
(***************************************************************************)
Serve ==
  /\ Running /\ serving = "listening"
  /\ serving' = "serving"
  /\ UNCHANGED <<setupVars, rpcs, rpcsStarted, process, handler, regVars, unregVars, nodeVars, signals>>

ServeFails ==
  /\ Running /\ serving = "serving"
  /\ serving' = "failed"
  /\ UNCHANGED <<setupVars, rpcs, rpcsStarted, process, handler, regVars, unregVars, nodeVars, signals>>

\* The process ends.  When the configuration names ZooKeeper servers, which need
\* not be those of the registry, the session is closed, which deletes its nodes,
\* or, without a registry, a nil pointer dereferenced.
StartReturns ==
  /\ Running /\ serving \in {"failed", "stopped"}
  /\ \/ process' = "returned" /\ UNCHANGED node
     \/ /\ registry /\ process' = "returned"
        /\ node' = [k \in Services |-> IF node[k] = "own" THEN "none" ELSE node[k]]
     \/ ~registry /\ process' = "panicked" /\ UNCHANGED node
  /\ UNCHANGED <<grpcVars, handler, regVars, unregVars, ephemerals, storeVars, errors, signals>>

(***************************************************************************)
(* The registering goroutine.  It reads the err that Serve's return        *)
(* assigns without synchronisation, so it may miss a failure.              *)
(***************************************************************************)
RegWakes ==
  /\ Running /\ reg = "sleeping"
  /\ \/ reg' = "registering"
     \/ serving = "failed" /\ reg' = "done"
  /\ UNCHANGED <<grpcVars, process, handler, todo, unregVars, nodeVars, signals>>

\* The node of k after a call that answers, or one that does not.
Effect(k, owner) == node' = [node EXCEPT ![k] = owner]

Error == errors < MaxErrors /\ errors' = errors + 1

\* Mutant of RegisterService: a service is registered over and over again.
RegisterServiceMutant(k) ==
  /\ Running /\ reg = "registering" /\ k \in todo
  /\ Effect(k, "own") /\ ephemerals' = ephemerals \cup {k}
  /\ UNCHANGED <<grpcVars, process, handler, regVars, unregVars, storeVars, errors, signals>>

\* Delete and Put; an error may come before, between or after the two, and the
\* store remembers the key even if the node could not be created.
RegisterService(k) ==
  /\ Running /\ reg = "registering" /\ k \in todo
  /\ todo' = todo \ {k}
  /\ \/ Effect(k, "own") /\ UNCHANGED errors
        /\ ephemerals' = ephemerals \cup {k}
     \/ Error /\ \/ \E owner \in {node[k], "none"} : Effect(k, owner) /\ UNCHANGED ephemerals
                 \/ \E owner \in {"none", "own"} :
                      Effect(k, owner) /\ ephemerals' = ephemerals \cup {k}
  /\ UNCHANGED <<grpcVars, process, handler, reg, unregVars, storeVars, signals>>

RegDone ==
  /\ Running /\ reg = "registering" /\ todo = {}
  /\ reg' = "done"
  /\ UNCHANGED <<grpcVars, process, handler, todo, unregVars, nodeVars, signals>>

(***************************************************************************)
(* handleSignal.  sigChan has no buffer and signal.Notify does not wait: a *)
(* signal is dropped unless the handler is at its receive.  Before Notify  *)
(* it ends the process.                                                    *)
(***************************************************************************)
HandlerMoves(from, to) ==
  /\ Running /\ handler = from /\ handler' = to
  /\ UNCHANGED <<grpcVars, process, regVars, unregVars, nodeVars, signals>>

Notify  == HandlerMoves("starting", "looping")
Listens == HandlerMoves("looping", "receiving")

Signal == Running /\ signals < MaxSignals /\ signals' = signals + 1

SignalTooEarly ==
  /\ Signal /\ handler = "starting"
  /\ process' = "killed"
  /\ UNCHANGED <<grpcVars, handler, regVars, unregVars, nodeVars>>

\* SIGUSR1: a configuration file that cannot be read ends the process, any other
\* blocks the handler: the channels of qpsChan are nil.
ReloadConfig ==
  /\ Signal /\ handler = "receiving"
  /\ \/ process' = "killed" /\ UNCHANGED handler
     \/ handler' = "reloading" /\ UNCHANGED process
  /\ UNCHANGED <<grpcVars, regVars, unregVars, nodeVars>>

\* SIGINT or SIGTERM.
Shutdown ==
  /\ Signal /\ handler = "receiving"
  /\ handler' = "waiting"
  /\ unreg' = [k \in Services |-> IF k \in wanted THEN "calling" ELSE "idle"]
  /\ UNCHANGED <<grpcVars, process, regVars, tries, nodeVars>>

\* An attempt fails for k: the last one, or it is followed by a pause.
\* Mutants of Fails: there is no last attempt; there is one more.
FailsMutant(k) == unreg' = [unreg EXCEPT ![k] = "asleep"] /\ UNCHANGED tries

FailsOnceMoreMutant(k) ==
  /\ tries' = [tries EXCEPT ![k] = @ + 1]
  /\ unreg' = [unreg EXCEPT ![k] = IF tries'[k] > Retry THEN "failed" ELSE "asleep"]

Fails(k) ==
  /\ tries' = [tries EXCEPT ![k] = @ + 1]
  /\ unreg' = [unreg EXCEPT ![k] = IF tries'[k] = Retry THEN "failed" ELSE "asleep"]

\* A service without a node is an error as well.
UnRegisterService(k) ==
  /\ Running /\ unreg[k] = "calling"
  /\ \/ /\ node[k] # "none" /\ Effect(k, "none")
        /\ unreg' = [unreg EXCEPT ![k] = "ok"]
        /\ UNCHANGED <<tries, errors>>
     \/ node[k] = "none" /\ Fails(k) /\ UNCHANGED <<node, errors>>
     \/ Error /\ Fails(k) /\ \E owner \in {node[k], "none"} : Effect(k, owner)
  /\ UNCHANGED <<grpcVars, process, handler, regVars, ephemerals, storeVars, signals>>

TriesAgain(k) ==
  /\ Running /\ unreg[k] = "asleep" /\ reg # "sleeping"
  /\ unreg' = [unreg EXCEPT ![k] = "calling"]
  /\ UNCHANGED <<grpcVars, process, handler, regVars, tries, nodeVars, signals>>

\* Mutant of GracefulStop: Shutdown does not wait for its goroutines.
GracefulStopMutant ==
  /\ Running /\ handler = "waiting"
  /\ handler' = "draining"
  /\ serving' = IF serving = "failed" THEN serving ELSE "draining"
  /\ UNCHANGED <<setupVars, rpcs, rpcsStarted, process, regVars, unregVars, nodeVars, signals>>

\* wg.Wait, and GracefulStop closes the listener.
GracefulStop ==
  /\ Running /\ handler = "waiting"
  /\ \A k \in wanted : unreg[k] \in {"ok", "failed"}
  /\ handler' = "draining"
  /\ serving' = IF serving = "failed" THEN serving ELSE "draining"
  /\ UNCHANGED <<setupVars, rpcs, rpcsStarted, process, regVars, unregVars, nodeVars, signals>>

\* The last RPC is over: GracefulStop returns, and so does Serve.
Drained ==
  /\ Running /\ handler = "draining" /\ rpcs = 0
  /\ handler' = "returned"
  /\ serving' = IF serving = "failed" THEN serving ELSE "stopped"
  /\ UNCHANGED <<setupVars, rpcs, rpcsStarted, process, regVars, unregVars, nodeVars, signals>>

SignalDropped ==
  /\ Signal /\ handler \notin {"starting", "receiving"}
  /\ UNCHANGED <<grpcVars, process, handler, regVars, unregVars, nodeVars>>

(***************************************************************************)
(* The store: the connection comes back, perhaps in a new session after    *)
(* the old one expired, and New's goroutine puts the keys again, each in a *)
(* step of its own.                                                        *)
(***************************************************************************)
SessionReturns ==
  /\ Running /\ expiries < MaxExpiries
  /\ expiries' = expiries + 1
  /\ node' \in {node, [k \in Services |-> IF node[k] = "own" THEN "none" ELSE node[k]]}
  /\ replay' = ephemerals
  /\ UNCHANGED <<grpcVars, process, handler, regVars, unregVars, ephemerals, leftover, revived,
                 errors, signals>>

\* A node that is there keeps its owner; an error of Put is only printed.
PutAgain(k) ==
  /\ Running /\ k \in replay
  /\ replay' = replay \ {k}
  /\ \/ node[k] = "none" /\ Effect(k, "own") /\ revived' = revived \cup {k} /\ UNCHANGED errors
     \/ node[k] # "none" /\ UNCHANGED <<node, revived, errors>>
     \/ node[k] = "none" /\ Error /\ UNCHANGED <<node, revived>>
  /\ UNCHANGED <<grpcVars, process, handler, regVars, unregVars, ephemerals, leftover, expiries,
                 signals>>

(***************************************************************************)
(* The environment                                                         *)
(***************************************************************************)
RpcStarts ==
  /\ Running /\ serving = "serving" /\ rpcsStarted < MaxRpcs
  /\ rpcs' = rpcs + 1 /\ rpcsStarted' = rpcsStarted + 1
  /\ UNCHANGED <<setupVars, serving, process, handler, regVars, unregVars, nodeVars, signals>>

RpcEnds ==
  /\ Running /\ rpcs > 0
  /\ rpcs' = rpcs - 1
  /\ UNCHANGED <<setupVars, serving, rpcsStarted, process, handler, regVars, unregVars, nodeVars, signals>>

EarlierSessionExpires(k) ==
  /\ node[k] = "earlier" /\ Effect(k, "none")
  /\ UNCHANGED <<grpcVars, process, handler, regVars, unregVars, ephemerals, storeVars, errors,
                 signals>>

-----------------------------------------------------------------------------
RegStep == RegWakes \/ (\E k \in Services : RegisterService(k)) \/ RegDone

ShutdownStep ==
  \/ \E k \in Services : UnRegisterService(k) \/ TriesAgain(k)
  \/ GracefulStop \/ Drained

SetupStep ==
  \/ GetConfFromFile \/ NewServer \/ Start
  \/ \E k \in Services, announce \in BOOLEAN : Register(k, announce)

Next ==
  \/ SetupStep
  \/ Serve \/ ServeFails \/ StartReturns \/ RegStep
  \/ Notify \/ Listens
  \/ SignalTooEarly \/ ReloadConfig \/ Shutdown \/ SignalDropped
  \/ ShutdownStep
  \/ SessionReturns \/ (\E k \in Services : PutAgain(k))
  \/ RpcStarts \/ RpcEnds
  \/ \E k \in Services : EarlierSessionExpires(k)

Spec == Init /\ [][Next]_vars

\* Fairness: goroutines run, and RPCs end (UnaryTimeOut bounds those of the
\* clients of this framework).
Fairness ==
  /\ WF_vars(RegStep) /\ WF_vars(ShutdownStep)
  /\ WF_vars(StartReturns) /\ WF_vars(RpcEnds)

FairSpec == Spec /\ Fairness

-----------------------------------------------------------------------------
(* Properties *)

\* The types of the variables.
TypeOK ==
  /\ serving \in {"listening", "serving", "failed", "draining", "stopped"}
  /\ process \in {"config", "new", "offering", "running", "returned", "killed", "panicked"}
  /\ registry \in BOOLEAN /\ wanted \subseteq Services
  /\ handler \in {"starting", "looping", "receiving", "reloading", "waiting",
                  "draining", "returned"}
  /\ reg \in {"sleeping", "registering", "done"} /\ todo \subseteq Services
  /\ unreg \in [Services -> {"idle", "calling", "asleep", "ok", "failed"}]
  /\ tries \in [Services -> 0..Retry]
  /\ node \in [Services -> {"none", "own", "earlier"}] /\ leftover \subseteq Services
  /\ ephemerals \subseteq Services /\ replay \subseteq Services /\ revived \subseteq Services
  /\ {rpcs, rpcsStarted, signals, errors, expiries} \subseteq Nat

\* A server that no longer accepts calls is not announced any more, except for
\* services that three attempts could not unregister, those where Shutdown
\* unregistered an earlier process' node before the service itself was
\* registered, and those the store announced again after an expiry
\* (Shutdown, lines 182-206; serveAndRegister, lines 130-144).
HiddenBeforeDraining ==
  serving \in {"draining", "stopped"} =>
    \A k \in Services : node[k] = "own" => unreg[k] = "failed" \/ k \in leftover \cup revived

\* A service registered late, between attempts of Shutdown, does not escape it:
\* once unregistered it is not announced again, unless by the store.
NotAnnouncedAgain ==
  \A k \in Services \ (leftover \cup revived) : unreg[k] = "ok" => node[k] # "own"

\* A service is announced only by a server that was told to, whatever is replayed
\* or repeated, and only through a registry that is there (Register, lines 65-79;
\* serveAndRegister, lines 133-140).
OnlyWantedAnnounced ==
  \A k \in Services : node[k] = "own" => k \in wanted /\ registry

\* Once Shutdown has begun, the process ends.
ShutdownEnds == handler = "waiting" ~> ~Running
=============================================================================
