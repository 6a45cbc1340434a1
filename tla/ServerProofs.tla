----------------------------- MODULE ServerProofs -----------------------------
(***************************************************************************)
(* The safety of Server for any set of services and any bounds.  The two   *)
(* properties are not inductive: a late registration is harmless only      *)
(* because a service that never had an earlier process' node can be        *)
(* unregistered only after it was registered, and nothing registers it     *)
(* twice.  RegInv says so, and that the store puts again only what was     *)
(* registered; PhaseInv ties the goroutines of Shutdown to the handler     *)
(* that started them; SetupInv says that nothing of this has begun before  *)
(* Start, and WantedInv that all of it is about the services Register was  *)
(* told to announce.                                                       *)
(***************************************************************************)
EXTENDS Server, TLAPS

TypeInv ==
  /\ serving \in {"listening", "serving", "failed", "draining", "stopped"}
  /\ process \in {"config", "new", "offering", "running", "returned", "killed", "panicked"}
  /\ registry \in BOOLEAN /\ wanted \subseteq Services
  /\ handler \in {"starting", "looping", "receiving", "reloading", "waiting",
                  "draining", "returned"}
  /\ reg \in {"sleeping", "registering", "done"} /\ todo \subseteq Services
  /\ unreg \in [Services -> {"idle", "calling", "asleep", "ok", "failed"}]
  /\ tries \in [Services -> Nat]
  /\ node \in [Services -> {"none", "own", "earlier"}] /\ leftover \subseteq Services
  /\ ephemerals \subseteq Services /\ replay \subseteq Services /\ revived \subseteq Services
  /\ rpcs \in Nat /\ rpcsStarted \in Nat
  /\ signals \in Nat /\ errors \in Nat /\ expiries \in Nat

BeforeShutdown == handler \in {"starting", "looping", "receiving", "reloading"}
AfterShutdown  == handler \in {"draining", "returned"}

PhaseInv ==
  /\ BeforeShutdown => \A k \in Services : unreg[k] = "idle"
  /\ AfterShutdown => \A k \in wanted : unreg[k] \in {"ok", "failed"}
  /\ serving \in {"draining", "stopped"} => AfterShutdown

TriesInv ==
  \A k \in Services :
    /\ tries[k] <= Retry
    /\ unreg[k] \in {"idle", "calling", "asleep"} => tries[k] < Retry

RegInv ==
  \A k \in Services :
    /\ k \in ephemerals \cup replay => k \notin todo
    /\ node[k] = "earlier" => k \in leftover
    /\ node[k] = "own" => k \notin todo
    /\ (unreg[k] = "ok" /\ k \notin leftover) => k \notin todo
    /\ (unreg[k] = "ok" /\ k \notin leftover \cup revived) => node[k] # "own"

SettingUp == process \in {"config", "new", "offering"}

SetupInv ==
  /\ process = "config" => wanted = {}
  /\ SettingUp => /\ serving = "listening" /\ handler = "starting" /\ reg = "sleeping"
                  /\ todo = {} /\ ephemerals = {} /\ replay = {} /\ revived = {}
                  /\ \A k \in Services : unreg[k] = "idle" /\ node[k] # "own"

WantedInv ==
  /\ todo \cup ephemerals \cup replay \subseteq wanted
  /\ \A k \in Services : node[k] = "own" \/ unreg[k] # "idle" => k \in wanted
  /\ wanted # {} => registry

IInv == TypeInv /\ PhaseInv /\ TriesInv /\ RegInv /\ SetupInv /\ WantedInv

-----------------------------------------------------------------------------
(* The invariant at the start *)

LEMMA InitIInv == Init => IInv
<1> SUFFICES ASSUME Init PROVE IInv
  OBVIOUS
<1> USE DEF Init
<1>1. node \in [Services -> {"none", "own", "earlier"}]
  OBVIOUS
<1>2. TypeInv
  BY <1>1 DEF TypeInv
<1>3. PhaseInv
  BY DEF PhaseInv, BeforeShutdown, AfterShutdown
<1>4. TriesInv
  BY DEF TriesInv, Retry
<1>5. RegInv
  BY DEF RegInv
<1>6. SetupInv /\ WantedInv
  BY DEF SetupInv, SettingUp, WantedInv
<1> QED
  BY <1>2, <1>3, <1>4, <1>5, <1>6 DEF IInv

-----------------------------------------------------------------------------
(* Its steps, one conjunct at a time *)

LEMMA TypeStep == IInv /\ [Next]_vars => TypeInv'
<1> SUFFICES ASSUME TypeInv, [Next]_vars PROVE TypeInv'
  BY DEF IInv
<1> USE DEF TypeInv, grpcVars, setupVars, regVars, unregVars, nodeVars, storeVars, replayVars, Running
<1>1. CASE Serve \/ ServeFails
  BY <1>1 DEF Serve, ServeFails
<1>2. CASE StartReturns
  BY <1>2 DEF StartReturns
<1>3. CASE RegWakes \/ RegDone
  BY <1>3 DEF RegWakes, RegDone
<1>4. ASSUME NEW k \in Services, RegisterService(k) PROVE TypeInv'
  BY <1>4 DEF RegisterService, Effect, Error
<1>5. CASE Notify \/ Listens
  BY <1>5 DEF Notify, Listens, HandlerMoves
<1>6. CASE SignalTooEarly \/ ReloadConfig \/ Shutdown \/ SignalDropped
  BY <1>6 DEF SignalTooEarly, ReloadConfig, Shutdown, SignalDropped, Signal
<1>7. ASSUME NEW k \in Services, UnRegisterService(k) PROVE TypeInv'
  BY <1>7 DEF UnRegisterService, Effect, Error, Fails
<1>8. ASSUME NEW k \in Services, TriesAgain(k) PROVE TypeInv'
  BY <1>8 DEF TriesAgain
<1>9. CASE GracefulStop \/ Drained
  BY <1>9 DEF GracefulStop, Drained
<1>10. CASE RpcStarts \/ RpcEnds
  BY <1>10 DEF RpcStarts, RpcEnds
<1>11. ASSUME NEW k \in Services, EarlierSessionExpires(k) PROVE TypeInv'
  BY <1>11 DEF EarlierSessionExpires, Effect
<1>12. CASE SessionReturns
  BY <1>12 DEF SessionReturns
<1>13. ASSUME NEW k \in Services, PutAgain(k) PROVE TypeInv'
  BY <1>13 DEF PutAgain, Effect, Error
<1>14. CASE UNCHANGED vars
  BY <1>14 DEF vars
<1>15. CASE GetConfFromFile \/ NewServer \/ Start
  BY <1>15 DEF GetConfFromFile, NewServer, Start, Setup
<1>16. ASSUME NEW k \in Services, NEW announce \in BOOLEAN, Register(k, announce) PROVE TypeInv'
  BY <1>16 DEF Register, Setup
<1> QED
  BY <1>1, <1>2, <1>3, <1>4, <1>5, <1>6, <1>7, <1>8, <1>9, <1>10, <1>11, <1>12, <1>13,
     <1>14, <1>15, <1>16
  DEF Next, RegStep, ShutdownStep, SetupStep

LEMMA PhaseStep == IInv /\ [Next]_vars => PhaseInv'
<1> SUFFICES ASSUME TypeInv, PhaseInv, SetupInv, [Next]_vars PROVE PhaseInv'
  BY DEF IInv
<1> USE DEF TypeInv, PhaseInv, SetupInv, SettingUp, BeforeShutdown, AfterShutdown,
            grpcVars, setupVars, regVars, unregVars, nodeVars, storeVars, replayVars, Running
<1>1. CASE Serve \/ ServeFails
  BY <1>1 DEF Serve, ServeFails
<1>2. CASE StartReturns
  BY <1>2 DEF StartReturns
<1>3. CASE RegWakes \/ RegDone
  BY <1>3 DEF RegWakes, RegDone
<1>4. ASSUME NEW k \in Services, RegisterService(k) PROVE PhaseInv'
  BY <1>4 DEF RegisterService
<1>5. CASE Notify \/ Listens
  BY <1>5 DEF Notify, Listens, HandlerMoves
<1>6. CASE SignalTooEarly \/ ReloadConfig \/ Shutdown \/ SignalDropped
  BY <1>6 DEF SignalTooEarly, ReloadConfig, Shutdown, SignalDropped
<1>7. ASSUME NEW k \in Services, UnRegisterService(k) PROVE PhaseInv'
  BY <1>7 DEF UnRegisterService, Fails
<1>8. ASSUME NEW k \in Services, TriesAgain(k) PROVE PhaseInv'
  BY <1>8 DEF TriesAgain
<1>9. CASE GracefulStop \/ Drained
  BY <1>9 DEF GracefulStop, Drained
<1>10. CASE RpcStarts \/ RpcEnds
  BY <1>10 DEF RpcStarts, RpcEnds
<1>11. ASSUME NEW k \in Services, EarlierSessionExpires(k) PROVE PhaseInv'
  BY <1>11 DEF EarlierSessionExpires
<1>12. CASE SessionReturns
  BY <1>12 DEF SessionReturns
<1>13. ASSUME NEW k \in Services, PutAgain(k) PROVE PhaseInv'
  BY <1>13 DEF PutAgain
<1>14. CASE UNCHANGED vars
  BY <1>14 DEF vars
<1>15. CASE GetConfFromFile \/ NewServer \/ Start
  BY <1>15 DEF GetConfFromFile, NewServer, Start, Setup
<1>16. ASSUME NEW k \in Services, NEW announce \in BOOLEAN, Register(k, announce) PROVE PhaseInv'
  BY <1>16 DEF Register, Setup
<1> QED
  BY <1>1, <1>2, <1>3, <1>4, <1>5, <1>6, <1>7, <1>8, <1>9, <1>10, <1>11, <1>12, <1>13,
     <1>14, <1>15, <1>16
  DEF Next, RegStep, ShutdownStep, SetupStep

\* Only Shutdown, UnRegisterService and TriesAgain move the attempts.
LEMMA TriesStep == IInv /\ [Next]_vars => TriesInv'
<1> SUFFICES ASSUME TypeInv, PhaseInv, TriesInv, [Next]_vars PROVE TriesInv'
  BY DEF IInv
<1> USE DEF TypeInv, TriesInv
<1>1. CASE UNCHANGED unregVars
  BY <1>1 DEF unregVars
<1>2. CASE Shutdown
  BY <1>2 DEF Shutdown, PhaseInv, BeforeShutdown, nodeVars
<1>3. ASSUME NEW k \in Services, UnRegisterService(k) PROVE TriesInv'
  BY <1>3 DEF UnRegisterService, Fails, Retry
<1>4. ASSUME NEW k \in Services, TriesAgain(k) PROVE TriesInv'
  BY <1>4 DEF TriesAgain, nodeVars
<1>5. UNCHANGED unregVars \/ Shutdown
        \/ \E k \in Services : UnRegisterService(k) \/ TriesAgain(k)
  BY DEF Next, RegStep, ShutdownStep, vars, Serve, ServeFails, StartReturns, RegWakes,
     RegDone, RegisterService, Notify, Listens, HandlerMoves, SignalTooEarly,
     ReloadConfig, SignalDropped, GracefulStop, Drained, RpcStarts, RpcEnds,
     EarlierSessionExpires, SessionReturns, PutAgain, SetupStep, Setup, GetConfFromFile,
     NewServer, Register, Start
<1> QED
  BY <1>1, <1>2, <1>3, <1>4, <1>5

\* What RegInv speaks of changes in StartReturns, RegisterService, Shutdown,
\* UnRegisterService, TriesAgain, SessionReturns, PutAgain, EarlierSessionExpires
\* and Start.
LEMMA RegInvStep == IInv /\ [Next]_vars => RegInv'
<1> SUFFICES ASSUME TypeInv, PhaseInv, RegInv, SetupInv, [Next]_vars PROVE RegInv'
  BY DEF IInv
<1> USE DEF TypeInv, RegInv, nodeVars, storeVars, replayVars, regVars, unregVars
<1> DEFINE known == <<node, leftover, revived, ephemerals, replay, todo, unreg>>
<1>1. CASE UNCHANGED known
  BY <1>1
<1>2. CASE StartReturns
  BY <1>2 DEF StartReturns
<1>3. ASSUME NEW k \in Services, RegisterService(k) PROVE RegInv'
  <2>1. /\ k \in todo /\ todo' = todo \ {k}
        /\ ephemerals' \in {ephemerals, ephemerals \cup {k}}
        /\ UNCHANGED <<leftover, revived, replay, unreg>>
    BY <1>3 DEF RegisterService
  <2>2. \E owner \in {node[k], "none", "own"} : node' = [node EXCEPT ![k] = owner]
    BY <1>3 DEF RegisterService, Effect
  <2> QED
    BY <2>1, <2>2
<1>4. CASE Shutdown
  BY <1>4 DEF Shutdown, PhaseInv, BeforeShutdown
<1>5. ASSUME NEW k \in Services, UnRegisterService(k) PROVE RegInv'
  <2>1. UNCHANGED <<leftover, revived, ephemerals, replay, todo>>
    BY <1>5 DEF UnRegisterService
  <2>2. CASE node[k] # "none" /\ Effect(k, "none") /\ unreg' = [unreg EXCEPT ![k] = "ok"]
    BY <2>1, <2>2 DEF Effect
  <2>3. CASE Fails(k) /\ \E owner \in {node[k], "none"} : Effect(k, owner)
    BY <2>1, <2>3 DEF Effect, Fails
  <2>4. CASE Fails(k) /\ UNCHANGED node
    BY <2>1, <2>4 DEF Fails
  <2> QED
    BY <1>5, <2>2, <2>3, <2>4 DEF UnRegisterService
<1>6. ASSUME NEW k \in Services, TriesAgain(k) PROVE RegInv'
  BY <1>6 DEF TriesAgain
<1>7. ASSUME NEW k \in Services, EarlierSessionExpires(k) PROVE RegInv'
  BY <1>7 DEF EarlierSessionExpires, Effect
<1>8. CASE SessionReturns
  BY <1>8 DEF SessionReturns
<1>9. ASSUME NEW k \in Services, PutAgain(k) PROVE RegInv'
  BY <1>9 DEF PutAgain, Effect
<1>10. CASE Start
  BY <1>10 DEF Start, Setup, SetupInv, SettingUp
<1>11. \/ UNCHANGED known \/ StartReturns \/ Shutdown \/ SessionReturns \/ Start
       \/ \E k \in Services : \/ RegisterService(k) \/ UnRegisterService(k) \/ TriesAgain(k)
                              \/ EarlierSessionExpires(k) \/ PutAgain(k)
  BY DEF Next, RegStep, ShutdownStep, vars, Serve, ServeFails, RegWakes, RegDone, Notify,
     Listens, HandlerMoves, SignalTooEarly, ReloadConfig, SignalDropped, GracefulStop, Drained,
     RpcStarts, RpcEnds, SetupStep, Setup, GetConfFromFile, NewServer, Register
<1> QED
  BY <1>1, <1>2, <1>3, <1>4, <1>5, <1>6, <1>7, <1>8, <1>9, <1>10, <1>11

\* Everything but the set-up is a step of a running process, or touches only the
\* node of an earlier one.
LEMMA SetupInvStep == IInv /\ [Next]_vars => SetupInv'
<1> SUFFICES ASSUME TypeInv, SetupInv, [Next]_vars PROVE SetupInv'
  BY DEF IInv
<1> USE DEF TypeInv, SetupInv, SettingUp, grpcVars, setupVars, regVars, unregVars, nodeVars,
            storeVars, replayVars
<1>1. CASE UNCHANGED vars
  BY <1>1 DEF vars
<1>2. CASE GetConfFromFile \/ NewServer \/ Start
  BY <1>2 DEF GetConfFromFile, NewServer, Start, Setup
<1>3. ASSUME NEW k \in Services, NEW announce \in BOOLEAN, Register(k, announce) PROVE SetupInv'
  BY <1>3 DEF Register, Setup
<1>4. ASSUME NEW k \in Services, EarlierSessionExpires(k) PROVE SetupInv'
  BY <1>4 DEF EarlierSessionExpires, Effect
<1>5. CASE ~SettingUp /\ ~SettingUp'
  BY <1>5
<1>6. \/ UNCHANGED vars \/ GetConfFromFile \/ NewServer \/ Start
      \/ \E k \in Services, announce \in BOOLEAN : Register(k, announce)
      \/ \E k \in Services : EarlierSessionExpires(k)
      \/ ~SettingUp /\ ~SettingUp'
  BY DEF Next, RegStep, ShutdownStep, SetupStep, Running, Serve, ServeFails, StartReturns,
     RegWakes, RegisterService, RegDone, Notify, Listens, HandlerMoves, SignalTooEarly,
     ReloadConfig, Shutdown, SignalDropped, Signal, UnRegisterService, TriesAgain,
     GracefulStop, Drained, SessionReturns, PutAgain, RpcStarts, RpcEnds
<1> QED
  BY <1>1, <1>2, <1>3, <1>4, <1>5, <1>6

\* A node of this process comes from todo or replay, both from wanted.
LEMMA WantedInvStep == IInv /\ [Next]_vars => WantedInv'
<1> SUFFICES ASSUME TypeInv, WantedInv, SetupInv, [Next]_vars PROVE WantedInv'
  BY DEF IInv
<1> USE DEF TypeInv, WantedInv, SetupInv, SettingUp, grpcVars, setupVars, regVars, unregVars,
            nodeVars, storeVars, replayVars
<1> DEFINE known == <<node, ephemerals, replay, todo, unreg, wanted, registry>>
<1>1. CASE UNCHANGED known
  BY <1>1
<1>2. CASE StartReturns
  BY <1>2 DEF StartReturns
<1>3. ASSUME NEW k \in Services, RegisterService(k) PROVE WantedInv'
  <2>1. /\ k \in todo /\ todo' = todo \ {k}
        /\ ephemerals' \in {ephemerals, ephemerals \cup {k}}
        /\ UNCHANGED <<replay, unreg, wanted, registry>>
    BY <1>3 DEF RegisterService
  <2>2. \E owner \in {node[k], "none", "own"} : node' = [node EXCEPT ![k] = owner]
    BY <1>3 DEF RegisterService, Effect
  <2> QED
    BY <2>1, <2>2
<1>4. CASE Shutdown
  BY <1>4 DEF Shutdown
<1>5. ASSUME NEW k \in Services, UnRegisterService(k) PROVE WantedInv'
  <2>1. UNCHANGED <<ephemerals, replay, todo, wanted, registry>> /\ unreg[k] = "calling"
    BY <1>5 DEF UnRegisterService
  <2>2. \E owner \in {node[k], "none"} : node' = [node EXCEPT ![k] = owner]
    BY <1>5 DEF UnRegisterService, Effect
  <2>3. \E phase \in {"ok", "failed", "asleep"} : unreg' = [unreg EXCEPT ![k] = phase]
    BY <1>5 DEF UnRegisterService, Fails
  <2> QED
    BY <2>1, <2>2, <2>3
<1>6. ASSUME NEW k \in Services, TriesAgain(k) PROVE WantedInv'
  BY <1>6 DEF TriesAgain
<1>7. ASSUME NEW k \in Services, EarlierSessionExpires(k) PROVE WantedInv'
  BY <1>7 DEF EarlierSessionExpires, Effect
<1>8. CASE SessionReturns
  BY <1>8 DEF SessionReturns
<1>9. ASSUME NEW k \in Services, PutAgain(k) PROVE WantedInv'
  BY <1>9 DEF PutAgain, Effect
<1>10. CASE GetConfFromFile \/ NewServer \/ Start
  BY <1>10 DEF GetConfFromFile, NewServer, Start, Setup
<1>11. ASSUME NEW k \in Services, NEW announce \in BOOLEAN, Register(k, announce)
       PROVE WantedInv'
  BY <1>11 DEF Register, Setup
<1>12. \/ UNCHANGED known \/ StartReturns \/ Shutdown \/ SessionReturns
       \/ GetConfFromFile \/ NewServer \/ Start
       \/ \E k \in Services, announce \in BOOLEAN : Register(k, announce)
       \/ \E k \in Services : \/ RegisterService(k) \/ UnRegisterService(k) \/ TriesAgain(k)
                              \/ EarlierSessionExpires(k) \/ PutAgain(k)
  BY DEF Next, RegStep, ShutdownStep, SetupStep, vars, Serve, ServeFails, RegWakes, RegDone,
     Notify, Listens, HandlerMoves, SignalTooEarly, ReloadConfig, SignalDropped, GracefulStop,
     Drained, RpcStarts, RpcEnds
<1> QED
  BY <1>1, <1>2, <1>3, <1>4, <1>5, <1>6, <1>7, <1>8, <1>9, <1>10, <1>11, <1>12

LEMMA IInvAlways == Spec => []IInv
<1>1. IInv /\ [Next]_vars => IInv'
  BY TypeStep, PhaseStep, TriesStep, RegInvStep, SetupInvStep, WantedInvStep DEF IInv
<1> QED
  BY InitIInv, <1>1, PTL DEF Spec

-----------------------------------------------------------------------------
(* The theorems *)

\* Every variable of the server keeps its type; no service is tried more than
\* three times (Shutdown, lines 186-195).
THEOREM TypeCorrect == Spec => []TypeOK
<1>1. IInv => TypeOK
  BY DEF IInv, TypeInv, TriesInv, TypeOK, Retry
<1> QED
  BY <1>1, IInvAlways, PTL

\* A service that Shutdown unregistered is not announced again by the goroutine
\* that registers late, whatever the store does to the others
\* (serveAndRegister, lines 130-144).
THEOREM NeverAnnouncedAgain == Spec => []NotAnnouncedAgain
<1>1. IInv => NotAnnouncedAgain
  BY DEF IInv, RegInv, NotAnnouncedAgain
<1> QED
  BY <1>1, IInvAlways, PTL

\* A server that drains is not announced, except where unregistering failed,
\* Shutdown met the node of an earlier process, or the store put the key again
\* after an expiry (Shutdown, lines 182-206).
THEOREM AlwaysHiddenBeforeDraining == Spec => []HiddenBeforeDraining
<1>1. IInv => HiddenBeforeDraining
  BY DEF IInv, PhaseInv, RegInv, WantedInv, HiddenBeforeDraining
<1> QED
  BY <1>1, IInvAlways, PTL

\* Whatever is repeated, replayed or late, only a service that was offered with
\* NoRegistration unset has a node of this process, and then there is a registry
\* (Register, lines 65-79; serveAndRegister, lines 133-140).
THEOREM OnlyWantedAlways == Spec => []OnlyWantedAnnounced
<1>1. IInv => OnlyWantedAnnounced
  BY DEF IInv, WantedInv, OnlyWantedAnnounced
<1> QED
  BY <1>1, IInvAlways, PTL
=============================================================================
