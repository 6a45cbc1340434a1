--------------------------- MODULE BalancerWrapper ---------------------------
(***************************************************************************)
(* RoundRobinV1 under the adapter gRPC 1.17 (glide.yaml pins it) puts      *)
(* around a v1 balancer, balancerWrapper.  The adapter is not part of the  *)
(* repository; what matters of it is who calls the balancer under which    *)
(* lock:                                                                   *)
(*   - its lbWatcher goroutine receives the lists the balancer sends and   *)
(*     takes bw.mu to bring its connections in line with each of them      *)
(*     before it receives the next one;                                    *)
(*   - a state change of a connection is handled under bw.mu, which is     *)
(*     held while the balancer's Up or down callback runs;                 *)
(*   - the adapter's Close calls the balancer's Close under bw.mu.         *)
(***************************************************************************)
EXTENDS RoundRobinV1

VARIABLES
  lb,        \* lbWatcher: "receiving", or "applying" the list it received
  conns,     \* the addresses it keeps a connection for
  callback   \* the call into the balancer made under bw.mu, as a set

wrapperVars == <<lb, conns, callback>>
wvars == <<vars, wrapperVars>>

BwMutexFree == callback = {}

WInit == Init /\ lb = "receiving" /\ conns = {} /\ callback = {}

LbReceive ==
  /\ lb = "receiving" /\ Receive
  /\ lb' = "applying"
  /\ UNCHANGED <<conns, callback>>

LbApply ==
  /\ lb = "applying" /\ BwMutexFree
  /\ conns' = delivered /\ lb' = "receiving"
  /\ UNCHANGED <<vars, callback>>

\* A connection becomes ready, or one that was ready is lost or shut down: the
\* handler takes bw.mu and calls the balancer.
ReportsUp(a) == a \in conns \ ready

StateChange ==
  /\ BwMutexFree
  /\ \E a \in Address :
       \/ ReportsUp(a)  /\ callback' = {<<"up", a>>}
       \/ a \in ready   /\ callback' = {<<"down", a>>}
  /\ UNCHANGED <<vars, lb, conns>>

WrapperClose ==
  /\ BwMutexFree /\ ~done
  /\ callback' = {<<"close">>}
  /\ UNCHANGED <<vars, lb, conns>>

\* The balancer's side of the call; bw.mu is released when it returns.
CallbackReturns ==
  /\ \/ \E a \in Address : \/ callback = {<<"up", a>>}   /\ Up(a)
                           \/ callback = {<<"down", a>>} /\ Down(a)
     \/ callback = {<<"close">>} /\ Close
  /\ callback' = {}
  /\ UNCHANGED <<lb, conns>>

BalancerStep ==
  /\ \/ Start \/ WatchStep
     \/ \E g \in Getters : GetCall(g) \/ GetStep(g) \/ GetCancelled(g)
  /\ UNCHANGED wrapperVars

WNext == BalancerStep \/ LbReceive \/ LbApply \/ StateChange \/ WrapperClose
           \/ CallbackReturns

(***************************************************************************)
(* Fairness: the Go scheduler runs a goroutine that can move (the updating *)
(* one between two calls of Next; lbWatcher receives once it is back at    *)
(* the channel, which is what LbReceive asks for), and sync.Mutex hands a  *)
(* lock over to a goroutine that has waited for it long enough, hence      *)
(* strong fairness for the steps that need one of the two mutexes.         *)
(***************************************************************************)
WFairness ==
  /\ WF_wvars((\E u \in updates : ApplyUpdate(u)) /\ UNCHANGED wrapperVars)
  /\ WF_wvars(Publish /\ UNCHANGED wrapperVars)
  /\ WF_wvars(LbReceive) /\ SF_wvars(LbApply) /\ SF_wvars(CallbackReturns)
  /\ \A g \in Getters : SF_wvars(GetStep(g) /\ UNCHANGED wrapperVars)

WSpec == WInit /\ [][WNext]_wvars
WFairSpec == WSpec /\ WFairness

-----------------------------------------------------------------------------
(* Properties *)

\* gRPC gets notified: a list the balancer starts to send is received
\* (roundrobin_v1.go, line 97).
ListIsReceived == watch = "send" ~> watch # "send"

\* The list is being sent with rr.mu held, its receiver needs bw.mu, and bw.mu is
\* held by a call into the balancer that needs rr.mu.
LockCycle == watch = "send" /\ lb = "applying" /\ callback # {}

\* The only thing that keeps a caller of Get on the mutex for good is this cycle: not
\* a send under way, not a goroutine that left the balancer with the mutex locked,
\* not a Close in between (roundrobin_v1.go, lines 49-111 and 175-182).
GetStuckOnlyInCycle ==
  \A g \in Getters : pc[g] = "calling" ~> (pc[g] # "calling" \/ LockCycle)

\* A caller that waits in Get comes back once the balancer is closed; and also, but
\* for that cycle, if from some moment on there is always a connected address for it
\* (roundrobin_v1.go, lines 214-243, against Up, lines 156-160, and Close, 261-264).
WaiterReleased ==
  \A g \in Getters :
    /\ pc[g] = "waiting" /\ done ~> pc[g] = "idle"
    /\ <>[](GetAvailableAddrs(TRUE) # {}) =>
         [](pc[g] = "waiting" => <>(pc[g] # "waiting" \/ LockCycle))
=============================================================================
