--------------------------------- MODULE Calls ---------------------------------
(***************************************************************************)
(* The calls of a client through the interceptors that NewClient chained:  *)
(* the user's own first, then pass_metadata, for a unary call timeout, and *)
(* monitor.  The user's interceptor may ask the rest of the chain again    *)
(* (a retry).  One pass through that rest is an attempt: the picked        *)
(* backend may answer at once, late or never.                              *)
(*                                                                         *)
(* A context is a value: what an attempt adds to it, the deadline and the  *)
(* trace ids of the incoming call, is gone with it.  The ids change        *)
(* nothing else and are left out.  attempt is an external view of what the *)
(* invoker and the streamer of gRPC do.                                    *)
(***************************************************************************)
EXTENDS NewClient

CONSTANTS
  MaxTries,    \* bound on the attempts of a call
  MaxCalls     \* bound on the calls of all the clients

ASSUME CallBounds == {MaxTries, MaxCalls} \subseteq Nat

VARIABLES
  logger,     \* SetMonitorLog was called
  call,       \* where the call of each client is
  kind,       \* unary or stream
  deadline,   \* the deadline of the attempt: the caller's, the client's or none
  slow,       \* the attempt took longer than the threshold of the monitor
  tries,
  calls

callVars == <<logger, call, kind, deadline, slow, tries, calls>>

CallInit ==
  /\ logger = FALSE
  /\ call = [g \in Callers |-> "idle"] /\ kind = [g \in Callers |-> "unary"]
  /\ deadline = [g \in Callers |-> "none"] /\ slow = [g \in Callers |-> FALSE]
  /\ tries = [g \in Callers |-> 0] /\ calls = 0

\* A call needs a client that is ready, and a process.
In(g, where) == Running /\ pc[g] = "ready" /\ call[g] = where
Comes(g, to) == call' = [call EXCEPT ![g] = to]

SetMonitorLog ==
  /\ Running /\ ~logger /\ logger' = TRUE
  /\ UNCHANGED <<process, call, kind, deadline, slow, tries, calls>>

\* A call on a context that may have a deadline.
Invoked(g, k) ==
  /\ In(g, "idle") /\ Comes(g, "user")
  /\ calls < MaxCalls /\ calls' = calls + 1
  /\ kind' = [kind EXCEPT ![g] = k]
  /\ \E d \in {"none", "caller"} : deadline' = [deadline EXCEPT ![g] = d]
  /\ UNCHANGED <<process, logger, slow, tries>>

HelloWorld(g) == Invoked(g, "unary")
NewStream(g)  == Invoked(g, "stream")

\* UnaryTimeOut, on the deadline of the caller's context.
\* Mutant of TimeOut: the test for a deadline is inverted.
TimeOutMutant(g) ==
  IF kind[g] = "unary" /\ deadline[g] = "caller" THEN "client" ELSE deadline[g]
TimeOut(g) ==
  IF kind[g] = "unary" /\ deadline[g] = "none" THEN "client" ELSE deadline[g]

Attempt(g) ==
  /\ In(g, "user") /\ tries[g] < MaxTries
  /\ Comes(g, "attempt") /\ tries' = [tries EXCEPT ![g] = @ + 1]
  /\ deadline' = [deadline EXCEPT ![g] = TimeOut(g)]
  /\ slow' = [slow EXCEPT ![g] = FALSE]
  /\ UNCHANGED <<process, logger, kind, calls>>

\* Time passes the threshold.
Tarries(g) ==
  /\ In(g, "attempt") /\ ~slow[g]
  /\ slow' = [slow EXCEPT ![g] = TRUE]
  /\ UNCHANGED <<process, logger, call, kind, deadline, tries, calls>>

\* The attempt ended, by an answer or by its deadline; printMonitorLog writes
\* nothing about a quick one, and dereferences the logger otherwise.
Monitored(g) ==
  /\ IF slow[g] /\ ~logger THEN process' = "panicked" /\ UNCHANGED call
                           ELSE Comes(g, "user") /\ UNCHANGED process
  /\ deadline' = [deadline EXCEPT ![g] = IF @ = "client" THEN "none" ELSE @]
  /\ UNCHANGED <<logger, kind, slow, tries, calls>>

Answered(g) == In(g, "attempt") /\ Monitored(g)

\* A deadline is reached, late.
DeadlineExceeded(g) ==
  /\ In(g, "attempt") /\ deadline[g] # "none" /\ slow[g]
  /\ Monitored(g)

\* The user's interceptor, and with it the call, returns.
CallReturns(g) ==
  /\ In(g, "user") /\ tries[g] > 0
  /\ Comes(g, "idle")
  /\ kind' = [kind EXCEPT ![g] = "unary"] /\ deadline' = [deadline EXCEPT ![g] = "none"]
  /\ slow' = [slow EXCEPT ![g] = FALSE] /\ tries' = [tries EXCEPT ![g] = 0]
  /\ UNCHANGED <<process, logger, calls>>

CallNext ==
  \/ SetMonitorLog
  \/ \E g \in Callers : \/ HelloWorld(g) \/ NewStream(g) \/ Attempt(g) \/ Tarries(g)
                        \/ Answered(g) \/ DeadlineExceeded(g) \/ CallReturns(g)

-----------------------------------------------------------------------------
CallTypeOK ==
  /\ logger \in BOOLEAN
  /\ call \in [Callers -> {"idle", "user", "attempt"}] /\ kind \in [Callers -> {"unary", "stream"}]
  /\ deadline \in [Callers -> {"none", "caller", "client"}] /\ slow \in [Callers -> BOOLEAN]
  /\ tries \in [Callers -> 0..MaxTries] /\ calls \in 0..MaxCalls

\* An attempt of a unary call ends, whether the backend answers or not, unless the
\* process does (client_timeout.go, lines 10-21).  The graceful stop of a server
\* relies on it.
UnaryEnds ==
  \A g \in Callers : (call[g] = "attempt" /\ kind[g] = "unary") ~> (call[g] # "attempt" \/ ~Running)
=============================================================================
