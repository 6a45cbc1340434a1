-------------------------------- MODULE Client --------------------------------
(***************************************************************************)
(* A client process: goroutines that call NewClient, and calls through the *)
(* connections they got.                                                   *)
(***************************************************************************)
EXTENDS Calls

vars == <<clientVars, callVars>>

Init == ClientInit /\ CallInit

Others == UNCHANGED <<tableVars, sharedVars, gotVars, annVars, pc, conf, met>>

Next ==
  \/ ClientNext /\ UNCHANGED callVars
  \/ CallNext /\ Others

Spec == Init /\ [][Next]_vars

\* Fairness: time passes, and gRPC ends a call whose deadline is over.
Fairness ==
  \A g \in Callers : /\ WF_vars(Tarries(g) /\ Others)
                     /\ WF_vars(DeadlineExceeded(g) /\ Others)

FairSpec == Spec /\ Fairness

\* The types of the variables.
TypeOK == ClientTypeOK /\ CallTypeOK
=============================================================================
