------------------------------ MODULE StoreSystem ------------------------------
(***************************************************************************)
(* The store as a whole: clients that work on keys, one Watch goroutine    *)
(* and a lock, over the same ensemble.                                     *)
(***************************************************************************)
EXTENDS StoreWatch, StoreLock

vars == <<storeVars, watchVars, lockVars>>

Init == StoreInit /\ WatchInit /\ LockInit

Next ==
  \/ StoreNext /\ Fires /\ UNCHANGED lockVars
  \/ WatchNext /\ UNCHANGED lockVars
  \/ LockNext /\ UNCHANGED <<nodeVars, opVars, snapshot, result, watchVars>>

Spec == Init /\ [][Next]_vars

\* The types of the variables.
TypeOK == StoreTypeOK /\ WatchTypeOK /\ LockTypeOK
=============================================================================
