------------------------------ MODULE StoreWatch ------------------------------
(***************************************************************************)
(* Watch: the goroutine that follows one key of the store.  It hands the   *)
(* pair of the first Get to its reader, and from then on sets a watch on   *)
(* the key (GetW, whose value is dropped), waits for its event, and hands  *)
(* over what a Get finds after a change of the data.                       *)
(***************************************************************************)
EXTENDS Store

VARIABLES
  watch,      \* where the goroutine is
  watched,    \* the key
  event,      \* the event of its watch
  taken,      \* the pair it has read
  shown       \* the pair its reader got last

watchVars == <<watch, watched, event, taken, shown>>

WatchInit ==
  /\ watch = "off" /\ watched = NoKey /\ event = "none"
  /\ taken = NoSnapshot /\ shown = NoSnapshot

WatchCalls == calls < MaxCalls /\ calls' = calls + 1

WatchUntouched == Unwritten /\ UNCHANGED <<opVars, snapshot, result>>

\* Watch returns an error when there is no such key.
Watch(k) ==
  /\ watch = "off" /\ k \in exists /\ WatchCalls
  /\ watch' = "sending" /\ watched' = k /\ taken' = PairOf(k)
  /\ WatchUntouched /\ UNCHANGED <<event, shown, failures>>

\* The reader receives.
WatchSends ==
  /\ watch = "sending"
  /\ shown' = taken /\ watch' = "arming"
  /\ WatchUntouched /\ UNCHANGED <<watched, event, taken, calls, failures>>

\* An error of GetW, and that there is no such key, end the goroutine.
WatchSets ==
  /\ watch = "arming" /\ WatchCalls
  /\ \/ watched \in exists /\ watch' = "waiting" /\ UNCHANGED failures
     \/ watched \notin exists /\ watch' = "closed" /\ UNCHANGED failures
     \/ Fails /\ watch' = "closed"
  /\ event' = "none"
  /\ WatchUntouched /\ UNCHANGED <<watched, taken, shown>>

\* Mutant of WatchWakes: the loop does not wait for the event.
WatchWakesMutant ==
  /\ watch = "waiting"
  /\ watch' = "reading"
  /\ WatchUntouched /\ UNCHANGED <<watched, event, taken, shown, calls, failures>>

WatchWakes ==
  /\ watch = "waiting" /\ event # "none"
  /\ watch' = IF event = "changed" THEN "reading" ELSE "arming"
  /\ WatchUntouched /\ UNCHANGED <<watched, event, taken, shown, calls, failures>>

WatchReads ==
  /\ watch = "reading"
  /\ \/ watched \in exists /\ watch' = "sending" /\ taken' = PairOf(watched) /\ UNCHANGED failures
     \/ watched \notin exists /\ watch' = "arming" /\ UNCHANGED <<taken, failures>>
     \/ Fails /\ watch' = "arming" /\ UNCHANGED taken
  /\ WatchUntouched /\ UNCHANGED <<watched, event, shown, calls>>

\* stopCh is heeded only here.
WatchStops ==
  /\ watch = "waiting" /\ watch' = "closed"
  /\ WatchUntouched /\ UNCHANGED <<watched, event, taken, shown, calls, failures>>

WatchNext ==
  \/ \E k \in Keys : Watch(k)
  \/ WatchSends \/ WatchSets \/ WatchWakes \/ WatchReads \/ WatchStops

\* The ensemble fires the watch at the first step that touches the key.
Fires ==
  /\ event' = IF watch # "waiting" \/ event # "none" THEN event
              ELSE IF watched \notin exists' THEN "deleted"
              ELSE IF version'[watched] # version[watched] THEN "changed" ELSE "none"
  /\ UNCHANGED <<watch, watched, taken, shown>>

-----------------------------------------------------------------------------
WatchTypeOK ==
  /\ watch \in {"off", "sending", "arming", "waiting", "reading", "closed"}
  /\ watched \in Keys \cup {NoKey} /\ event \in {"none", "changed", "deleted"}
  /\ taken \in Pair \cup {NoSnapshot} /\ shown \in Pair \cup {NoSnapshot}

Newer(p, q) == p.life > q.life \/ (p.life = q.life /\ p.version > q.version)

\* The reader gets each value of the key at most once, and in the order they
\* were written, also across a deletion (zookeeper.go, lines 188-223).
WatchInOrder ==
  [][watch = "sending" /\ watch' # watch
       => shown = NoSnapshot \/ Newer(shown', shown)]_<<shown, watch>>
=============================================================================
