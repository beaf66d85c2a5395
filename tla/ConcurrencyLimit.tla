-------------------------- MODULE ConcurrencyLimit --------------------------
(***************************************************************************)
(* What the limiter promises (the comment on Limiter, api/limiter.go:5-12):*)
(* never more than limit handlers in parallel, a request over the limit is *)
(* dropped without running its handler, and no limit at all for 0.  It     *)
(* says nothing of how the running handlers are counted.                   *)
(***************************************************************************)
EXTENDS Integers, FiniteSets

CONSTANTS Requests, Limits

VARIABLES limit,    \* fixed
          waiting,  \* requests that have reached the limiter
          running,  \* requests whose handler is running
          dropped   \* requests answered 429

vars == <<limit, waiting, running, dropped>>

Full == limit > 0 /\ Cardinality(running) >= limit

Init == limit \in Limits /\ waiting = {} /\ running = {} /\ dropped = {}

Arrive(r) ==
  /\ r \notin waiting \cup running
  /\ waiting' = waiting \cup {r}
  /\ dropped' = dropped \ {r}
  /\ UNCHANGED <<limit, running>>

Start(r) ==
  /\ r \in waiting /\ ~Full
  /\ waiting' = waiting \ {r}
  /\ running' = running \cup {r}
  /\ UNCHANGED <<limit, dropped>>

Drop(r) ==
  /\ r \in waiting /\ Full
  /\ waiting' = waiting \ {r}
  /\ dropped' = dropped \cup {r}
  /\ UNCHANGED <<limit, running>>

End(r) ==
  /\ r \in running
  /\ running' = running \ {r}
  /\ UNCHANGED <<limit, waiting, dropped>>

Next == \E r \in Requests : Arrive(r) \/ Start(r) \/ Drop(r) \/ End(r)

\* A request that has reached the limiter is let through or dropped.
Spec == Init /\ [][Next]_vars /\ \A r \in Requests : WF_vars(Start(r) \/ Drop(r))
=============================================================================
