------------------------------ MODULE Limiter -------------------------------
(***************************************************************************)
(* The middleware api/limiter.go puts in front of every handler but the    *)
(* health check's.  The slots in use are the elements of a buffered        *)
(* channel: a request sends one without blocking before its handler runs,  *)
(* and a deferred receive takes one back when the handler returns or       *)
(* panics (net/http recovers the panic and drops the connection).          *)
(* A request stands for one connection, which asks again after an answer.  *)
(***************************************************************************)
EXTENDS Integers, FiniteSets

CONSTANTS Requests,  \* the connections
          Limits     \* the values of cfg.MaxConcurrentHandlers in use

\* A negative capacity makes make(chan struct{}, n) panic when the service starts.
ASSUME LimiterAssumption == Limits \subseteq Nat /\ IsFiniteSet(Requests)

VARIABLES n,        \* the argument of Limiter, and the capacity of the channel
          pc,       \* where each request is
          counter,  \* the number of elements in the channel
          answer    \* the last answer of each request

vars == <<n, pc, counter, answer>>

TypeOK ==
  /\ n \in Limits
  /\ pc \in [Requests -> {"idle", "limiter", "handler"}]
  /\ counter \in Nat
  /\ answer \in [Requests -> {"none", "handled", "429", "aborted"}]

Init ==
  /\ n \in Limits
  /\ pc = [r \in Requests |-> "idle"]
  /\ counter = 0
  /\ answer = [r \in Requests |-> "none"]

Running == {r \in Requests : pc[r] = "handler"}

Goes(r, from, to) == pc[r] = from /\ pc' = [pc EXCEPT ![r] = to]

Answers(r, code) == answer' = [answer EXCEPT ![r] = code]

Arrive(r) == Goes(r, "idle", "limiter") /\ Answers(r, "none") /\ UNCHANGED <<n, counter>>

\* n < 1: the handler runs without a slot.
Unlimited == n < 1

\* Faulty variants: off by one at the capacity, either way.
HasRoomAtCapacity == counter <= n
HasRoomButOne == counter + 1 < n

\* The channel's buffer has room: the non-blocking send succeeds.
HasRoom == counter < n

Bypass(r) == Unlimited /\ Goes(r, "limiter", "handler") /\ UNCHANGED <<n, counter, answer>>

Acquire(r) ==
  /\ ~Unlimited /\ HasRoom
  /\ Goes(r, "limiter", "handler")
  /\ counter' = counter + 1
  /\ UNCHANGED <<n, answer>>

\* Faulty variant: no default case, a full channel blocks the request.
WaitForRoom(r) == FALSE

\* Faulty variant: the receive is deferred before the select, not in its case.
RejectReleasing(r) ==
  /\ ~Unlimited /\ ~HasRoom
  /\ Goes(r, "limiter", "idle")
  /\ Answers(r, "429")
  /\ counter' = counter - 1
  /\ UNCHANGED n

Reject(r) ==
  /\ ~Unlimited /\ ~HasRoom
  /\ Goes(r, "limiter", "idle")
  /\ Answers(r, "429")
  /\ UNCHANGED <<n, counter>>

Release == counter' = (IF Unlimited THEN counter ELSE counter - 1) /\ UNCHANGED n

Return(r) == Goes(r, "handler", "idle") /\ Answers(r, "handled") /\ Release

\* Faulty variant: the receive follows ServeHTTP instead of being deferred.
PanicUndeferred(r) ==
  Goes(r, "handler", "idle") /\ Answers(r, "aborted") /\ UNCHANGED <<n, counter>>

\* The handler panics: the deferred receive still runs.
Panic(r) == Goes(r, "handler", "idle") /\ Answers(r, "aborted") /\ Release

Decide(r) == Bypass(r) \/ Acquire(r) \/ Reject(r)

Next == \E r \in Requests : Arrive(r) \/ Decide(r) \/ Return(r) \/ Panic(r)

\* The limiter never blocks, so a goroutine in it is always able to go on. Nothing
\* is assumed of the handlers: they may run for ever.
Spec == Init /\ [][Next]_vars /\ \A r \in Requests : WF_vars(Decide(r))

-----------------------------------------------------------------------------
(* Properties.                                                               *)

\* The channel holds one element for each running handler, however handlers end:
\* no slot is lost, and none is given back twice.
SlotsAreConserved == ~Unlimited => counter = Cardinality(Running)

\* No more than n handlers run in parallel (api/limiter.go:5-6).
BoundedConcurrency == ~Unlimited => Cardinality(Running) <= n

\* A request is refused only while n handlers run (api/limiter.go:8-12), and never
\* without a limit.
RefusedOnlyWhenFull ==
  [][\A r \in Requests :
       answer[r] # "429" /\ answer'[r] = "429" => ~Unlimited /\ Cardinality(Running) = n]_vars

Contract == INSTANCE ConcurrencyLimit
  WITH limit <- n,
       waiting <- {r \in Requests : pc[r] = "limiter"},
       running <- Running,
       dropped <- {r \in Requests : answer[r] = "429"}

\* The channel implements the limit the comment promises; in particular a request
\* is let through or refused although no handler ever returns.
ImplementsLimit == Contract!Spec
=============================================================================
