--------------------------- MODULE Limiter_proofs ---------------------------
(* Proofs about Limiter, for every set of requests and all limits. *)
EXTENDS Limiter, FiniteSetTheorems, TLAPS

\* A request has no answer while it is in the limiter or its handler runs.
Unanswered == \A r \in Requests : pc[r] # "idle" => answer[r] = "none"

\* The inductive invariant: the slots are accounted for, and fit the channel.
Inv == TypeOK /\ Unanswered /\ SlotsAreConserved /\ counter <= n

\* A request that enters the handler is one more running, one that leaves is one less.
LEMMA RunningIsFinite == IsFiniteSet(Running)
<1>1. Running \subseteq Requests
  BY DEF Running
<1> QED
  BY <1>1, LimiterAssumption, FS_Subset

LEMMA RunningStarts ==
  ASSUME TypeOK, NEW r \in Requests, Goes(r, "limiter", "handler")
  PROVE  /\ Running' = Running \cup {r}
         /\ Cardinality(Running)' = Cardinality(Running) + 1
<1>1. Running' = Running \cup {r} /\ r \notin Running
  BY DEF TypeOK, Goes, Running
<1> QED
  BY <1>1, RunningIsFinite, FS_AddElement

LEMMA RunningEnds ==
  ASSUME TypeOK, NEW r \in Requests, Goes(r, "handler", "idle")
  PROVE  /\ Running' = Running \ {r} /\ r \in Running
         /\ Cardinality(Running)' = Cardinality(Running) - 1
         /\ Cardinality(Running) \in Nat \ {0}
<1>1. Running' = Running \ {r} /\ r \in Running
  BY DEF TypeOK, Goes, Running
<1>2. Cardinality(Running) \in Nat /\ Cardinality(Running) # 0
  BY <1>1, RunningIsFinite, FS_CardinalityType, FS_EmptySet
<1> QED
  BY <1>1, <1>2, RunningIsFinite, FS_RemoveElement

LEMMA RunningStays ==
  ASSUME TypeOK, NEW r \in Requests, NEW from, NEW to, Goes(r, from, to),
         from # "handler", to # "handler"
  PROVE  Running' = Running
BY DEF TypeOK, Goes, Running

\* ConcurrencyLimit counts with its own copy of FiniteSets.
LEMMA SameCardinality == \A S : Contract!Cardinality(S) = Cardinality(S)
BY DEF Contract!Cardinality, Cardinality

LEMMA InitInv == Init => Inv
<1> SUFFICES ASSUME Init PROVE Inv
  OBVIOUS
<1>1. Running = {}
  BY DEF Init, Running
<1> QED
  BY <1>1, FS_EmptySet, LimiterAssumption DEF Init, Inv, TypeOK, SlotsAreConserved, Unanswered

LEMMA NextInv == Inv /\ [Next]_vars => Inv'
<1> SUFFICES ASSUME Inv, [Next]_vars PROVE Inv'
  OBVIOUS
<1> USE LimiterAssumption DEF Inv, TypeOK, SlotsAreConserved, Unanswered, Answers
<1>1. ASSUME NEW r \in Requests, Arrive(r) PROVE Inv'
  BY <1>1, RunningStays DEF Arrive, Goes, Unlimited
<1>2. ASSUME NEW r \in Requests, Bypass(r) PROVE Inv'
  BY <1>2 DEF Bypass, Goes, Unlimited
<1>3. ASSUME NEW r \in Requests, Acquire(r) PROVE Inv'
  <2>1. Cardinality(Running)' = Cardinality(Running) + 1
    BY <1>3, RunningStarts DEF Acquire
  <2>2. counter' \in Nat /\ counter' <= n' /\ SlotsAreConserved'
    BY <1>3, <2>1 DEF Acquire, HasRoom, Unlimited
  <2> QED
    BY <1>3, <2>2 DEF Acquire, Goes
<1>4. ASSUME NEW r \in Requests, Reject(r) PROVE Inv'
  BY <1>4, RunningStays DEF Reject, Goes, Unlimited
<1>5. ASSUME NEW r \in Requests, Return(r) \/ Panic(r) PROVE Inv'
  <2>1. Goes(r, "handler", "idle") /\ Release
    BY <1>5 DEF Return, Panic
  <2>2. /\ Cardinality(Running)' = Cardinality(Running) - 1
        /\ Cardinality(Running) \in Nat \ {0}
    BY <2>1, RunningEnds
  <2>3. counter' \in Nat /\ counter' <= n' /\ SlotsAreConserved'
    BY <2>1, <2>2 DEF Release, Unlimited
  <2> QED
    BY <1>5, <2>1, <2>3 DEF Return, Panic, Goes, Release
<1>6. CASE UNCHANGED vars
  BY <1>6 DEF vars, Running, Unlimited
<1> QED
  BY <1>1, <1>2, <1>3, <1>4, <1>5, <1>6 DEF Next, Decide

\* The limit is fixed, the slots fit the channel, and everything keeps its type.
THEOREM Invariance == Spec => []Inv
BY InitInv, NextInv, PTL DEF Spec

\* Every variable of Limiter keeps its type: the counter never goes below zero.
THEOREM TypeCorrectness == Spec => []TypeOK
<1>1. Inv => TypeOK
  BY DEF Inv
<1> QED
  BY <1>1, Invariance, PTL

\* The slots in the channel are those of the running handlers: none leaks when a
\* handler panics, none is given back twice.
THEOREM SlotsConserved == Spec => []SlotsAreConserved
<1>1. Inv => SlotsAreConserved
  BY DEF Inv
<1> QED
  BY <1>1, Invariance, PTL

\* No more than n handlers run in parallel, whatever n and however many requests.
THEOREM ConcurrencyIsBounded == Spec => []BoundedConcurrency
<1>1. Inv => BoundedConcurrency
  BY LimiterAssumption DEF Inv, TypeOK, SlotsAreConserved, BoundedConcurrency
<1> QED
  BY <1>1, Invariance, PTL

\* The only answer 429 is that of the default case, to a request in the limiter.
LEMMA RefusesWhenFull ==
  ASSUME Inv, [Next]_vars, NEW r \in Requests, answer[r] # "429", answer'[r] = "429"
  PROVE  pc[r] = "limiter" /\ ~Unlimited /\ Cardinality(Running) = n
<1>1. PICK q \in Requests : Arrive(q) \/ Decide(q) \/ Return(q) \/ Panic(q)
  BY DEF Next, vars
<1>2. Reject(q) /\ q = r
  BY <1>1 DEF Inv, TypeOK, Arrive, Decide, Bypass, Acquire, Reject, Return, Panic, Answers
<1> QED
  BY <1>2, LimiterAssumption DEF Reject, Goes, HasRoom, Inv, TypeOK, SlotsAreConserved

\* A request is refused only while n handlers run.
THEOREM RefusalMeansFull == Spec => RefusedOnlyWhenFull
<1>1. Inv /\ [Next]_vars =>
        [\A r \in Requests :
           answer[r] # "429" /\ answer'[r] = "429" => ~Unlimited /\ Cardinality(Running) = n]_vars
  BY RefusesWhenFull
<1> QED
  BY <1>1, Invariance, PTL DEF Spec, RefusedOnlyWhenFull

\* The channel implements the abstract limit: every step of the limiter is a step
\* of ConcurrencyLimit, or leaves it alone.
THEOREM RefinesLimit == Spec => Contract!Init /\ [][Contract!Next]_Contract!vars
<1> USE DEF TypeOK, Goes, Answers
<1>1. Init => Contract!Init
  BY DEF Init, Contract!Init, Running
<1>2. Inv /\ [Next]_vars => [Contract!Next]_(Contract!vars)
  <2> SUFFICES ASSUME Inv, [Next]_vars PROVE Contract!Next \/ UNCHANGED Contract!vars
    OBVIOUS
  <2>0. TypeOK /\ Unanswered /\ (Contract!Full <=> ~Unlimited /\ ~HasRoom)
    BY LimiterAssumption, RunningIsFinite, SameCardinality, FS_CardinalityType
       DEF Inv, SlotsAreConserved, Contract!Full, Unlimited, HasRoom
  <2>1. ASSUME NEW r \in Requests, Arrive(r) PROVE Contract!Arrive(r)
    BY <2>0, <2>1 DEF Arrive, Contract!Arrive, Running
  <2>2. ASSUME NEW r \in Requests, Bypass(r) \/ Acquire(r) PROVE Contract!Start(r)
    BY <2>0, <2>2 DEF Bypass, Acquire, Contract!Start, Running
  <2>3. ASSUME NEW r \in Requests, Reject(r) PROVE Contract!Drop(r)
    BY <2>0, <2>3 DEF Reject, Contract!Drop, Running
  <2>4. ASSUME NEW r \in Requests, Return(r) \/ Panic(r) PROVE Contract!End(r)
    BY <2>0, <2>4 DEF Release, Return, Panic, Contract!End, Running, Unanswered
  <2>5. CASE UNCHANGED vars
    BY <2>5 DEF vars, Contract!vars, Running
  <2> QED
    BY <2>1, <2>2, <2>3, <2>4, <2>5 DEF Next, Decide, Contract!Next
<1> QED
  BY <1>1, <1>2, Invariance, PTL DEF Spec
=============================================================================
