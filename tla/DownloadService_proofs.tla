----------------------- MODULE DownloadService_proofs -----------------------
(* Proofs about DownloadService: the process, and the limiter in it, are still those of
   ServiceLifecycle and Limiter when they are composed. *)
EXTENDS DownloadService, ServiceLifecycle_proofs, FiniteSetTheorems

\* What Limiter_proofs shows, for the limiter of the service.
LimProofs == INSTANCE Limiter_proofs
  WITH Limits <- Nat, n <- IF cfg.limit < 0 THEN 0 ELSE cfg.limit, pc <- conn

-----------------------------------------------------------------------------
(* The process.                                                              *)

\* The middleware chain adds nothing to what the process may do.
LEMMA StepOfProcess == [ServiceNext]_serviceVars => [Next]_vars
<1> SUFFICES ASSUME [ServiceNext]_serviceVars PROVE [Next]_vars
  OBVIOUS
<1>1. CASE Alone(Main) \/ Alone(Listen) \/ Alone(ServeFails)
  BY <1>1, Zenon DEF Alone, Next
<1>2. CASE Alone(Signal) \/ Alone(TimeoutElapses) \/ Alone(HasEnded)
  BY <1>2, Zenon DEF Alone, Next
<1>3. ASSUME NEW r \in Requests, Receive(r) \/ Respond(r) \/ DownloadEnds(r) PROVE [Next]_vars
  <2>1. Accept(r) \/ HandlerEnds(r) \/ UNCHANGED vars
    BY <1>3, Zenon DEF Receive, Respond, Decide, AnswerCheck, Refuse, DownloadEnds, Ends
  <2> QED
    BY <2>1, Zenon DEF Next
<1>4. CASE UNCHANGED serviceVars
  BY <1>4, Zenon DEF serviceVars
<1> QED
  BY <1>1, <1>2, <1>3, <1>4, Zenon DEF ServiceNext

\* The composed service starts, serves and shuts down as ServiceLifecycle does.
THEOREM ServiceIsLifecycle == ServiceSpec => Init /\ [][Next]_vars
<1>1. ServiceInit => Init
  BY Zenon DEF ServiceInit
<1> QED
  BY <1>1, StepOfProcess, PTL DEF ServiceSpec

\* The types and the inductive invariant of the process, in the composed service.
THEOREM ProcessInvariance == ServiceSpec => [](TypeOK /\ Inv)
BY ServiceIsLifecycle, InitTypes, NextTypes, InitInv, NextInv, PTL

\* The composed service is complete when it accepts requests, never open when it should
\* be a publishing one, and ends under no handler.
THEOREM ProcessIsSafe ==
  ServiceSpec => [](ServesComplete /\ PublishingIsNeverOpen /\ NoHandlerIsCut)
BY ProcessInvariance, InvServesComplete, CompleteIsNotOpen, InvCutsNoHandler, PTL

-----------------------------------------------------------------------------
(* The limiter.                                                              *)

LEMMA LimitIsNat == TypeOK => (IF cfg.limit < 0 THEN 0 ELSE cfg.limit) \in Nat
<1> SUFFICES ASSUME TypeOK PROVE (IF cfg.limit < 0 THEN 0 ELSE cfg.limit) \in Nat
  OBVIOUS
<1>1. cfg.limit \in Int
  BY ConfigType, Zenon DEF Configs
<1> QED
  BY <1>1

\* The environment, and so the limit, is fixed.
LEMMA LimitIsFixed == [Next]_vars => cfg' = cfg
<1> SUFFICES ASSUME [Next]_vars PROVE env' = env
  BY DEF cfg
<1>1. CASE Main
  BY <1>1, Zenon DEF Main, GetConfig, New, NewFails, Run, ReceiveSignal, Close, StopListening, Shutdown
<1>2. CASE Listen \/ ServeFails \/ Signal \/ TimeoutElapses
  BY <1>2, Zenon DEF Listen, ServeFails, Signal, TimeoutElapses
<1>3. CASE \E r \in Requests : Accept(r) \/ HandlerEnds(r)
  BY <1>3, Zenon DEF Accept, HandlerEnds
<1>4. CASE UNCHANGED vars
  BY <1>4, Zenon DEF vars
<1> QED
  BY <1>1, <1>2, <1>3, <1>4, Zenon DEF Next, HasEnded

\* Both instances of Limiter are one.
LEMMA SameActions ==
  ASSUME NEW r
  PROVE  /\ Lim!Arrive(r) <=> LimProofs!Arrive(r)
         /\ Lim!Bypass(r) <=> LimProofs!Bypass(r)
         /\ Lim!Acquire(r) <=> LimProofs!Acquire(r)
         /\ Lim!Reject(r) <=> LimProofs!Reject(r)
         /\ Lim!Return(r) <=> LimProofs!Return(r)
         /\ Lim!Panic(r) <=> LimProofs!Panic(r)
<1> USE DEF Lim!Goes, LimProofs!Goes, Lim!Answers, LimProofs!Answers,
            Lim!Unlimited, LimProofs!Unlimited, Lim!HasRoom, LimProofs!HasRoom,
            Lim!Release, LimProofs!Release
<1>1. Lim!Arrive(r) <=> LimProofs!Arrive(r)
  BY Zenon DEF Lim!Arrive, LimProofs!Arrive
<1>2. Lim!Bypass(r) <=> LimProofs!Bypass(r)
  BY Zenon DEF Lim!Bypass, LimProofs!Bypass
<1>3. Lim!Acquire(r) <=> LimProofs!Acquire(r)
  BY Zenon DEF Lim!Acquire, LimProofs!Acquire
<1>4. Lim!Reject(r) <=> LimProofs!Reject(r)
  BY Zenon DEF Lim!Reject, LimProofs!Reject
<1>5. Lim!Return(r) <=> LimProofs!Return(r)
  BY Zenon DEF Lim!Return, LimProofs!Return
<1>6. Lim!Panic(r) <=> LimProofs!Panic(r)
  BY Zenon DEF Lim!Panic, LimProofs!Panic
<1> QED
  BY <1>1, <1>2, <1>3, <1>4, <1>5, <1>6, Zenon

LEMMA SameNext == Lim!Next <=> LimProofs!Next
BY SameActions, Zenon DEF Lim!Next, LimProofs!Next, Lim!Decide, LimProofs!Decide

LEMMA SameState ==
  /\ Lim!vars = LimProofs!vars
  /\ Lim!Init <=> LimProofs!Init
  /\ Lim!Running = LimProofs!Running
BY Zenon DEF Lim!vars, LimProofs!vars, Lim!Init, LimProofs!Init, Lim!Running, LimProofs!Running

LEMMA InitOfLimiter == TypeOK /\ ServiceInit => Lim!Init
BY LimitIsNat, Zenon DEF ServiceInit, Lim!Init

\* A step of a request is one of the limiter, or the limiter does not see it.
LEMMA StepOfLimiter == [ServiceNext]_serviceVars => [Lim!Next]_(Lim!vars)
<1> SUFFICES ASSUME [ServiceNext]_serviceVars PROVE Lim!Next \/ UNCHANGED Lim!vars
  OBVIOUS
<1>0. cfg' = cfg
  BY StepOfProcess, LimitIsFixed
<1>1. UNCHANGED limiterVars => UNCHANGED Lim!vars
  BY <1>0 DEF limiterVars, Lim!vars
<1>2. ASSUME NEW r \in Requests, Receive(r) \/ Respond(r) \/ DownloadEnds(r)
      PROVE  Lim!Next \/ UNCHANGED limiterVars
  BY <1>2, Zenon DEF Receive, Respond, Decide, AnswerCheck, Refuse, DownloadEnds, Lim!Next, Lim!Decide
<1>3. CASE UNCHANGED serviceVars
  BY <1>1, <1>3, Zenon DEF serviceVars
<1> QED
  BY <1>1, <1>2, <1>3, Zenon DEF ServiceNext, Alone

\* Every step of the composed service is a step of its limiter, or leaves it alone: the
\* process, its shutdown and the health checks take no slot and give none back.
THEOREM ServiceRefinesLimiter == ServiceSpec => Lim!Init /\ [][Lim!Next]_(Lim!vars)
<1>1. ServiceInit => TypeOK
  BY InitTypes, Zenon DEF ServiceInit
<1> QED
  BY <1>1, InitOfLimiter, StepOfLimiter, PTL DEF ServiceSpec

LEMMA LimiterAssumptionHolds == LimProofs!LimiterAssumption
<1>1. LimProofs!IsFiniteSet(Requests) <=> IsFiniteSet(Requests)
  BY Zenon DEF LimProofs!IsFiniteSet, IsFiniteSet
<1> QED
  BY <1>1, DownloadServiceAssumption DEF LimProofs!LimiterAssumption

LEMMA SameCardinality == \A S : LimProofs!Cardinality(S) = Cardinality(S) /\ Lim!Cardinality(S) = Cardinality(S)
BY DEF LimProofs!Cardinality, Lim!Cardinality, Cardinality

\* The inductive invariant of Limiter holds of the limiter in the service.
THEOREM LimiterInvariance == ServiceSpec => []LimProofs!Inv
<1>1. Lim!Init => LimProofs!Inv
  BY LimiterAssumptionHolds, SameState, LimProofs!InitInv, Zenon
<1>2. LimProofs!Inv /\ [Lim!Next]_(Lim!vars) => LimProofs!Inv'
  <2>1. [Lim!Next]_(Lim!vars) => [LimProofs!Next]_(LimProofs!vars)
    BY SameNext, Zenon DEF Lim!vars, LimProofs!vars
  <2> QED
    BY <2>1, LimiterAssumptionHolds, LimProofs!NextInv, Zenon
<1> QED
  BY <1>1, <1>2, ServiceRefinesLimiter, PTL

-----------------------------------------------------------------------------
(* Both together.                                                            *)

\* The server counts a request from the filter to its answer.
Counted == checks \subseteq handlers /\ DownloadsAreCounted

LEMMA NextCounted == LimProofs!Inv /\ Counted /\ [ServiceNext]_serviceVars => Counted'
<1> SUFFICES ASSUME LimProofs!Inv, Counted, [ServiceNext]_serviceVars PROVE Counted'
  OBVIOUS
<1> USE DEF Counted
<1>0. conn \in [Requests -> {"idle", "limiter", "handler"}]
  BY Zenon DEF LimProofs!Inv, LimProofs!TypeOK
<1>1. CASE UNCHANGED <<handlers, checks, conn>>
  BY <1>1 DEF DownloadsAreCounted
<1>2. ASSUME NEW r \in Requests, Receive(r) PROVE Counted'
  <2>1. handlers' = handlers \cup {r} /\ r \notin handlers
    BY <1>2, Zenon DEF Receive, Accept
  <2>2. \/ checks' = checks \cup {r} /\ conn' = conn
        \/ checks' = checks /\ conn' = [conn EXCEPT ![r] = "limiter"]
    BY <1>2 DEF Receive, Limited, Lim!Arrive, Lim!Goes, limiterVars
  <2> QED
    BY <1>0, <2>1, <2>2 DEF DownloadsAreCounted
<1>3. ASSUME NEW r \in Requests, AnswerCheck(r) PROVE Counted'
  BY <1>3 DEF AnswerCheck, Ends, HandlerEnds, limiterVars, DownloadsAreCounted
<1>4. ASSUME NEW r \in Requests, Refuse(r) \/ DownloadEnds(r)
      PROVE  Counted'
  <2>1. conn' = [conn EXCEPT ![r] = "idle"]
    BY <1>4, Zenon DEF Refuse, DownloadEnds, Lim!Reject, Lim!Return, Lim!Panic, Lim!Goes
  <2>2. handlers' = handlers \ {r} /\ checks' = checks \ {r}
    BY <1>4, Zenon DEF Refuse, DownloadEnds, Ends, HandlerEnds
  <2> QED
    BY <1>0, <2>1, <2>2 DEF DownloadsAreCounted
<1>5. ASSUME NEW r \in Requests, UNCHANGED <<vars, checks>>, Lim!Bypass(r) \/ Lim!Acquire(r)
      PROVE  Counted'
  <2>1. conn[r] = "limiter" /\ conn' = [conn EXCEPT ![r] = "handler"]
    BY <1>5, Zenon DEF Lim!Bypass, Lim!Acquire, Lim!Goes
  <2>2. handlers' = handlers /\ checks' = checks
    BY <1>5, Zenon DEF vars
  <2> QED
    BY <1>0, <2>1, <2>2 DEF DownloadsAreCounted
<1>6. CASE \/ Alone(Main) \/ Alone(Listen) \/ Alone(ServeFails)
           \/ Alone(Signal) \/ Alone(TimeoutElapses) \/ Alone(HasEnded)
  <2>1. UNCHANGED handlers
    <3>1. CASE Alone(Main)
      BY <3>1, Zenon DEF Alone, Main, GetConfig, New, NewFails, Run, ReceiveSignal, Close,
                         StopListening, Shutdown
    <3>2. CASE Alone(Listen) \/ Alone(ServeFails) \/ Alone(Signal) \/ Alone(TimeoutElapses)
      BY <3>2, Zenon DEF Alone, Listen, ServeFails, Signal, TimeoutElapses
    <3>3. CASE Alone(HasEnded)
      BY <3>3, Zenon DEF Alone, HasEnded, vars
    <3> QED
      BY <1>6, <3>1, <3>2, <3>3
  <2>2. UNCHANGED <<checks, conn>>
    BY <1>6, Zenon DEF Alone, limiterVars
  <2> QED
    BY <1>1, <2>1, <2>2
<1>7. CASE UNCHANGED serviceVars
  <2>1. UNCHANGED <<handlers, checks, conn>>
    BY <1>7, Zenon DEF serviceVars, vars, limiterVars
  <2> QED
    BY <1>1, <2>1
<1> QED
  BY <1>2, <1>3, <1>4, <1>5, <1>6, <1>7, Zenon DEF ServiceNext, Respond, Decide

LEMMA CountedInvariance == ServiceSpec => []Counted
<1>1. ServiceInit => Counted
  BY DEF ServiceInit, Counted, DownloadsAreCounted
<1> QED
  BY <1>1, NextCounted, LimiterInvariance, PTL DEF ServiceSpec

\* A request that has reached the limiter is one the shutdown waits for.
THEOREM DownloadsCounted == ServiceSpec => []DownloadsAreCounted
<1>1. Counted => DownloadsAreCounted
  BY DEF Counted
<1> QED
  BY <1>1, CountedInvariance, PTL

\* The variables of the middleware chain keep their types: no slot is given back twice,
\* and no more are taken than there are requests.
THEOREM TypesOfService == ServiceSpec => []ServiceTypeOK
<1>1. TypeOK /\ LimProofs!Inv /\ Counted => ServiceTypeOK
  <2> SUFFICES ASSUME TypeOK, LimProofs!Inv, Counted PROVE ServiceTypeOK
    OBVIOUS
  <2>1. /\ conn \in [Requests -> {"idle", "limiter", "handler"}]
        /\ answer \in [Requests -> {"none", "handled", "429", "aborted"}]
    BY Zenon DEF LimProofs!Inv, LimProofs!TypeOK
  <2>2. Cardinality(LimProofs!Running) \in 0 .. Cardinality(Requests)
    <3>1. LimProofs!Running \subseteq Requests
      BY Zenon DEF LimProofs!Running
    <3> QED
      BY <3>1, DownloadServiceAssumption, FS_Subset, FS_CardinalityType
  <2>3. counter \in Nat /\ counter <= (IF cfg.limit < 0 THEN 0 ELSE cfg.limit)
    BY Zenon DEF LimProofs!Inv, LimProofs!TypeOK
  <2>4. counter \in 0 .. Cardinality(Requests)
    <3>1. CASE LimProofs!Unlimited
      <4>1. Cardinality(Requests) \in Nat
        BY DownloadServiceAssumption, FS_CardinalityType
      <4>2. \A limit \in Nat : limit < 1 => limit = 0
        OBVIOUS
      <4>3. (IF cfg.limit < 0 THEN 0 ELSE cfg.limit) = 0
        BY <3>1, <4>2, LimitIsNat DEF LimProofs!Unlimited
      <4>4. counter <= 0
        BY <2>3, <4>3, Zenon
      <4> QED
        BY <2>3, <4>1, <4>4
    <3>2. CASE ~LimProofs!Unlimited
      <4>1. counter = Cardinality(LimProofs!Running)
        BY <3>2, SameCardinality, Zenon DEF LimProofs!Inv, LimProofs!SlotsAreConserved
      <4> QED
        BY <2>2, <4>1
    <3> QED
      BY <3>1, <3>2
  <2> QED
    BY <2>1, <2>4, Zenon DEF ServiceTypeOK, Counted
<1> QED
  BY <1>1, ProcessInvariance, LimiterInvariance, CountedInvariance, PTL

\* No health check is refused, and a download only while as many run as are configured.
THEOREM BusyStaysAlive == ServiceSpec => BusyIsNotDead
<1>1. TypeOK /\ LimProofs!Inv /\ DownloadsAreCounted /\ [ServiceNext]_serviceVars =>
        [\A r \in Requests :
           answer[r] # "429" /\ answer'[r] = "429" =>
             r \notin checks /\ cfg.limit > 0 /\ Cardinality(Lim!Running) = cfg.limit]_serviceVars
  <2> SUFFICES ASSUME TypeOK, LimProofs!Inv, DownloadsAreCounted, [ServiceNext]_serviceVars,
                      NEW r \in Requests, answer[r] # "429", answer'[r] = "429"
               PROVE  r \notin checks /\ cfg.limit > 0 /\ Cardinality(Lim!Running) = cfg.limit
    BY Zenon
  <2>1. [LimProofs!Next]_(LimProofs!vars)
    BY StepOfLimiter, SameNext, Zenon DEF Lim!vars, LimProofs!vars
  <2>2. /\ conn[r] = "limiter" /\ ~LimProofs!Unlimited
        /\ LimProofs!Cardinality(LimProofs!Running) = (IF cfg.limit < 0 THEN 0 ELSE cfg.limit)
    BY <2>1, LimiterAssumptionHolds, LimProofs!RefusesWhenFull, Zenon
  <2>3. r \notin checks
    BY <2>2 DEF DownloadsAreCounted
  <2>4. Cardinality(Lim!Running) = (IF cfg.limit < 0 THEN 0 ELSE cfg.limit)
    BY <2>2, SameCardinality, SameState, Zenon
  <2>5. cfg.limit \in Int /\ cfg.limit > 0
    <3>1. cfg.limit \in Int
      BY ConfigType, Zenon DEF Configs
    <3> QED
      BY <2>2, <3>1 DEF LimProofs!Unlimited
  <2> QED
    BY <2>3, <2>4, <2>5
<1> QED
  BY <1>1, ProcessInvariance, LimiterInvariance, DownloadsCounted, PTL DEF ServiceSpec, BusyIsNotDead
=============================================================================
