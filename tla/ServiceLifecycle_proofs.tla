----------------------- MODULE ServiceLifecycle_proofs ----------------------
(* Proofs about ServiceLifecycle, for every set of requests, of limits and every
   environment. *)
EXTENDS ServiceLifecycle, TLAPS

\* Whatever the environment sets, and whichever setting does not parse, Get returns a
\* configuration.
LEMMA GetType == \A e \in Environments : Get(e) \in Configs
<1> SUFFICES ASSUME NEW e \in Environments PROVE Get(e) \in Configs
  OBVIOUS
<1>1. e.publishing \in {"unset", "true", "false"} /\ e.auth \in BOOLEAN
  BY Zenon DEF Environments
<1>2. e.limit \in Limits
  BY Zenon DEF Environments
<1>3. Get(e).publishing \in BOOLEAN
  BY <1>1, Zenon DEF Get, Defaults
<1>4. e.limit \in Int
  BY <1>2, ConfigAssumption, Zenon
<1>5. Get(e).limit \in Int
  <2>1. Get(e).limit = IF IsRead(e, "limit") THEN e.limit ELSE Defaults.limit
    BY Zenon DEF Get
  <2>2. Defaults.limit = 0
    BY Zenon DEF Defaults
  <2>3. CASE IsRead(e, "limit")
    BY <1>4, <2>1, <2>3, Zenon
  <2>4. CASE ~IsRead(e, "limit")
    BY <2>1, <2>2, <2>4
  <2> QED
    BY <2>3, <2>4
<1> QED
  BY <1>1, <1>3, <1>5, Zenon DEF Get, Configs

LEMMA ConfigType == TypeOK => cfg \in Configs
BY GetType, Zenon DEF TypeOK, cfg

LEMMA InitTypes == Init => TypeOK
<1>1. Init => signals \in 0 .. SignalBuffer
  BY DEF Init, SignalBuffer
<1>2. Init => middleware \in BOOLEAN /\ signalled \in BOOLEAN
  BY Zenon DEF Init
<1> QED
  BY <1>1, <1>2, Zenon DEF Init, TypeOK

LEMMA NextTypes == TypeOK /\ [Next]_vars => TypeOK'
<1> SUFFICES ASSUME TypeOK, [Next]_vars PROVE TypeOK'
  OBVIOUS
<1> USE DEF TypeOK, SignalBuffer
<1>1. CASE GetConfig \/ New \/ NewFails \/ Run
  <2>1. HasAuth \in BOOLEAN
    BY ConfigType, Zenon DEF HasAuth, Configs
  <2> QED
    BY <1>1, <2>1 DEF GetConfig, New, NewFails, Run, Goes
<1>2. CASE ReceiveSignal \/ Close \/ StopListening \/ Shutdown
  BY <1>2 DEF ReceiveSignal, Close, StopListening, Shutdown, Goes
<1>3. CASE Listen \/ ServeFails \/ TimeoutElapses
  BY <1>3 DEF Listen, ServeFails, TimeoutElapses
<1>4. CASE \E r \in Requests : Accept(r) \/ HandlerEnds(r)
  BY <1>4 DEF Accept, HandlerEnds
<1>5. CASE Signal
  BY <1>5 DEF Signal
<1>6. CASE UNCHANGED vars
  BY <1>6 DEF vars
<1> QED
  BY <1>1, <1>2, <1>3, <1>4, <1>5, <1>6 DEF Next, Main, HasEnded

\* Every variable of ServiceLifecycle keeps its type.
THEOREM TypeCorrectness == Spec => []TypeOK
BY InitTypes, NextTypes, PTL DEF Spec

LEMMA LimitType == TypeOK => (~(cfg.limit < 0) => cfg.limit >= 0)
<1>1. TypeOK => cfg.limit \in Int
  BY ConfigType, Zenon DEF Configs
<1>2. \A n \in Int : ~(n < 0) => n >= 0
  OBVIOUS
<1> QED
  BY <1>1, <1>2

LEMMA InitInv == Init => Inv
BY DEF Init, Inv, Started

LEMMA NextInv == TypeOK /\ Inv /\ [Next]_vars => Inv'
<1> SUFFICES ASSUME TypeOK, Inv, [Next]_vars PROVE Inv'
  OBVIOUS
<1>0. env' = env => cfg' = cfg
  BY DEF cfg
<1> USE DEF Inv, Started, Complete
<1>1. CASE GetConfig \/ NewFails
  BY <1>0, <1>1 DEF GetConfig, NewFails, Goes
<1>2. CASE New
  <2>1. ~(cfg.limit < 0) => cfg.limit >= 0
    BY LimitType
  <2>2. pc = "new" /\ cfg' = cfg /\ server' = server /\ health' = health /\ handlers' = handlers
    <3>1. pc = "new" /\ UNCHANGED <<env, server, health, signals, handlers, grace, signalled>>
      BY <1>2, Zenon DEF New
    <3> QED
      BY <1>0, <3>1
  <2>3. pc' \in {"panicked", "run"}
    BY <1>2, Zenon DEF New
  <2>4. pc' = "run" => ~(cfg.limit < 0) /\ (cfg.publishing => middleware')
    BY <1>2, Zenon DEF New, HasAuth, RoutesNeedMiddleware
  <2>5. pc' = "run" => Complete'
    BY <2>1, <2>2, <2>4, Zenon
  <2> QED
    BY <2>2, <2>5, <2>3
<1>3. CASE Run
  BY <1>0, <1>3 DEF Run, Goes
<1>4. CASE ReceiveSignal \/ Close \/ StopListening \/ Shutdown
  BY <1>0, <1>4 DEF ReceiveSignal, Close, StopListening, Shutdown, Goes
<1>5. CASE Listen \/ ServeFails
  BY <1>0, <1>5 DEF Listen, ServeFails, Ended
<1>6. CASE \E r \in Requests : Accept(r) \/ HandlerEnds(r)
  BY <1>0, <1>6 DEF Accept, HandlerEnds, Ended
<1>7. CASE Signal \/ TimeoutElapses \/ UNCHANGED vars
  BY <1>0, <1>7 DEF Signal, TimeoutElapses, vars
<1> QED
  BY <1>1, <1>2, <1>3, <1>4, <1>5, <1>6, <1>7 DEF Next, Main, HasEnded

\* main serves a complete service, and ends when nothing is handled any more.
THEOREM Invariance == Spec => []Inv
BY InitInv, NextInv, TypeCorrectness, PTL DEF Spec

LEMMA InvServesComplete == TypeOK /\ Inv => ServesComplete
BY DEF TypeOK, Inv, Started, Complete, ServesComplete

\* A service that accepts requests is complete.
THEOREM ServiceIsComplete == Spec => []ServesComplete
BY InvServesComplete, TypeCorrectness, Invariance, PTL

LEMMA InvCutsNoHandler == Inv => NoHandlerIsCut
BY DEF Inv, Started, NoHandlerIsCut, Ended

\* The process does not end under a running handler.
THEOREM HandlersAreNotCut == Spec => []NoHandlerIsCut
BY InvCutsNoHandler, Invariance, PTL

\* Get keeps IS_PUBLISHING on unless the environment turns it off in a value it reads.
LEMMA PublishingIsTheDefault ==
  ASSUME NEW e \in Environments, ~Get(e).publishing
  PROVE  e.publishing = "false" /\ e.unreadable # "publishing"
<1>1. IsRead(e, "publishing") /\ e.publishing # "unset" /\ e.publishing # "true"
  BY Zenon DEF Get, Defaults
<1>2. e.publishing = "false"
  BY <1>1, Zenon DEF Environments
<1>3. e.unreadable # "publishing"
  BY <1>1 DEF IsRead, Place
<1> QED
  BY <1>2, <1>3

LEMMA CompleteIsNotOpen == TypeOK /\ ServesComplete => PublishingIsNeverOpen
<1> SUFFICES ASSUME TypeOK, ServesComplete, server = "listening", ~(cfg.publishing /\ middleware)
             PROVE  env.publishing = "false" /\ env.unreadable # "publishing"
  BY DEF PublishingIsNeverOpen
<1>1. ~cfg.publishing
  BY Zenon DEF ServesComplete
<1>2. env \in Environments /\ ~Get(env).publishing
  BY <1>1 DEF TypeOK, cfg
<1> QED
  BY <1>2, PublishingIsTheDefault

\* No setting that does not parse makes a web service of a publishing one, or leaves it
\* without its middleware.
THEOREM PublishingStaysClosed == Spec => []PublishingIsNeverOpen
BY CompleteIsNotOpen, TypeCorrectness, ServiceIsComplete, PTL
=============================================================================
