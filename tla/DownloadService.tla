-------------------------- MODULE DownloadService ---------------------------
(***************************************************************************)
(* The service as one: the process of ServiceLifecycle, and the middleware *)
(* chain of service/service.go:190-203 in front of its routes, with the    *)
(* limiter of Limiter in it.  A request for /health is answered in front   *)
(* of the limiter; every other one passes it before the header checks, the *)
(* router and a download handler, which may run for ever or panic.         *)
(***************************************************************************)
EXTENDS ServiceLifecycle, FiniteSets

ASSUME DownloadServiceAssumption == IsFiniteSet(Requests)

VARIABLES
  checks,   \* the requests accepted that ask for /health
  conn,     \* where each other request is: Limiter's pc
  counter,  \* the slots of the limiter in use
  answer    \* the last answer to each connection but for health checks

limiterVars == <<conn, counter, answer>>
serviceVars == <<vars, checks, limiterVars>>

\* New makes the limiter with the configured limit, and panics on a negative one.
Lim == INSTANCE Limiter
  WITH Limits <- Nat, n <- IF cfg.limit < 0 THEN 0 ELSE cfg.limit, pc <- conn

ServiceTypeOK ==
  /\ checks \subseteq handlers
  /\ conn \in [Requests -> {"idle", "limiter", "handler"}]
  /\ counter \in 0 .. Cardinality(Requests)
  /\ answer \in [Requests -> {"none", "handled", "429", "aborted"}]

ServiceInit ==
  /\ Init
  /\ checks = {}
  /\ conn = [r \in Requests |-> "idle"]
  /\ counter = 0
  /\ answer = [r \in Requests |-> "none"]

-----------------------------------------------------------------------------
(* The middleware chain.                                                     *)

\* Faulty variant: the limiter is the outermost middleware.
LimitedFirst(isCheck) == TRUE

\* HealthcheckFilter answers GET /health itself, and lets everything else pass.
Limited(isCheck) == ~isCheck

\* The server accepts a request, and the filter looks at its path.
Receive(r) ==
  \E isCheck \in BOOLEAN :
    /\ Accept(r)
    /\ checks' = IF isCheck THEN checks \cup {r} ELSE checks
    /\ IF Limited(isCheck) THEN Lim!Arrive(r) ELSE UNCHANGED limiterVars

Ends(r) == HandlerEnds(r) /\ checks' = checks \ {r}

\* The handler of the health checker answers with what it knows.
AnswerCheck(r) == r \in checks /\ conn[r] = "idle" /\ Ends(r) /\ UNCHANGED limiterVars

Refuse(r) == Ends(r) /\ Lim!Reject(r)

\* Faulty variant: the limiter runs the handler in a goroutine of its own.
DecideInBackground(r) ==
  \/ Ends(r) /\ (Lim!Bypass(r) \/ Lim!Acquire(r))
  \/ Refuse(r)

\* The limiter never blocks; a request it refuses has its answer.
Decide(r) ==
  \/ ~Ended /\ UNCHANGED <<vars, checks>> /\ (Lim!Bypass(r) \/ Lim!Acquire(r))
  \/ Refuse(r)

\* The download handler returns, or panics and net/http recovers.
DownloadEnds(r) == Ends(r) /\ (Lim!Return(r) \/ Lim!Panic(r))

Respond(r) == Decide(r) \/ AnswerCheck(r)

-----------------------------------------------------------------------------

\* Steps of the process that do not touch its requests.
Alone(A) == A /\ UNCHANGED <<checks, limiterVars>>

ServiceNext ==
  \/ Alone(Main) \/ Alone(Listen) \/ Alone(ServeFails)
  \/ \E r \in Requests : Receive(r) \/ Respond(r) \/ DownloadEnds(r)
  \/ Alone(Signal) \/ Alone(TimeoutElapses)
  \/ Alone(HasEnded)

\* As in ServiceLifecycle; and the goroutine of a request runs while it is in the
\* filter or the limiter. Nothing is assumed of the download handlers.
ServiceSpec ==
  /\ ServiceInit /\ [][ServiceNext]_serviceVars
  /\ WF_serviceVars(Alone(Main)) /\ WF_serviceVars(Alone(Listen))
  /\ WF_serviceVars(Alone(TimeoutElapses))
  /\ \A r \in Requests : WF_serviceVars(Respond(r))

-----------------------------------------------------------------------------
(* Properties.                                                               *)

\* Under the process that starts, serves and shuts down, the limiter is still Limiter:
\* a shutdown takes no slot back and leaves no request in it undecided.
ImplementsLimiter == Lim!Spec

\* A request that has reached the limiter is one the shutdown waits for: a handler
\* never outlives the request the server counts, nor the process.
DownloadsAreCounted == \A r \in Requests : conn[r] # "idle" => r \in handlers \ checks

\* A health check is never refused, however many downloads run: a busy service is not
\* taken for a dead one (service/service.go:190-192). What is refused is a download,
\* and only while as many run as are configured.
BusyIsNotDead ==
  [][\A r \in Requests :
       answer[r] # "429" /\ answer'[r] = "429" =>
         r \notin checks /\ cfg.limit > 0 /\ Cardinality(Lim!Running) = cfg.limit]_serviceVars

\* A signal that is sent once main has asked for signals ends the process if no
\* download runs for ever: none sent before main waits for it is lost, and neither the
\* limiter nor a health check holds the process.
SignalIsHeeded ==
  (\A r \in Requests : []<>(conn[r] # "handler")) => [](signalled => <>Ended)
=============================================================================
