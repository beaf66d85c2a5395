-------------------------- MODULE ServiceLifecycle --------------------------
(***************************************************************************)
(* The life of the process: run of main.go, and New, Run and Close of      *)
(* service/service.go, with the goroutine that serves, the handlers that   *)
(* goroutine starts, and the signals of the operating system.              *)
(* External, from how they are used here: log.Fatal logs and returns       *)
(* (service/service.go:116-117 returns after it), http.Server.Shutdown     *)
(* stops listening and waits for the handlers or for its context.          *)
(***************************************************************************)
EXTENDS Config

CONSTANT Requests  \* the requests that may reach the server

VARIABLES
  env,        \* what the environment sets, fixed
  pc,         \* where main is
  middleware, \* svc.authMiddleware is set
  server,     \* the goroutine that serves
  health,     \* the health checker
  signals,    \* the number of signals in main's channel
  handlers,   \* the requests accepted whose handler has not returned
  grace,      \* the context with the graceful shutdown timeout
  signalled   \* history: a signal has been sent

vars == <<env, pc, middleware, server, health, signals, handlers, grace, signalled>>

\* The configuration main has once it has called config.Get; main is alone in that.
cfg == Get(env)

\* The buffer of main's channel.
SignalBuffer == 1

TypeOK ==
  /\ env \in Environments
  /\ pc \in {"config", "new", "run", "wait", "close", "stop", "shutdown", "exited", "panicked"}
  /\ middleware \in BOOLEAN
  /\ server \in {"none", "starting", "listening", "failed", "closed"}
  /\ health \in {"none", "running", "stopped"}
  /\ signals \in 0 .. SignalBuffer
  /\ handlers \subseteq Requests
  /\ grace \in {"none", "running", "elapsed"}
  /\ signalled \in BOOLEAN

Init ==
  /\ env \in Environments
  /\ pc = "config" /\ middleware = FALSE
  /\ server = "none" /\ health = "none"
  /\ signals = 0 /\ handlers = {} /\ grace = "none" /\ signalled = FALSE

Ended == pc \in {"exited", "panicked"}

Goes(from, to) == pc = from /\ pc' = to

-----------------------------------------------------------------------------
(* main.                                                                     *)

\* An error of config.Get is logged, and main goes on with what Get has filled in.
GetConfig ==
  /\ Goes("config", "new")
  /\ UNCHANGED <<env, middleware, server, health, signals, handlers, grace, signalled>>

HasAuth == cfg.publishing /\ cfg.auth

\* The publishing routes call a method of the middleware (service/service.go:162).
RoutesNeedMiddleware == cfg.publishing

\* Faulty variant: the routes of publishing are built around a nil middleware.
NewUnchecked ==
  /\ Goes("new", "run")
  /\ middleware' = HasAuth
  /\ UNCHANGED <<env, server, health, signals, handlers, grace, signalled>>

New ==
  /\ pc = "new"
  /\ middleware' = HasAuth
  /\ pc' = IF (RoutesNeedMiddleware /\ ~HasAuth) \/ cfg.limit < 0 THEN "panicked" ELSE "run"
  /\ UNCHANGED <<env, server, health, signals, handlers, grace, signalled>>

\* The S3 client, the middleware, the health checker or a check cannot be made: the
\* error is logged, and main runs a service that is nil.
NewFails ==
  /\ Goes("new", "panicked")
  /\ UNCHANGED <<env, middleware, server, health, signals, handlers, grace, signalled>>

Run ==
  /\ Goes("run", "wait")
  /\ health' = "running" /\ server' = "starting"
  /\ UNCHANGED <<env, middleware, signals, handlers, grace, signalled>>

ReceiveSignal ==
  /\ Goes("wait", "close")
  /\ signals > 0 /\ signals' = signals - 1
  /\ UNCHANGED <<env, middleware, server, health, handlers, grace, signalled>>

\* The context with the timeout is made, and the health checker stopped.
Close ==
  /\ Goes("close", "stop")
  /\ grace' = "running" /\ health' = "stopped"
  /\ UNCHANGED <<env, middleware, server, signals, handlers, signalled>>

\* Faulty variant: a server that is about to listen is not stopped.
StopListeningIfListening ==
  /\ Goes("stop", "shutdown")
  /\ server' = IF server = "listening" THEN "closed" ELSE server
  /\ UNCHANGED <<env, middleware, health, signals, handlers, grace, signalled>>

\* The server listens no more, whether or not it had begun to.
StopListening ==
  /\ Goes("stop", "shutdown")
  /\ server' = IF server = "failed" THEN "failed" ELSE "closed"
  /\ UNCHANGED <<env, middleware, health, signals, handlers, grace, signalled>>

\* Faulty variant: the server is closed, not shut down.
ShutdownAtOnce ==
  /\ Goes("shutdown", "exited")
  /\ UNCHANGED <<env, middleware, server, health, signals, handlers, grace, signalled>>

\* Shutdown is given the context of main, which never ends, not that of the timeout.
Shutdown ==
  /\ Goes("shutdown", "exited")
  /\ handlers = {}
  /\ UNCHANGED <<env, middleware, server, health, signals, handlers, grace, signalled>>

Main == GetConfig \/ New \/ NewFails \/ Run \/ ReceiveSignal \/ Close \/ StopListening \/ Shutdown

-----------------------------------------------------------------------------
(* The goroutine that serves, and the handlers.                              *)

Listen ==
  /\ ~Ended /\ server = "starting"
  /\ server' = "listening"
  /\ UNCHANGED <<env, pc, middleware, health, signals, handlers, grace, signalled>>

\* ListenAndServe cannot listen, or stops accepting: its error is logged.
ServeFails ==
  /\ ~Ended /\ server \in {"starting", "listening"}
  /\ server' = "failed"
  /\ UNCHANGED <<env, pc, middleware, health, signals, handlers, grace, signalled>>

Accept(r) ==
  /\ ~Ended /\ server = "listening" /\ r \notin handlers
  /\ handlers' = handlers \cup {r}
  /\ UNCHANGED <<env, pc, middleware, server, health, signals, grace, signalled>>

HandlerEnds(r) ==
  /\ ~Ended /\ r \in handlers
  /\ handlers' = handlers \ {r}
  /\ UNCHANGED <<env, pc, middleware, server, health, signals, grace, signalled>>

-----------------------------------------------------------------------------
(* The operating system, and time.                                           *)

\* Faulty variant: an unbuffered channel takes a signal only from a waiting main.
SignalUnbuffered ==
  /\ ~Ended
  /\ signals' = IF pc = "wait" THEN 1 ELSE signals
  /\ signalled' = TRUE
  /\ UNCHANGED <<env, pc, middleware, server, health, handlers, grace>>

\* Faulty variant: the channel has no bound.
SignalUnbounded ==
  /\ ~Ended
  /\ signals' = signals + 1 /\ signalled' = TRUE
  /\ UNCHANGED <<env, pc, middleware, server, health, handlers, grace>>

\* signal.Notify does not block: a signal the buffer has no room for is dropped.
Signal ==
  /\ ~Ended
  /\ signals' = IF signals < SignalBuffer THEN signals + 1 ELSE signals
  /\ signalled' = TRUE
  /\ UNCHANGED <<env, pc, middleware, server, health, handlers, grace>>

\* Nobody waits for the context of the timeout.
TimeoutElapses ==
  /\ ~Ended /\ grace = "running"
  /\ grace' = "elapsed"
  /\ UNCHANGED <<env, pc, middleware, server, health, signals, handlers, signalled>>

HasEnded == Ended /\ UNCHANGED vars

Next ==
  \/ Main \/ Listen \/ ServeFails
  \/ \E r \in Requests : Accept(r) \/ HandlerEnds(r)
  \/ Signal \/ TimeoutElapses
  \/ HasEnded

\* main and the serving goroutine run, and time passes. Nothing is assumed of the
\* handlers, nor of anybody sending a signal.
Fairness == WF_vars(Main) /\ WF_vars(Listen) /\ WF_vars(TimeoutElapses)

Spec == Init /\ [][Next]_vars /\ Fairness

-----------------------------------------------------------------------------
(* The inductive invariant: what main has done before it serves, and what it *)
(* has stopped when it ends.                                                 *)

Started == pc \in {"wait", "close", "stop", "shutdown", "exited"}

Complete == (cfg.publishing => middleware) /\ cfg.limit >= 0

Inv ==
  /\ pc = "run" => Complete
  /\ Started => Complete /\ health # "none" /\ server # "none"
  /\ ~Started => server = "none" /\ handlers = {}
  /\ pc \in {"shutdown", "exited"} => server \in {"failed", "closed"}
  /\ pc = "exited" => handlers = {}

-----------------------------------------------------------------------------
(* Properties.                                                               *)

\* A service that accepts requests is complete: its publishing routes have their
\* middleware, its limiter could be made, and its health is being checked.
ServesComplete ==
  server = "listening" =>
    /\ cfg.publishing => middleware
    /\ cfg.limit >= 0
    /\ health # "none"

\* The process does not end under a running handler.
NoHandlerIsCut == Ended => handlers = {}

\* A service that was not told, legibly, to be a web one is a publishing one with its
\* middleware: no setting that does not parse opens the files of publishing.
PublishingIsNeverOpen ==
  server = "listening" =>
    \/ cfg.publishing /\ middleware
    \/ env.publishing = "false" /\ env.unreadable # "publishing"

\* main.go:52: main "blocks until an os interrupt or a fatal error occurs", so it does
\* not go on waiting when nothing is served any more. What happens after the wait,
\* a shutdown that takes for ever included, is not asked here.
ServeFailureEndsWait == pc = "wait" /\ server = "failed" ~> pc # "wait"

\* README.md:57: GRACEFUL_SHUTDOWN_TIMEOUT is "the graceful shutdown timeout";
\* service/service.go:260: "shutdown with timeout". When it is over, so is the process.
ShutdownIsBounded == grace = "elapsed" ~> Ended
=============================================================================
