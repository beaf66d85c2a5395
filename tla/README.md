# Verification of dp-download-service

TLA+ modules, TLC model checking and TLAPS proofs for the download service: a
Go HTTP service that hands out files kept in a private S3 bucket, in a
*publishing* environment (users have tokens and permissions, every read is
audited) and in a *web* environment (anyone may ask, nothing is audited).
Paths below are relative to `src/`.

## Inventory

| Part | Code | State it keeps | Operations | Hard behaviour |
|---|---|---|---|---|
| File downloads | `api/download.go`, `api/auth.go`, `api/errors.go`, `files/` | none of its own; per request: metadata, response, S3 body | GET `/downloads/files/{path}`, `/downloads-new/{path}` | the file moves on between the metadata and the bucket; every call can fail; a copy fails after the status has left; the event must precede the disclosure |
| Concurrency limiter | `api/limiter.go` | slots in a buffered channel | acquire without blocking, release (deferred), refuse with 429 | concurrent handlers, panics, limit 0 |
| Store downloads (legacy) | `handlers/download.go`, `downloads/downloader.go`, `content/s3_stream_writer.go` | none; per request: link model, response, S3 body | GET datasets, filter outputs, images | a stream that fails half way; published and authorised combined; a link that does not parse |
| Log data of errors | `handlers/callback.go` | none | merge the log data of a chain of wrapped errors, before a failed request is answered | repeated keys, values that cannot be compared, the order of the keys |
| Configuration | `config/config.go` | the settings | Get, once | a value that does not parse leaves the fields after it at their defaults, and `main` goes on |
| Service life cycle | `main.go`, `service/service.go` | server, health checker, signals | New, Run, Close | a server that cannot listen, a second signal, a shutdown while handlers run |
| Routing and middleware | `service/service.go:157-203` | none of its own | routes per environment; health check, limiter, CORS, headers | order of the chain; handlers built without a middleware; a shutdown while requests are in the chain |
| Health checks | `service/service.go:113-122, 210-243, 246, 263` | the checker's (a library) | register, start, stop | one registration of several fails |
| External clients | `service/external/external.go` | none | construction | - |

How they interact: every request but `/health` passes the limiter, then its
handler. The file handlers call the Files API (metadata, events), the token
parser and permissions checker, and the bucket; the store handlers call the
dataset, filter or image API and the bucket. Requests share only the limiter's
channel, the Files API's records and the two buckets. `main` starts the server
in a goroutine and waits for a signal, then shuts the server down.

What would make each part correct:

* file downloads: no disclosure without its event and permission; an answer is
  either the file or an error, and says which; a short file is visible as such;
  what a cache may keep is true for good; a 500 has a cause; every request is
  answered and gives its S3 body back;
* limiter: never more than n handlers, no refusal while there is room, no slot
  lost or given back twice, nobody waits;
* store downloads: private content only when published or authorised; redirects
  only to published objects; body and status agree;
* both kinds of download: an answer reflects one state that the file had while
  the request ran, although several services are asked one after the other;
* middleware: a busy service still answers its health checks; what has passed
  the limiter is waited for at the shutdown;
* configuration: no setting that does not parse opens a publishing service;
* log data: every value of the chain is there, in order, and logging an error
  does not lose the answer;
* life cycle: the process ends after a signal within the grace period, a fatal
  error ends it too, a started service can answer on every route.

## Modules

| Module | What it is |
|---|---|
| `HttpResponse` | the `http.ResponseWriter` the handlers write to (net/http, external): the first commit of status and header, the write a declared length refuses, the broken connection, and what the client can tell from the result |
| `DownloadContract` | abstract: what any download promises. A request looks at its file once and answers what it saw |
| `FileDownload` | the file handlers: any number of concurrent requests against the life cycle of the files; implements `DownloadContract` |
| `StoreDownload` | the legacy handlers: concurrent requests for dataset versions, filter outputs and images, in both environments; implements `DownloadContract` |
| `ConcurrencyLimit` | abstract: what the comment at `api/limiter.go:5-12` promises, without a counter |
| `Limiter` | the limiter with its channel; `ImplementsLimit` says it implements `ConcurrencyLimit` |
| `Config` | `config.Get` as a function of the environment |
| `ServiceLifecycle` | the process: `main`, `New`, `Run`, `Close`, the serving goroutine, its handlers, signals and the timeout; extends `Config` |
| `DownloadService` | `ServiceLifecycle` and an instance of `Limiter` composed by the middleware chain |
| `LogData` | `unwrapLogData`, step by step |
| `MCFileDownload`, `MCServiceLifecycle`, `MCDownloadService`, `MCLogData` | symmetry and values for the runs |
| `*_proofs` | theorems and their proofs: `HttpResponse`, `FileDownload`, `Limiter`, `StoreDownload`, `ServiceLifecycle`, `DownloadService`, `LogData` |
| `FileAnswers_proofs` | extends `FileDownload_proofs`: why requests fail, truncation, one state per answer |

### FileDownload and the code

A request is at a step `pc[r]`, one step for each call that leaves the process,
so everything else can happen between two calls:

| `pc` | Action | Code |
|---|---|---|
| fetch | `FetchMetadata`: `GetFile`, and `handleMetadataError` on its errors | `api/download.go:26-42, 92-101, 159-176` |
| authenticate | `GetAuthEntityData`: the kinds of token | `:44-58`, `api/auth.go:34-51` |
| authorise | `CheckUserPermission` with the attributes of the edition | `:60-64, 74-78, 111-122`, `api/auth.go:54-70` |
| record | `RecordFileEvent` | `:66-69, 124-138`, `files/event.go:26-56` |
| check | `HandleUnsupportedMetadataStates` | `:81, 103, 191-227` |
| open | `DownloadFileFromBucket`: headers first, then the bucket | `:140-147, 270-274` |
| copy | `WriteFileToResponse`: chunk, end, read error, write error, with the deferred close | `:149-157, 229-233, 261-264` |

Publishing requests go through all of them, web requests skip the middle three.
`catalogue` and `client` are chosen once: what is registered of a file (its
size, the real length of the object, the edition) and who asks (path, kind of
token, granted editions). `state`, `private` and `public` are the Files API's
life cycle and the two buckets; they are external and move at any time. `audit`
is the Files API's log of events. `faults` is a history variable.

Abstractions: a path, an edition and a token are values; a body is the number of
units of the file and of an error document in it; `"max-age"` stands for the
year of `:236`; Content-Type, Content-Disposition, Location, logs and JSON
contents are left out. io.Copy goes through `Write`, because the server's
request logger wraps the `ResponseWriter` and hides `ReadFrom`.

### Limiter and the code

`n` is the argument of `Limiter`, chosen once. `pc[r]` says whether a connection is idle, in the limiter or in the handler;
`counter` is the number of elements in the channel. `Acquire` is the send case
of the select, `Reject` its default, `Bypass` the `n < 1` branch, `Return` and
`Panic` the two ways out of `ServeHTTP`, both with the deferred receive.

### StoreDownload and the code

| `pc` | Action | Code |
|---|---|---|
| require | `Require`, in publishing only; `RequireFails`: the middleware's own 500 | `service/service.go:157-168` |
| lookup | `Lookup`: the API's answer, the links of the item and the choice between them | `handlers/download.go:104-148`, `downloads/downloader.go:91-215` |
| open | `OpenStream`: the Get of `StreamAndWrite` | `content/s3_stream_writer.go:38-44` |
| copy | `StreamAndWrite`: chunk, end, read error, write error, with the deferred close; an error goes back to `setStatusCode` | `content/s3_stream_writer.go:46-60`, `handlers/download.go:55-73, 135-139` |

An item is one downloadable variant. Dataset versions and filter outputs have
the same shape of links and are one kind, `"document"`; an image has a private
path that is made up from its name and a public link only in its completed
state. `link` says whether the API has a private link for the item and whether
`url.Parse` reads it. `published`, `public`, `link` and `stored` change at any
time between the steps of a request (`LifeCycle`, external). `client` says
whether `Require` (external) finds the permission (if it can be checked at all), and whether
`request.IsCallerPresent` (external) finds a caller in the context; the two are
independent, because the code relies on nothing that relates them.
`isPublishing` is chosen in `Init` and does not change. Content-Disposition, the
log data and the short HTML body of `http.Redirect` are left out.

### ServiceLifecycle and the code

`pc` is where `main` is: config, new (`service.New`), run (`svc.Run`), wait
(`<-signals`), close, stop and shutdown (the parts of `svc.Close`), exited or
panicked. `server` is the goroutine of `Run`, which `main` does not wait for;
`handlers` are the requests net/http has accepted and not finished; `signals` is
the channel of length 1 that `signal.Notify` fills and never blocks on; `grace`
is the context `Close` makes with the graceful shutdown timeout. `env` is what the
environment sets, and `cfg`, the configuration `main` goes on with, is
`Get(env)`: `config.Get` (`config/config.go:59-92`) starts from its defaults,
`envconfig.Process` (external) reads the fields in the order of the struct and
stops at the first one that does not parse, and `main.go:39-42` logs the error
and continues. Only the settings on which start-up turns are kept, with one for
the durations in front of them and the URL between them, whose only effect is
to stop the reading. `New` panics on a nil middleware (publishing without
authorisation) and on a negative limit.
`NewFails` stands
for every early return of `New`: `log.Fatal` of the logging library logs and
returns (`service/service.go:116-117` has a return after it), so `main` calls
`Run` on a nil service and panics.

### DownloadService and the code

`Receive` is the entry of the chain of `service/service.go:190-203`: the health
check filter answers `/health` itself (`AnswerCheck`, a request in `checks`) and
passes everything else to the limiter, whose state is an instance `Lim` of
`Limiter` with the configured limit. `Decide` is the limiter's select: `Refuse`
is its default case and ends the request, the other cases run the handler, which
ends in `DownloadEnds` by returning or by a panic that net/http recovers. Every
end of a request is a `HandlerEnds` of `ServiceLifecycle`, so the shutdown sees
the same requests as the limiter. What the handlers do in between is
`FileDownload` and `StoreDownload`; they touch neither the process nor the
limiter, so here a handler just runs, perhaps for ever. CORS, the header checks
and the router answer or pass on and keep nothing: they are part of the handler.

### DownloadContract and the two kinds of download

A request looks at the exposure of its file (hidden, readable, public) at most
once, and then answers file, redirect or absent by what it saw; it may fail at
any time. In `FileDownload` the look is the fetch of the metadata, in
`StoreDownload` the lookup; the events, checks, buckets and copies after it must
not change what is answered. `ImplementsContract` checks the whole abstract
specification, its fairness included: every request is answered.
`ReflectsOneState` is its safety part, for the run with symmetry.

### LogData and the code

`chain` are the errors, outermost first; `Unwrap` is the loop of
`handlers/callback.go:21-29`, `StartMerge`, `NextMap` and `MergeKey` the two
loops of `:34-50`, with the keys of a map in any order, as Go iterates them. A
value is a scalar, a list or a map: `val != v` on two lists or two maps panics,
on anything else it compares. `IsMergeOf` says what a key becomes from the places
of the chain it is at and its values there alone: the one value it has, or a
list that begins with the outermost value and goes through the places from the
first one whose value differs, in their order. It does not follow the loops.

## Runs

| Run | Question | Bounds |
|---|---|---|
| `publishing` | types, the inductive invariant, audit, permissions, caching, causes of 500, S3 bodies, one state per answer | 2 requests, 1 path, 1 edition, the 4 kinds of token, 3 grants, sizes 0 and 2; 675,780 states up to symmetry |
| `web` | the inductive invariant, bodies, truncation, broken-off errors, liveness, the refinement of `DownloadContract` | 2 requests, 1 path, sizes 0 to 2 registered and real; 20,818 states |
| `web_unpublished` | does the web hide an unpublished file? **no** | as `web` |
| `web_error` | can the client read every error? **no** | as `web` |
| `limiter` | types, slots, bound, refusals, the refinement of `ConcurrencyLimit` | 4 connections, 2 slots or no limit; 1,773 states |
| `store` | types, the inductive invariant, entitlement, redirects, the meaning of 404, 500 and 200, the refinement of `DownloadContract` | 2 requests, 1 item of either kind, both environments, objects of length 0 and 2; 107,122 states |
| `store_stream` | is every complete 200 the file? **no** | as `store` |
| `service` | the process and its chain: types, the inductive invariant, complete and closed start-up, no handler cut, health checks, signals heeded, the limiter under a shutdown | 2 requests, every environment, limits -1, 0 and 1; 83,780 states |
| `lifecycle_serve` | does a fatal error end the wait of `main`? **no** | `ServiceLifecycle` alone, as `service`; 6,244 states |
| `lifecycle_shutdown` | does the timeout bound the shutdown? **no** | as `lifecycle_serve` |
| `logdata` | the inductive invariant (with the types), the merge against its reference, when it panics | chains of up to 4 errors, 9 maps over 1 or 2 keys; 133,332 states |
| `logdata_duplicates` | is no value collected twice? **no** | as `logdata`, texts under one key |

Why the bounds are enough. Requests interact only through the audit log and the
file: two requests show every pair of interleaved steps, one path has them meet
(the events of different paths are different records). Lengths 0, 1 and 2 with
an error document of length 1 give every order of "declared", "real" and "error"
lengths, an empty file, a copy in one chunk or in two and a failure between the
chunks. Grants are none, the file's edition and every edition; files come with
and without an edition. Four connections against two slots have both slots
taken, one refused and one arriving. In the store runs requests for
different items share nothing, so one item is enough; an object of length 2 is
copied in one chunk or two and can fail before, between and after them. In the
service only the sign of the limit matters to start-up; with limit 1 two requests
have one run and one refused, or one handled while a health check is answered,
and one end while the other runs into the shutdown. A chain of four errors has
three whose data counts (`MaxLevels`): a value, a second one that begins a list,
a third that is appended to it, of every kind. Symmetry is used in `publishing`
only, which checks no liveness; each request has its own client, chosen in
`Init`, so the requests are interchangeable. No counter is unbounded: a request
ends.

Deadlock is checked in every run: the only states in which nothing more happens
are those in which all requests have their answers (`AllAnswered`), or the process
or the merge has ended (`HasEnded`).

Fairness. A request's goroutine keeps running and its calls return (every client
has a timeout, or the connection ends): weak fairness of `Handle(r)`. Nothing is
assumed of the life cycle of files, nor of which outcome a call has. In the
limiter only `Decide(r)` is fair, the select with a default never blocks, and
handlers may run for ever; so `ImplementsLimit` includes that a request is
refused or admitted although nobody else moves. In the life cycle `main`, the
serving goroutine and the clock go on; nothing is assumed of handlers, of
failures or of anybody sending a signal. In the composed service the goroutine of
a request also goes on while it is in the filter or the limiter (`Respond(r)`,
neither blocks); `SignalIsHeeded` says itself that no download runs for ever.

## What the runs found

* **Unpublished files on the web** (`web_unpublished`). `README.md:23` and the
  comment at `api/download.go:89` say an UPLOADED file is a 404 in web mode. The
  web routes use `CreateDownloadHandlerNoAuth`, whose state check
  (`api/download.go:213-227`) hides only CREATED files. The unit test
  `TestHandleFileNotPublishedWeb` (`api/download_test.go:299-324`) has the metadata
  fail with `ErrFileNotRegistered`, so it gets its 404 before any state is checked;
  `features/download_files_web_mode.feature:50-75` expects the 404.
* **Unreadable errors** (`web_error`). `streamFile` sets the Content-Length of
  the file before it opens the object (`api/download.go:141`). When the bucket
  fails, the JSON error document goes out under that length: net/http refuses a
  longer one, and a shorter one leaves the client waiting for bytes that never
  come. `OnlyBucketErrorsBreakOff`, which holds, says no other error is affected.
* **Truncated streams that look complete** (`store_stream`). When the bucket
  fails under a copy, `handlers/download.go:137` calls `http.Error`: the status
  is already 200, the message is appended to the bytes of the object, and, as no
  length is declared, the chunked body ends normally. `swagger.yml:292-293`
  promises the requested file. The file handlers do not have this:
  `TruncationIsVisible` holds of them.
* **A service that serves nothing** (`lifecycle_serve`). `main.go:52` says the
  wait ends on a signal or a fatal error; an error of `ListenAndServe` is logged
  in its goroutine (`service/service.go:249`) and `main` waits on. The property,
  `ServeFailureEndsWait`, is about the wait alone: `main` is fair and takes a signal
  that is there, so only a behaviour without one violates it, and a shutdown that
  hangs does not.
* **An unbounded shutdown** (`lifecycle_shutdown`). `Close` makes a context with
  GRACEFUL_SHUTDOWN_TIMEOUT (`README.md:57`) and passes another one to
  `Shutdown` (`service/service.go:265`); a handler that hangs holds the process.
* **Values collected twice** (`logdata_duplicates`). `handlers/callback.go:31-33`
  says that duplicate key-value pairs are not collected. A new value is compared
  with the list once there is one (`:38`), so of a, b, a all three are kept; only
  repetitions in front of the first different value are dropped. `MergeIsReference`
  says exactly what is kept, `PanicHasCause` when the comparison panics: none of
  the errors in this repository carries lists or maps, but the type of the log data
  (`map[string]interface{}`) admits them.

## Proofs

All proofs are for every value of the constants: any set of requests, paths,
editions and grants, any sizes, both environments.

`FileDownload_proofs`: what is disclosed. `Typed` (types, and that a request past
its first call holds the metadata of a registered file) is inductive and gives
`TypeCorrectness`. `OrderInv` adds, for each request, that

* `RespondsInOrder`: nothing is committed before the copy, and every response
  is untouched, refused, redirected or sent;
* `IsAccountable`: token, permission and event are behind it by the step it has
  come to, and `NamesReaders`: the log names only permitted users;
* `HoldsReader`: its S3 body is open exactly while it copies;

and that moved files are public. None of the properties is inductive alone:
`DisclosureIsAudited` speaks of answered requests, and needs what holds of a
request that is about to answer. The proof has one lemma per part, each by
cases on the actions (`HandleMetadata`, `HandleResponds`, `HandleAccounts`,
`HandleHoldsReader`), and a frame argument for the other requests
(`OthersKeepTheirOwn`, `OthersStayUnnamed`, `HistoryGrows`, `StaysInOrder`).
From `OrderInvariance` follow `AuditIsComplete`, `OnlyReadersAreServed`,
`BodiesMatchStatuses`, `CacheIsSound` and `ReadersAreClosed`. The proofs use
`FileDownloadAssumption`: sizes are natural numbers, an error document is not
empty, the kinds of token are the four listed.

`FileAnswers_proofs`: what is told. `Inv` adds to `OrderInv` what an answer is due
to (`IsExplained`): before the copy nothing has failed and no length is declared
(`Undisturbed`); during it the registered size is, and all that was read was sent
(`Copying`); an answered request has one of a few outcomes (`HasOutcome`). A 500 of
the bucket is the hard case: the object may be gone without a fault, but only
because the file has moved on since its metadata was read. That needs
`StoredUntilMoved` (an uploaded file keeps its object until it is moved) and
`FollowsState` (a request asks the bucket only for a file that had one, and the file
has it still or is moved). One lemma says what each step makes of the response
(`HandleOutcomeEarly`, `HandleOutcomeChecked`, `HandleOutcomeOpened`,
`HandleOutcomeCopied`). `FailuresHaveCauses`, `TruncationsAreVisible` and
`ErrorsArriveWhole` follow; proving them showed that a wrong registered size is no
cause of a 500, because by the time it shows the 200 is out, so `FailureHasCause`
does not admit it. `AnswersReflectOneState` is the refinement of
`DownloadContract` without its fairness: `FetchMetadata` is the step that looks,
the steps between it and the answer are stutters (`SilentStep`), and every step
that commits a status answers what was seen (`AnsweringStep`, one lemma per handler
step: `FetchRefines`, `ChecksRefine`, `CheckRefines`, `CopyRefines`). It holds
although the file moves on in between, because the kind of answer depends on the
metadata read, and a failure is an answer the contract allows at any time.

`Limiter_proofs`. The invariant adds to `SlotsAreConserved` that the counter
fits the channel and that no unanswered request has an answer; it gives the
bound, the meaning of a refusal, and `RefinesLimit`, the safety part of the
refinement. It assumes that the limits are natural numbers and the connections
finitely many (`LimiterAssumption`).

`StoreDownload_proofs`. `Inv` says of a request at each step what entitles it,
what it has written (`Streaming`: only bytes of the object, without a declared
length) and whether it holds an S3 body, and of an answered one that it is
`Refused`, `Redirected` or `Streamed`. `LinkedWhenStored` is needed with it:
`FailureHasCause` speaks of the link as it is now, the request has read it
earlier, and a link that is there is not replaced. One lemma per step
(`RequireInOrder`, `LookupInOrder`, `OpenStreamInOrder`, `StreamAndWriteInOrder`),
one for the items (`ItemsGrow`) and one for the requests that do nothing
(`StaysInOrder`). `OnlyEntitledAreServed`, `RedirectsArePublic`,
`FailuresHaveCauses` and `StreamsAreWhole` follow. They use
`StoreDownloadAssumption`, lengths are natural numbers and an error is not empty.
`PublishedItemsAreFound` is an action property: of the steps that give a 404 only
the lookup does so without the API's word, and then the item it read has no link
that counts (`RequireAnswers`, `LookupAnswers`, `StreamAnswers` list what each step
answers). `AnswersReflectOneMoment` is the refinement of `DownloadContract` without
its fairness: here the lookup is the step that looks (`LookingStep`).

`LogData_proofs`. The properties compare the result of two nested loops with what
the chain holds, and speak of places instead of recursing over the chain, so that
no induction over data is needed: the induction is that over the steps. `Inv` has
the maps collected come from the errors read, in order (`Collected`), and what is
merged be the merge of the places looked at (`Merged`, over `Seen`). The lemmas say
that a merge of some places grows by one place behind them (`OneValue`, `SameAgain`,
`OneMore`), that what can be compared does not collide and what cannot does
(`ComparableIsSafe`, `PanicIsCollision`), and that both are the same for the places in
the maps collected and those along the chain (`MergePlaced`, `CollisionPlaced`).
`MergesAreReference` and `PanicsHaveCauses` follow, for chains of any length and any
log data; `DataAssumption` says that a value is of one of three kinds and a list is
a sequence.

`ServiceLifecycle_proofs`. `Inv` says what `main` has done before anything is
served and what it has stopped when it ends; `ServiceIsComplete` and
`HandlersAreNotCut` follow, for any set of requests and of limits
(`ConfigAssumption`: the limits are integers). `PublishingStaysClosed` combines
the first with what `Get` makes of an environment (`PublishingIsTheDefault`).

`DownloadService_proofs`. The composition is shown to preserve both parts: every
step of the service is a step of the process or leaves it alone (`StepOfProcess`),
and likewise of the limiter (`StepOfLimiter`). `ServiceIsLifecycle` and
`ServiceRefinesLimiter` follow, and with them the invariants of both, the
limiter's through an instance of `Limiter_proofs` with the configured limit
(`LimiterInvariance`). `Counted`, which relates the two, is inductive on top of
them and gives `DownloadsCounted`; `TypesOfService` and `BusyStaysAlive` need all
three. `DownloadServiceAssumption`: there are finitely many requests.

Every safety invariant and action property that a passing run checks is proved.
Only model-checked: liveness, that is `EveryRequestIsAnswered`, `SignalIsHeeded` and
the fairness part of `ImplementsLimit`, `ImplementsLimiter` and `ImplementsContract`,
which the prover does not reach.

## Not modelled

* External clients (`service/external/external.go`): they are constructed there
  and keep no state; a construction that fails is `NewFails`. The choice of a
  local object store is a test set-up.
* What the health checker computes, the permissions checker's cache and the token
  parser: libraries, modelled by what the code relies on.
* The patterns of the router, the CORS and header middleware: they keep no state
  and pass a request on or answer it.
* Addresses, credentials and durations of the configuration.
* A publication or a move that is taken back, or a link that is replaced: the
  life cycles of files and items only go forward, as the states the code knows do.
  So `CachedAnswerIsFinal` and `PrivateIsEntitled` say nothing of a file that is
  withdrawn after the answer, or of an item withdrawn between lookup and stream.
* The migration script under `scripts/`: not part of the service.
* The component tests and mocks under `features/`: they drive the service.

## Plan

Order, most important first; all models are done.

1. `HttpResponse`, `FileDownload`, `MCFileDownload`, `FileDownload_proofs`: done.
2. `ConcurrencyLimit`, `Limiter`, `Limiter_proofs`: done.
3. `StoreDownload`, `StoreDownload_proofs`: done.
4. `Config`, `ServiceLifecycle`, `MCServiceLifecycle`, `ServiceLifecycle_proofs`: done.
5. `DownloadContract`, implemented by `FileDownload` and `StoreDownload`: done.
6. `DownloadService`, `MCDownloadService`, `DownloadService_proofs`: done.
7. `LogData`, `MCLogData`, `LogData_proofs`: done.
8. `FileAnswers_proofs`, and the refinement of `DownloadContract` by both kinds of
   download: done.
9. Left: theorems about `Config` on its own and about how far a request can go at
   all, which its liveness rests on.
