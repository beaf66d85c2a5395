---------------------------- MODULE FileDownload ----------------------------
(***************************************************************************)
(* Concurrent GET /downloads/files/{path} (and /downloads-new/{path})      *)
(* requests: the handlers of api/download.go with everything they call in  *)
(* api/auth.go, api/errors.go and files/, against                          *)
(*   - the Files API, which owns the life cycle of every file and the log  *)
(*     of file events,                                                     *)
(*   - the private bucket the service streams from, and the public bucket  *)
(*     a moved file is redirected to,                                      *)
(*   - the permissions checker, and the client at the other end of the     *)
(*     connection.                                                         *)
(* A request takes one step for each call that leaves the process, so that *)
(* the life cycle and the other requests run between any two of its calls. *)
(* Each call may fail.                                                     *)
(***************************************************************************)
EXTENDS HttpResponse

CONSTANTS Requests,      \* the requests of a behaviour
          Paths,         \* the file paths they ask for
          Editions,      \* the "dataset/edition" values of content items
          Tokens,        \* the kinds of access token in use
          Grants,        \* what users may be granted: sets of editions
          Sizes,         \* bounds the length of a file
          ErrorLength,   \* the length of an error document
          IsPublishing   \* cfg.IsPublishing: the publishing or the web environment

\* What the token checks tell apart: a user's JWT, one that does not parse, one
\* that is refused for another reason, and a token without a "." (or none).
TokenKinds == {"user", "malformed", "refused", "opaque"}

NoEdition == "no edition"
AnyEdition == "any edition"

ASSUME FileDownloadAssumption ==
  /\ IsPublishing \in BOOLEAN
  /\ Tokens \subseteq TokenKinds
  /\ Sizes \subseteq Nat
  /\ ErrorLength \in Nat \ {0}

VARIABLES
  catalogue,  \* of each path: the registered size, the object's length, the edition
  client,     \* of each request: the path, the kind of token, the user's grant
  state,      \* the Files API's state of each file
  private,    \* the paths with an object in the private bucket
  public,     \* the paths with an object in the public bucket
  audit,      \* the file events the Files API has recorded
  pc,         \* the next step of each request
  meta,       \* the file state in the metadata each request fetched
  resp,       \* the response of each request
  read,       \* how much of the object each request has read
  reader,     \* the S3 body of each request
  faults      \* history: the dependencies that failed each request

environment == <<catalogue, client, state, private, public>>
vars == <<catalogue, client, state, private, public,
          audit, pc, meta, resp, read, reader, faults>>

FileStates == {"CREATED", "UPLOADED", "PUBLISHED", "MOVED"}
Steps == {"fetch", "authenticate", "authorise", "record", "check", "open", "copy", "done"}
Dependencies == {"metadata", "permissions", "events", "storage", "client"}
Events == [request : Requests, path : Paths, state : FileStates]

TypeOK ==
  /\ catalogue \in [Paths -> [size : Sizes, length : Sizes, edition : Editions \cup {NoEdition}]]
  /\ client \in [Requests -> [path : Paths, token : Tokens, grant : Grants]]
  /\ state \in [Paths -> FileStates \cup {"UNREGISTERED"}]
  /\ private \subseteq Paths /\ public \subseteq Paths
  /\ audit \subseteq Events
  /\ pc \in [Requests -> Steps]
  /\ meta \in [Requests -> FileStates \cup {"none"}]
  /\ resp \in [Requests -> Responses]
  /\ read \in [Requests -> Nat]
  /\ reader \in [Requests -> {"none", "open", "closed"}]
  /\ faults \in [Requests -> SUBSET Dependencies]

Init ==
  /\ catalogue \in [Paths -> [size : Sizes, length : Sizes, edition : Editions \cup {NoEdition}]]
  /\ client \in [Requests -> [path : Paths, token : Tokens, grant : Grants]]
  /\ state = [p \in Paths |-> "UNREGISTERED"]
  /\ private = {} /\ public = {} /\ audit = {}
  /\ pc = [r \in Requests |-> "fetch"]
  /\ meta = [r \in Requests |-> "none"]
  /\ resp = [r \in Requests |-> NewResponse]
  /\ read = [r \in Requests |-> 0]
  /\ reader = [r \in Requests |-> "none"]
  /\ faults = [r \in Requests |-> {}]

-----------------------------------------------------------------------------
(* The life cycle of a file: files/metadata.go lists its states, the Files   *)
(* API and the publisher (outside the repository) move a file through them.  *)

Enters(p, from, to) == state[p] = from /\ state' = [state EXCEPT ![p] = to]

Register(p) == Enters(p, "UNREGISTERED", "CREATED") /\ UNCHANGED <<private, public>>

CompleteUpload(p) ==
  Enters(p, "CREATED", "UPLOADED") /\ private' = private \cup {p} /\ UNCHANGED public

Publish(p) == Enters(p, "UPLOADED", "PUBLISHED") /\ UNCHANGED <<private, public>>

Move(p) == Enters(p, "PUBLISHED", "MOVED") /\ public' = public \cup {p} /\ UNCHANGED private

\* Nothing reads the private copy of a moved file, so it may be removed.
RemovePrivateCopy(p) ==
  /\ state[p] = "MOVED" /\ p \in private
  /\ private' = private \ {p}
  /\ UNCHANGED <<state, public>>

LifeCycle(p) ==
  /\ Register(p) \/ CompleteUpload(p) \/ Publish(p) \/ Move(p) \/ RemovePrivateCopy(p)
  /\ UNCHANGED <<catalogue, client, audit, pc, meta, resp, read, reader, faults>>

-----------------------------------------------------------------------------
(* What the handlers do to a response.                                       *)

\* Faulty variant: a failed dependency is answered 502, which no client expects.
ErrorStatusOfGateway(err) ==
  CASE err = "ErrFileNotRegistered" -> 404
    [] err = "ErrNotAuthorised"     -> 403
    [] err = "ErrInvalidAuth"       -> 401
    [] OTHER                        -> 502

ErrorStatus(err) ==
  CASE err = "ErrFileNotRegistered" -> 404
    [] err = "ErrNotAuthorised"     -> 403
    [] err = "ErrInvalidAuth"       -> 401
    [] OTHER                        -> 500

HandleError(w, err) ==
  WriteError(WriteHeader(SetCacheControl(w, "no-cache"), ErrorStatus(err)), ErrorLength)

SetStatusMovedPermanently(w) == WriteHeader(SetCacheControl(w, "max-age"), 301)

SetStatusNotFound(w) == WriteHeader(SetCacheControl(w, "no-cache"), 404)

SetStatusInternalServerError(w) == WriteHeader(SetCacheControl(w, "no-cache"), 500)

\* Faulty variant: the content headers without the length.
SetContentHeadersUnsized(w, size) == w

SetContentHeaders(w, size) == SetContentLength(w, size)

\* Faulty variant: the answers of the handler with auth may be cached.
OpenedCacheable(w) == w

\* The handler with auth declares its responses uncacheable before anything else.
Opened(w) == IF IsPublishing THEN SetCacheControl(w, "no-cache") ELSE w

-----------------------------------------------------------------------------
(* One request.                                                              *)

PathOf(r) == client[r].path

Continue(r, step, w) ==
  /\ pc' = [pc EXCEPT ![r] = step]
  /\ resp' = [resp EXCEPT ![r] = w]

Return(r, w) == Continue(r, "done", Finish(w))

Fail(r, dependency) == faults' = [faults EXCEPT ![r] = @ \cup {dependency}]

\* GetFile's errors, by the text handleMetadataError finds in them.
MetadataErrors == {"not registered", "status code 401", "not authorised", "other"}

\* The errors wrap their text, so each is replaced by the sentinel error that
\* handleError compares with. Faulty variant: the error is passed on as it is.
UnmappedError(err) == "other"

Sentinel(err) ==
  CASE err = "not registered"  -> "ErrFileNotRegistered"
    [] err = "status code 401" -> "ErrInvalidAuth"
    [] err = "not authorised"  -> "ErrNotAuthorised"
    [] OTHER                   -> "other"

\* GetFile answers with the metadata, or with an error: it does not know the
\* file, it refuses the caller, or it fails.
FetchMetadata(r) ==
  LET s == state[PathOf(r)]
      w == Opened(resp[r])
  IN  /\ pc[r] = "fetch"
      /\ \/ /\ s # "UNREGISTERED"
            /\ meta' = [meta EXCEPT ![r] = s]
            /\ Continue(r, IF IsPublishing THEN "authenticate" ELSE "check", w)
            /\ UNCHANGED faults
         \/ \E err \in MetadataErrors :
              /\ err = "not registered" => s = "UNREGISTERED"
              /\ Return(r, HandleError(w, Sentinel(err)))
              /\ IF err = "other" THEN Fail(r, "metadata") ELSE UNCHANGED faults
              /\ UNCHANGED meta
      /\ UNCHANGED <<environment, audit, read, reader>>

\* Faulty variant: only a JWT is checked, a service token goes on.
AuthErrorOfJwt(token) ==
  CASE token = "malformed" -> "ErrInvalidAuth"
    [] token = "refused"   -> "other"
    [] OTHER               -> "none"

\* getAuthEntityData's outcome for each kind of token: a "." makes it a JWT to
\* parse, anything else is taken for a service token.
AuthError(token) ==
  CASE token = "opaque"    -> "ErrNotAuthorised"
    [] token = "malformed" -> "ErrInvalidAuth"
    [] token = "refused"   -> "other"
    [] OTHER               -> "none"

GetAuthEntityData(r) ==
  LET err == AuthError(client[r].token)
  IN  /\ pc[r] = "authenticate"
      /\ \/ err = "none" /\ Continue(r, "authorise", resp[r])
         \/ err # "none" /\ Return(r, HandleError(resp[r], err))
      /\ UNCHANGED <<environment, audit, meta, read, reader, faults>>

\* The attributes of a permission check: the edition, if the file has one.
SetPermissionsAttributes(edition) == {edition} \ {NoEdition}

\* The permissions checker (outside the repository): a policy may be limited to
\* an edition, and then applies only if the attributes name that edition.
HasPermission(grant, attributes) == AnyEdition \in grant \/ grant \cap attributes # {}

Permitted(r) ==
  HasPermission(client[r].grant, SetPermissionsAttributes(catalogue[PathOf(r)].edition))

CheckUserPermission(r) ==
  /\ pc[r] = "authorise"
  /\ \/ Permitted(r) /\ Continue(r, "record", resp[r]) /\ UNCHANGED faults
     \/ ~Permitted(r) /\ Return(r, HandleError(resp[r], "ErrNotAuthorised")) /\ UNCHANGED faults
     \/ Return(r, HandleError(resp[r], "ErrNotAuthorised")) /\ Fail(r, "permissions")
  /\ UNCHANGED <<environment, audit, meta, read, reader>>

\* The event describes the file as it was in the metadata. When the call fails,
\* the Files API may have recorded it all the same.
FileEvent(r) == [request |-> r, path |-> PathOf(r), state |-> meta[r]]

\* Faulty variant: a failed call is logged and the request goes on.
RecordFileEventBestEffort(r) ==
  /\ pc[r] = "record"
  /\ audit' \in {audit, audit \cup {FileEvent(r)}}
  /\ Continue(r, "check", resp[r])
  /\ UNCHANGED <<environment, meta, read, reader, faults>>

RecordFileEvent(r) ==
  /\ pc[r] = "record"
  /\ \/ /\ audit' = audit \cup {FileEvent(r)}
        /\ Continue(r, "check", resp[r])
        /\ UNCHANGED faults
     \/ /\ audit' \in {audit, audit \cup {FileEvent(r)}}
        /\ Return(r, HandleError(resp[r], "other"))
        /\ Fail(r, "events")
  /\ UNCHANGED <<environment, meta, read, reader>>

\* Faulty variant: a published file is taken for one in the public bucket.
MovedOrPublished(s) == s \in {"PUBLISHED", "MOVED"}

Moved(s) == s = "MOVED"
UploadIncomplete(s) == s = "CREATED"
Unpublished(s) == s \notin {"PUBLISHED", "MOVED"}

\* The states answered 404: by handleUnsupportedMetadataStates in the handler of
\* the publishing routes, by handleUnsupportedMetadataStatesWeb in that of the web.
HiddenWithAuth(s) == UploadIncomplete(s) \/ (Unpublished(s) /\ ~IsPublishing)
HiddenNoAuth(s) == UploadIncomplete(s)
Hidden(s) == IF IsPublishing THEN HiddenWithAuth(s) ELSE HiddenNoAuth(s)

\* Faulty variant: the content headers are set before the state is looked at.
CheckStateAfterHeaders(r) ==
  LET w == SetContentHeaders(resp[r], catalogue[PathOf(r)].size)
  IN  /\ pc[r] = "check"
      /\ \/ Moved(meta[r]) /\ Return(r, SetStatusMovedPermanently(w))
         \/ ~Moved(meta[r]) /\ Hidden(meta[r]) /\ Return(r, SetStatusNotFound(w))
         \/ ~Moved(meta[r]) /\ ~Hidden(meta[r]) /\ Continue(r, "open", w)
      /\ UNCHANGED <<environment, audit, meta, read, reader, faults>>

\* Faulty variant: a request for a file that is being uploaded asks again.
CheckStateUntilUploaded(r) ==
  /\ pc[r] = "check"
  /\ \/ Moved(meta[r]) /\ Return(r, SetStatusMovedPermanently(resp[r]))
     \/ ~Moved(meta[r]) /\ Hidden(meta[r]) /\ Continue(r, "fetch", resp[r])
     \/ ~Moved(meta[r]) /\ ~Hidden(meta[r]) /\ Continue(r, "open", resp[r])
  /\ UNCHANGED <<environment, audit, meta, read, reader, faults>>

\* Faulty variant: the state is looked up again, and may not be the one recorded.
CheckCurrentState(r) ==
  LET s == state[PathOf(r)]
  IN  /\ pc[r] = "check"
      /\ \/ Moved(s) /\ Return(r, SetStatusMovedPermanently(resp[r]))
         \/ ~Moved(s) /\ Hidden(s) /\ Return(r, SetStatusNotFound(resp[r]))
         \/ ~Moved(s) /\ ~Hidden(s) /\ Continue(r, "open", resp[r])
      /\ UNCHANGED <<environment, audit, meta, read, reader, faults>>

HandleUnsupportedMetadataStates(r) ==
  /\ pc[r] = "check"
  /\ \/ Moved(meta[r]) /\ Return(r, SetStatusMovedPermanently(resp[r]))
     \/ ~Moved(meta[r]) /\ Hidden(meta[r]) /\ Return(r, SetStatusNotFound(resp[r]))
     \/ ~Moved(meta[r]) /\ ~Hidden(meta[r]) /\ Continue(r, "open", resp[r])
  /\ UNCHANGED <<environment, audit, meta, read, reader, faults>>

\* streamFile sets the content headers before it asks the bucket for the object.
DownloadFileFromBucket(r) ==
  LET w == SetContentHeaders(resp[r], catalogue[PathOf(r)].size)
  IN  /\ pc[r] = "open"
      /\ \/ /\ PathOf(r) \in private
            /\ reader' = [reader EXCEPT ![r] = "open"]
            /\ Continue(r, "copy", w)
            /\ UNCHANGED faults
         \/ /\ Return(r, HandleError(w, "other"))
            /\ IF PathOf(r) \in private THEN Fail(r, "storage") ELSE UNCHANGED faults
            /\ UNCHANGED reader
      /\ UNCHANGED <<environment, audit, meta, read>>

Unread(r) == catalogue[PathOf(r)].length - read[r]

\* The deferred close, on every way out of streamFile.
CloseDownloadedFile(r) == reader' = [reader EXCEPT ![r] = "closed"]

\* Faulty variant: a copy that fails is answered like any other error.
CopyFailedAsError(r, w) == Return(r, HandleError(w, "other")) /\ CloseDownloadedFile(r)

\* Faulty variant: the body is closed after a copy that succeeds, not deferred.
CopyFailedUnclosed(r, w) == Return(r, SetStatusInternalServerError(w)) /\ UNCHANGED reader

CopyFailed(r, w) == Return(r, SetStatusInternalServerError(w)) /\ CloseDownloadedFile(r)

\* io.Copy: some of the object is read, and written to the client.
CopyChunk(r) ==
  \E n \in 1 .. Unread(r) :
    /\ read' = [read EXCEPT ![r] = @ + n]
    /\ \/ ~Refuses(resp[r], n) /\ Continue(r, "copy", WriteFile(resp[r], n)) /\ UNCHANGED reader
       \/ Refuses(resp[r], n) /\ CopyFailed(r, WriteFile(resp[r], n))
    /\ UNCHANGED faults

CopyEnds(r) ==
  /\ Unread(r) = 0
  /\ Return(r, resp[r])
  /\ CloseDownloadedFile(r)
  /\ UNCHANGED <<read, faults>>

ReadFails(r) == CopyFailed(r, resp[r]) /\ Fail(r, "storage") /\ UNCHANGED read

WriteFails(r) ==
  /\ Unread(r) > 0
  /\ CopyFailed(r, BreakConnection(resp[r]))
  /\ Fail(r, "client")
  /\ UNCHANGED read

WriteFileToResponse(r) ==
  /\ pc[r] = "copy"
  /\ CopyChunk(r) \/ CopyEnds(r) \/ ReadFails(r) \/ WriteFails(r)
  /\ UNCHANGED <<environment, audit, meta>>

Handle(r) ==
  \/ FetchMetadata(r)
  \/ GetAuthEntityData(r)
  \/ CheckUserPermission(r)
  \/ RecordFileEvent(r)
  \/ HandleUnsupportedMetadataStates(r)
  \/ DownloadFileFromBucket(r)
  \/ WriteFileToResponse(r)

-----------------------------------------------------------------------------

Answered(r) == pc[r] = "done"

\* Every request has its answer: the behaviour may stop.
AllAnswered == (\A r \in Requests : Answered(r)) /\ UNCHANGED vars

Next ==
  \/ \E p \in Paths : LifeCycle(p)
  \/ \E r \in Requests : Handle(r)
  \/ AllAnswered

\* A request is a goroutine: it runs until its handler returns, if the calls it
\* makes return. Nothing is assumed of the life cycle.
Fairness == \A r \in Requests : WF_vars(Handle(r))

Spec == Init /\ [][Next]_vars /\ Fairness

-----------------------------------------------------------------------------
(* Properties.                                                               *)

File(r) == catalogue[PathOf(r)]

\* The registered size (and so the declared Content-Length) is the object's.
SizeIsRight(r) == File(r).size = File(r).length

\* The client was sent the file, or told where to find it.
Disclosed(r) == resp[r].status \in {200, 301}

\* In publishing, no request is answered with a file or a redirect unless the
\* Files API has recorded an event of that request, for that path, with the file
\* state the handler acted on: the audit trail misses no disclosure, whatever
\* fails and however requests interleave.
DisclosureIsAudited ==
  IsPublishing => \A r \in Requests : Disclosed(r) => FileEvent(r) \in audit

\* In publishing, only a user with a JWT and a permission that covers the file's
\* edition gets a file or a redirect, or is named in the audit trail.
DisclosureIsPermitted ==
  IsPublishing => \A r \in Requests :
    Disclosed(r) \/ (\E e \in audit : e.request = r) => client[r].token = "user" /\ Permitted(r)

\* No body mixes the file and an error document: what follows a status 200 is the
\* file only, and an error status is never followed by part of the file, even when
\* the copy fails after the status went out.
BodyMatchesStatus ==
  \A r \in Requests :
    /\ resp[r].status = 200 => resp[r].error = 0
    /\ resp[r].status # 200 => resp[r].file = 0

\* A client that receives a complete 200 message has the whole file, and one that
\* does not, has not: a copy cut short by the bucket is never taken for a file whose
\* registered size is that of its object.
TruncationIsVisible ==
  \A r \in Requests :
    Answered(r) /\ resp[r].status = 200 /\ SizeIsRight(r) =>
      (WellFormed(resp[r]) <=> resp[r].file = File(r).length)

\* A response a cache may keep for a year is a redirect to a file that is in the
\* public bucket for good, and a private file or an error is never cached.
CachedAnswerIsFinal ==
  \A r \in Requests :
    LET policy == resp[r].sent.cache
    IN  resp[r].status # 0 =>
          /\ policy = "max-age" => state[PathOf(r)] = "MOVED" /\ PathOf(r) \in public
          /\ policy = "unset" => ~IsPublishing /\ resp[r].status = 200

\* The S3 body of a request is open only while it is being copied.
ReaderIsClosed ==
  \A r \in Requests : reader[r] = "open" <=> pc[r] = "copy"

\* The file was moved, and its private copy removed.
WasRemoved(r) == state[PathOf(r)] = "MOVED" /\ PathOf(r) \notin private

\* A 500 has a cause outside the service: a dependency failed, a token was refused
\* for a reason the service does not know, or the file was moved and its private
\* copy removed while the request was in progress. An object that is longer or
\* shorter than registered is no cause: by then the 200 is out.
FailureHasCause ==
  \A r \in Requests :
    resp[r].status = 500 =>
      \/ faults[r] # {}
      \/ IsPublishing /\ client[r].token = "refused"
      \/ WasRemoved(r)

\* An error response that breaks off, or has trailing bytes missing, is one of the
\* bucket, which failed or had lost a moved file's copy: every other error, a refusal
\* above all, reaches the client whole.
OnlyBucketErrorsBreakOff ==
  \A r \in Requests :
    Answered(r) /\ resp[r].status >= 400 /\ ~WellFormed(resp[r]) =>
      "storage" \in faults[r] \/ WasRemoved(r)

\* Every request is answered, if its calls return: no state of the file, and no
\* change of it while the request runs, makes a handler wait.
EveryRequestIsAnswered == \A r \in Requests : <>Answered(r)

Exposure(s) ==
  CASE s \in {"UNREGISTERED", "CREATED"} -> "hidden"
    [] s \in {"UPLOADED", "PUBLISHED"}   -> "readable"
    [] s = "MOVED"                       -> "public"

AnswerOf(w) ==
  CASE w.status = 0   -> "none"
    [] w.status = 200 -> "file"
    [] w.status = 301 -> "redirect"
    [] w.status = 404 -> "absent"
    [] OTHER          -> "refused"

Contract == INSTANCE DownloadContract
  WITH exposure <- [r \in Requests |-> Exposure(state[PathOf(r)])],
       seen <- [r \in Requests |->
                  IF resp[r].status # 0 \/ meta[r] = "none" THEN "none" ELSE Exposure(meta[r])],
       answer <- [r \in Requests |-> AnswerOf(resp[r])]

\* An answer reflects one state of the file, the one in the metadata, although events,
\* checks and the bucket are asked later, when it may have moved on.
ReflectsOneState == Contract!Init /\ [][Contract!Next]_(Contract!vars)

\* And every request has its answer.
ImplementsContract == Contract!Spec

\* README.md:23: in web mode an UPLOADED file is answered 404; and
\* api/download.go:89: "ensures no unpublished files are returned".
UnpublishedIsHiddenOnWeb ==
  ~IsPublishing =>
    \A r \in Requests : resp[r].file > 0 => state[PathOf(r)] \in {"PUBLISHED", "MOVED"}

\* swagger.yml:286-287: an internal error is answered 500; api/errors.go:36-41 writes
\* a JSON document to say which. The client can read that answer.
ErrorIsReadable ==
  \A r \in Requests : Answered(r) /\ resp[r].status >= 400 => WellFormed(resp[r])

-----------------------------------------------------------------------------
(* The inductive invariant: what each request has behind it at each step.    *)

HasMetadata(r) ==
  /\ pc[r] \notin {"fetch", "done"} => meta[r] \in FileStates
  /\ meta[r] = "MOVED" => state[PathOf(r)] = "MOVED"

\* The Cache-Control value that goes out if no handler decides otherwise.
Default == IF IsPublishing THEN "no-cache" ELSE "unset"

Untouched(w, policy) ==
  w.status = 0 /\ w.file = 0 /\ w.error = 0 /\ w.header.cache = policy

\* Nothing has gone out yet.
Pending(w) == Untouched(w, Default)

\* An error, with nothing of the file.
Refused(w) == w.status \in {401, 403, 404, 500} /\ w.file = 0 /\ w.sent.cache = "no-cache"

Redirected(w) == w.status = 301 /\ w.file = 0 /\ w.sent.cache = "max-age"

\* The file, or some of it, with nothing else.
Sent(w) == w.status = 200 /\ w.error = 0 /\ w.sent.cache = Default

\* Nothing is committed before the copy, and then only the file.
RespondsInOrder(r) ==
  /\ pc[r] = "fetch" => Untouched(resp[r], "unset")
  /\ pc[r] \notin {"fetch", "copy", "done"} => Pending(resp[r])
  /\ pc[r] = "copy" => Pending(resp[r]) \/ Sent(resp[r])
  /\ pc[r] = "done" => Refused(resp[r]) \/ Redirected(resp[r]) \/ Sent(resp[r])
  /\ Redirected(resp[r]) => meta[r] = "MOVED"

\* In publishing, the checks and the event come in this order before any answer
\* that discloses the file.
IsAccountable(r) ==
  IsPublishing =>
    /\ pc[r] \in {"authorise", "record", "check", "open", "copy"} \/ Disclosed(r) =>
         client[r].token = "user"
    /\ pc[r] \in {"record", "check", "open", "copy"} \/ Disclosed(r) => Permitted(r)
    /\ pc[r] \in {"check", "open", "copy"} \/ Disclosed(r) => FileEvent(r) \in audit

Named(r) == \E e \in audit : e.request = r

\* Whom the audit trail names was allowed to read the file.
NamesReaders(r) == IsPublishing /\ Named(r) => client[r].token = "user" /\ Permitted(r)

HoldsReader(r) == reader[r] = "open" <=> pc[r] = "copy"

InOrder(r) ==
  HasMetadata(r) /\ RespondsInOrder(r) /\ IsAccountable(r) /\ NamesReaders(r) /\ HoldsReader(r)

MovedIsPublic == \A p \in Paths : state[p] = "MOVED" => p \in public

\* Every request is in order, and moved files are public: inductive with the types.
OrderInv ==
  /\ TypeOK
  /\ \A r \in Requests : InOrder(r)
  /\ MovedIsPublic

\* A file has its object from the upload on, until it is moved.
HasObject(s) == s \in {"UPLOADED", "PUBLISHED"}

StoredUntilMoved == \A p \in Paths : HasObject(state[p]) => p \in private

\* A request looks at the file once, and asks the bucket only for one with an object,
\* which is still there unless the file has been moved since.
FollowsState(r) ==
  /\ pc[r] = "fetch" => meta[r] = "none"
  /\ pc[r] \in {"open", "copy"} => HasObject(meta[r])
  /\ HasObject(meta[r]) => HasObject(state[PathOf(r)]) \/ Moved(state[PathOf(r)])

\* Only the publishing routes check the caller and record an event.
ChecksCaller(r) == pc[r] \in {"authenticate", "authorise", "record"} => IsPublishing

\* Before the copy nothing has failed, and no length is declared.
Undisturbed(r) ==
  pc[r] \notin {"copy", "done"} =>
    /\ faults[r] = {} /\ read[r] = 0
    /\ resp[r].conn = "up" /\ resp[r].written = 0 /\ resp[r].header.length = Undeclared

\* During the copy the registered size is declared, and all that was read was sent.
Copying(r) ==
  LET w == resp[r]
  IN  pc[r] = "copy" =>
        /\ faults[r] = {} /\ w.conn = "up"
        /\ w.written = read[r] /\ w.file = read[r] /\ read[r] <= File(r).length
        /\ w.header.length = File(r).size
        /\ w.status = 200 => w.sent.length = File(r).size

\* A finished answer declares what it sends; a broken connection has not had it all;
\* a failure has a cause, and an error that breaks off is one of the bucket.
HasOutcome(r) ==
  LET w == resp[r]
  IN  pc[r] = "done" =>
        /\ w.status = 200 =>
             w.sent.length = File(r).size /\ (w.conn = "broken" => w.file < File(r).length)
        /\ w.status = 500 =>
             faults[r] # {} \/ (IsPublishing /\ client[r].token = "refused") \/ WasRemoved(r)
        /\ w.status >= 400 => WellFormed(w) \/ "storage" \in faults[r] \/ WasRemoved(r)

IsExplained(r) ==
  FollowsState(r) /\ ChecksCaller(r) /\ Undisturbed(r) /\ Copying(r) /\ HasOutcome(r)

\* The inductive invariant, all that the safety of the answers follows from.
Inv ==
  /\ OrderInv
  /\ StoredUntilMoved
  /\ \A r \in Requests : IsExplained(r)
=============================================================================
