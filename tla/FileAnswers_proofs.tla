------------------------- MODULE FileAnswers_proofs -------------------------
(***************************************************************************)
(* Proofs about the answers of FileDownload: why a request fails, what a   *)
(* client can tell of a copy that is cut short, and that every answer      *)
(* reflects one state of the file (DownloadContract).                      *)
(***************************************************************************)
EXTENDS FileDownload_proofs

-----------------------------------------------------------------------------
(* What the handlers' answers declare, and whether they arrive.              *)

\* The status of an error is the one ErrorStatus gives, with the length that was
\* declared before it and the connection as it was.
LEMMA ErrorOutcome ==
  ASSUME NEW w \in Responses, w.status = 0, NEW err
  PROVE  LET f == Finish(HandleError(w, err))
         IN  f.status = ErrorStatus(err) /\ f.sent.length = w.header.length /\ f.conn = w.conn
<1> DEFINE s == SetCacheControl(w, "no-cache")
           c == WriteHeader(s, ErrorStatus(err))
           e == WriteError(c, ErrorLength)
<1>0. /\ ErrorStatus(err) \in Codes /\ ErrorStatus(err) # 0 /\ 200 \in Codes
      /\ ErrorLength \in Nat /\ "no-cache" \in CachePolicies
  BY FileDownloadAssumption DEF ErrorStatus, Codes, CachePolicies
<1>1. s \in Responses /\ s.status = 0 /\ s.header.length = w.header.length /\ s.conn = w.conn
  BY <1>0, HeaderEffect, HeaderType, DeclaredEffect
<1> HIDE DEF s
<1>2. c \in Responses /\ c.status = ErrorStatus(err) /\ c.sent = s.header /\ c.conn = s.conn
  BY <1>0, <1>1, CommitType, CommitEffect, CommitKeepsConnection
<1> HIDE DEF c
<1>3. e \in Responses /\ e.status = c.status /\ e.sent = c.sent /\ e.conn = c.conn
  <2>1. WriteHeader(c, 200) = c
    BY <1>0, <1>2, CommitEffect
  <2>2. e.status = WriteHeader(c, 200).status /\ e.sent = WriteHeader(c, 200).sent
    BY <1>0, <1>2, WriteEffect
  <2>3. e \in Responses /\ e.conn = c.conn
    BY <1>0, <1>2, WriteType, BodyEffect
  <2> QED
    BY <2>1, <2>2, <2>3
<1> HIDE DEF e
<1>4. Finish(e) = e
  BY <1>0, <1>2, <1>3, FinishEffect
<1> QED
  BY <1>1, <1>2, <1>3, <1>4 DEF HandleError, s, c, e

\* Neither of the answers without a body declares a length of its own.
LEMMA StatusOutcome ==
  ASSUME NEW w \in Responses, w.status = 0
  PROVE  /\ Finish(SetStatusMovedPermanently(w)).status = 301
         /\ LET f == Finish(SetStatusNotFound(w))
            IN  f.status = 404 /\ f.sent.length = w.header.length /\ f.conn = w.conn
<1> DEFINE s == SetCacheControl(w, "no-cache")
           c == WriteHeader(s, 404)
<1>0. 404 \in Codes /\ "no-cache" \in CachePolicies
  BY DEF Codes, CachePolicies
<1>1. s \in Responses /\ s.status = 0 /\ s.header.length = w.header.length /\ s.conn = w.conn
  BY <1>0, HeaderEffect, HeaderType, DeclaredEffect
<1> HIDE DEF s
<1>2. c \in Responses /\ c.status = 404 /\ c.sent = s.header /\ c.conn = s.conn
  BY <1>0, <1>1, CommitType, CommitEffect, CommitKeepsConnection
<1> HIDE DEF c
<1>3. Finish(c) = c
  BY <1>2, FinishEffect
<1> QED
  BY <1>1, <1>2, <1>3, StatusEffect DEF SetStatusNotFound, s, c

\* A copy that failed after the first write leaves the response as it is.
LEMMA CutShortOutcome ==
  ASSUME NEW w \in Responses, w.status # 0
  PROVE  LET f == Finish(SetStatusInternalServerError(w))
         IN  f.status = w.status /\ f.sent = w.sent /\ f.file = w.file /\ f.conn = w.conn
<1> DEFINE s == SetCacheControl(w, "no-cache")
<1>0. 500 \in Codes /\ "no-cache" \in CachePolicies
  BY DEF Codes, CachePolicies
<1>1. s \in Responses /\ s.status = w.status /\ s.conn = w.conn
  BY <1>0, HeaderEffect, HeaderType, DeclaredEffect
<1> HIDE DEF s
<1>2. WriteHeader(s, 500) = s /\ Finish(s) = s
  BY <1>0, <1>1, CommitEffect, FinishEffect
<1> QED
  BY <1>1, <1>2, FailedCopyEffect DEF SetStatusInternalServerError, s

\* Which errors are answered 404, and which 500.
LEMMA ErrorCauses ==
  ASSUME NEW err
  PROVE  /\ ErrorStatus(err) \in {401, 403, 404, 500}
         /\ ErrorStatus(err) = 404 <=> err = "ErrFileNotRegistered"
         /\ ErrorStatus(err) = 500 <=>
              err \notin {"ErrFileNotRegistered", "ErrNotAuthorised", "ErrInvalidAuth"}
BY DEF ErrorStatus

LEMMA MetadataErrorCauses ==
  ASSUME NEW err \in MetadataErrors
  PROVE  /\ Sentinel(err) = "ErrFileNotRegistered" <=> err = "not registered"
         /\ Sentinel(err) \notin {"ErrFileNotRegistered", "ErrNotAuthorised", "ErrInvalidAuth"}
              <=> err = "other"
BY DEF MetadataErrors, Sentinel

LEMMA AuthErrorCauses ==
  ASSUME NEW token
  PROVE  /\ AuthError(token) # "ErrFileNotRegistered"
         /\ AuthError(token) \notin {"none", "ErrNotAuthorised", "ErrInvalidAuth"}
              => token = "refused"
BY DEF AuthError

-----------------------------------------------------------------------------
(* Where the object of a file is, and what the other steps leave alone.      *)

\* A step of a file takes it forward, and leaves its object in the private bucket
\* until the file is moved; no other step changes a file.
LEMMA FilesMoveForward ==
  ASSUME TypeOK, StoredUntilMoved, [Next]_vars, NEW p \in Paths
  PROVE  /\ HasObject(state'[p]) => p \in private'
         /\ HasObject(state[p]) => HasObject(state'[p]) \/ Moved(state'[p])
         /\ Moved(state[p]) => Moved(state'[p])
         /\ Moved(state[p]) /\ p \notin private => p \notin private'
<1>1. ASSUME NEW q \in Paths, LifeCycle(q)
      PROVE  /\ HasObject(state'[p]) => p \in private'
             /\ HasObject(state[p]) => HasObject(state'[p]) \/ Moved(state'[p])
             /\ Moved(state[p]) => Moved(state'[p])
             /\ Moved(state[p]) /\ p \notin private => p \notin private'
  <2> USE DEF TypeOK, StoredUntilMoved, Enters, HasObject, Moved
  <2>1. CASE Register(q)
    BY <2>1 DEF Register
  <2>2. CASE CompleteUpload(q)
    BY <2>2 DEF CompleteUpload
  <2>3. CASE Publish(q)
    BY <2>3 DEF Publish
  <2>4. CASE Move(q)
    BY <2>4 DEF Move
  <2>5. CASE RemovePrivateCopy(q)
    BY <2>5 DEF RemovePrivateCopy
  <2> QED
    BY <1>1, <2>1, <2>2, <2>3, <2>4, <2>5 DEF LifeCycle
<1>2. ASSUME NEW r \in Requests, Handle(r)
      PROVE  UNCHANGED <<state, private>>
  BY <1>2 DEF Handle, FetchMetadata, GetAuthEntityData, CheckUserPermission, RecordFileEvent,
              HandleUnsupportedMetadataStates, DownloadFileFromBucket, WriteFileToResponse,
              environment
<1>3. CASE UNCHANGED <<state, private>>
  BY <1>3 DEF StoredUntilMoved
<1> QED
  BY <1>1, <1>2, <1>3 DEF Next, AllAnswered, vars

\* What a request has to itself, with what it has read and what has failed it.
Progress(q) == <<Own(q), read[q], faults[q]>>

LEMMA OthersKeepTheirProgress ==
  ASSUME TypeOK, NEW r \in Requests, Handle(r), NEW q \in Requests, q # r
  PROVE  Progress(q)' = Progress(q)
<1>1. Own(q)' = Own(q)
  BY OthersKeepTheirOwn
<1>2. read'[q] = read[q]
  BY DEF TypeOK, Handle, FetchMetadata, GetAuthEntityData, CheckUserPermission, RecordFileEvent,
         HandleUnsupportedMetadataStates, DownloadFileFromBucket, WriteFileToResponse,
         CopyChunk, CopyEnds, ReadFails, WriteFails
<1>3. faults'[q] = faults[q]
  BY DEF TypeOK, Handle, FetchMetadata, GetAuthEntityData, CheckUserPermission, RecordFileEvent,
         HandleUnsupportedMetadataStates, DownloadFileFromBucket, WriteFileToResponse,
         CopyChunk, CopyEnds, ReadFails, WriteFails, Fail
<1> QED
  BY <1>1, <1>2, <1>3 DEF Progress

\* A request that makes no step stays explained, whatever becomes of its file.
LEMMA StaysExplained ==
  ASSUME TypeOK, StoredUntilMoved, [Next]_vars, NEW q \in Requests, IsExplained(q),
         Progress(q)' = Progress(q)
  PROVE  IsExplained(q)'
<1>1. /\ pc'[q] = pc[q] /\ meta'[q] = meta[q] /\ resp'[q] = resp[q]
      /\ read'[q] = read[q] /\ faults'[q] = faults[q]
  BY DEF Progress, Own
<1>2. /\ client' = client /\ PathOf(q)' = PathOf(q) /\ File(q)' = File(q) /\ PathOf(q) \in Paths
  BY HistoryGrows, ClientType DEF PathOf, File
<1>3. FollowsState(q)'
  BY <1>1, <1>2, FilesMoveForward DEF IsExplained, FollowsState
<1>4. WasRemoved(q) => WasRemoved(q)'
  BY <1>2, FilesMoveForward DEF WasRemoved, Moved
<1>5. ChecksCaller(q)' /\ Undisturbed(q)' /\ Copying(q)' /\ HasOutcome(q)'
  BY <1>1, <1>2, <1>4 DEF IsExplained, ChecksCaller, Undisturbed, Copying, HasOutcome
<1> QED
  BY <1>3, <1>5 DEF IsExplained

-----------------------------------------------------------------------------
(* A request asks the bucket only for files that had an object.              *)

\* A step of a request leaves the files, and what it asks for, as they are.
LEMMA HandleKeepsFiles ==
  ASSUME NEW r \in Requests, Handle(r)
  PROVE  /\ UNCHANGED environment
         /\ PathOf(r)' = PathOf(r) /\ File(r)' = File(r) /\ WasRemoved(r)' = WasRemoved(r)
<1>1. UNCHANGED environment
  BY DEF Handle, FetchMetadata, GetAuthEntityData, CheckUserPermission, RecordFileEvent,
         HandleUnsupportedMetadataStates, DownloadFileFromBucket, WriteFileToResponse
<1> QED
  BY <1>1 DEF environment, PathOf, File, WasRemoved

LEMMA HandleFollowsState ==
  ASSUME TypeOK, NEW r \in Requests, HasMetadata(r), FollowsState(r), Handle(r)
  PROVE  FollowsState(r)'
<1>0. state' = state /\ PathOf(r)' = PathOf(r)
  BY HandleKeepsFiles DEF environment
<1>1. ASSUME meta' = meta, pc'[r] # "fetch",
             pc'[r] \in {"open", "copy"} => HasObject(meta[r])
      PROVE  FollowsState(r)'
  BY <1>0, <1>1 DEF FollowsState
<1>2. CASE FetchMetadata(r)
  <2>1. CASE /\ meta' = [meta EXCEPT ![r] = state[PathOf(r)]]
             /\ Continue(r, IF IsPublishing THEN "authenticate" ELSE "check", Opened(resp[r]))
    <3>1. meta'[r] = state[PathOf(r)] /\ pc'[r] \in {"authenticate", "check"}
      BY <2>1, ContinueEffect DEF TypeOK
    <3> QED
      BY <1>0, <3>1 DEF FollowsState
  <2>2. CASE UNCHANGED meta /\ \E w : Return(r, w)
    BY <1>1, <2>2, ReturnEffect
  <2> QED
    BY <1>2, <2>1, <2>2 DEF FetchMetadata
<1>3. CASE GetAuthEntityData(r) \/ CheckUserPermission(r) \/ RecordFileEvent(r)
  BY <1>1, <1>3, ContinueEffect, ReturnEffect
     DEF GetAuthEntityData, CheckUserPermission, RecordFileEvent
<1>4. CASE HandleUnsupportedMetadataStates(r)
  <2>1. ~Moved(meta[r]) /\ ~Hidden(meta[r]) => HasObject(meta[r])
    BY <1>4 DEF HandleUnsupportedMetadataStates, HasMetadata, FileStates, HasObject, Moved, Hidden,
                HiddenWithAuth, HiddenNoAuth, UploadIncomplete, Unpublished
  <2> QED
    BY <1>1, <1>4, <2>1, ContinueEffect, ReturnEffect DEF HandleUnsupportedMetadataStates
<1>5. CASE DownloadFileFromBucket(r)
  BY <1>1, <1>5, ContinueEffect, ReturnEffect DEF DownloadFileFromBucket, FollowsState
<1>6. CASE WriteFileToResponse(r)
  <2>1. HasObject(meta[r]) /\ meta' = meta
    BY <1>6 DEF WriteFileToResponse, FollowsState
  <2>2. \E w : Return(r, w) \/ Continue(r, "copy", w)
    BY <1>6 DEF WriteFileToResponse, CopyChunk, CopyEnds, ReadFails, WriteFails, CopyFailed
  <2> QED
    BY <1>1, <2>1, <2>2, ContinueEffect, ReturnEffect
<1> QED
  BY <1>2, <1>3, <1>4, <1>5, <1>6 DEF Handle

-----------------------------------------------------------------------------
(* What has become of a request and its response, step by step.              *)

Outcome(r) == ChecksCaller(r) /\ Undisturbed(r) /\ Copying(r) /\ HasOutcome(r)

\* A response on which nothing is declared or written.
Blank(w) ==
  /\ w \in Responses /\ w.status = 0 /\ w.conn = "up" /\ w.written = 0 /\ w.file = 0
  /\ w.header.length = Undeclared

LEMMA BlankBeforeCopy ==
  ASSUME TypeOK, NEW r \in Requests, RespondsInOrder(r), Undisturbed(r),
         pc[r] \notin {"copy", "done"}
  PROVE  Blank(resp[r]) /\ Blank(Opened(resp[r])) /\ faults[r] = {} /\ read[r] = 0
<1> DEFINE w == resp[r]
<1>1. Blank(w) /\ faults[r] = {} /\ read[r] = 0
  BY ClientType DEF RespondsInOrder, Pending, Untouched, Undisturbed, Blank
<1> HIDE DEF w
<1>2. "no-cache" \in CachePolicies
  BY DEF CachePolicies
<1>3. Blank(Opened(w))
  BY <1>1, <1>2, StatusType, HeaderEffect, DeclaredEffect DEF Blank, Opened
<1> QED
  BY <1>1, <1>3 DEF w

\* A request goes on: nothing has failed, and nothing is declared.
LEMMA GoesOn ==
  ASSUME TypeOK, NEW r \in Requests, NEW step \in Steps \ {"copy", "done"}, NEW w, Blank(w),
         Continue(r, step, w), faults'[r] = {}, read'[r] = 0,
         step \in {"authenticate", "authorise", "record"} => IsPublishing
  PROVE  Outcome(r)'
<1>1. pc'[r] = step /\ resp'[r] = w
  BY ContinueEffect
<1> QED
  BY <1>1 DEF Outcome, ChecksCaller, Undisturbed, Copying, HasOutcome, Blank

\* A request is answered with an error before anything is declared: it arrives whole.
LEMMA FailsEarly ==
  ASSUME TypeOK, NEW r \in Requests, NEW w, Blank(w), NEW err, Return(r, HandleError(w, err)),
         ErrorStatus(err) = 500 =>
           faults'[r] # {} \/ (IsPublishing /\ client'[r].token = "refused") \/ WasRemoved(r)'
  PROVE  Outcome(r)'
<1> DEFINE f == Finish(HandleError(w, err))
<1>1. pc'[r] = "done" /\ resp'[r] = f
  BY ReturnEffect
<1>2. f \in Responses /\ f.status = ErrorStatus(err) /\ f.sent.length = Undeclared /\ f.conn = "up"
  BY ErrorOutcome, ErrorType, FinishType DEF Blank
<1> HIDE DEF f
<1>3. WellFormed(f) /\ f.status # 200
  BY <1>2 DEF WellFormed, ErrorStatus
<1> QED
  BY <1>1, <1>2, <1>3 DEF Outcome, ChecksCaller, Undisturbed, Copying, HasOutcome

LEMMA HandleOutcomeEarly ==
  ASSUME TypeOK, NEW r \in Requests, RespondsInOrder(r), ChecksCaller(r), Undisturbed(r),
         FetchMetadata(r) \/ GetAuthEntityData(r) \/ CheckUserPermission(r) \/ RecordFileEvent(r),
         Handle(r)
  PROVE  Outcome(r)'
<1> DEFINE w == resp[r]
<1>0. /\ read' = read /\ client' = client
      /\ pc[r] \in {"fetch", "authenticate", "authorise", "record"}
  BY DEF FetchMetadata, GetAuthEntityData, CheckUserPermission, RecordFileEvent, environment
<1>1. Blank(w) /\ Blank(Opened(w)) /\ faults[r] = {} /\ read[r] = 0
  BY <1>0, BlankBeforeCopy
<1> HIDE DEF w
<1>2. ASSUME NEW d, Fail(r, d) PROVE faults'[r] # {}
  BY <1>2 DEF Fail, TypeOK
<1>3. CASE FetchMetadata(r)
  <2>1. CASE /\ UNCHANGED faults
             /\ Continue(r, IF IsPublishing THEN "authenticate" ELSE "check", Opened(w))
    BY <1>0, <1>1, <2>1, GoesOn DEF Steps
  <2>2. ASSUME NEW err \in MetadataErrors, Return(r, HandleError(Opened(w), Sentinel(err))),
               IF err = "other" THEN Fail(r, "metadata") ELSE UNCHANGED faults
        PROVE  Outcome(r)'
    <3>1. ErrorStatus(Sentinel(err)) = 500 => err = "other"
      <4> DEFINE e == Sentinel(err)
      <4>1. e \notin {"ErrFileNotRegistered", "ErrNotAuthorised", "ErrInvalidAuth"} => err = "other"
        BY MetadataErrorCauses
      <4> HIDE DEF e
      <4>2. ErrorStatus(e) = 500 =>
              e \notin {"ErrFileNotRegistered", "ErrNotAuthorised", "ErrInvalidAuth"}
        BY ErrorCauses
      <4> QED
        BY <4>1, <4>2 DEF e
    <3> QED
      BY <1>1, <1>2, <2>2, <3>1, FailsEarly
  <2> QED
    BY <1>3, <2>1, <2>2 DEF FetchMetadata, w
<1>4. CASE GetAuthEntityData(r)
  <2>1. IsPublishing
    BY <1>4 DEF GetAuthEntityData, ChecksCaller
  <2>2. LET err == AuthError(client[r].token)
        IN  err # "none" /\ ErrorStatus(err) = 500 => client[r].token = "refused"
    BY ErrorCauses, AuthErrorCauses
  <2> QED
    BY <1>0, <1>1, <1>4, <2>1, <2>2, GoesOn, FailsEarly DEF GetAuthEntityData, Steps, w
<1>5. CASE CheckUserPermission(r)
  <2>1. ErrorStatus("ErrNotAuthorised") # 500 /\ IsPublishing
    BY <1>5 DEF ErrorStatus, CheckUserPermission, ChecksCaller
  <2> QED
    BY <1>0, <1>1, <1>5, <2>1, GoesOn, FailsEarly DEF CheckUserPermission, Steps, w
<1>6. CASE RecordFileEvent(r)
  BY <1>0, <1>1, <1>2, <1>6, GoesOn, FailsEarly DEF RecordFileEvent, Steps, w
<1> QED
  BY <1>3, <1>4, <1>5, <1>6

LEMMA HandleOutcomeChecked ==
  ASSUME TypeOK, NEW r \in Requests, RespondsInOrder(r), Undisturbed(r),
         HandleUnsupportedMetadataStates(r)
  PROVE  Outcome(r)'
<1> DEFINE w == resp[r]
<1>0. read' = read /\ faults' = faults /\ pc[r] = "check"
  BY DEF HandleUnsupportedMetadataStates
<1>1. Blank(w) /\ faults[r] = {} /\ read[r] = 0
  BY <1>0, BlankBeforeCopy
<1> HIDE DEF w
<1>2. CASE Return(r, SetStatusMovedPermanently(w))
  <2>1. pc'[r] = "done" /\ resp'[r].status = 301
    BY <1>1, <1>2, ReturnEffect, StatusOutcome DEF Blank
  <2> QED
    BY <2>1 DEF Outcome, ChecksCaller, Undisturbed, Copying, HasOutcome
<1>3. CASE Return(r, SetStatusNotFound(w))
  <2> DEFINE f == Finish(SetStatusNotFound(w))
  <2>1. pc'[r] = "done" /\ resp'[r] = f
    BY <1>3, ReturnEffect
  <2>2. f.status = 404 /\ f.conn = "up" /\ f.sent.length = Undeclared
    BY <1>1, StatusOutcome DEF Blank
  <2> HIDE DEF f
  <2>3. WellFormed(f)
    BY <2>2 DEF WellFormed
  <2> QED
    BY <2>1, <2>2, <2>3 DEF Outcome, ChecksCaller, Undisturbed, Copying, HasOutcome
<1>4. CASE Continue(r, "open", w)
  BY <1>0, <1>1, <1>4, GoesOn DEF Steps
<1> QED
  BY <1>2, <1>3, <1>4 DEF HandleUnsupportedMetadataStates, w

\* The registered size is declared before the bucket is asked; a request the bucket
\* fails is answered 500, with that length.
LEMMA HandleOutcomeOpened ==
  ASSUME TypeOK, StoredUntilMoved, NEW r \in Requests, RespondsInOrder(r), FollowsState(r),
         Undisturbed(r), DownloadFileFromBucket(r)
  PROVE  Outcome(r)'
<1> DEFINE h == SetContentHeaders(resp[r], File(r).size)
<1>0. /\ read' = read /\ pc[r] = "open" /\ UNCHANGED <<catalogue, client, state, private>>
      /\ File(r)' = File(r) /\ File(r).size \in Nat /\ File(r).length \in Nat
      /\ PathOf(r) \in Paths
  BY ClientType DEF DownloadFileFromBucket, environment, File, PathOf
<1>1. Blank(resp[r]) /\ faults[r] = {} /\ read[r] = 0
  BY <1>0, BlankBeforeCopy
<1>2. /\ h \in Responses /\ h.status = 0 /\ h.conn = "up" /\ h.written = 0 /\ h.file = 0
      /\ h.header.length = File(r).size
  <2>1. h \in Responses
    BY <1>0, <1>1, StatusType DEF Blank
  <2>2. h.status = 0 /\ h.file = 0
    BY <1>0, <1>1, HeaderEffect DEF Blank, SetContentHeaders, CachePolicies
  <2>3. h.conn = "up" /\ h.written = 0 /\ h.header.length = File(r).size
    BY <1>0, <1>1, DeclaredEffect DEF Blank, SetContentHeaders, CachePolicies
  <2> QED
    BY <2>1, <2>2, <2>3
<1>3. CASE Continue(r, "copy", h) /\ UNCHANGED faults
  <2>1. pc'[r] = "copy" /\ resp'[r] = h /\ faults'[r] = {} /\ read'[r] = 0
    BY <1>0, <1>1, <1>3, ContinueEffect
  <2> HIDE DEF h
  <2> QED
    BY <1>0, <1>2, <2>1 DEF Outcome, ChecksCaller, Undisturbed, Copying, HasOutcome
<1>4. CASE /\ Return(r, HandleError(h, "other"))
           /\ IF PathOf(r) \in private THEN Fail(r, "storage") ELSE UNCHANGED faults
  <2>1. pc'[r] = "done" /\ resp'[r] = Finish(HandleError(h, "other"))
    BY <1>4, ReturnEffect
  <2> HIDE DEF h
  <2>2. Finish(HandleError(h, "other")).status = 500
    BY <1>2, ErrorOutcome, ErrorCauses
  <2>3. "storage" \in faults'[r] \/ WasRemoved(r)'
    <3>1. CASE PathOf(r) \in private
      BY <1>4, <3>1 DEF Fail, TypeOK
    <3>2. CASE PathOf(r) \notin private
      <4>1. Moved(state[PathOf(r)])
        BY <1>0, <3>2 DEF FollowsState, StoredUntilMoved
      <4> QED
        BY <1>0, <3>2, <4>1 DEF WasRemoved, Moved, PathOf
    <3> QED
      BY <3>1, <3>2
  <2> QED
    BY <2>1, <2>2, <2>3 DEF Outcome, ChecksCaller, Undisturbed, Copying, HasOutcome
<1> QED
  BY <1>3, <1>4 DEF DownloadFileFromBucket, h, File

\* What a copy hands to the client: the part written, or a header only.
LEMMA CopiedResponse ==
  ASSUME TypeOK, NEW r \in Requests, RespondsInOrder(r), Copying(r), pc[r] = "copy"
  PROVE  LET w == resp[r]
             c == WriteHeader(w, 200)
         IN  /\ w \in Responses /\ c \in Responses /\ c.status = 200
             /\ c.sent.length = File(r).size /\ c.file = w.file /\ c.conn = "up"
<1> DEFINE w == resp[r]
<1>1. w \in Responses /\ (w.status = 0 \/ w.status = 200) /\ 200 \in Codes
  BY ClientType DEF RespondsInOrder, Pending, Untouched, Sent, Codes
<1>2. w.conn = "up" /\ w.header.length = File(r).size /\ (w.status = 200 => w.sent.length = File(r).size)
  BY DEF Copying
<1> HIDE DEF w
<1> QED
  BY <1>1, <1>2, CommitType, CommitEffect, CommitKeepsConnection DEF w

\* A copy that ends after something was sent, or with nothing left to send.
LEMMA CopyStops ==
  ASSUME TypeOK, NEW r \in Requests, pc'[r] = "done", NEW f, resp'[r] = f,
         f.status = 200, f.sent.length = File(r).size, File(r)' = File(r),
         f.conn = "broken" => f.file < File(r).length
  PROVE  Outcome(r)'
BY DEF Outcome, ChecksCaller, Undisturbed, Copying, HasOutcome

LEMMA HandleOutcomeCopied ==
  ASSUME TypeOK, NEW r \in Requests, RespondsInOrder(r), Copying(r), WriteFileToResponse(r)
  PROVE  Outcome(r)'
<1> DEFINE w == resp[r]
           c == WriteHeader(w, 200)
<1>0. /\ pc[r] = "copy" /\ File(r)' = File(r)
      /\ File(r).size \in Nat /\ File(r).length \in Nat /\ read[r] \in Nat
  BY ClientType DEF WriteFileToResponse, environment, File, PathOf, TypeOK
<1>1. /\ w \in Responses /\ c \in Responses /\ c.status = 200
      /\ c.sent.length = File(r).size /\ c.file = w.file /\ c.conn = "up"
  BY <1>0, CopiedResponse
<1>2. /\ faults[r] = {} /\ w.conn = "up" /\ w.written = read[r] /\ w.file = read[r]
      /\ read[r] <= File(r).length /\ w.header.length = File(r).size
  BY <1>0 DEF Copying
<1>3. w.status = 0 \/ w.status = 200
  BY <1>0 DEF RespondsInOrder, Pending, Untouched, Sent
<1>4. Unread(r) = File(r).length - read[r]
  BY DEF Unread, File
<1> HIDE DEF w, c
<1>5. ASSUME NEW s \in Responses, s.status = 200, s.sent.length = File(r).size,
             s.conn = "broken" => s.file < File(r).length, CopyFailed(r, s)
      PROVE  Outcome(r)'
  <2> DEFINE f == Finish(SetStatusInternalServerError(s))
  <2>1. f.status = 200 /\ f.sent = s.sent /\ f.file = s.file /\ f.conn = s.conn
    BY <1>5, CutShortOutcome
  <2>2. pc'[r] = "done" /\ resp'[r] = f
    BY <1>5, ReturnEffect DEF CopyFailed
  <2> HIDE DEF f
  <2> QED
    BY <1>0, <1>5, <2>1, <2>2, CopyStops
<1>6. CASE CopyChunk(r)
  <2>1. PICK n \in 1 .. Unread(r) :
          /\ read' = [read EXCEPT ![r] = @ + n]
          /\ \/ ~Refuses(w, n) /\ Continue(r, "copy", WriteFile(w, n))
             \/ Refuses(w, n) /\ CopyFailed(r, WriteFile(w, n))
          /\ UNCHANGED faults
    BY <1>6 DEF CopyChunk, w
  <2> DEFINE f == WriteFile(w, n)
  <2>2. n \in Nat /\ read'[r] = read[r] + n /\ read'[r] <= File(r).length
    BY <1>0, <1>4, <2>1 DEF TypeOK
  <2>3. /\ f \in Responses /\ f.status = 200 /\ f.sent.length = File(r).size
        /\ f.header.length = File(r).size
    <3>1. f \in Responses
      BY <1>1, <2>2, WriteType
    <3>2. f.status = c.status /\ f.sent = c.sent /\ f.header = w.header
      BY <1>1, <2>2, WriteEffect DEF c
    <3> QED
      BY <1>1, <1>2, <3>1, <3>2
  <2>4. /\ f.conn = "up" /\ f.written = read'[r]
        /\ ~Refuses(w, n) => f.file = read'[r]
    BY <1>1, <1>2, <2>2, BodyEffect
  <2> HIDE DEF f
  <2>5. CASE ~Refuses(w, n) /\ Continue(r, "copy", f)
    <3>1. pc'[r] = "copy" /\ resp'[r] = f /\ faults'[r] = {}
      BY <1>2, <2>1, <2>5, ContinueEffect
    <3> QED
      BY <1>0, <2>2, <2>3, <2>4, <2>5, <3>1
         DEF Outcome, ChecksCaller, Undisturbed, Copying, HasOutcome
  <2>6. CASE CopyFailed(r, f)
    BY <1>5, <2>3, <2>4, <2>6
  <2> QED
    BY <2>1, <2>5, <2>6 DEF f
<1>7. CASE CopyEnds(r)
  <2>1. pc'[r] = "done" /\ resp'[r] = c
    BY <1>7, ReturnEffect DEF CopyEnds, Finish, c, w
  <2> QED
    BY <1>0, <1>1, <2>1, CopyStops
<1>8. CASE ReadFails(r)
  <2>1. CopyFailed(r, w) /\ "storage" \in faults'[r]
    BY <1>8 DEF ReadFails, Fail, TypeOK, w
  <2>2. CASE w.status = 200
    <3>1. w.sent.length = File(r).size
      BY <1>0, <2>2 DEF Copying, w
    <3> QED
      BY <1>1, <1>2, <1>5, <2>1, <2>2, <3>1
  <2>3. CASE w.status = 0
    <3>1. pc'[r] = "done" /\ resp'[r].status = 500
      BY <1>1, <2>1, <2>3, ReturnEffect, FailedCopyEffect DEF CopyFailed
    <3> QED
      BY <2>1, <3>1 DEF Outcome, ChecksCaller, Undisturbed, Copying, HasOutcome
  <2> QED
    BY <1>3, <2>2, <2>3
<1>9. CASE WriteFails(r)
  <2> DEFINE b == BreakConnection(w)
  <2>1. CopyFailed(r, b) /\ read[r] < File(r).length
    BY <1>0, <1>4, <1>9 DEF WriteFails, w
  <2>2. b \in Responses /\ b.status = 200 /\ b.sent.length = File(r).size /\ b.file = read[r]
    BY <1>1, <1>2, FinishType, BreakEffect DEF c
  <2> HIDE DEF b
  <2> QED
    BY <1>5, <2>1, <2>2
<1> QED
  BY <1>6, <1>7, <1>8, <1>9 DEF WriteFileToResponse

-----------------------------------------------------------------------------
(* The invariant.                                                            *)

LEMMA HandleExplained ==
  ASSUME TypeOK, StoredUntilMoved, NEW r \in Requests, InOrder(r), IsExplained(r), Handle(r)
  PROVE  IsExplained(r)'
<1>0. HasMetadata(r) /\ RespondsInOrder(r)
  BY DEF InOrder
<1>1. FollowsState(r) /\ ChecksCaller(r) /\ Undisturbed(r) /\ Copying(r)
  BY DEF IsExplained
<1>2. FollowsState(r)'
  BY <1>0, <1>1, HandleFollowsState
<1>3. Outcome(r)'
  <2>1. CASE \/ FetchMetadata(r) \/ GetAuthEntityData(r) \/ CheckUserPermission(r)
             \/ RecordFileEvent(r)
    BY <1>0, <1>1, <2>1, HandleOutcomeEarly
  <2>2. CASE HandleUnsupportedMetadataStates(r)
    BY <1>0, <1>1, <2>2, HandleOutcomeChecked
  <2>3. CASE DownloadFileFromBucket(r)
    BY <1>0, <1>1, <2>3, HandleOutcomeOpened
  <2>4. CASE WriteFileToResponse(r)
    BY <1>0, <1>1, <2>4, HandleOutcomeCopied
  <2> QED
    BY <2>1, <2>2, <2>3, <2>4 DEF Handle
<1> QED
  BY <1>2, <1>3 DEF IsExplained, Outcome

LEMMA InitInv == Init => Inv
<1> SUFFICES ASSUME Init PROVE Inv
  OBVIOUS
<1>1. StoredUntilMoved
  BY DEF Init, StoredUntilMoved, HasObject
<1>2. ASSUME NEW r \in Requests PROVE IsExplained(r)
  <2>1. /\ pc[r] = "fetch" /\ resp[r] = NewResponse /\ read[r] = 0
        /\ meta[r] = "none" /\ faults[r] = {}
    BY DEF Init
  <2>2. NewResponse.conn = "up" /\ NewResponse.written = 0 /\ NewResponse.header.length = Undeclared
    BY DEF NewResponse, NoHeader
  <2> QED
    BY <2>1, <2>2 DEF IsExplained, FollowsState, ChecksCaller, HasObject, Undisturbed, Copying, HasOutcome
<1> QED
  BY <1>1, <1>2, InitOrder DEF Inv

LEMMA NextInv == Inv /\ [Next]_vars => Inv'
<1> SUFFICES ASSUME Inv, [Next]_vars PROVE Inv'
  OBVIOUS
<1>0. TypeOK /\ OrderInv' /\ StoredUntilMoved
  BY NextOrder DEF Inv, OrderInv
<1>1. StoredUntilMoved'
  BY <1>0, FilesMoveForward DEF StoredUntilMoved
<1>2. ASSUME NEW q \in Requests PROVE IsExplained(q)'
  <2>0. InOrder(q) /\ IsExplained(q)
    BY DEF Inv, OrderInv
  <2>1. ASSUME NEW p \in Paths, LifeCycle(p) PROVE IsExplained(q)'
    <3>1. Progress(q)' = Progress(q)
      BY <2>1, LifeCycleKeepsRequests DEF LifeCycle, Progress
    <3> QED
      BY <1>0, <2>0, <3>1, StaysExplained
  <2>2. ASSUME NEW r \in Requests, Handle(r) PROVE IsExplained(q)'
    BY <1>0, <2>0, <2>2, HandleExplained, OthersKeepTheirProgress, StaysExplained
  <2>3. CASE UNCHANGED vars
    <3>1. Progress(q)' = Progress(q)
      BY <2>3 DEF vars, Progress, Own
    <3> QED
      BY <1>0, <2>0, <3>1, StaysExplained
  <2> QED
    BY <2>1, <2>2, <2>3 DEF Next, AllAnswered
<1> QED
  BY <1>0, <1>1, <1>2 DEF Inv

\* The inductive invariant: besides the order of its steps, what each request has
\* declared, sent and failed on, and where the object of its file is.
THEOREM Invariance == Spec => []Inv
BY InitInv, NextInv, PTL DEF Spec

-----------------------------------------------------------------------------
(* What follows from it.                                                     *)

\* A response has a status only during the copy, then 200, or when it is answered.
LEMMA StatusIsFinal ==
  ASSUME Inv, NEW r \in Requests
  PROVE  /\ pc[r] \notin {"copy", "done"} => resp[r].status = 0
         /\ pc[r] = "copy" => resp[r].status \in {0, 200}
BY DEF Inv, OrderInv, InOrder, RespondsInOrder, Untouched, Pending, Sent

\* A 500 is never the service's own doing: a dependency failed, the token was refused
\* for a reason the service does not know, or the copy of a moved file was removed.
THEOREM FailuresHaveCauses == Spec => []FailureHasCause
<1>1. Inv => FailureHasCause
  <2> SUFFICES ASSUME Inv, NEW r \in Requests, resp[r].status = 500
               PROVE  \/ faults[r] # {}
                      \/ IsPublishing /\ client[r].token = "refused"
                      \/ WasRemoved(r)
    BY DEF FailureHasCause
  <2>1. pc[r] = "done"
    BY StatusIsFinal DEF Inv, OrderInv, TypeOK
  <2> QED
    BY <2>1 DEF Inv, IsExplained, HasOutcome
<1> QED
  BY <1>1, Invariance, PTL

\* A client that receives a complete 200 message has the whole file, and one that
\* does not, has not, if the size was registered right.
THEOREM TruncationsAreVisible == Spec => []TruncationIsVisible
<1>1. Inv => TruncationIsVisible
  <2> SUFFICES ASSUME Inv, NEW r \in Requests,
                      pc[r] = "done", resp[r].status = 200, File(r).size = File(r).length
               PROVE  WellFormed(resp[r]) <=> resp[r].file = File(r).length
    BY DEF TruncationIsVisible, Answered, SizeIsRight
  <2> DEFINE w == resp[r]
  <2>1. /\ w \in Responses /\ File(r).length \in Nat
    BY ClientType DEF Inv, OrderInv, File
  <2>2. w.error = 0
    BY ResponseKinds DEF Inv, Refused, Redirected, Sent
  <2>3. w.sent.length = File(r).length /\ (w.conn = "broken" => w.file < File(r).length)
    BY DEF Inv, IsExplained, HasOutcome
  <2>4. w.conn \in {"up", "broken"} /\ w.file \in Nat /\ File(r).length # Undeclared
    BY <2>1 DEF Responses, Undeclared
  <2> HIDE DEF w
  <2> QED
    BY <2>1, <2>2, <2>3, <2>4 DEF WellFormed, w
<1> QED
  BY <1>1, Invariance, PTL

\* Every error response but those of the bucket reaches the client whole.
THEOREM ErrorsArriveWhole == Spec => []OnlyBucketErrorsBreakOff
<1>1. Inv => OnlyBucketErrorsBreakOff
  BY DEF Inv, IsExplained, HasOutcome, OnlyBucketErrorsBreakOff, Answered
<1> QED
  BY <1>1, Invariance, PTL

-----------------------------------------------------------------------------
(* Every answer reflects one state of the file: the steps of FileDownload    *)
(* are steps of DownloadContract, or change nothing it speaks of.            *)

\* The values that stand for the variables of the contract.
ExposureNow == [r \in Requests |-> Exposure(state[PathOf(r)])]
SeenNow == [r \in Requests |->
              IF resp[r].status # 0 \/ meta[r] = "none" THEN "none" ELSE Exposure(meta[r])]
AnswerNow == [r \in Requests |-> AnswerOf(resp[r])]

LEMMA ExposureType ==
  ASSUME NEW s \in FileStates \cup {"UNREGISTERED"}
  PROVE  /\ Exposure(s) \in Contract!Exposures
         /\ Exposure(s) = "hidden" <=> s \in {"UNREGISTERED", "CREATED"}
         /\ HasObject(s) => Exposure(s) = "readable"
         /\ Moved(s) => Exposure(s) = "public"
BY DEF Exposure, FileStates, Contract!Exposures, HasObject, Moved

LEMMA AnswerKinds ==
  ASSUME NEW w \in Responses
  PROVE  /\ AnswerOf(w) = "none" <=> w.status = 0
         /\ w.status = 200 => AnswerOf(w) = "file"
         /\ w.status = 301 => AnswerOf(w) = "redirect"
         /\ w.status = 404 => AnswerOf(w) = "absent"
         /\ w.status \in {401, 403, 500} => AnswerOf(w) = "refused"
BY DEF AnswerOf

\* The life cycle of a file is the owner's business.
LEMMA LifeCycleRefines ==
  ASSUME TypeOK, TypeOK', NEW p \in Paths, LifeCycle(p)
  PROVE  Contract!Change
<1>1. UNCHANGED <<SeenNow, AnswerNow>>
  BY DEF LifeCycle, SeenNow, AnswerNow
<1>2. \A r \in Requests : state'[PathOf(r)'] \in FileStates \cup {"UNREGISTERED"}
  <2>1. \A r \in Requests : PathOf(r)' \in Paths
    BY ClientType DEF LifeCycle, PathOf
  <2> QED
    BY <2>1 DEF TypeOK
<1>3. ExposureNow' \in [Requests -> Contract!Exposures]
  BY <1>2, ExposureType DEF ExposureNow
<1> QED
  BY <1>1, <1>3 DEF Contract!Change, ExposureNow, SeenNow, AnswerNow

\* What a step of one request leaves of the contract's variables.
LEMMA OthersKeepTheirAnswers ==
  ASSUME TypeOK, NEW r \in Requests, Handle(r)
  PROVE  /\ ExposureNow' = ExposureNow
         /\ \A q \in Requests \ {r} : SeenNow'[q] = SeenNow[q] /\ AnswerNow'[q] = AnswerNow[q]
<1>1. ExposureNow' = ExposureNow
  BY HandleKeepsFiles DEF environment, ExposureNow, PathOf
<1>2. ASSUME NEW q \in Requests \ {r}
      PROVE  SeenNow'[q] = SeenNow[q] /\ AnswerNow'[q] = AnswerNow[q]
  <2>1. meta'[q] = meta[q] /\ resp'[q] = resp[q]
    BY OthersKeepTheirOwn DEF Own
  <2> QED
    BY <2>1 DEF SeenNow, AnswerNow
<1> QED
  BY <1>1, <1>2

\* A step that neither answers nor looks is none of the contract's.
LEMMA SilentStep ==
  ASSUME TypeOK, NEW r \in Requests, Handle(r), meta'[r] = meta[r],
         AnswerOf(resp'[r]) = AnswerOf(resp[r]), resp'[r].status # 0 <=> resp[r].status # 0
  PROVE  UNCHANGED Contract!vars
<1>1. SeenNow'[r] = SeenNow[r] /\ AnswerNow'[r] = AnswerNow[r]
  BY DEF SeenNow, AnswerNow
<1>2. ExposureNow' = ExposureNow
  BY OthersKeepTheirAnswers
<1>3. SeenNow' = SeenNow /\ AnswerNow' = AnswerNow
  BY <1>1, OthersKeepTheirAnswers DEF SeenNow, AnswerNow
<1> QED
  BY <1>2, <1>3 DEF Contract!vars, ExposureNow, SeenNow, AnswerNow

\* A step that answers is the contract's reply, if the request saw the grounds for it:
\* the state it fetched or, before that, the state of the file now.
LEMMA AnsweringStep ==
  ASSUME TypeOK, NEW r \in Requests, Handle(r), resp[r].status = 0, NEW a \in DOMAIN Contract!Grounds,
         resp'[r].status # 0, AnswerOf(resp'[r]) = a,
         (IF meta[r] = "none" THEN Exposure(state[PathOf(r)]) ELSE Exposure(meta[r]))
           \in Contract!Grounds[a]
  PROVE  Contract!Reply(r)
<1>1. SeenNow[r] = (IF meta[r] = "none" THEN "none" ELSE Exposure(meta[r])) /\ AnswerNow[r] = "none"
  BY DEF SeenNow, AnswerNow, AnswerOf
<1>2. ExposureNow' = ExposureNow /\ ExposureNow[r] = Exposure(state[PathOf(r)])
  BY OthersKeepTheirAnswers DEF ExposureNow
<1>3. SeenNow' = [SeenNow EXCEPT ![r] = "none"]
  <2>1. SeenNow'[r] = "none"
    BY DEF SeenNow
  <2> QED
    BY <2>1, OthersKeepTheirAnswers DEF SeenNow
<1>4. AnswerNow' = [AnswerNow EXCEPT ![r] = a]
  <2>1. AnswerNow'[r] = a
    BY DEF AnswerNow
  <2> QED
    BY <2>1, OthersKeepTheirAnswers DEF AnswerNow
<1>5. (IF SeenNow[r] = "none" THEN ExposureNow[r] ELSE SeenNow[r]) \in Contract!Grounds[a]
  <2>1. meta[r] # "none" => Exposure(meta[r]) # "none"
    <3>1. meta[r] \in FileStates \cup {"none"}
      BY DEF TypeOK
    <3> QED
      BY <3>1, ExposureType DEF Contract!Exposures
  <2> QED
    BY <1>1, <1>2, <2>1
<1> QED
  BY <1>1, <1>2, <1>3, <1>4, <1>5
     DEF Contract!Reply, Contract!View, ExposureNow, SeenNow, AnswerNow

\* The grounds of each answer, in the states of a file.
LEMMA GroundsOfAnswers ==
  ASSUME NEW s \in FileStates \cup {"UNREGISTERED"}
  PROVE  /\ DOMAIN Contract!Grounds = {"file", "redirect", "absent", "refused"}
         /\ HasObject(s) => Exposure(s) \in Contract!Grounds["file"]
         /\ Moved(s) => Exposure(s) \in Contract!Grounds["redirect"]
         /\ s \in {"UNREGISTERED", "CREATED"} => Exposure(s) \in Contract!Grounds["absent"]
         /\ Exposure(s) \in Contract!Grounds["refused"]
BY ExposureType DEF Contract!Grounds, HasObject, Moved

\* An error is a refusal, whatever the file, unless it says that the file is not there.
LEMMA ErrorRefines ==
  ASSUME TypeOK, NEW r \in Requests, Handle(r), resp[r].status = 0,
         NEW w \in Responses, w.status = 0, NEW err, Return(r, HandleError(w, err)),
         err = "ErrFileNotRegistered" => meta[r] = "none" /\ state[PathOf(r)] = "UNREGISTERED"
  PROVE  Contract!Reply(r)
<1> DEFINE f == Finish(HandleError(w, err))
           s == IF meta[r] = "none" THEN state[PathOf(r)] ELSE meta[r]
<1>1. resp'[r] = f /\ f \in Responses /\ f.status = ErrorStatus(err)
  BY ReturnEffect, ErrorOutcome, ErrorType, FinishType
<1>2. s \in FileStates \cup {"UNREGISTERED"}
  BY ClientType DEF TypeOK
<1>3. Exposure(s) = IF meta[r] = "none" THEN Exposure(state[PathOf(r)]) ELSE Exposure(meta[r])
  OBVIOUS
<1>4. err = "ErrFileNotRegistered" => s = "UNREGISTERED"
  OBVIOUS
<1> HIDE DEF f, s
<1>5. CASE err = "ErrFileNotRegistered"
  <2>1. f.status = 404 /\ AnswerOf(f) = "absent"
    BY <1>1, <1>5, ErrorCauses, AnswerKinds
  <2> QED
    BY <1>1, <1>2, <1>3, <1>4, <1>5, <2>1, GroundsOfAnswers, AnsweringStep
<1>6. CASE err # "ErrFileNotRegistered"
  <2>1. f.status # 0 /\ AnswerOf(f) = "refused"
    BY <1>1, <1>6, ErrorCauses, AnswerKinds
  <2> QED
    BY <1>1, <1>2, <1>3, <2>1, GroundsOfAnswers, AnsweringStep
<1> QED
  BY <1>5, <1>6

\* Fetching the metadata is the one look at the file.
LEMMA FetchRefines ==
  ASSUME Inv, NEW r \in Requests, Handle(r), FetchMetadata(r)
  PROVE  Contract!Serve(r)
<1> DEFINE o == Opened(resp[r])
<1>0. TypeOK /\ pc[r] = "fetch" /\ meta[r] = "none" /\ resp[r].status = 0
  BY DEF FetchMetadata, Inv, OrderInv, InOrder, RespondsInOrder, Untouched, IsExplained, FollowsState
<1>1. o \in Responses /\ o.status = 0
  <2>1. Blank(o)
    BY <1>0, BlankBeforeCopy DEF Inv, OrderInv, InOrder, IsExplained
  <2> QED
    BY <2>1 DEF Blank
<1> HIDE DEF o
<1>2. CASE /\ meta' = [meta EXCEPT ![r] = state[PathOf(r)]]
           /\ Continue(r, IF IsPublishing THEN "authenticate" ELSE "check", o)
  <2>1. meta'[r] = state[PathOf(r)] /\ resp'[r].status = 0 /\ state[PathOf(r)] # "none"
    <3>1. state[PathOf(r)] \in FileStates \cup {"UNREGISTERED"}
      BY <1>0, ClientType DEF TypeOK
    <3>2. meta'[r] = state[PathOf(r)]
      BY <1>0, <1>2 DEF TypeOK
    <3>3. resp'[r] = o
      BY <1>0, <1>2, ContinueEffect
    <3> QED
      BY <1>1, <3>1, <3>2, <3>3 DEF FileStates
  <2>2. AnswerNow'[r] = "none" /\ AnswerNow[r] = "none" /\ SeenNow[r] = "none"
    BY <1>0, <2>1 DEF AnswerNow, SeenNow, AnswerOf
  <2>3. SeenNow'[r] = ExposureNow[r]
    BY <2>1 DEF SeenNow, ExposureNow
  <2>4. ExposureNow' = ExposureNow
    BY <1>0, OthersKeepTheirAnswers
  <2>5. \A q \in Requests \ {r} : SeenNow'[q] = SeenNow[q] /\ AnswerNow'[q] = AnswerNow[q]
    BY <1>0, OthersKeepTheirAnswers
  <2>6. AnswerNow' = AnswerNow
    BY <2>2, <2>5 DEF AnswerNow
  <2>7. SeenNow' = [SeenNow EXCEPT ![r] = ExposureNow[r]]
    BY <2>3, <2>5 DEF SeenNow
  <2> QED
    BY <2>2, <2>4, <2>6, <2>7 DEF Contract!Serve, Contract!Look, ExposureNow, SeenNow, AnswerNow
<1>3. ASSUME NEW err \in MetadataErrors, err = "not registered" => state[PathOf(r)] = "UNREGISTERED",
             Return(r, HandleError(o, Sentinel(err)))
      PROVE  Contract!Reply(r)
  <2>1. Sentinel(err) = "ErrFileNotRegistered" => state[PathOf(r)] = "UNREGISTERED"
    BY <1>3, MetadataErrorCauses
  <2> QED
    BY <1>0, <1>1, <1>3, <2>1, ErrorRefines
<1> QED
  BY <1>2, <1>3 DEF FetchMetadata, Contract!Serve, o

\* The checks and the event go on in silence, or refuse.
LEMMA ChecksRefine ==
  ASSUME Inv, NEW r \in Requests, Handle(r),
         GetAuthEntityData(r) \/ CheckUserPermission(r) \/ RecordFileEvent(r)
  PROVE  Contract!Serve(r) \/ UNCHANGED Contract!vars
<1> DEFINE w == resp[r]
<1>0. /\ TypeOK /\ meta' = meta /\ w \in Responses
      /\ w.status = 0
  BY ClientType DEF GetAuthEntityData, CheckUserPermission, RecordFileEvent, Inv, OrderInv, InOrder,
         RespondsInOrder, Pending, Untouched
<1>1. ASSUME NEW step, Continue(r, step, w)
      PROVE  UNCHANGED Contract!vars
  BY <1>0, <1>1, ContinueEffect, SilentStep
<1>2. ASSUME NEW err, Return(r, HandleError(w, err)), err # "ErrFileNotRegistered"
      PROVE  Contract!Serve(r)
  BY <1>0, <1>2, ErrorRefines DEF Contract!Serve
<1> HIDE DEF w
<1> QED
  BY <1>1, <1>2, AuthErrorCauses DEF GetAuthEntityData, CheckUserPermission, RecordFileEvent, w

\* A redirect and a 404 are given for the state that was fetched.
LEMMA CheckRefines ==
  ASSUME Inv, NEW r \in Requests, Handle(r), HandleUnsupportedMetadataStates(r)
  PROVE  Contract!Serve(r) \/ UNCHANGED Contract!vars
<1> DEFINE w == resp[r]
<1>0. /\ TypeOK /\ meta' = meta /\ w \in Responses /\ w.status = 0
      /\ meta[r] \in FileStates /\ meta[r] # "none"
  BY ClientType DEF HandleUnsupportedMetadataStates, Inv, OrderInv, InOrder, HasMetadata,
         RespondsInOrder, Pending, Untouched, FileStates
<1> HIDE DEF w
<1>1. /\ Finish(SetStatusMovedPermanently(w)) \in Responses
      /\ Finish(SetStatusMovedPermanently(w)).status = 301
      /\ Finish(SetStatusNotFound(w)) \in Responses
      /\ Finish(SetStatusNotFound(w)).status = 404
  BY <1>0, StatusType, FinishType, StatusOutcome
<1>2. ASSUME NEW f \in Responses, resp'[r] = f, NEW a \in DOMAIN Contract!Grounds, f.status # 0,
             AnswerOf(f) = a, Exposure(meta[r]) \in Contract!Grounds[a]
      PROVE  Contract!Serve(r)
  BY <1>0, <1>2, AnsweringStep DEF Contract!Serve, w
<1>3. CASE Moved(meta[r]) /\ Return(r, SetStatusMovedPermanently(w))
  BY <1>0, <1>1, <1>2, <1>3, ReturnEffect, AnswerKinds, GroundsOfAnswers
<1>4. CASE Hidden(meta[r]) /\ ~Moved(meta[r]) /\ Return(r, SetStatusNotFound(w))
  <2>1. meta[r] = "CREATED"
    BY <1>0, <1>4 DEF FileStates, Moved, Hidden, HiddenWithAuth, HiddenNoAuth, UploadIncomplete,
                      Unpublished
  <2> QED
    BY <1>0, <1>1, <1>2, <1>4, <2>1, ReturnEffect, AnswerKinds, GroundsOfAnswers
<1>5. CASE Continue(r, "open", w)
  BY <1>0, <1>5, ContinueEffect, SilentStep DEF w
<1> QED
  BY <1>3, <1>4, <1>5 DEF HandleUnsupportedMetadataStates, w

\* The file goes out with the first write, for the state that was fetched; what
\* follows the status changes no answer.
LEMMA CopyRefines ==
  ASSUME Inv, NEW r \in Requests, Handle(r), DownloadFileFromBucket(r) \/ WriteFileToResponse(r)
  PROVE  Contract!Serve(r) \/ UNCHANGED Contract!vars
<1> DEFINE w == resp[r]
<1>0. /\ TypeOK /\ meta' = meta /\ w \in Responses /\ w.status \in {0, 200}
      /\ meta[r] \in FileStates /\ meta[r] # "none" /\ HasObject(meta[r])
      /\ catalogue[PathOf(r)].size \in Nat /\ catalogue[PathOf(r)].length \in Nat
  BY ClientType, StatusIsFinal
     DEF DownloadFileFromBucket, WriteFileToResponse, Inv, OrderInv, InOrder, HasMetadata,
         IsExplained, FollowsState, FileStates
<1> HIDE DEF w
<1>1. ASSUME NEW f \in Responses, resp'[r] = f, f.status = 200
      PROVE  Contract!Serve(r) \/ UNCHANGED Contract!vars
  <2>1. CASE w.status = 0
    BY <1>0, <1>1, <2>1, AnsweringStep, AnswerKinds, GroundsOfAnswers DEF Contract!Serve, w
  <2>2. CASE w.status = 200
    BY <1>0, <1>1, <2>2, SilentStep, AnswerKinds DEF w
  <2> QED
    BY <1>0, <2>1, <2>2
<1>2. ASSUME w.status = 0, NEW f \in Responses, resp'[r] = f, f.status = 500
      PROVE  Contract!Serve(r)
  BY <1>0, <1>2, AnsweringStep, AnswerKinds, GroundsOfAnswers DEF Contract!Serve, w
<1>3. CASE DownloadFileFromBucket(r)
  <2> DEFINE h == SetContentHeaders(w, catalogue[PathOf(r)].size)
  <2>1. w.status = 0
    BY <1>0, <1>3 DEF DownloadFileFromBucket, Inv, OrderInv, InOrder, RespondsInOrder, Pending,
                      Untouched, w
  <2>2. h \in Responses /\ h.status = 0
    BY <1>0, <2>1, StatusType, HeaderEffect DEF SetContentHeaders, CachePolicies
  <2> HIDE DEF h
  <2>3. CASE Continue(r, "copy", h)
    BY <1>0, <2>1, <2>2, <2>3, ContinueEffect, SilentStep, AnswerKinds DEF w
  <2>4. CASE Return(r, HandleError(h, "other"))
    BY <1>0, <2>1, <2>2, <2>4, ErrorRefines DEF Contract!Serve, w
  <2> QED
    BY <1>3, <2>3, <2>4 DEF DownloadFileFromBucket, h, w
<1>4. CASE WriteFileToResponse(r)
  <2>0. RespondsInOrder(r) /\ Copying(r) /\ pc[r] = "copy" /\ read[r] \in Nat
    BY <1>0, <1>4 DEF WriteFileToResponse, Inv, OrderInv, InOrder, IsExplained, TypeOK
  <2>1. /\ Finish(w) \in Responses /\ Finish(w).status = 200
        /\ BreakConnection(w) \in Responses /\ BreakConnection(w).status = 200
        /\ \A n \in Nat : WriteFile(w, n) \in Responses /\ WriteFile(w, n).status = 200
    <3>1. WriteHeader(w, 200) \in Responses /\ WriteHeader(w, 200).status = 200
      BY <1>0, <2>0, CopiedResponse DEF w
    <3>2. ASSUME NEW n \in Nat PROVE WriteFile(w, n) \in Responses /\ WriteFile(w, n).status = 200
      <4>1. WriteFile(w, n) \in Responses
        BY <1>0, <3>2, WriteType
      <4>2. WriteFile(w, n).status = WriteHeader(w, 200).status
        BY <1>0, <3>2, WriteEffect
      <4> QED
        BY <3>1, <4>1, <4>2
    <3>3. BreakConnection(w) \in Responses /\ BreakConnection(w).status = 200
      BY <1>0, <3>1, FinishType, BreakEffect
    <3> QED
      BY <3>1, <3>2, <3>3 DEF Finish
  <2>2. ASSUME NEW s \in Responses, s.status = 200, CopyFailed(r, s)
        PROVE  Contract!Serve(r) \/ UNCHANGED Contract!vars
    <3>1. resp'[r] = Finish(SetStatusInternalServerError(s))
      BY <1>0, <2>2, ReturnEffect DEF CopyFailed
    <3> QED
      BY <1>1, <2>2, <3>1, CutShortOutcome, StatusType, FinishType
  <2>3. CASE CopyChunk(r)
    <3>1. PICK n \in 1 .. Unread(r) :
            \/ Continue(r, "copy", WriteFile(w, n))
            \/ CopyFailed(r, WriteFile(w, n))
      BY <2>3 DEF CopyChunk, w
    <3>2. n \in Nat
      BY <1>0, <2>0 DEF Unread
    <3> QED
      BY <1>0, <1>1, <2>1, <2>2, <3>1, <3>2, ContinueEffect
  <2>4. CASE CopyEnds(r)
    BY <1>0, <1>1, <2>1, <2>4, ReturnEffect DEF CopyEnds, w
  <2>5. CASE ReadFails(r)
    <3>1. CASE w.status = 0
      <4>1. resp'[r] = Finish(SetStatusInternalServerError(w))
        BY <1>0, <2>5, ReturnEffect DEF ReadFails, CopyFailed, w
      <4>2. Finish(SetStatusInternalServerError(w)) \in Responses
        BY <1>0, StatusType, FinishType
      <4>3. Finish(SetStatusInternalServerError(w)).status = 500
        BY <1>0, <3>1, FailedCopyEffect
      <4> QED
        BY <1>2, <3>1, <4>1, <4>2, <4>3
    <3>2. CASE w.status = 200
      BY <1>0, <2>2, <2>5, <3>2 DEF ReadFails, w
    <3> QED
      BY <1>0, <3>1, <3>2
  <2>6. CASE WriteFails(r)
    BY <2>1, <2>2, <2>6 DEF WriteFails, w
  <2> QED
    BY <1>4, <2>3, <2>4, <2>5, <2>6 DEF WriteFileToResponse
<1> QED
  BY <1>3, <1>4

LEMMA InitRefines == Init => Contract!Init
<1> SUFFICES ASSUME Init PROVE Contract!Init
  OBVIOUS
<1>1. ExposureNow \in [Requests -> Contract!Exposures]
  BY InitType, ClientType, ExposureType DEF ExposureNow, TypeOK
<1>2. \A r \in Requests : SeenNow[r] = "none" /\ AnswerNow[r] = "none"
  BY DEF Init, NewResponse, SeenNow, AnswerNow, AnswerOf
<1>3. /\ SeenNow = [r \in Requests |-> "none"]
      /\ AnswerNow = [r \in Requests |-> "none"]
  BY <1>2 DEF SeenNow, AnswerNow
<1> QED
  BY <1>1, <1>3 DEF Contract!Init, ExposureNow, SeenNow, AnswerNow

LEMMA NextRefines == Inv /\ Inv' /\ [Next]_vars => [Contract!Next]_(Contract!vars)
<1> SUFFICES ASSUME Inv, Inv', [Next]_vars PROVE Contract!Next \/ UNCHANGED Contract!vars
  OBVIOUS
<1>1. ASSUME NEW p \in Paths, LifeCycle(p) PROVE Contract!Change
  BY <1>1, LifeCycleRefines DEF Inv, OrderInv
<1>2. ASSUME NEW r \in Requests, Handle(r) PROVE Contract!Serve(r) \/ UNCHANGED Contract!vars
  BY <1>2, FetchRefines, ChecksRefine, CheckRefines, CopyRefines DEF Handle
<1>3. CASE UNCHANGED vars
  <2>1. ExposureNow' = ExposureNow /\ SeenNow' = SeenNow /\ AnswerNow' = AnswerNow
    BY <1>3 DEF vars, ExposureNow, SeenNow, AnswerNow, PathOf
  <2> QED
    BY <2>1 DEF Contract!vars, ExposureNow, SeenNow, AnswerNow
<1> QED
  BY <1>1, <1>2, <1>3 DEF Next, AllAnswered, Contract!Next

\* FileDownload implements the contract: a file, a redirect, a 404 or a refusal is
\* given for one state of the file, the one that was fetched, however it moves on
\* while events, checks and the bucket are asked.
THEOREM AnswersReflectOneState == Spec => ReflectsOneState
BY InitRefines, NextRefines, Invariance, PTL DEF Spec, ReflectsOneState
=============================================================================
