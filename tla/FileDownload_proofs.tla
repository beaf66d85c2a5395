------------------------ MODULE FileDownload_proofs -------------------------
(***************************************************************************)
(* Proofs about FileDownload, for every set of requests, paths, editions,  *)
(* grants and sizes, in both environments.                                 *)
(***************************************************************************)
EXTENDS FileDownload, HttpResponse_proofs

-----------------------------------------------------------------------------
(* The handlers' operations on a response keep it a response.                *)

LEMMA ErrorType ==
  ASSUME NEW w \in Responses, NEW err
  PROVE  HandleError(w, err) \in Responses
<1>1. SetCacheControl(w, "no-cache") \in Responses
  BY HeaderType DEF CachePolicies
<1>2. ErrorStatus(err) \in Codes
  BY DEF ErrorStatus, Codes
<1> QED
  BY <1>1, <1>2, CommitType, WriteType, FileDownloadAssumption DEF HandleError

LEMMA StatusType ==
  ASSUME NEW w \in Responses
  PROVE  /\ SetStatusMovedPermanently(w) \in Responses
         /\ SetStatusNotFound(w) \in Responses
         /\ SetStatusInternalServerError(w) \in Responses
         /\ Opened(w) \in Responses
         /\ \A n \in Nat : SetContentHeaders(w, n) \in Responses
BY HeaderType, CommitType
   DEF SetStatusMovedPermanently, SetStatusNotFound, SetStatusInternalServerError, Opened,
       SetContentHeaders, CachePolicies, Codes

-----------------------------------------------------------------------------
(* Type correctness.                                                         *)

\* A step that continues with, or returns, a response keeps the types of pc and resp.
LEMMA ContinueType ==
  ASSUME TypeOK, NEW r \in Requests, NEW w \in Responses, NEW step \in Steps,
         Continue(r, step, w) \/ Return(r, w)
  PROVE  pc' \in [Requests -> Steps] /\ resp' \in [Requests -> Responses]
<1>1. Finish(w) \in Responses
  BY FinishType
<1> QED
  BY <1>1 DEF Continue, Return, TypeOK, Steps

LEMMA FailType ==
  ASSUME TypeOK, NEW r \in Requests, NEW d \in Dependencies, Fail(r, d)
  PROVE  faults' \in [Requests -> SUBSET Dependencies]
BY DEF Fail, TypeOK

LEMMA InitType == Init => TypeOK
<1>1. NewResponse \in Responses
  BY DEF NewResponse, NoHeader, Responses, Headers, CachePolicies, Undeclared
<1> QED
  BY <1>1 DEF Init, TypeOK, Steps

LEMMA LifeCycleType ==
  ASSUME TypeOK, NEW p \in Paths, LifeCycle(p)
  PROVE  TypeOK'
<1>1. state' \in [Paths -> FileStates \cup {"UNREGISTERED"}]
  BY DEF TypeOK, LifeCycle, Register, CompleteUpload, Publish, Move, RemovePrivateCopy,
         Enters, FileStates
<1>2. private' \subseteq Paths /\ public' \subseteq Paths
  BY DEF TypeOK, LifeCycle, Register, CompleteUpload, Publish, Move, RemovePrivateCopy
<1> QED
  BY <1>1, <1>2 DEF TypeOK, LifeCycle

\* What a request asks for, and what is registered of it.
LEMMA ClientType ==
  ASSUME TypeOK, NEW r \in Requests
  PROVE  /\ PathOf(r) \in Paths
         /\ client[r].token \in TokenKinds
         /\ catalogue[PathOf(r)].size \in Nat
         /\ catalogue[PathOf(r)].length \in Nat
         /\ resp[r] \in Responses
BY FileDownloadAssumption DEF TypeOK, PathOf

LEMMA HandleType ==
  ASSUME TypeOK, NEW r \in Requests, HasMetadata(r), Handle(r)
  PROVE  TypeOK'
<1> DEFINE path == PathOf(r)
<1>0. /\ path \in Paths /\ resp[r] \in Responses
      /\ catalogue[path].size \in Nat /\ catalogue[path].length \in Nat
  BY ClientType
<1>1. CASE FetchMetadata(r)
  <2>1. Opened(resp[r]) \in Responses /\ \A e : HandleError(Opened(resp[r]), e) \in Responses
    BY <1>0, StatusType, ErrorType
  <2>2. pc' \in [Requests -> Steps] /\ resp' \in [Requests -> Responses]
    BY <1>1, <2>1, ContinueType DEF FetchMetadata, Steps
  <2>3. meta' \in [Requests -> FileStates \cup {"none"}]
    BY <1>0, <1>1 DEF FetchMetadata, TypeOK
  <2>4. faults' \in [Requests -> SUBSET Dependencies]
    BY <1>1, FailType DEF FetchMetadata, TypeOK, Dependencies
  <2> QED
    BY <1>1, <2>2, <2>3, <2>4 DEF FetchMetadata, TypeOK, environment
<1>2. CASE GetAuthEntityData(r)
  <2>1. pc' \in [Requests -> Steps] /\ resp' \in [Requests -> Responses]
    BY <1>0, <1>2, ErrorType, ContinueType DEF GetAuthEntityData, Steps
  <2> QED
    BY <1>2, <2>1 DEF GetAuthEntityData, TypeOK, environment
<1>3. CASE CheckUserPermission(r)
  <2>1. pc' \in [Requests -> Steps] /\ resp' \in [Requests -> Responses]
    BY <1>0, <1>3, ErrorType, ContinueType DEF CheckUserPermission, Steps
  <2>2. faults' \in [Requests -> SUBSET Dependencies]
    BY <1>3, FailType DEF CheckUserPermission, TypeOK, Dependencies
  <2> QED
    BY <1>3, <2>1, <2>2 DEF CheckUserPermission, TypeOK, environment
<1>4. CASE RecordFileEvent(r)
  <2>1. audit' \subseteq Events
    <3>1. FileEvent(r) \in Events
      BY <1>0, <1>4 DEF RecordFileEvent, HasMetadata, FileEvent, Events
    <3>2. audit' \in {audit, audit \cup {FileEvent(r)}}
      BY <1>4 DEF RecordFileEvent
    <3> QED
      BY <3>1, <3>2 DEF TypeOK
  <2>2. pc' \in [Requests -> Steps] /\ resp' \in [Requests -> Responses]
    BY <1>0, <1>4, ErrorType, ContinueType DEF RecordFileEvent, Steps
  <2>3. faults' \in [Requests -> SUBSET Dependencies]
    BY <1>4, FailType DEF RecordFileEvent, TypeOK, Dependencies
  <2> QED
    BY <1>4, <2>1, <2>2, <2>3 DEF RecordFileEvent, TypeOK, environment
<1>5. CASE HandleUnsupportedMetadataStates(r)
  <2>1. pc' \in [Requests -> Steps] /\ resp' \in [Requests -> Responses]
    BY <1>0, <1>5, StatusType, ContinueType DEF HandleUnsupportedMetadataStates, Steps
  <2> QED
    BY <1>5, <2>1 DEF HandleUnsupportedMetadataStates, TypeOK, environment
<1>6. CASE DownloadFileFromBucket(r)
  <2>1. SetContentHeaders(resp[r], catalogue[path].size) \in Responses
    BY <1>0, StatusType
  <2>2. pc' \in [Requests -> Steps] /\ resp' \in [Requests -> Responses]
    BY <1>6, <2>1, ErrorType, ContinueType DEF DownloadFileFromBucket, Steps
  <2>3. faults' \in [Requests -> SUBSET Dependencies]
    BY <1>6, FailType DEF DownloadFileFromBucket, TypeOK, Dependencies
  <2>4. reader' \in [Requests -> {"none", "open", "closed"}]
    BY <1>6 DEF DownloadFileFromBucket, TypeOK
  <2> QED
    BY <1>6, <2>2, <2>3, <2>4 DEF DownloadFileFromBucket, TypeOK, environment
<1>7. CASE WriteFileToResponse(r)
  <2>1. ASSUME NEW w \in Responses, CopyFailed(r, w)
        PROVE  /\ pc' \in [Requests -> Steps] /\ resp' \in [Requests -> Responses]
               /\ reader' \in [Requests -> {"none", "open", "closed"}]
    BY <2>1, StatusType, ContinueType DEF CopyFailed, CloseDownloadedFile, TypeOK, Steps
  <2>2. ASSUME CopyChunk(r)
        PROVE  /\ pc' \in [Requests -> Steps] /\ resp' \in [Requests -> Responses]
               /\ reader' \in [Requests -> {"none", "open", "closed"}]
               /\ read' \in [Requests -> Nat]
               /\ faults' \in [Requests -> SUBSET Dependencies]
    <3>1. PICK n \in 1 .. Unread(r) :
            /\ read' = [read EXCEPT ![r] = @ + n]
            /\ \/ Continue(r, "copy", WriteFile(resp[r], n)) /\ UNCHANGED reader
               \/ CopyFailed(r, WriteFile(resp[r], n))
            /\ UNCHANGED faults
      BY <2>2 DEF CopyChunk
    <3>2. n \in Nat
      BY <1>0 DEF Unread, TypeOK
    <3>3. WriteFile(resp[r], n) \in Responses
      BY <1>0, <3>2, WriteType
    <3>4. read' \in [Requests -> Nat]
      BY <3>1, <3>2 DEF TypeOK
    <3> QED
      BY <2>1, <3>1, <3>3, <3>4, ContinueType DEF TypeOK, Steps
  <2>3. ASSUME CopyEnds(r) \/ ReadFails(r) \/ WriteFails(r)
        PROVE  /\ pc' \in [Requests -> Steps] /\ resp' \in [Requests -> Responses]
               /\ reader' \in [Requests -> {"none", "open", "closed"}]
               /\ read' \in [Requests -> Nat]
               /\ faults' \in [Requests -> SUBSET Dependencies]
    <3>1. CASE CopyEnds(r)
      BY <1>0, <3>1, ContinueType DEF CopyEnds, CloseDownloadedFile, TypeOK, Steps
    <3>2. CASE ReadFails(r)
      BY <1>0, <2>1, <3>2, FailType DEF ReadFails, TypeOK, Dependencies
    <3>3. CASE WriteFails(r)
      BY <1>0, <2>1, <3>3, FailType, FinishType DEF WriteFails, TypeOK, Dependencies
    <3> QED
      BY <2>3, <3>1, <3>2, <3>3
  <2> QED
    BY <1>7, <2>2, <2>3 DEF WriteFileToResponse, TypeOK, environment
<1> QED
  BY <1>1, <1>2, <1>3, <1>4, <1>5, <1>6, <1>7 DEF Handle

-----------------------------------------------------------------------------
(* What a step of one request leaves of the others, and of the files.        *)

LEMMA ContinueEffect ==
  ASSUME TypeOK, NEW r \in Requests, NEW step, NEW w, Continue(r, step, w)
  PROVE  /\ pc'[r] = step /\ resp'[r] = w
         /\ \A q \in Requests \ {r} : pc'[q] = pc[q] /\ resp'[q] = resp[q]
BY DEF Continue, TypeOK

LEMMA ReturnEffect ==
  ASSUME TypeOK, NEW r \in Requests, NEW w, Return(r, w)
  PROVE  /\ pc'[r] = "done" /\ resp'[r] = Finish(w)
         /\ \A q \in Requests \ {r} : pc'[q] = pc[q] /\ resp'[q] = resp[q]
BY ContinueEffect DEF Return

\* What a request has to itself does not change under another request's step.
Own(q) == <<pc[q], meta[q], resp[q], reader[q]>>

LEMMA OthersKeepTheirOwn ==
  ASSUME TypeOK, NEW r \in Requests, Handle(r), NEW q \in Requests, q # r
  PROVE  Own(q)' = Own(q)
<1>1. pc'[q] = pc[q] /\ resp'[q] = resp[q]
  <2>1. \E w : Return(r, w) \/ \E step : Continue(r, step, w)
    BY DEF Handle, FetchMetadata, GetAuthEntityData, CheckUserPermission, RecordFileEvent,
           HandleUnsupportedMetadataStates, DownloadFileFromBucket, WriteFileToResponse,
           CopyChunk, CopyEnds, ReadFails, WriteFails, CopyFailed
  <2> QED
    BY <2>1, ContinueEffect, ReturnEffect
<1>2. meta'[q] = meta[q]
  BY DEF TypeOK, Handle, FetchMetadata, GetAuthEntityData, CheckUserPermission, RecordFileEvent,
         HandleUnsupportedMetadataStates, DownloadFileFromBucket, WriteFileToResponse
<1>3. reader'[q] = reader[q]
  BY DEF TypeOK, Handle, FetchMetadata, GetAuthEntityData, CheckUserPermission, RecordFileEvent,
         HandleUnsupportedMetadataStates, DownloadFileFromBucket, WriteFileToResponse,
         CopyChunk, CopyEnds, ReadFails, WriteFails, CopyFailed, CloseDownloadedFile
<1> QED
  BY <1>1, <1>2, <1>3 DEF Own

\* A moved file stays moved and public, and the audit trail only grows.
LEMMA HistoryGrows ==
  ASSUME TypeOK, [Next]_vars
  PROVE  /\ catalogue' = catalogue /\ client' = client
         /\ \A p \in Paths : state[p] = "MOVED" => state'[p] = "MOVED"
         /\ public \subseteq public'
         /\ audit \subseteq audit'
<1>1. ASSUME NEW p \in Paths, LifeCycle(p)
      PROVE  /\ UNCHANGED <<catalogue, client, audit>> /\ public \subseteq public'
             /\ \A q \in Paths : state[q] = "MOVED" => state'[q] = "MOVED"
  BY <1>1 DEF LifeCycle, Register, CompleteUpload, Publish, Move, RemovePrivateCopy, Enters, TypeOK
<1>2. ASSUME NEW r \in Requests, Handle(r)
      PROVE  UNCHANGED environment /\ audit \subseteq audit'
  BY <1>2 DEF Handle, FetchMetadata, GetAuthEntityData, CheckUserPermission, RecordFileEvent,
              HandleUnsupportedMetadataStates, DownloadFileFromBucket, WriteFileToResponse
<1>3. CASE UNCHANGED vars
  BY <1>3 DEF vars
<1> QED
  BY <1>1, <1>2, <1>3 DEF Next, AllAnswered, environment

\* A step of a file touches no request.
LEMMA LifeCycleKeepsRequests ==
  ASSUME NEW p \in Paths, LifeCycle(p), NEW q \in Requests
  PROVE  Own(q)' = Own(q) /\ audit' = audit
BY DEF LifeCycle, Own

-----------------------------------------------------------------------------
(* Type correctness, with the metadata each request holds.                   *)

Typed == TypeOK /\ \A r \in Requests : HasMetadata(r)

LEMMA KeepsMetadata ==
  ASSUME TypeOK, [Next]_vars, NEW q \in Requests, HasMetadata(q), Own(q)' = Own(q)
  PROVE  HasMetadata(q)'
BY HistoryGrows, ClientType DEF HasMetadata, Own, PathOf

LEMMA HandleMetadata ==
  ASSUME TypeOK, NEW r \in Requests, HasMetadata(r), Handle(r)
  PROVE  HasMetadata(r)'
<1>0. PathOf(r) \in Paths /\ PathOf(r)' = PathOf(r) /\ state' = state
  BY ClientType DEF PathOf, Handle, FetchMetadata, GetAuthEntityData, CheckUserPermission,
         RecordFileEvent, HandleUnsupportedMetadataStates, DownloadFileFromBucket,
         WriteFileToResponse, environment
<1>1. CASE FetchMetadata(r)
  <2>1. CASE meta' = [meta EXCEPT ![r] = state[PathOf(r)]] /\ state[PathOf(r)] # "UNREGISTERED"
    BY <1>0, <2>1 DEF HasMetadata, TypeOK
  <2>2. CASE UNCHANGED meta /\ \E w : Return(r, w)
    BY <1>0, <2>2, ReturnEffect DEF HasMetadata
  <2> QED
    BY <1>1, <2>1, <2>2 DEF FetchMetadata
<1>2. CASE ~FetchMetadata(r)
  <2>1. meta' = meta /\ pc[r] \notin {"fetch", "done"}
    BY <1>2 DEF Handle, GetAuthEntityData, CheckUserPermission,
         RecordFileEvent, HandleUnsupportedMetadataStates, DownloadFileFromBucket,
         WriteFileToResponse
  <2> QED
    BY <1>0, <2>1 DEF HasMetadata
<1> QED
  BY <1>1, <1>2

LEMMA NextTyped == Typed /\ [Next]_vars => Typed'
<1> SUFFICES ASSUME Typed, [Next]_vars PROVE Typed'
  OBVIOUS
<1>1. ASSUME NEW p \in Paths, LifeCycle(p) PROVE Typed'
  BY <1>1, LifeCycleType, LifeCycleKeepsRequests, KeepsMetadata DEF Typed
<1>2. ASSUME NEW r \in Requests, Handle(r) PROVE Typed'
  <2>1. TypeOK'
    BY <1>2, HandleType DEF Typed
  <2>2. ASSUME NEW q \in Requests PROVE HasMetadata(q)'
    BY <1>2, HandleMetadata, KeepsMetadata, OthersKeepTheirOwn DEF Typed
  <2> QED
    BY <2>1, <2>2 DEF Typed
<1>3. CASE UNCHANGED vars
  BY <1>3 DEF vars, Typed, TypeOK, HasMetadata, PathOf
<1> QED
  BY <1>1, <1>2, <1>3 DEF Next, AllAnswered

LEMMA TypedInvariance == Spec => []Typed
<1>1. Init => Typed
  BY InitType DEF Init, Typed, HasMetadata
<1> QED
  BY <1>1, NextTyped, PTL DEF Spec

\* Every variable keeps its type; in particular every response carries one of the
\* status codes the handlers know, whatever fails.
THEOREM TypeCorrectness == Spec => []TypeOK
<1>1. Typed => TypeOK
  BY DEF Typed
<1> QED
  BY <1>1, TypedInvariance, PTL

-----------------------------------------------------------------------------
(* What the handlers' operations do to a response nobody has committed.      *)

\* A response that is committed is left as it is when the handler returns.
LEMMA FinishEffect ==
  ASSUME NEW c \in Responses, c.status # 0
  PROVE  Finish(c) = c
BY CommitEffect DEF Finish, Codes

\* A response s with nothing committed is answered with a status, and with a status
\* and an error document.
LEMMA AnswerEffect ==
  ASSUME NEW s \in Responses, s.status = 0, NEW code \in Codes, NEW n \in Nat
  PROVE  /\ Finish(WriteHeader(s, code)).status = code
         /\ Finish(WriteHeader(s, code)).sent = s.header
         /\ Finish(WriteHeader(s, code)).file = s.file
         /\ Finish(WriteError(WriteHeader(s, code), n)).status = code
         /\ Finish(WriteError(WriteHeader(s, code), n)).sent = s.header
         /\ Finish(WriteError(WriteHeader(s, code), n)).file = s.file
<1> DEFINE c == WriteHeader(s, code)
           e == WriteError(c, n)
<1>1. 200 \in Codes /\ code # 0
  BY DEF Codes
<1>2. c \in Responses /\ c.status = code /\ c.sent = s.header /\ c.file = s.file
  BY CommitType, CommitEffect
<1> HIDE DEF c
<1>3. WriteHeader(c, 200) = c
  BY <1>1, <1>2, CommitEffect
<1>4. e \in Responses /\ e.status = c.status /\ e.sent = c.sent /\ e.file = c.file
  <2>1. e \in Responses
    BY <1>2, WriteType
  <2>2. e.status = WriteHeader(c, 200).status /\ e.sent = WriteHeader(c, 200).sent /\ e.file = c.file
    BY <1>2, WriteEffect
  <2> QED
    BY <1>3, <2>1, <2>2
<1> HIDE DEF e
<1>5. Finish(c) = c /\ Finish(e) = e
  BY <1>1, <1>2, <1>4, FinishEffect
<1> QED
  BY <1>2, <1>4, <1>5 DEF c, e

LEMMA UncachedEffect ==
  ASSUME NEW w \in Responses, w.status = 0, NEW policy \in CachePolicies
  PROVE  /\ SetCacheControl(w, policy) \in Responses
         /\ SetCacheControl(w, policy).status = 0
         /\ SetCacheControl(w, policy).header.cache = policy
         /\ SetCacheControl(w, policy).file = w.file
BY DEF SetCacheControl, Responses, Headers

LEMMA ErrorEffect ==
  ASSUME NEW w \in Responses, w.status = 0, NEW err
  PROVE  /\ Finish(HandleError(w, err)).status \in {401, 403, 404, 500}
         /\ Finish(HandleError(w, err)).sent.cache = "no-cache"
         /\ Finish(HandleError(w, err)).file = w.file
<1>1. ErrorStatus(err) \in {401, 403, 404, 500} /\ ErrorStatus(err) \in Codes
  BY DEF ErrorStatus, Codes
<1>2. SUFFICES ASSUME NEW s \in Responses, s.status = 0, s.header.cache = "no-cache",
                      s.file = w.file,
                      HandleError(w, err) = WriteError(WriteHeader(s, ErrorStatus(err)), ErrorLength)
               PROVE  /\ Finish(HandleError(w, err)).status = ErrorStatus(err)
                      /\ Finish(HandleError(w, err)).sent = s.header
                      /\ Finish(HandleError(w, err)).file = s.file
  BY <1>1, UncachedEffect DEF HandleError, CachePolicies
<1>3. QED
  BY <1>1, <1>2, AnswerEffect, FileDownloadAssumption

LEMMA StatusEffect ==
  ASSUME NEW w \in Responses, w.status = 0
  PROVE  /\ Finish(SetStatusMovedPermanently(w)).status = 301
         /\ Finish(SetStatusMovedPermanently(w)).sent.cache = "max-age"
         /\ Finish(SetStatusMovedPermanently(w)).file = w.file
         /\ Finish(SetStatusNotFound(w)).status = 404
         /\ Finish(SetStatusNotFound(w)).sent.cache = "no-cache"
         /\ Finish(SetStatusNotFound(w)).file = w.file
<1>1. 301 \in Codes /\ 404 \in Codes /\ "max-age" \in CachePolicies /\ "no-cache" \in CachePolicies
  BY DEF Codes, CachePolicies
<1>2. \A policy \in CachePolicies, code \in Codes :
        LET f == Finish(WriteHeader(SetCacheControl(w, policy), code))
        IN  f.status = code /\ f.sent.cache = policy /\ f.file = w.file
  <2> TAKE policy \in CachePolicies, code \in Codes
  <2> QED
    BY AnswerEffect, UncachedEffect
<1> QED
  BY <1>1, <1>2 DEF SetStatusMovedPermanently, SetStatusNotFound

\* A copy that fails: the 500 goes out only if nothing has.
LEMMA FailedCopyEffect ==
  ASSUME NEW w \in Responses
  PROVE  LET f == Finish(SetStatusInternalServerError(w))
         IN  /\ f.file = w.file
             /\ w.status = 0 => f.status = 500 /\ f.sent.cache = "no-cache"
             /\ w.status # 0 => f.status = w.status /\ f.sent = w.sent /\ f.error = w.error
<1> DEFINE s == SetCacheControl(w, "no-cache")
           c == WriteHeader(s, 500)
<1>1. 500 \in Codes /\ "no-cache" \in CachePolicies
  BY DEF Codes, CachePolicies
<1>2. /\ s \in Responses /\ s.status = w.status /\ s.sent = w.sent /\ s.header.cache = "no-cache"
      /\ s.file = w.file /\ s.error = w.error
  BY <1>1 DEF SetCacheControl, Responses, Headers
<1> HIDE DEF s
<1>3. /\ c \in Responses /\ c.status # 0 /\ c.file = s.file /\ c.error = s.error
      /\ s.status = 0 => c.status = 500 /\ c.sent = s.header
      /\ s.status # 0 => c = s
  BY <1>1, <1>2, CommitType, CommitEffect
<1> HIDE DEF c
<1>4. Finish(c) = c
  BY <1>3, FinishEffect
<1> QED
  BY <1>2, <1>3, <1>4 DEF SetStatusInternalServerError, s, c

-----------------------------------------------------------------------------
(* Whatever a request does, its response comes out of the step in one of     *)
(* four ways.                                                                *)

LEMMA PendingError ==
  ASSUME NEW w \in Responses, Pending(w), NEW err
  PROVE  Refused(Finish(HandleError(w, err)))
BY ErrorEffect DEF Pending, Untouched, Refused

LEMMA PendingStatus ==
  ASSUME NEW w \in Responses, Pending(w)
  PROVE  /\ Redirected(Finish(SetStatusMovedPermanently(w)))
         /\ Refused(Finish(SetStatusNotFound(w)))
         /\ Refused(Finish(SetStatusInternalServerError(w)))
         /\ Sent(Finish(w))
         /\ \A n \in Nat : Pending(SetContentHeaders(w, n))
<1>1. /\ Redirected(Finish(SetStatusMovedPermanently(w)))
      /\ Refused(Finish(SetStatusNotFound(w)))
      /\ Refused(Finish(SetStatusInternalServerError(w)))
  BY StatusEffect, FailedCopyEffect DEF Pending, Untouched, Refused, Redirected
<1>2. Sent(Finish(w))
  <2>1. 200 \in Codes
    BY DEF Codes
  <2> QED
    BY <2>1, CommitEffect DEF Finish, Pending, Untouched, Sent
<1>3. \A n \in Nat : Pending(SetContentHeaders(w, n))
  BY DEF Pending, Untouched, SetContentHeaders, SetContentLength, Responses, Headers
<1> QED
  BY <1>1, <1>2, <1>3

\* Part of the file goes out.
LEMMA WriteSends ==
  ASSUME NEW w \in Responses, Pending(w) \/ Sent(w), NEW n \in Nat
  PROVE  Sent(WriteFile(w, n)) /\ Sent(BreakConnection(w)) /\ Sent(Finish(w))
<1>1. Sent(WriteHeader(w, 200))
  <2>1. 200 \in Codes
    BY DEF Codes
  <2> QED
    BY <2>1, CommitEffect DEF Pending, Untouched, Sent
<1>2. WriteHeader(w, 200).error = w.error /\ w.error = 0
  BY CommitEffect DEF Pending, Untouched, Sent, Codes
<1> QED
  BY <1>1, <1>2, WriteEffect, BreakEffect DEF Sent, Finish

LEMMA SentStays ==
  ASSUME NEW w \in Responses, Sent(w)
  PROVE  Sent(Finish(SetStatusInternalServerError(w)))
BY FailedCopyEffect DEF Sent

LEMMA HandleResponds ==
  ASSUME TypeOK, NEW r \in Requests, RespondsInOrder(r), Handle(r)
  PROVE  RespondsInOrder(r)'
<1> DEFINE w == resp[r]
<1>0. w \in Responses /\ catalogue[PathOf(r)].size \in Nat /\ catalogue[PathOf(r)].length \in Nat
  BY ClientType
<1>a. ASSUME Refused(resp'[r]) \/ Sent(resp'[r]), pc'[r] = "done" PROVE RespondsInOrder(r)'
  BY <1>a DEF RespondsInOrder, Refused, Sent, Redirected
<1>b. ASSUME Pending(resp'[r]), pc'[r] # "fetch", pc'[r] # "done" PROVE RespondsInOrder(r)'
  BY <1>b DEF RespondsInOrder, Pending, Untouched, Redirected
<1>1. CASE FetchMetadata(r)
  <2> DEFINE o == Opened(w)
  <2>1. o \in Responses /\ Pending(o)
    <3>1. o \in Responses
      BY <1>0, StatusType
    <3>2. pc[r] = "fetch"
      BY <1>1 DEF FetchMetadata
    <3> QED
      BY <1>0, <3>1, <3>2 DEF Opened, SetCacheControl, RespondsInOrder, Pending, Untouched, Default, Responses, Headers
  <2> HIDE DEF o
  <2>2. CASE Continue(r, IF IsPublishing THEN "authenticate" ELSE "check", o)
    BY <1>b, <2>1, <2>2, ContinueEffect
  <2>3. ASSUME NEW err, Return(r, HandleError(o, err)) PROVE RespondsInOrder(r)'
    BY <1>a, <2>1, <2>3, ReturnEffect, PendingError
  <2> QED
    BY <1>1, <2>2, <2>3 DEF FetchMetadata, o
<1>2. CASE GetAuthEntityData(r) \/ CheckUserPermission(r) \/ RecordFileEvent(r)
  <2>1. Pending(w)
    BY <1>2 DEF GetAuthEntityData, CheckUserPermission, RecordFileEvent, RespondsInOrder
  <2>2. ASSUME NEW step \in {"authorise", "record", "check"}, Continue(r, step, w)
        PROVE  RespondsInOrder(r)'
    BY <1>b, <2>1, <2>2, ContinueEffect
  <2>3. ASSUME NEW err, Return(r, HandleError(w, err)) PROVE RespondsInOrder(r)'
    BY <1>0, <1>a, <2>1, <2>3, ReturnEffect, PendingError
  <2> QED
    BY <1>2, <2>2, <2>3 DEF GetAuthEntityData, CheckUserPermission, RecordFileEvent
<1>3. CASE HandleUnsupportedMetadataStates(r)
  <2>1. Pending(w) /\ meta' = meta
    BY <1>3 DEF HandleUnsupportedMetadataStates, RespondsInOrder
  <2>2. CASE Moved(meta[r]) /\ Return(r, SetStatusMovedPermanently(w))
    <3>1. Redirected(resp'[r]) /\ pc'[r] = "done"
      BY <1>0, <2>1, <2>2, ReturnEffect, PendingStatus
    <3> QED
      BY <2>1, <2>2, <3>1 DEF RespondsInOrder, Moved
  <2>3. CASE Return(r, SetStatusNotFound(w))
    BY <1>0, <1>a, <2>1, <2>3, ReturnEffect, PendingStatus
  <2>4. CASE Continue(r, "open", w)
    BY <1>b, <2>1, <2>4, ContinueEffect
  <2> QED
    BY <1>3, <2>2, <2>3, <2>4 DEF HandleUnsupportedMetadataStates
<1>4. CASE DownloadFileFromBucket(r)
  <2> DEFINE h == SetContentHeaders(w, catalogue[PathOf(r)].size)
  <2>1. h \in Responses /\ Pending(h)
    <3>1. Pending(w)
      BY <1>4 DEF DownloadFileFromBucket, RespondsInOrder
    <3> QED
      BY <1>0, <3>1, StatusType, PendingStatus
  <2> HIDE DEF h
  <2>2. CASE Continue(r, "copy", h)
    BY <1>b, <2>1, <2>2, ContinueEffect
  <2>3. CASE Return(r, HandleError(h, "other"))
    BY <1>a, <2>1, <2>3, ReturnEffect, PendingError
  <2> QED
    BY <1>4, <2>2, <2>3 DEF DownloadFileFromBucket, h
<1>5. CASE WriteFileToResponse(r)
  <2>1. Pending(w) \/ Sent(w)
    BY <1>5 DEF WriteFileToResponse, RespondsInOrder
  <2>2. ASSUME NEW s \in Responses, Pending(s) \/ Sent(s), CopyFailed(r, s)
        PROVE  RespondsInOrder(r)'
    BY <1>a, <2>2, ReturnEffect, PendingStatus, SentStays DEF CopyFailed
  <2>3. CASE CopyChunk(r)
    <3>1. PICK n \in 1 .. Unread(r) :
            \/ Continue(r, "copy", WriteFile(w, n))
            \/ CopyFailed(r, WriteFile(w, n))
      BY <2>3 DEF CopyChunk
    <3>2. n \in Nat
      BY <1>0 DEF Unread, TypeOK
    <3>3. WriteFile(w, n) \in Responses /\ Sent(WriteFile(w, n))
      BY <1>0, <2>1, <3>2, WriteType, WriteSends
    <3>4. CASE Continue(r, "copy", WriteFile(w, n))
      <4>1. Sent(resp'[r]) /\ pc'[r] = "copy"
        BY <3>3, <3>4, ContinueEffect
      <4> QED
        BY <4>1 DEF RespondsInOrder, Sent, Redirected
    <3> QED
      BY <2>2, <3>1, <3>3, <3>4
  <2>4. CASE CopyEnds(r)
    <3>1. Sent(Finish(w))
      BY <1>0, <2>1, WriteSends
    <3> QED
      BY <1>a, <2>4, <3>1, ReturnEffect DEF CopyEnds
  <2>5. CASE ReadFails(r)
    BY <1>0, <2>1, <2>2, <2>5 DEF ReadFails
  <2>6. CASE WriteFails(r)
    <3>1. BreakConnection(w) \in Responses /\ Sent(BreakConnection(w))
      BY <1>0, <2>1, FinishType, WriteSends
    <3> QED
      BY <2>2, <2>6, <3>1 DEF WriteFails
  <2> QED
    BY <1>5, <2>3, <2>4, <2>5, <2>6 DEF WriteFileToResponse
<1> QED
  BY <1>1, <1>2, <1>3, <1>4, <1>5 DEF Handle

-----------------------------------------------------------------------------
(* In publishing, a request has its checks and its event behind it before    *)
(* anything goes out, and before the audit trail names it.                   *)

\* Its checks are done by the step a request has come to.
Accountable(r) == IsAccountable(r) /\ NamesReaders(r)

LEMMA AccountsAfterError ==
  ASSUME TypeOK, NEW r \in Requests, NEW w \in Responses, Pending(w), NEW err,
         Return(r, HandleError(w, err))
  PROVE  IsAccountable(r)'
<1>1. pc'[r] = "done" /\ resp'[r].status \in {401, 403, 404, 500}
  BY ReturnEffect, PendingError DEF Refused
<1> QED
  BY <1>1 DEF IsAccountable, Disclosed

LEMMA HandleAccounts ==
  ASSUME TypeOK, NEW r \in Requests, HasMetadata(r), RespondsInOrder(r), Accountable(r), Handle(r)
  PROVE  Accountable(r)'
<1> DEFINE w == resp[r]
<1>0. w \in Responses /\ client[r].token \in TokenKinds /\ catalogue[PathOf(r)].size \in Nat
  BY ClientType
<1>a. client' = client /\ Permitted(r)' = Permitted(r) /\ PathOf(r)' = PathOf(r)
  BY DEF Handle, FetchMetadata, GetAuthEntityData, CheckUserPermission, RecordFileEvent,
         HandleUnsupportedMetadataStates, DownloadFileFromBucket, WriteFileToResponse,
         environment, Permitted, PathOf
<1>b. ASSUME audit' = audit, IsAccountable(r)' PROVE Accountable(r)'
  BY <1>a, <1>b DEF Accountable, NamesReaders, Named
<1>1. CASE FetchMetadata(r)
  <2> DEFINE o == Opened(w)
  <2>1. audit' = audit
    BY <1>1 DEF FetchMetadata
  <2>2. o \in Responses /\ Pending(o)
    <3>1. o \in Responses
      BY <1>0, StatusType
    <3>2. pc[r] = "fetch"
      BY <1>1 DEF FetchMetadata
    <3> QED
      BY <1>0, <3>1, <3>2 DEF Opened, SetCacheControl, RespondsInOrder, Pending, Untouched, Default, Responses, Headers
  <2> HIDE DEF o
  <2>3. CASE Continue(r, IF IsPublishing THEN "authenticate" ELSE "check", o)
    <3>1. resp'[r].status = 0 /\ (IsPublishing => pc'[r] = "authenticate")
      BY <2>2, <2>3, ContinueEffect DEF Pending, Untouched
    <3> QED
      BY <1>b, <2>1, <3>1 DEF IsAccountable, Disclosed
  <2>4. ASSUME NEW err, Return(r, HandleError(o, err)) PROVE Accountable(r)'
    BY <1>b, <2>1, <2>2, <2>4, AccountsAfterError
  <2> QED
    BY <1>1, <2>3, <2>4 DEF FetchMetadata, o
<1>2. ASSUME NEW err, pc[r] \notin {"fetch", "copy", "done"}, audit' = audit,
             Return(r, HandleError(w, err))
      PROVE  Accountable(r)'
  BY <1>0, <1>b, <1>2, AccountsAfterError DEF RespondsInOrder
<1>3. ASSUME NEW step, pc[r] \notin {"fetch", "copy", "done"}, Continue(r, step, w)
      PROVE  pc'[r] = step /\ ~Disclosed(r)'
  <2>1. pc'[r] = step /\ resp'[r] = w /\ Pending(w)
    BY <1>3, ContinueEffect DEF RespondsInOrder
  <2> QED
    BY <2>1 DEF Pending, Untouched, Disclosed
<1>4. CASE GetAuthEntityData(r)
  <2>1. pc[r] = "authenticate" /\ audit' = audit
    BY <1>4 DEF GetAuthEntityData
  <2>2. CASE AuthError(client[r].token) = "none" /\ Continue(r, "authorise", w)
    <3>1. pc'[r] = "authorise" /\ ~Disclosed(r)'
      BY <1>3, <2>1, <2>2
    <3>2. client'[r].token = "user"
      BY <1>0, <1>a, <2>2 DEF AuthError, TokenKinds
    <3> QED
      BY <1>b, <2>1, <3>1, <3>2 DEF IsAccountable
  <2> QED
    BY <1>2, <1>4, <2>1, <2>2 DEF GetAuthEntityData
<1>5. CASE CheckUserPermission(r)
  <2>1. pc[r] = "authorise" /\ audit' = audit
    BY <1>5 DEF CheckUserPermission
  <2>2. CASE Permitted(r) /\ Continue(r, "record", w)
    <3>1. pc'[r] = "record" /\ ~Disclosed(r)'
      BY <1>3, <2>1, <2>2
    <3>2. IsPublishing => client'[r].token = "user" /\ Permitted(r)'
      BY <1>a, <2>1, <2>2 DEF Accountable, IsAccountable
    <3> QED
      BY <1>b, <2>1, <3>1, <3>2 DEF IsAccountable
  <2> QED
    BY <1>2, <1>5, <2>1, <2>2 DEF CheckUserPermission
<1>6. CASE RecordFileEvent(r)
  <2>1. pc[r] = "record" /\ meta' = meta
    BY <1>6 DEF RecordFileEvent
  <2>2. IsPublishing => client'[r].token = "user" /\ Permitted(r)'
    BY <1>a, <2>1 DEF Accountable, IsAccountable
  <2>3. NamesReaders(r)'
    BY <2>2 DEF NamesReaders
  <2>4. CASE audit' = audit \cup {FileEvent(r)} /\ Continue(r, "check", w)
    <3>1. pc'[r] = "check" /\ ~Disclosed(r)'
      BY <1>3, <2>1, <2>4
    <3>2. FileEvent(r)' \in audit'
      BY <1>a, <2>1, <2>4 DEF FileEvent
    <3> QED
      BY <2>2, <2>3, <3>1, <3>2 DEF Accountable, IsAccountable
  <2>5. CASE Return(r, HandleError(w, "other"))
    BY <1>0, <2>1, <2>3, <2>5, AccountsAfterError DEF Accountable, RespondsInOrder
  <2> QED
    BY <1>6, <2>4, <2>5 DEF RecordFileEvent
<1>7. CASE HandleUnsupportedMetadataStates(r) \/ DownloadFileFromBucket(r) \/ WriteFileToResponse(r)
  <2>1. /\ pc[r] \in {"check", "open", "copy"}
        /\ audit' = audit /\ FileEvent(r)' = FileEvent(r)
    BY <1>7, <1>a DEF HandleUnsupportedMetadataStates, DownloadFileFromBucket, WriteFileToResponse,
           FileEvent
  <2>2. IsPublishing => client'[r].token = "user" /\ Permitted(r)' /\ (FileEvent(r) \in audit)'
    BY <1>a, <2>1 DEF Accountable, IsAccountable
  <2> QED
    BY <1>b, <2>1, <2>2 DEF IsAccountable
<1> QED
  BY <1>1, <1>4, <1>5, <1>6, <1>7 DEF Handle

-----------------------------------------------------------------------------
(* The invariant.                                                            *)

LEMMA HandleHoldsReader ==
  ASSUME TypeOK, NEW r \in Requests, HoldsReader(r), Handle(r)
  PROVE  HoldsReader(r)'
<1>1. ASSUME NEW w, NEW step \in Steps, Return(r, w) \/ (step # "copy" /\ Continue(r, step, w)),
             pc[r] # "copy", reader' = reader
      PROVE  HoldsReader(r)'
  BY <1>1, ContinueEffect, ReturnEffect DEF HoldsReader
<1>2. ASSUME NEW w, Return(r, w), CloseDownloadedFile(r)
      PROVE  HoldsReader(r)'
  BY <1>2, ReturnEffect DEF HoldsReader, CloseDownloadedFile, TypeOK
<1>3. CASE \/ FetchMetadata(r) \/ GetAuthEntityData(r) \/ CheckUserPermission(r)
           \/ RecordFileEvent(r) \/ HandleUnsupportedMetadataStates(r)
  BY <1>1, <1>3 DEF FetchMetadata, GetAuthEntityData, CheckUserPermission, RecordFileEvent,
         HandleUnsupportedMetadataStates, Steps
<1>4. CASE DownloadFileFromBucket(r)
  <2>1. ASSUME NEW w, reader' = [reader EXCEPT ![r] = "open"], Continue(r, "copy", w)
        PROVE  HoldsReader(r)'
    BY <2>1, ContinueEffect DEF HoldsReader, TypeOK
  <2> QED
    BY <1>1, <1>4, <2>1 DEF DownloadFileFromBucket, Steps
<1>5. CASE WriteFileToResponse(r)
  <2>1. ASSUME NEW w, reader' = reader, pc[r] = "copy", Continue(r, "copy", w)
        PROVE  HoldsReader(r)'
    BY <2>1, ContinueEffect DEF HoldsReader
  <2>2. ASSUME NEW w, CopyFailed(r, w) PROVE HoldsReader(r)'
    BY <1>2, <2>2 DEF CopyFailed
  <2>3. CASE CopyChunk(r)
    <3>1. pc[r] = "copy"
      BY <1>5 DEF WriteFileToResponse
    <3> QED
      BY <2>1, <2>2, <2>3, <3>1 DEF CopyChunk
  <2>4. CASE CopyEnds(r)
    BY <1>2, <2>4 DEF CopyEnds
  <2>5. CASE ReadFails(r) \/ WriteFails(r)
    BY <2>2, <2>5 DEF ReadFails, WriteFails
  <2> QED
    BY <1>5, <2>3, <2>4, <2>5 DEF WriteFileToResponse
<1> QED
  BY <1>3, <1>4, <1>5 DEF Handle

LEMMA HandleInOrder ==
  ASSUME TypeOK, NEW r \in Requests, InOrder(r), Handle(r)
  PROVE  InOrder(r)'
BY HandleMetadata, HandleResponds, HandleAccounts, HandleHoldsReader DEF InOrder, Accountable

\* A step that leaves a request its own, and names it in no new event, leaves it in order.
LEMMA StaysInOrder ==
  ASSUME TypeOK, [Next]_vars, NEW q \in Requests, InOrder(q), Own(q)' = Own(q),
         Named(q)' => Named(q)
  PROVE  InOrder(q)'
<1>1. /\ pc'[q] = pc[q] /\ meta'[q] = meta[q] /\ resp'[q] = resp[q] /\ reader'[q] = reader[q]
      /\ client' = client /\ catalogue' = catalogue /\ audit \subseteq audit'
  BY HistoryGrows DEF Own
<1>2. /\ Permitted(q)' = Permitted(q) /\ FileEvent(q)' = FileEvent(q)
      /\ Disclosed(q)' = Disclosed(q)
  BY <1>1 DEF Permitted, PathOf, FileEvent, Disclosed
<1>3. HasMetadata(q)'
  BY KeepsMetadata DEF InOrder
<1>4. RespondsInOrder(q)' /\ HoldsReader(q)'
  BY <1>1 DEF InOrder, RespondsInOrder, HoldsReader
<1>5. IsAccountable(q)' /\ NamesReaders(q)'
  BY <1>1, <1>2 DEF InOrder, IsAccountable, NamesReaders
<1> QED
  BY <1>3, <1>4, <1>5 DEF InOrder

LEMMA OthersStayUnnamed ==
  ASSUME NEW r \in Requests, Handle(r), NEW q \in Requests, q # r
  PROVE  Named(q)' => Named(q)
<1>1. audit' \subseteq audit \cup {FileEvent(r)}
  BY DEF Handle, FetchMetadata, GetAuthEntityData, CheckUserPermission, RecordFileEvent,
         HandleUnsupportedMetadataStates, DownloadFileFromBucket, WriteFileToResponse
<1>2. FileEvent(r).request = r
  BY DEF FileEvent
<1> QED
  BY <1>1, <1>2 DEF Named

LEMMA MovedStaysPublic ==
  ASSUME TypeOK, MovedIsPublic, [Next]_vars
  PROVE  MovedIsPublic'
<1>1. ASSUME NEW p \in Paths, LifeCycle(p) PROVE MovedIsPublic'
  BY <1>1 DEF LifeCycle, Register, CompleteUpload, Publish, Move, RemovePrivateCopy, Enters,
         TypeOK, MovedIsPublic
<1>2. ASSUME NEW r \in Requests, Handle(r) PROVE UNCHANGED <<state, public>>
  BY <1>2 DEF Handle, FetchMetadata, GetAuthEntityData, CheckUserPermission, RecordFileEvent,
         HandleUnsupportedMetadataStates, DownloadFileFromBucket, WriteFileToResponse, environment
<1> QED
  BY <1>1, <1>2 DEF Next, AllAnswered, vars, MovedIsPublic

LEMMA InitOrder == Init => OrderInv
<1> SUFFICES ASSUME Init PROVE OrderInv
  OBVIOUS
<1>1. ASSUME NEW r \in Requests PROVE InOrder(r)
  <2>1. pc[r] = "fetch" /\ resp[r] = NewResponse /\ reader[r] = "none" /\ meta[r] = "none"
    BY DEF Init
  <2>2. RespondsInOrder(r) /\ ~Disclosed(r)
    BY <2>1 DEF RespondsInOrder, Untouched, Redirected, NewResponse, NoHeader, Disclosed
  <2> QED
    BY <2>1, <2>2 DEF Init, InOrder, HasMetadata, IsAccountable, NamesReaders, Named, HoldsReader
<1>2. MovedIsPublic
  BY DEF Init, MovedIsPublic
<1> QED
  BY <1>1, <1>2, InitType DEF OrderInv

LEMMA NextOrder == OrderInv /\ [Next]_vars => OrderInv'
<1> SUFFICES ASSUME OrderInv, [Next]_vars PROVE OrderInv'
  OBVIOUS
<1>0. TypeOK /\ Typed
  BY DEF OrderInv, Typed, InOrder
<1>1. TypeOK' /\ MovedIsPublic'
  BY <1>0, NextTyped, MovedStaysPublic DEF OrderInv, Typed
<1>2. ASSUME NEW q \in Requests PROVE InOrder(q)'
  <2>0. InOrder(q)
    BY DEF OrderInv
  <2>1. ASSUME NEW p \in Paths, LifeCycle(p) PROVE InOrder(q)'
    BY <1>0, <2>0, <2>1, LifeCycleKeepsRequests, StaysInOrder DEF Named
  <2>2. ASSUME NEW r \in Requests, Handle(r) PROVE InOrder(q)'
    BY <1>0, <2>0, <2>2, HandleInOrder, OthersKeepTheirOwn, OthersStayUnnamed, StaysInOrder
  <2>3. CASE UNCHANGED vars
    BY <1>0, <2>0, <2>3, StaysInOrder DEF vars, Own, Named
  <2> QED
    BY <2>1, <2>2, <2>3 DEF Next, AllAnswered
<1> QED
  BY <1>1, <1>2 DEF OrderInv

\* The first part of the inductive invariant: at each step of a request, its checks, its event and its
\* response are where the code has brought them, whatever the others do.
THEOREM OrderInvariance == Spec => []OrderInv
BY InitOrder, NextOrder, PTL DEF Spec

-----------------------------------------------------------------------------
(* What follows from it.                                                     *)

\* In publishing, no file and no redirect goes out without its event.
THEOREM AuditIsComplete == Spec => []DisclosureIsAudited
<1>1. OrderInv => DisclosureIsAudited
  BY DEF OrderInv, InOrder, IsAccountable, DisclosureIsAudited
<1> QED
  BY <1>1, OrderInvariance, PTL

\* In publishing, only a user with a permission for the edition gets an answer that
\* discloses a file, or is named in the audit trail.
THEOREM OnlyReadersAreServed == Spec => []DisclosureIsPermitted
<1>1. OrderInv => DisclosureIsPermitted
  BY DEF OrderInv, InOrder, IsAccountable, NamesReaders, Named, DisclosureIsPermitted
<1> QED
  BY <1>1, OrderInvariance, PTL

\* An answered or a running request has one of the four kinds of response.
LEMMA ResponseKinds ==
  ASSUME OrderInv, NEW r \in Requests
  PROVE  \/ resp[r].status = 0 /\ resp[r].file = 0 /\ resp[r].error = 0
         \/ Refused(resp[r])
         \/ Redirected(resp[r]) /\ meta[r] = "MOVED"
         \/ Sent(resp[r])
<1>1. pc[r] \in Steps /\ RespondsInOrder(r)
  BY DEF OrderInv, InOrder, TypeOK
<1> QED
  BY <1>1 DEF Steps, RespondsInOrder, Pending, Untouched

\* An answer holds the file or an error document, never both, and says which.
THEOREM BodiesMatchStatuses == Spec => []BodyMatchesStatus
<1>1. OrderInv => BodyMatchesStatus
  BY ResponseKinds DEF BodyMatchesStatus, Refused, Redirected, Sent
<1> QED
  BY <1>1, OrderInvariance, PTL

\* A redirect that is cached for a year leads to a file that is public for good; in
\* publishing nothing else may be cached.
THEOREM CacheIsSound == Spec => []CachedAnswerIsFinal
<1>1. OrderInv => CachedAnswerIsFinal
  <2> SUFFICES ASSUME OrderInv, NEW r \in Requests, resp[r].status # 0
               PROVE  /\ resp[r].sent.cache = "max-age" => state[PathOf(r)] = "MOVED" /\ PathOf(r) \in public
                      /\ resp[r].sent.cache = "unset" => ~IsPublishing /\ resp[r].status = 200
    BY DEF CachedAnswerIsFinal
  <2>1. PathOf(r) \in Paths /\ HasMetadata(r) /\ MovedIsPublic
    BY ClientType DEF OrderInv, InOrder
  <2> QED
    BY <2>1, ResponseKinds DEF HasMetadata, MovedIsPublic, Refused, Redirected, Sent, Default
<1> QED
  BY <1>1, OrderInvariance, PTL

\* An S3 body is open while it is copied, and only then.
THEOREM ReadersAreClosed == Spec => []ReaderIsClosed
<1>1. OrderInv => ReaderIsClosed
  BY DEF OrderInv, InOrder, HoldsReader, ReaderIsClosed
<1> QED
  BY <1>1, OrderInvariance, PTL
=============================================================================
