------------------------ MODULE StoreDownload_proofs ------------------------
(***************************************************************************)
(* Proofs about StoreDownload, for every set of requests, items and sizes, *)
(* in both environments.                                                   *)
(***************************************************************************)
EXTENDS StoreDownload, HttpResponse_proofs

-----------------------------------------------------------------------------
(* Type correctness.                                                         *)

LEMMA ErrorType ==
  ASSUME NEW w \in Responses, NEW status \in Codes
  PROVE  HttpError(w, status) \in Responses
BY CommitType, WriteType, StoreDownloadAssumption DEF HttpError

LEMMA ContinueType ==
  ASSUME TypeOK, NEW r \in Requests, NEW w \in Responses, NEW step \in Steps,
         Continue(r, step, w) \/ Return(r, w)
  PROVE  pc' \in [Requests -> Steps] /\ resp' \in [Requests -> Responses]
<1>1. Finish(w) \in Responses
  BY FinishType
<1> QED
  BY <1>1 DEF Continue, Return, TypeOK, Steps

LEMMA FailType ==
  ASSUME TypeOK, NEW r \in Requests, NEW d \in Dependencies, Fail(r, d)
  PROVE  faults' \in [Requests -> SUBSET Dependencies]
BY DEF Fail, TypeOK, Dependencies

\* What a request asks for.
LEMMA ClientType ==
  ASSUME TypeOK, NEW r \in Requests
  PROVE  /\ ItemOf(r) \in Items
         /\ client[r] \in Clients
         /\ catalogue[ItemOf(r)].length \in Nat
         /\ resp[r] \in Responses /\ read[r] \in Nat
BY StoreDownloadAssumption DEF TypeOK, ItemOf, Clients

LEMMA NewResponseType == NewResponse \in Responses
BY DEF NewResponse, NoHeader, Responses, Headers, CachePolicies, Undeclared

LEMMA InitType == Init => TypeOK
BY NewResponseType DEF Init, TypeOK, Steps, Links

LEMMA LifeCycleType ==
  ASSUME TypeOK, NEW i \in Items, LifeCycle(i)
  PROVE  TypeOK'
<1>1. link' \in [Items -> Links]
  BY DEF TypeOK, LifeCycle, Store, Publish, Release, Links
<1>2. published' \subseteq Items /\ public' \subseteq Items /\ stored' \subseteq Items
  BY DEF TypeOK, LifeCycle, Store, Publish, Release
<1> QED
  BY <1>1, <1>2 DEF TypeOK, LifeCycle

LEMMA HandleType ==
  ASSUME TypeOK, NEW r \in Requests, Handle(r)
  PROVE  TypeOK'
<1>0. /\ resp[r] \in Responses /\ read[r] \in Nat
      /\ catalogue[ItemOf(r)].length \in Nat
  BY ClientType
<1>1. /\ \A status \in Codes : WriteHeader(resp[r], status) \in Responses
      /\ \A status \in Codes : HttpError(resp[r], status) \in Responses
      /\ Redirect(resp[r]) \in Responses
  BY <1>0, CommitType, ErrorType DEF Redirect, Codes
<1>2. /\ StreamFailed(resp[r]) \in Responses
      /\ StreamFailed(BreakConnection(resp[r])) \in Responses
  BY <1>0, FinishType, ErrorType DEF StreamFailed, Codes
<1>3. CASE Require(r)
  <2>1. pc' \in [Requests -> Steps] /\ resp' \in [Requests -> Responses]
    BY <1>0, <1>1, <1>3, ContinueType DEF Require, RequireFails, Steps, Codes
  <2>2. faults' \in [Requests -> SUBSET Dependencies]
    BY <1>3, FailType DEF Require, RequireFails, TypeOK, Dependencies
  <2> QED
    BY <1>3, <2>1, <2>2 DEF Require, TypeOK, environment
<1>4. CASE Lookup(r)
  <2>1. pc' \in [Requests -> Steps] /\ resp' \in [Requests -> Responses]
    BY <1>0, <1>1, <1>4, ContinueType DEF Lookup, LookupFails, Steps, Codes
  <2>2. faults' \in [Requests -> SUBSET Dependencies]
    BY <1>4, FailType DEF Lookup, LookupFails, TypeOK, Dependencies
  <2> QED
    BY <1>4, <2>1, <2>2 DEF Lookup, TypeOK, environment
<1>5. CASE OpenStream(r)
  <2>1. pc' \in [Requests -> Steps] /\ resp' \in [Requests -> Responses]
    BY <1>0, <1>2, <1>5, ContinueType DEF OpenStream, Steps
  <2>2. faults' \in [Requests -> SUBSET Dependencies]
    BY <1>5, FailType DEF OpenStream, TypeOK, Dependencies
  <2>3. reader' \in [Requests -> {"none", "open", "closed"}]
    BY <1>5 DEF OpenStream, TypeOK
  <2> QED
    BY <1>5, <2>1, <2>2, <2>3 DEF OpenStream, TypeOK, environment
<1>6. CASE StreamAndWrite(r)
  <2>1. CASE CopyChunk(r)
    <3>1. PICK n \in 1 .. Unread(r) :
            /\ read' = [read EXCEPT ![r] = @ + n]
            /\ Continue(r, "copy", WriteFile(resp[r], n))
            /\ UNCHANGED <<reader, faults>>
      BY <2>1 DEF CopyChunk
    <3>2. n \in Nat
      BY <1>0, <3>1 DEF Unread
    <3>3. pc' \in [Requests -> Steps] /\ resp' \in [Requests -> Responses]
      BY <1>0, <3>1, <3>2, WriteType, ContinueType DEF Steps
    <3>4. read' \in [Requests -> Nat]
      BY <1>0, <3>1, <3>2 DEF TypeOK
    <3> QED
      BY <1>6, <3>1, <3>3, <3>4 DEF StreamAndWrite, TypeOK, environment
  <2>2. CASE CopyEnds(r) \/ ReadFails(r) \/ WriteFails(r)
    <3>1. pc' \in [Requests -> Steps] /\ resp' \in [Requests -> Responses]
      BY <1>0, <1>2, <2>2, ContinueType DEF CopyEnds, ReadFails, WriteFails, Steps
    <3>2. faults' \in [Requests -> SUBSET Dependencies]
      BY <2>2, FailType DEF CopyEnds, ReadFails, WriteFails, TypeOK, Dependencies
    <3>3. reader' \in [Requests -> {"none", "open", "closed"}]
      BY <2>2 DEF CopyEnds, ReadFails, WriteFails, CloseStream, TypeOK
    <3>4. read' = read
      BY <2>2 DEF CopyEnds, ReadFails, WriteFails
    <3> QED
      BY <1>6, <3>1, <3>2, <3>3, <3>4 DEF StreamAndWrite, TypeOK, environment
  <2> QED
    BY <1>6, <2>1, <2>2 DEF StreamAndWrite
<1> QED
  BY <1>3, <1>4, <1>5, <1>6 DEF Handle

\* Every variable of StoreDownload keeps its type, whatever fails.
THEOREM TypeCorrectness == Spec => []TypeOK
<1>1. TypeOK /\ [Next]_vars => TypeOK'
  <2> SUFFICES ASSUME TypeOK, [Next]_vars PROVE TypeOK'
    OBVIOUS
  <2>1. CASE Next
    BY <2>1, LifeCycleType, HandleType DEF Next, AllAnswered, vars, TypeOK
  <2>2. CASE UNCHANGED vars
    BY <2>2 DEF vars, TypeOK
  <2> QED
    BY <2>1, <2>2
<1> QED
  BY <1>1, InitType, PTL DEF Spec

-----------------------------------------------------------------------------
(* The inductive invariant.                                                  *)

LEMMA InitInv == Init => Inv
BY DEF Init, Inv, LinkedWhenStored, InOrder, Pending, Permitted

\* Items only gain: a link stays, what is published or public stays so.
LEMMA ItemsGrow ==
  ASSUME TypeOK, LinkedWhenStored, NEW i \in Items, LifeCycle(i)
  PROVE  /\ published \subseteq published' /\ public \subseteq public'
         /\ \A j \in Items : BadLink(j) => BadLink(j)'
         /\ LinkedWhenStored'
<1>1. CASE Store(i)
  <2>1. link[i] = "none"
    BY <1>1 DEF Store, LinkedWhenStored
  <2>2. PICK l \in {"usable", "unreadable"} : link' = [link EXCEPT ![i] = l]
    BY <1>1 DEF Store
  <2>3. \A j \in Items : j # i => link'[j] = link[j]
    BY <2>2 DEF TypeOK
  <2> QED
    BY <1>1, <2>1, <2>3 DEF Store, LifeCycle, LinkedWhenStored, BadLink
<1>2. CASE Publish(i) \/ Release(i)
  BY <1>2 DEF Publish, Release, LifeCycle, LinkedWhenStored, BadLink
<1> QED
  BY <1>1, <1>2 DEF LifeCycle

\* What holds of a request goes on holding while it does nothing.
LEMMA StaysInOrder ==
  ASSUME TypeOK, NEW r \in Requests, InOrder(r),
         published \subseteq published', public \subseteq public',
         \A j \in Items : BadLink(j) => BadLink(j)',
         UNCHANGED <<isPublishing, catalogue, client>>,
         pc'[r] = pc[r], resp'[r] = resp[r], read'[r] = read[r],
         reader'[r] = reader[r], faults'[r] = faults[r]
  PROVE  InOrder(r)'
<1>1. ItemOf(r) \in Items /\ ItemOf(r)' = ItemOf(r)
  BY ClientType DEF ItemOf
<1>2. /\ Pending(r) => Pending(r)'
      /\ Permitted(r) => Permitted(r)'
      /\ Entitled(r) => Entitled(r)'
  BY <1>1 DEF Pending, Permitted, Entitled, Authenticate
<1>3. /\ Streaming(r) => Streaming(r)'
      /\ Refused(r) => Refused(r)'
      /\ Redirected(r) => Redirected(r)'
      /\ Streamed(r) => Streamed(r)'
  BY <1>1, <1>2 DEF Streaming, Refused, Redirected, Streamed
<1> QED
  BY <1>2, <1>3 DEF InOrder

\* A request that moves leaves the items and the other requests alone.
LEMMA OthersAreLeftAlone ==
  ASSUME TypeOK, NEW r \in Requests, Handle(r), NEW q \in Requests, q # r
  PROVE  /\ UNCHANGED environment
         /\ pc'[q] = pc[q] /\ resp'[q] = resp[q] /\ read'[q] = read[q]
         /\ reader'[q] = reader[q] /\ faults'[q] = faults[q]
<1>1. CASE Require(r)
  BY <1>1 DEF Require, RequireFails, Return, Continue, Fail, TypeOK
<1>2. CASE Lookup(r)
  BY <1>2 DEF Lookup, LookupFails, Return, Continue, Fail, TypeOK
<1>3. CASE OpenStream(r)
  BY <1>3 DEF OpenStream, Return, Continue, Fail, TypeOK
<1>4. CASE StreamAndWrite(r)
  BY <1>4 DEF StreamAndWrite, CopyChunk, CopyEnds, ReadFails, WriteFails, CloseStream,
              Return, Continue, Fail, TypeOK
<1> QED
  BY <1>1, <1>2, <1>3, <1>4 DEF Handle

\* The answer of a request that has not answered: a status, and no part of a file.
LEMMA AnswerEffect ==
  ASSUME NEW status \in Codes, NEW w \in {WriteHeader(NewResponse, status), HttpError(NewResponse, status)}
  PROVE  Finish(w).status = status /\ Finish(w).file = 0
<1> DEFINE c == WriteHeader(NewResponse, status)
<1>1. /\ NewResponse \in Responses /\ NewResponse.status = 0 /\ NewResponse.file = 0
  BY NewResponseType DEF NewResponse
<1>2. c \in Responses /\ c.status = status /\ c.file = 0
  BY <1>1, CommitType, CommitEffect
<1>3. \A v \in Responses : v.status # 0 => WriteHeader(v, 200) = v
  BY CommitEffect DEF Codes
<1>4. status # 0
  BY DEF Codes
<1>5. /\ WriteError(c, ErrorLength) \in Responses
      /\ WriteError(c, ErrorLength).status = status
      /\ WriteError(c, ErrorLength).file = 0
  <2>1. ErrorLength \in Nat
    BY StoreDownloadAssumption
  <2>2. WriteHeader(c, 200) = c
    BY <1>2, <1>3, <1>4
  <2>3. /\ WriteError(c, ErrorLength).status = WriteHeader(c, 200).status
        /\ WriteError(c, ErrorLength).file = c.file
    <3> HIDE DEF c
    <3> QED
      BY <1>2, <2>1, WriteEffect, Zenon
  <2>4. WriteError(c, ErrorLength) \in Responses
    <3> HIDE DEF c
    <3> QED
      BY <1>2, <2>1, WriteType, Zenon
  <2> QED
    BY <1>2, <2>2, <2>3, <2>4
<1> HIDE DEF c
<1>6. HttpError(NewResponse, status) = WriteError(c, ErrorLength)
  BY DEF HttpError, c
<1>7. w \in Responses /\ w.status = status /\ w.file = 0
  BY <1>2, <1>5, <1>6 DEF c
<1> QED
  BY <1>3, <1>4, <1>7 DEF Finish

\* The answer of a request under way, if it has not declared a length: a chunk
\* is added to the file, an error leaves the status and the file alone.
LEMMA StreamEffect ==
  ASSUME NEW w \in Responses, w.status \in {0, 200}, w.conn = "up",
         w.header = NoHeader, w.sent = NoHeader, NEW n \in Nat
  PROVE  LET c == WriteFile(w, n)
         IN  /\ c.status = 200 /\ c.conn = "up"
             /\ c.header = NoHeader /\ c.sent = NoHeader
             /\ c.file = w.file + n /\ c.error = w.error
<1> DEFINE h == WriteHeader(w, 200)
<1>1. /\ h.status = 200 /\ h.sent = NoHeader /\ h.header = NoHeader
      /\ h.conn = "up" /\ h.file = w.file /\ h.error = w.error
      /\ h \in Responses
  <2>1. h \in Responses
    BY CommitType DEF Codes
  <2>2. /\ h.status = 200 /\ h.sent = NoHeader /\ h.header = NoHeader
        /\ h.file = w.file /\ h.error = w.error
    BY CommitEffect DEF Codes
  <2>3. h.conn = "up"
    BY DEF WriteHeader, Responses
  <2> QED
    BY <2>1, <2>2, <2>3
<1>2. ~Refuses(w, n)
  BY <1>1 DEF Refuses, NoHeader
<1> HIDE DEF h
<1>3. WriteFile(w, n) = [Count(h, n) EXCEPT !.file = w.file + n]
  BY <1>2 DEF WriteFile, h
<1> QED
  BY <1>1, <1>3 DEF Count, Responses

\* An error leaves the status and the file of a committed response alone.
LEMMA ErrorEffect ==
  ASSUME NEW v \in Responses
  PROVE  /\ Finish(StreamFailed(v)).status = IF v.status = 0 THEN 500 ELSE v.status
         /\ Finish(StreamFailed(v)).file = v.file
<1> DEFINE h == WriteHeader(v, 500)
           e == WriteError(h, ErrorLength)
<1>1. ErrorLength \in Nat /\ 500 \in Codes /\ 200 \in Codes
  BY StoreDownloadAssumption DEF Codes
<1>2. /\ h \in Responses /\ h.file = v.file
      /\ h.status = IF v.status = 0 THEN 500 ELSE v.status
      /\ h.status # 0
  BY <1>1, CommitType, CommitEffect
<1>3. \A u \in Responses : u.status # 0 => WriteHeader(u, 200) = u
  BY <1>1, CommitEffect
<1> HIDE DEF h
<1>4. e \in Responses
  BY <1>1, <1>2, WriteType, Zenon
<1>5. e.status = WriteHeader(h, 200).status
  BY <1>1, <1>2, WriteEffect, Zenon
<1>6. e.file = h.file
  BY <1>1, <1>2, WriteEffect, Zenon
<1>7. WriteHeader(h, 200) = h /\ WriteHeader(e, 200) = e
  BY <1>2, <1>3, <1>4, <1>5
<1>8. Finish(StreamFailed(v)) = e
  BY <1>7 DEF Finish, StreamFailed, HttpError, h
<1> QED
  BY <1>2, <1>5, <1>6, <1>7, <1>8

LEMMA StreamFailedEffect ==
  ASSUME NEW w \in Responses, w.status \in {0, 200}
  PROVE  LET c == Finish(StreamFailed(w))
             b == Finish(StreamFailed(BreakConnection(w)))
         IN  /\ w.status = 200 => c.status = 200
             /\ w.status = 0 => c.status = 500
             /\ c.file = w.file
             /\ b.status = 200 /\ b.file = w.file
<1>1. /\ BreakConnection(w) \in Responses
      /\ BreakConnection(w).status = WriteHeader(w, 200).status
      /\ BreakConnection(w).file = w.file
  BY FinishType, BreakEffect, Zenon
<1>2. WriteHeader(w, 200).status = 200
  BY CommitEffect DEF Codes
<1> QED
  BY <1>1, <1>2, ErrorEffect

LEMMA RequireInOrder ==
  ASSUME TypeOK, NEW r \in Requests, InOrder(r), Require(r)
  PROVE  InOrder(r)'
<1>1. Pending(r) /\ isPublishing /\ UNCHANGED <<environment, read, reader>>
  BY DEF InOrder, Require
<1>2. CASE client[r].permitted /\ Continue(r, "lookup", resp[r]) /\ UNCHANGED faults
  <2>1. pc'[r] = "lookup" /\ resp'[r] = resp[r]
    BY <1>2 DEF Continue, TypeOK
  <2> QED
    BY <1>1, <1>2, <2>1 DEF InOrder, Pending, Permitted, environment
<1>3. CASE \E status \in {401, 403} :
             Return(r, WriteHeader(resp[r], status)) /\ UNCHANGED faults
  <2>1. PICK status \in {401, 403} :
          Return(r, WriteHeader(resp[r], status)) /\ UNCHANGED faults
    BY <1>3
  <2>2. pc'[r] = "done" /\ resp'[r] = Finish(WriteHeader(NewResponse, status))
    BY <1>1, <2>1 DEF Return, Continue, TypeOK, Pending
  <2>3. resp'[r].status = status /\ resp'[r].file = 0
    BY <2>2, AnswerEffect DEF Codes
  <2> QED
    BY <1>1, <2>2, <2>3 DEF InOrder, Pending, Refused
<1>4. CASE RequireFails(r)
  <2>1. pc'[r] = "done" /\ resp'[r] = Finish(WriteHeader(NewResponse, 500))
    BY <1>1, <1>4 DEF RequireFails, Return, Continue, TypeOK, Pending
  <2>2. resp'[r].status = 500 /\ resp'[r].file = 0
    BY <2>1, AnswerEffect DEF Codes
  <2>3. "permissions" \in faults'[r]
    BY <1>4 DEF RequireFails, Fail, TypeOK
  <2> QED
    BY <1>1, <2>1, <2>2, <2>3 DEF InOrder, Pending, Refused
<1> QED
  BY <1>2, <1>3, <1>4 DEF Require

LEMMA LookupInOrder ==
  ASSUME TypeOK, NEW r \in Requests, InOrder(r), Lookup(r)
  PROVE  InOrder(r)'
<1> DEFINE i == ItemOf(r)
<1>1. /\ Pending(r) /\ Permitted(r) /\ UNCHANGED <<environment, read, reader>>
      /\ i' = i
  BY DEF InOrder, Lookup, environment, ItemOf
<1>2. ASSUME NEW status \in Codes, Return(r, HttpError(resp[r], status))
      PROVE  pc'[r] = "done" /\ resp'[r].status = status /\ resp'[r].file = 0
  <2>1. pc'[r] = "done" /\ resp'[r] = Finish(HttpError(NewResponse, status))
    BY <1>1, <1>2 DEF Return, Continue, TypeOK, Pending
  <2> QED
    BY <2>1, AnswerEffect
<1>3. CASE LookupFails(r)
  <2>1. PICK status \in {401, 403, 404, 500} :
          Return(r, HttpError(resp[r], status)) /\ Fail(r, "api")
    BY <1>3 DEF LookupFails
  <2>2. pc'[r] = "done" /\ resp'[r].status = status /\ resp'[r].file = 0
    BY <1>2, <2>1 DEF Codes
  <2>3. "api" \in faults'[r]
    BY <2>1 DEF Fail, TypeOK
  <2> QED
    BY <1>1, <2>2, <2>3 DEF InOrder, Pending, Refused
<1>4. CASE /\ PrivateLink(i) = "unreadable"
           /\ Return(r, HttpError(resp[r], 500)) /\ UNCHANGED faults
  <2>1. pc'[r] = "done" /\ resp'[r].status = 500 /\ resp'[r].file = 0
    BY <1>2, <1>4 DEF Codes
  <2>2. BadLink(i)'
    BY <1>1, <1>4 DEF PrivateLink, BadLink, environment
  <2> QED
    BY <1>1, <2>1, <2>2 DEF InOrder, Pending, Refused
<1>5. CASE /\ IsPublicLinkAvailable(i)
           /\ Return(r, Redirect(resp[r])) /\ UNCHANGED faults
  <2>1. pc'[r] = "done" /\ resp'[r] = Finish(WriteHeader(NewResponse, 301))
    BY <1>1, <1>5 DEF Return, Continue, Redirect, TypeOK, Pending
  <2>2. resp'[r].status = 301 /\ resp'[r].file = 0
    BY <2>1, AnswerEffect DEF Codes
  <2>3. Redirected(r)'
    BY <1>1, <1>5, <2>2 DEF Redirected, Permitted, IsPublicLinkAvailable, environment
  <2> QED
    BY <1>1, <2>1, <2>3 DEF InOrder, Pending
<1>6. CASE Entitled(r) /\ Continue(r, "open", resp[r]) /\ UNCHANGED faults
  <2>1. pc'[r] = "open" /\ resp'[r] = resp[r]
    BY <1>6 DEF Continue, TypeOK
  <2>2. Entitled(r)' /\ Permitted(r)' /\ Pending(r)'
    BY <1>1, <1>6, <2>1 DEF Entitled, Authenticate, Permitted, Pending, environment
  <2> QED
    BY <2>1, <2>2 DEF InOrder
<1>7. CASE Return(r, HttpError(resp[r], 404))
  <2>1. pc'[r] = "done" /\ resp'[r].status = 404 /\ resp'[r].file = 0
    BY <1>2, <1>7 DEF Codes
  <2> QED
    BY <1>1, <2>1 DEF InOrder, Pending, Refused
<1> QED
  BY <1>3, <1>4, <1>5, <1>6, <1>7 DEF Lookup

LEMMA OpenStreamInOrder ==
  ASSUME TypeOK, NEW r \in Requests, InOrder(r), OpenStream(r)
  PROVE  InOrder(r)'
<1>1. /\ Pending(r) /\ Permitted(r) /\ Entitled(r)
      /\ UNCHANGED <<environment, read>>
  BY DEF InOrder, OpenStream
<1>2. /\ Permitted(r)' /\ Entitled(r)' /\ ItemOf(r)' = ItemOf(r)
  BY <1>1 DEF Permitted, Entitled, Authenticate, ItemOf, environment
<1>3. CASE /\ reader' = [reader EXCEPT ![r] = "open"]
           /\ Continue(r, "copy", resp[r]) /\ UNCHANGED faults
  <2>1. pc'[r] = "copy" /\ resp'[r] = resp[r] /\ reader'[r] = "open"
    BY <1>3 DEF Continue, TypeOK
  <2>2. 0 <= catalogue[ItemOf(r)].length
    BY ClientType
  <2>3. Streaming(r)'
    BY <1>1, <1>2, <1>3, <2>1, <2>2 DEF Streaming, Pending, NewResponse, environment
  <2> QED
    BY <2>1, <2>3 DEF InOrder
<1>4. CASE Return(r, StreamFailed(resp[r])) /\ Fail(r, "storage") /\ UNCHANGED reader
  <2>1. pc'[r] = "done" /\ resp'[r] = Finish(HttpError(NewResponse, 500))
    BY <1>1, <1>4 DEF Return, Continue, StreamFailed, TypeOK, Pending
  <2>2. resp'[r].status = 500 /\ resp'[r].file = 0
    BY <2>1, AnswerEffect DEF Codes
  <2>3. "storage" \in faults'[r]
    BY <1>4 DEF Fail, TypeOK
  <2> QED
    BY <1>1, <1>4, <2>1, <2>2, <2>3 DEF InOrder, Pending, Refused
<1> QED
  BY <1>3, <1>4 DEF OpenStream

LEMMA StreamAndWriteInOrder ==
  ASSUME TypeOK, NEW r \in Requests, InOrder(r), StreamAndWrite(r)
  PROVE  InOrder(r)'
<1>1. Streaming(r) /\ UNCHANGED environment
  BY DEF InOrder, StreamAndWrite
<1>2. /\ Permitted(r)' = Permitted(r) /\ Entitled(r)' = Entitled(r)
      /\ ItemOf(r)' = ItemOf(r) /\ catalogue' = catalogue
  BY <1>1 DEF Permitted, Entitled, Authenticate, ItemOf, environment
<1>3. resp[r] \in Responses /\ read[r] \in Nat /\ catalogue[ItemOf(r)].length \in Nat
  BY ClientType
<1>4. CASE CopyChunk(r)
  <2>1. PICK n \in 1 .. Unread(r) :
          /\ read' = [read EXCEPT ![r] = @ + n]
          /\ Continue(r, "copy", WriteFile(resp[r], n))
          /\ UNCHANGED <<reader, faults>>
    BY <1>4 DEF CopyChunk
  <2>2. /\ n \in Nat /\ n > 0 /\ read'[r] = read[r] + n
        /\ read[r] + n <= catalogue[ItemOf(r)].length
    BY <1>3, <2>1 DEF Unread, TypeOK
  <2>3. pc'[r] = "copy" /\ resp'[r] = WriteFile(resp[r], n)
    BY <2>1 DEF Continue, TypeOK
  <2>4. /\ resp'[r].status = 200 /\ resp'[r].conn = "up"
        /\ resp'[r].header = NoHeader /\ resp'[r].sent = NoHeader
        /\ resp'[r].file = resp[r].file + n /\ resp'[r].error = resp[r].error
    BY <1>1, <1>3, <2>2, <2>3, StreamEffect DEF Streaming
  <2>5. Streaming(r)'
    BY <1>1, <1>2, <2>1, <2>2, <2>4 DEF Streaming
  <2> QED
    BY <2>3, <2>5 DEF InOrder
<1>5. CASE CopyEnds(r)
  <2>1. pc'[r] = "done" /\ resp'[r] = Finish(resp[r]) /\ reader'[r] = "closed"
    BY <1>5 DEF CopyEnds, Return, Continue, CloseStream, TypeOK
  <2>2. read[r] = catalogue[ItemOf(r)].length
    BY <1>3, <1>5 DEF CopyEnds, Unread
  <2>3. /\ resp'[r].status = 200
        /\ resp'[r].file = resp[r].file /\ resp'[r].error = resp[r].error
    BY <1>1, <1>3, <2>1, CommitEffect DEF Streaming, Finish, Codes
  <2>4. Streamed(r)'
    BY <1>1, <1>2, <1>5, <2>1, <2>2, <2>3 DEF Streaming, Streamed
  <2> QED
    BY <2>1, <2>4 DEF InOrder
<1>6. CASE ReadFails(r)
  <2>1. /\ pc'[r] = "done" /\ reader'[r] = "closed"
        /\ resp'[r] = Finish(StreamFailed(resp[r]))
        /\ "storage" \in faults'[r]
    BY <1>6 DEF ReadFails, Return, Continue, CloseStream, Fail, TypeOK
  <2>2. /\ resp'[r].status = (IF resp[r].status = 200 THEN 200 ELSE 500)
        /\ resp'[r].file = resp[r].file
    BY <1>1, <1>3, <2>1, StreamFailedEffect DEF Streaming
  <2>3. resp[r].status # 200 => Refused(r)'
    BY <1>1, <1>3, <2>1, <2>2 DEF Streaming, Refused
  <2>4. resp[r].status = 200 => Streamed(r)'
    BY <1>1, <1>2, <2>1, <2>2 DEF Streaming, Streamed
  <2> QED
    BY <2>1, <2>3, <2>4 DEF InOrder
<1>7. CASE WriteFails(r)
  <2>1. /\ pc'[r] = "done" /\ reader'[r] = "closed"
        /\ resp'[r] = Finish(StreamFailed(BreakConnection(resp[r])))
        /\ "client" \in faults'[r]
    BY <1>7 DEF WriteFails, Return, Continue, CloseStream, Fail, TypeOK
  <2>2. resp'[r].status = 200
    BY <1>1, <1>3, <2>1, StreamFailedEffect DEF Streaming
  <2>3. Streamed(r)'
    BY <1>1, <1>2, <2>1, <2>2 DEF Streaming, Streamed
  <2> QED
    BY <2>1, <2>3 DEF InOrder
<1> QED
  BY <1>4, <1>5, <1>6, <1>7 DEF StreamAndWrite

\* At every step of every request: what it is entitled to, what it has written,
\* and what its answer means.
THEOREM Invariance == Spec => []Inv
<1>1. TypeOK /\ Inv /\ [Next]_vars => Inv'
  <2> SUFFICES ASSUME TypeOK, Inv, [Next]_vars PROVE Inv'
    OBVIOUS
  <2>1. LinkedWhenStored /\ \A r \in Requests : InOrder(r)
    BY DEF Inv
  <2>2. ASSUME NEW i \in Items, LifeCycle(i)
        PROVE  Inv'
    <3>1. /\ LinkedWhenStored'
          /\ published \subseteq published' /\ public \subseteq public'
          /\ \A j \in Items : BadLink(j) => BadLink(j)'
      BY <2>1, <2>2, ItemsGrow
    <3>2. \A r \in Requests : InOrder(r)'
      BY <2>1, <2>2, <3>1, StaysInOrder DEF LifeCycle
    <3> QED
      BY <3>1, <3>2 DEF Inv
  <2>3. ASSUME NEW r \in Requests, Handle(r)
        PROVE  Inv'
    <3>1. UNCHANGED environment
      BY <2>3 DEF Handle, Require, Lookup, OpenStream, StreamAndWrite
    <3>2. InOrder(r)'
      BY <2>1, <2>3, RequireInOrder, LookupInOrder, OpenStreamInOrder, StreamAndWriteInOrder
         DEF Handle
    <3>3. ASSUME NEW q \in Requests, q # r
          PROVE  InOrder(q)'
      <4>1. /\ pc'[q] = pc[q] /\ resp'[q] = resp[q] /\ read'[q] = read[q]
            /\ reader'[q] = reader[q] /\ faults'[q] = faults[q]
        BY <2>3, <3>3, OthersAreLeftAlone
      <4>2. \A j \in Items : BadLink(j) => BadLink(j)'
        BY <3>1 DEF BadLink, environment
      <4> QED
        BY <2>1, <3>1, <4>1, <4>2, StaysInOrder DEF environment
    <3>4. LinkedWhenStored'
      BY <2>1, <3>1 DEF LinkedWhenStored, environment
    <3> QED
      BY <3>2, <3>3, <3>4 DEF Inv
  <2>4. CASE UNCHANGED vars
    <3>1. LinkedWhenStored'
      BY <2>1, <2>4 DEF LinkedWhenStored, vars
    <3>2. \A j \in Items : BadLink(j) => BadLink(j)'
      BY <2>4 DEF BadLink, vars
    <3>3. \A r \in Requests : InOrder(r)'
      BY <2>1, <2>4, <3>2, StaysInOrder DEF vars
    <3> QED
      BY <3>1, <3>3 DEF Inv
  <2> QED
    BY <2>2, <2>3, <2>4 DEF Next, AllAnswered
<1> QED
  BY <1>1, InitInv, TypeCorrectness, PTL DEF Spec

-----------------------------------------------------------------------------
(* What the invariant says of the answers.                                   *)

\* A private object reaches entitled callers only, and in publishing nobody
\* without the permission gets an object or its public address.
THEOREM OnlyEntitledAreServed == Spec => []PrivateIsEntitled
<1>1. TypeOK /\ Inv => PrivateIsEntitled
  <2> SUFFICES ASSUME TypeOK, Inv, NEW r \in Requests
               PROVE  /\ resp[r].file > 0 =>
                            ItemOf(r) \in published \/ (isPublishing /\ client[r].caller)
                      /\ isPublishing /\ resp[r].status \in {200, 301} => client[r].permitted
    BY DEF PrivateIsEntitled
  <2>1. InOrder(r) /\ pc[r] \in Steps
    BY DEF Inv, TypeOK
  <2>2. CASE Pending(r)
    BY <2>2 DEF Pending, NewResponse
  <2>3. CASE Streaming(r) \/ Streamed(r)
    BY <2>3 DEF Streaming, Streamed, Permitted, Entitled, Authenticate
  <2>4. CASE Refused(r) \/ Redirected(r)
    BY <2>4 DEF Refused, Redirected, Permitted
  <2> QED
    BY <2>1, <2>2, <2>3, <2>4 DEF InOrder, Steps
<1> QED
  BY <1>1, TypeCorrectness, Invariance, PTL

\* The properties of an answer's status.
LEMMA StatusesMean == TypeOK /\ Inv => RedirectIsPublic /\ FailureHasCause /\ StreamIsWhole
<1> SUFFICES ASSUME TypeOK, Inv, NEW r \in Requests
             PROVE  /\ resp[r].status = 301 => ItemOf(r) \in published \cap public
                    /\ resp[r].status = 500 =>
                         faults[r] \cap {"permissions", "api", "storage"} # {} \/ BadLink(ItemOf(r))
                    /\ Answered(r) /\ resp[r].status = 200 => Streamed(r)
  BY DEF RedirectIsPublic, FailureHasCause, StreamIsWhole, Streamed
<1>1. InOrder(r) /\ pc[r] \in Steps
  BY DEF Inv, TypeOK
<1>2. CASE Pending(r) /\ ~Answered(r)
  BY <1>2 DEF Pending, NewResponse
<1>3. CASE Streaming(r) /\ ~Answered(r)
  BY <1>3 DEF Streaming
<1>4. CASE Refused(r) \/ Redirected(r) \/ Streamed(r)
  BY <1>4 DEF Refused, Redirected, Streamed
<1> QED
  BY <1>1, <1>2, <1>3, <1>4 DEF InOrder, Steps, Answered

\* A permanent redirect leads to a published item.
THEOREM RedirectsArePublic == Spec => []RedirectIsPublic
BY StatusesMean, TypeCorrectness, Invariance, PTL

\* A 500 has a cause outside the service.
THEOREM FailuresHaveCauses == Spec => []FailureHasCause
BY StatusesMean, TypeCorrectness, Invariance, PTL

\* A 200 is the whole object and nothing else, unless a dependency failed.
THEOREM StreamsAreWhole == Spec => []StreamIsWhole
BY StatusesMean, TypeCorrectness, Invariance, PTL

-----------------------------------------------------------------------------
(* What each step of a request answers, and what it has seen.                *)

LEMMA RequireAnswers ==
  ASSUME TypeOK, NEW r \in Requests, InOrder(r), Require(r)
  PROVE  /\ resp[r].status = 0 /\ pc[r] = "require"
         /\ \/ resp'[r].status = 0 /\ pc'[r] = "lookup"
            \/ resp'[r].status \in {401, 403, 500} /\ pc'[r] = "done"
<1>1. resp[r] = NewResponse /\ resp[r].status = 0 /\ pc[r] = "require"
  BY DEF InOrder, Require, Pending, NewResponse
<1>2. CASE Continue(r, "lookup", resp[r])
  BY <1>1, <1>2 DEF Continue, TypeOK
<1>3. CASE \E status \in {401, 403, 500} : Return(r, WriteHeader(resp[r], status))
  <2>1. PICK status \in {401, 403, 500} : Return(r, WriteHeader(resp[r], status))
    BY <1>3
  <2>2. pc'[r] = "done" /\ resp'[r] = Finish(WriteHeader(NewResponse, status))
    BY <1>1, <2>1 DEF Return, Continue, TypeOK
  <2> QED
    BY <1>1, <2>2, AnswerEffect DEF Codes
<1> QED
  BY <1>1, <1>2, <1>3 DEF Require, RequireFails

\* The lookup decides by what the item's links and state are at that moment.
LEMMA LookupAnswers ==
  ASSUME TypeOK, NEW r \in Requests, InOrder(r), Lookup(r)
  PROVE  /\ resp[r].status = 0 /\ pc[r] = "lookup"
         /\ \/ /\ resp'[r].status \in {401, 403, 404, 500} /\ pc'[r] = "done"
               /\ "api" \in faults'[r]
            \/ resp'[r].status = 500 /\ pc'[r] = "done"
            \/ resp'[r].status = 301 /\ pc'[r] = "done" /\ Exposure(r) = "public"
            \/ resp'[r].status = 0 /\ pc'[r] = "open" /\ Exposure(r) = "readable"
            \/ /\ resp'[r].status = 404 /\ pc'[r] = "done" /\ faults'[r] = {}
               /\ Exposure(r) = "hidden"
               /\ \/ ItemOf(r) \notin published
                  \/ NoLink(ItemOf(r)) /\ ItemOf(r) \notin public
<1> DEFINE i == ItemOf(r)
<1>1. /\ resp[r] = NewResponse /\ resp[r].status = 0 /\ pc[r] = "lookup" /\ faults[r] = {}
      /\ link[i] \in Links
  BY ClientType DEF InOrder, Lookup, Pending, NewResponse, TypeOK
<1>2. ASSUME NEW status \in Codes, NEW w \in {WriteHeader(resp[r], status), HttpError(resp[r], status)},
             Return(r, w)
      PROVE  pc'[r] = "done" /\ resp'[r].status = status
  <2>1. pc'[r] = "done" /\ resp'[r] = Finish(w)
    BY <1>2 DEF Return, Continue, TypeOK
  <2>2. w \in {WriteHeader(NewResponse, status), HttpError(NewResponse, status)}
    BY <1>1
  <2> QED
    BY <2>1, <2>2, AnswerEffect
<1>3. CASE LookupFails(r)
  <2>1. PICK status \in {401, 403, 404, 500} :
          Return(r, HttpError(resp[r], status)) /\ Fail(r, "api")
    BY <1>3 DEF LookupFails
  <2>2. pc'[r] = "done" /\ resp'[r].status = status
    BY <1>2, <2>1 DEF Codes
  <2>3. "api" \in faults'[r]
    BY <2>1 DEF Fail, TypeOK
  <2> QED
    BY <1>1, <2>2, <2>3
<1>4. CASE Return(r, HttpError(resp[r], 500))
  BY <1>1, <1>2, <1>4 DEF Codes
<1>5. CASE /\ PrivateLink(i) # "unreadable" /\ IsPublicLinkAvailable(i)
           /\ Return(r, Redirect(resp[r]))
  <2>1. pc'[r] = "done" /\ resp'[r].status = 301
    BY <1>2, <1>5 DEF Redirect, Codes
  <2>2. Exposure(r) = "public"
    BY <1>5 DEF Exposure, IsPublicLinkAvailable, PrivateLink, BadLink
  <2> QED
    BY <1>1, <2>1, <2>2
<1>6. CASE /\ ~IsPublicLinkAvailable(i) /\ PrivateLink(i) = "usable" /\ Entitled(r)
           /\ Continue(r, "open", resp[r])
  <2>1. pc'[r] = "open" /\ resp'[r] = resp[r]
    BY <1>6 DEF Continue, TypeOK
  <2>2. Exposure(r) = "readable"
    BY <1>6 DEF Exposure, IsPublicLinkAvailable, PrivateLink, BadLink, NoLink
  <2> QED
    BY <1>1, <2>1, <2>2
<1>7. CASE /\ PrivateLink(i) # "unreadable" /\ ~IsPublicLinkAvailable(i)
           /\ ~(PrivateLink(i) = "usable" /\ Entitled(r))
           /\ Return(r, HttpError(resp[r], 404)) /\ UNCHANGED faults
  <2>1. pc'[r] = "done" /\ resp'[r].status = 404 /\ faults'[r] = {}
    BY <1>1, <1>2, <1>7 DEF Codes
  <2>2. NoLink(i) \/ ~Entitled(r)
    BY <1>1, <1>7 DEF PrivateLink, NoLink, Links
  <2>3. Exposure(r) = "hidden"
    BY <1>7, <2>2 DEF Exposure, IsPublicLinkAvailable
  <2>4. i \notin published \/ (NoLink(i) /\ i \notin public)
    BY <1>7, <2>2 DEF IsPublicLinkAvailable, Entitled
  <2> QED
    BY <1>1, <2>1, <2>3, <2>4
<1> QED
  BY <1>3, <1>4, <1>5, <1>6, <1>7 DEF Lookup

\* From there the answer is the file or a 500, whatever has become of the item.
LEMMA StreamAnswers ==
  ASSUME TypeOK, NEW r \in Requests, InOrder(r), OpenStream(r) \/ StreamAndWrite(r)
  PROVE  /\ resp[r].status \in {0, 200} /\ pc[r] \in {"open", "copy"}
         /\ resp'[r].status \in {0, 200, 500}
         /\ resp'[r].status = 0 => resp[r].status = 0 /\ pc'[r] = "copy"
         /\ resp[r].status = 200 => resp'[r].status = 200
<1> DEFINE w == resp[r]
<1>1. w \in Responses /\ w.status \in {0, 200} /\ pc[r] \in {"open", "copy"}
  BY ClientType DEF InOrder, OpenStream, StreamAndWrite, Pending, NewResponse, Streaming
<1>2. pc[r] = "open" => w.status = 0
  BY DEF InOrder, Pending, NewResponse
<1>3. /\ Finish(w).status = 200
      /\ Finish(StreamFailed(w)).status = IF w.status = 200 THEN 200 ELSE 500
      /\ Finish(StreamFailed(BreakConnection(w))).status = 200
  BY <1>1, CommitEffect, StreamFailedEffect DEF Finish, Codes
<1>4. ASSUME NEW n \in Nat PROVE WriteFile(w, n).status = 200
  <2>1. WriteHeader(w, 200).status = 200
    BY <1>1, CommitEffect DEF Codes
  <2>2. WriteFile(w, n).status = WriteHeader(w, 200).status
    BY <1>1, <1>4, WriteEffect, Zenon
  <2> QED
    BY <2>1, <2>2
<1> HIDE DEF w
<1>5. ASSUME NEW step, NEW c, Continue(r, step, c) PROVE pc'[r] = step /\ resp'[r] = c
  BY <1>5 DEF Continue, TypeOK
<1>6. CASE OpenStream(r)
  <2>1. \/ Continue(r, "copy", w)
        \/ Return(r, StreamFailed(w))
    BY <1>6 DEF OpenStream, w
  <2>2. w.status = 0
    BY <1>2, <1>6 DEF OpenStream
  <2>3. CASE Continue(r, "copy", w)
    BY <1>1, <1>5, <2>2, <2>3 DEF w
  <2>4. CASE Return(r, StreamFailed(w))
    BY <1>1, <1>3, <1>5, <2>2, <2>4 DEF Return, w
  <2> QED
    BY <2>1, <2>3, <2>4
<1>7. CASE StreamAndWrite(r)
  <2>1. CASE CopyChunk(r)
    <3>1. PICK n \in 1 .. Unread(r) : Continue(r, "copy", WriteFile(w, n))
      BY <2>1 DEF CopyChunk, w
    <3>2. n \in Nat
      BY ClientType DEF Unread
    <3>3. resp'[r].status = 200
      BY <1>4, <1>5, <3>1, <3>2
    <3> QED
      BY <1>1, <3>3 DEF w
  <2>2. CASE CopyEnds(r) \/ WriteFails(r)
    <3>1. resp'[r].status = 200
      BY <1>3, <1>5, <2>2 DEF CopyEnds, WriteFails, Return, w
    <3> QED
      BY <1>1, <3>1 DEF w
  <2>3. CASE ReadFails(r)
    <3>1. resp'[r].status = IF w.status = 200 THEN 200 ELSE 500
      BY <1>3, <1>5, <2>3 DEF ReadFails, Return, w
    <3> QED
      BY <1>1, <3>1 DEF w
  <2> QED
    BY <1>7, <2>1, <2>2, <2>3 DEF StreamAndWrite
<1> QED
  BY <1>6, <1>7

\* A 404 that is not the API's is given at the lookup only, and never for a published
\* item with a link.
THEOREM PublishedItemsAreFound == Spec => PublishedIsFound
<1>1. TypeOK /\ Inv /\ [Next]_vars =>
        [\A r \in Requests :
           resp'[r].status = 404 /\ resp[r].status = 0 /\ "api" \notin faults'[r] =>
             \/ ItemOf(r) \notin published
             \/ NoLink(ItemOf(r)) /\ ItemOf(r) \notin public]_vars
  <2> SUFFICES ASSUME TypeOK, Inv, Next, NEW r \in Requests,
                      resp'[r].status = 404, resp[r].status = 0, "api" \notin faults'[r]
               PROVE  \/ ItemOf(r) \notin published
                      \/ NoLink(ItemOf(r)) /\ ItemOf(r) \notin public
    OBVIOUS
  <2>1. InOrder(r) /\ resp'[r] # resp[r]
    BY DEF Inv
  <2>2. Handle(r)
    <3>1. ASSUME NEW q \in Requests, Handle(q) PROVE q = r
      BY <2>1, <3>1, OthersAreLeftAlone
    <3> QED
      BY <2>1, <3>1 DEF Next, AllAnswered, LifeCycle, vars
  <2>3. CASE Require(r)
    BY <2>1, <2>3, RequireAnswers
  <2>4. CASE Lookup(r)
    BY <2>1, <2>4, LookupAnswers
  <2>5. CASE OpenStream(r) \/ StreamAndWrite(r)
    BY <2>1, <2>5, StreamAnswers
  <2> QED
    BY <2>2, <2>3, <2>4, <2>5 DEF Handle
<1> QED
  BY <1>1, TypeCorrectness, Invariance, PTL DEF Spec, PublishedIsFound

-----------------------------------------------------------------------------
(* Every answer reflects the item at one moment: the steps of StoreDownload  *)
(* are steps of DownloadContract, or change nothing it speaks of.            *)

\* The values that stand for the variables of the contract.
ExposureNow == [r \in Requests |-> Exposure(r)]
SeenNow == [r \in Requests |->
              IF pc[r] \in {"open", "copy"} /\ resp[r].status = 0 THEN "readable" ELSE "none"]
AnswerNow == [r \in Requests |-> AnswerOf(r)]

LEMMA ExposureType == ExposureNow \in [Requests -> Contract!Exposures]
BY DEF ExposureNow, Exposure, Contract!Exposures

LEMMA GroundsOfAnswers ==
  /\ DOMAIN Contract!Grounds = {"file", "redirect", "absent", "refused"}
  /\ "readable" \in Contract!Grounds["file"]
  /\ "public" \in Contract!Grounds["redirect"]
  /\ "hidden" \in Contract!Grounds["absent"]
  /\ \A e \in Contract!Exposures : e \in Contract!Grounds["refused"]
BY DEF Contract!Grounds, Contract!Exposures

\* What a step of one request leaves of the contract's variables.
LEMMA OthersKeepTheirAnswers ==
  ASSUME TypeOK, NEW r \in Requests, Handle(r)
  PROVE  /\ ExposureNow' = ExposureNow
         /\ \A q \in Requests \ {r} : SeenNow'[q] = SeenNow[q] /\ AnswerNow'[q] = AnswerNow[q]
<1>1. UNCHANGED environment
  BY DEF Handle, Require, Lookup, OpenStream, StreamAndWrite
<1>2. ExposureNow' = ExposureNow
  BY <1>1 DEF environment, ExposureNow, Exposure, ItemOf, BadLink, NoLink, Entitled, Authenticate
<1>3. ASSUME NEW q \in Requests \ {r}
      PROVE  SeenNow'[q] = SeenNow[q] /\ AnswerNow'[q] = AnswerNow[q]
  <2>1. pc'[q] = pc[q] /\ resp'[q] = resp[q] /\ faults'[q] = faults[q]
    BY OthersAreLeftAlone
  <2> QED
    BY <2>1 DEF SeenNow, AnswerNow, AnswerOf
<1> QED
  BY <1>2, <1>3

\* A step that neither answers nor looks is none of the contract's.
LEMMA SilentStep ==
  ASSUME TypeOK, NEW r \in Requests, Handle(r),
         SeenNow'[r] = SeenNow[r], AnswerNow'[r] = AnswerNow[r]
  PROVE  UNCHANGED Contract!vars
<1>1. ExposureNow' = ExposureNow
  BY OthersKeepTheirAnswers
<1>2. \A q \in Requests : SeenNow'[q] = SeenNow[q] /\ AnswerNow'[q] = AnswerNow[q]
  BY OthersKeepTheirAnswers
<1>3. SeenNow' = SeenNow
  BY <1>2 DEF SeenNow
<1>4. AnswerNow' = AnswerNow
  BY <1>2 DEF AnswerNow
<1> QED
  BY <1>1, <1>3, <1>4 DEF Contract!vars, ExposureNow, SeenNow, AnswerNow

LEMMA LookingStep ==
  ASSUME TypeOK, NEW r \in Requests, Handle(r), SeenNow[r] = "none", AnswerNow[r] = "none",
         SeenNow'[r] = ExposureNow[r], AnswerNow'[r] = "none"
  PROVE  Contract!Look(r)
<1>1. ExposureNow' = ExposureNow
  BY OthersKeepTheirAnswers
<1>2. \A q \in Requests \ {r} : SeenNow'[q] = SeenNow[q] /\ AnswerNow'[q] = AnswerNow[q]
  BY OthersKeepTheirAnswers
<1>3. SeenNow' = [SeenNow EXCEPT ![r] = ExposureNow[r]]
  BY <1>2 DEF SeenNow
<1>4. AnswerNow' = AnswerNow
  BY <1>2 DEF AnswerNow
<1> QED
  BY <1>1, <1>3, <1>4 DEF Contract!Look, ExposureNow, SeenNow, AnswerNow

LEMMA AnsweringStep ==
  ASSUME TypeOK, NEW r \in Requests, Handle(r), AnswerNow[r] = "none", SeenNow'[r] = "none",
         NEW a \in DOMAIN Contract!Grounds, AnswerNow'[r] = a,
         (IF SeenNow[r] = "none" THEN ExposureNow[r] ELSE SeenNow[r]) \in Contract!Grounds[a]
  PROVE  Contract!Reply(r)
<1>1. ExposureNow' = ExposureNow
  BY OthersKeepTheirAnswers
<1>2. \A q \in Requests \ {r} : SeenNow'[q] = SeenNow[q] /\ AnswerNow'[q] = AnswerNow[q]
  BY OthersKeepTheirAnswers
<1>3. SeenNow' = [SeenNow EXCEPT ![r] = "none"]
  BY <1>2 DEF SeenNow
<1>4. AnswerNow' = [AnswerNow EXCEPT ![r] = a]
  BY <1>2 DEF AnswerNow
<1> QED
  BY <1>1, <1>3, <1>4 DEF Contract!Reply, Contract!View, ExposureNow, SeenNow, AnswerNow

\* Before the lookup a request has seen nothing: its answer is about the item as it is.
LEMMA BeforeLookup ==
  ASSUME NEW r \in Requests, resp[r].status = 0, pc[r] \in {"require", "lookup"}
  PROVE  SeenNow[r] = "none" /\ AnswerNow[r] = "none" /\ ExposureNow[r] = Exposure(r)
BY DEF SeenNow, AnswerNow, AnswerOf, ExposureNow

LEMMA RequireRefines ==
  ASSUME TypeOK, NEW r \in Requests, InOrder(r), Handle(r), Require(r)
  PROVE  Contract!Serve(r) \/ UNCHANGED Contract!vars
<1>1. SeenNow[r] = "none" /\ AnswerNow[r] = "none" /\ ExposureNow[r] \in Contract!Exposures
  BY RequireAnswers, BeforeLookup, ExposureType
<1>2. CASE resp'[r].status = 0 /\ pc'[r] = "lookup"
  <2>1. SeenNow'[r] = "none" /\ AnswerNow'[r] = "none"
    BY <1>2 DEF SeenNow, AnswerNow, AnswerOf
  <2> QED
    BY <1>1, <2>1, SilentStep
<1>3. CASE resp'[r].status \in {401, 403, 500}
  <2>1. SeenNow'[r] = "none" /\ AnswerNow'[r] = "refused"
    BY <1>3 DEF SeenNow, AnswerNow, AnswerOf
  <2> QED
    BY <1>1, <2>1, AnsweringStep, GroundsOfAnswers DEF Contract!Serve
<1> QED
  BY <1>2, <1>3, RequireAnswers

\* The lookup is the one look at the item; a redirect and a 404 are given there.
LEMMA LookupRefines ==
  ASSUME TypeOK, NEW r \in Requests, InOrder(r), Handle(r), Lookup(r)
  PROVE  Contract!Serve(r)
<1>1. /\ SeenNow[r] = "none" /\ AnswerNow[r] = "none" /\ ExposureNow[r] \in Contract!Exposures
      /\ ExposureNow[r] = Exposure(r)
  BY LookupAnswers, BeforeLookup, ExposureType
<1>2. CASE resp'[r].status = 0 /\ pc'[r] = "open" /\ Exposure(r) = "readable"
  <2>1. SeenNow'[r] = "readable" /\ AnswerNow'[r] = "none"
    BY <1>2 DEF SeenNow, AnswerNow, AnswerOf
  <2> QED
    BY <1>1, <1>2, <2>1, LookingStep DEF Contract!Serve
<1>3. ASSUME resp'[r].status # 0, NEW a \in DOMAIN Contract!Grounds, AnswerNow'[r] = a,
             Exposure(r) \in Contract!Grounds[a]
      PROVE  Contract!Serve(r)
  <2>1. SeenNow'[r] = "none"
    BY <1>3 DEF SeenNow
  <2> QED
    BY <1>1, <1>3, <2>1, AnsweringStep DEF Contract!Serve
<1>4. CASE \/ resp'[r].status \in {401, 403, 404, 500} /\ "api" \in faults'[r]
           \/ resp'[r].status = 500
  <2>1. resp'[r].status # 0 /\ AnswerNow'[r] = "refused"
    BY <1>4 DEF AnswerNow, AnswerOf
  <2> QED
    BY <1>1, <1>3, <2>1, GroundsOfAnswers
<1>5. CASE resp'[r].status = 301 /\ Exposure(r) = "public"
  <2>1. resp'[r].status # 0 /\ AnswerNow'[r] = "redirect"
    BY <1>5 DEF AnswerNow, AnswerOf
  <2> QED
    BY <1>3, <1>5, <2>1, GroundsOfAnswers
<1>6. CASE resp'[r].status = 404 /\ faults'[r] = {} /\ Exposure(r) = "hidden"
  <2>1. resp'[r].status # 0 /\ AnswerNow'[r] = "absent"
    BY <1>6 DEF AnswerNow, AnswerOf
  <2> QED
    BY <1>3, <1>6, <2>1, GroundsOfAnswers
<1> QED
  BY <1>2, <1>4, <1>5, <1>6, LookupAnswers

\* The file goes out for what the lookup saw.
LEMMA StreamRefines ==
  ASSUME TypeOK, NEW r \in Requests, InOrder(r), Handle(r), OpenStream(r) \/ StreamAndWrite(r)
  PROVE  Contract!Serve(r) \/ UNCHANGED Contract!vars
<1>0. /\ resp[r].status \in {0, 200} /\ pc[r] \in {"open", "copy"}
      /\ resp'[r].status \in {0, 200, 500}
      /\ resp'[r].status = 0 => resp[r].status = 0 /\ pc'[r] = "copy"
      /\ resp[r].status = 200 => resp'[r].status = 200
  BY StreamAnswers
<1>1. CASE resp[r].status = 200
  <2>1. /\ SeenNow[r] = "none" /\ AnswerNow[r] = "file"
        /\ SeenNow'[r] = "none" /\ AnswerNow'[r] = "file"
    BY <1>0, <1>1 DEF SeenNow, AnswerNow, AnswerOf
  <2> QED
    BY <2>1, SilentStep
<1>2. CASE resp[r].status = 0
  <2>1. SeenNow[r] = "readable" /\ AnswerNow[r] = "none"
    BY <1>0, <1>2 DEF SeenNow, AnswerNow, AnswerOf
  <2>2. CASE resp'[r].status = 0
    <3>1. SeenNow'[r] = "readable" /\ AnswerNow'[r] = "none"
      BY <1>0, <2>2 DEF SeenNow, AnswerNow, AnswerOf
    <3> QED
      BY <2>1, <3>1, SilentStep
  <2>3. CASE resp'[r].status = 200
    <3>1. SeenNow'[r] = "none" /\ AnswerNow'[r] = "file"
      BY <2>3 DEF SeenNow, AnswerNow, AnswerOf
    <3> QED
      BY <2>1, <3>1, AnsweringStep, GroundsOfAnswers DEF Contract!Serve
  <2>4. CASE resp'[r].status = 500
    <3>1. SeenNow'[r] = "none" /\ AnswerNow'[r] = "refused"
      BY <2>4 DEF SeenNow, AnswerNow, AnswerOf
    <3> QED
      BY <2>1, <3>1, AnsweringStep, GroundsOfAnswers DEF Contract!Serve, Contract!Exposures
  <2> QED
    BY <1>0, <2>2, <2>3, <2>4
<1> QED
  BY <1>0, <1>1, <1>2

LEMMA InitRefines == Init => Contract!Init
<1> SUFFICES ASSUME Init PROVE Contract!Init
  OBVIOUS
<1>1. \A r \in Requests : SeenNow[r] = "none" /\ AnswerNow[r] = "none"
  BY DEF Init, NewResponse, SeenNow, AnswerNow, AnswerOf
<1>2. /\ SeenNow = [r \in Requests |-> "none"]
      /\ AnswerNow = [r \in Requests |-> "none"]
  BY <1>1 DEF SeenNow, AnswerNow
<1> QED
  BY <1>2, ExposureType DEF Contract!Init, ExposureNow, SeenNow, AnswerNow

LEMMA NextRefines == TypeOK /\ Inv /\ [Next]_vars => [Contract!Next]_(Contract!vars)
<1> SUFFICES ASSUME TypeOK, Inv, [Next]_vars PROVE Contract!Next \/ UNCHANGED Contract!vars
  OBVIOUS
<1>1. ASSUME NEW i \in Items, LifeCycle(i) PROVE Contract!Change
  <2>1. SeenNow' = SeenNow /\ AnswerNow' = AnswerNow
    BY <1>1 DEF LifeCycle, SeenNow, AnswerNow, AnswerOf
  <2>2. ExposureNow' \in [Requests -> Contract!Exposures]
    BY DEF ExposureNow, Exposure, Contract!Exposures
  <2> QED
    BY <2>1, <2>2 DEF Contract!Change, ExposureNow, SeenNow, AnswerNow
<1>2. ASSUME NEW r \in Requests, Handle(r) PROVE Contract!Serve(r) \/ UNCHANGED Contract!vars
  <2>1. InOrder(r)
    BY DEF Inv
  <2> QED
    BY <1>2, <2>1, RequireRefines, LookupRefines, StreamRefines DEF Handle
<1>3. CASE UNCHANGED vars
  <2>1. ExposureNow' = ExposureNow /\ SeenNow' = SeenNow /\ AnswerNow' = AnswerNow
    BY <1>3 DEF vars, ExposureNow, Exposure, ItemOf, BadLink, NoLink, Entitled, Authenticate,
                SeenNow, AnswerNow, AnswerOf
  <2> QED
    BY <2>1 DEF Contract!vars, ExposureNow, SeenNow, AnswerNow
<1> QED
  BY <1>1, <1>2, <1>3 DEF Next, AllAnswered, Contract!Next

\* StoreDownload implements the contract but for its fairness: an answer reflects the
\* state and the links the item had at one moment of the request.
THEOREM AnswersReflectOneMoment ==
  Spec => Contract!Init /\ [][Contract!Next]_(Contract!vars)
BY InitRefines, NextRefines, TypeCorrectness, Invariance, PTL DEF Spec
=============================================================================
