--------------------------- MODULE StoreDownload ----------------------------
(***************************************************************************)
(* Concurrent requests for dataset versions, filter outputs and images:    *)
(* Download.do of handlers/download.go with the link lookup of             *)
(* downloads/downloader.go and the stream of content/s3_stream_writer.go,  *)
(* against the API that owns each item's links and the private bucket.     *)
(* A request takes one step for each call that leaves the process.         *)
(* Log data (and unwrapLogData with it) is left out.                       *)
(***************************************************************************)
EXTENDS HttpResponse

CONSTANTS Requests,      \* the requests of a behaviour
          Items,         \* the dataset versions, filter outputs and images
          Sizes,         \* bounds the length of an object
          ErrorLength    \* the length of an error message

ASSUME StoreDownloadAssumption ==
  /\ Sizes \subseteq Nat
  /\ ErrorLength \in Nat \ {0}

VARIABLES
  isPublishing,  \* cfg.IsPublishing
  catalogue,  \* of each item: its kind and the length of its object
  client,     \* of each request: the item, and what its token is good for
  published,  \* the items in a published (or completed) state
  public,     \* the items with a public link
  link,       \* the private link the API holds for each item
  stored,     \* the items with an object in the private bucket
  pc, resp, read, reader,
  faults      \* history: the dependencies that failed each request

environment == <<isPublishing, catalogue, client, published, public, link, stored>>
vars == <<isPublishing, catalogue, client, published, public, link, stored,
          pc, resp, read, reader, faults>>

\* Dataset versions and filter outputs share one shape of links.
Kinds == {"document", "image"}
Links == {"none", "usable", "unreadable"}
Steps == {"require", "lookup", "open", "copy", "done"}
Clients == [item : Items, permitted : BOOLEAN, caller : BOOLEAN]
Dependencies == {"permissions", "api", "storage", "client"}

TypeOK ==
  /\ isPublishing \in BOOLEAN
  /\ catalogue \in [Items -> [kind : Kinds, length : Sizes]]
  /\ client \in [Requests -> Clients]
  /\ published \subseteq Items /\ public \subseteq Items /\ stored \subseteq Items
  /\ link \in [Items -> Links]
  /\ pc \in [Requests -> Steps]
  /\ resp \in [Requests -> Responses]
  /\ read \in [Requests -> Nat]
  /\ reader \in [Requests -> {"none", "open", "closed"}]
  /\ faults \in [Requests -> SUBSET Dependencies]

Init ==
  /\ isPublishing \in BOOLEAN
  /\ catalogue \in [Items -> [kind : Kinds, length : Sizes]]
  /\ client \in [Requests -> Clients]
  /\ published = {} /\ public = {} /\ stored = {}
  /\ link = [i \in Items |-> "none"]
  /\ pc = [r \in Requests |-> IF isPublishing THEN "require" ELSE "lookup"]
  /\ resp = [r \in Requests |-> NewResponse]
  /\ read = [r \in Requests |-> 0]
  /\ reader = [r \in Requests |-> "none"]
  /\ faults = [r \in Requests |-> {}]

-----------------------------------------------------------------------------
(* An item's object, links and state, kept by the APIs and the exporters.    *)

Store(i) ==
  /\ i \notin stored
  /\ stored' = stored \cup {i}
  /\ link' \in {[link EXCEPT ![i] = l] : l \in {"usable", "unreadable"}}
  /\ UNCHANGED <<published, public>>

Publish(i) ==
  /\ i \notin published
  /\ published' = published \cup {i}
  /\ UNCHANGED <<public, link, stored>>

\* An image has its public address in the completed state, after it is published.
Release(i) ==
  /\ i \notin public /\ (catalogue[i].kind = "image" => i \in published)
  /\ public' = public \cup {i}
  /\ UNCHANGED <<published, link, stored>>

LifeCycle(i) ==
  /\ Store(i) \/ Publish(i) \/ Release(i)
  /\ UNCHANGED <<isPublishing, catalogue, client, pc, resp, read, reader, faults>>

-----------------------------------------------------------------------------
(* One request.                                                              *)

ItemOf(r) == client[r].item

Continue(r, step, w) ==
  /\ pc' = [pc EXCEPT ![r] = step]
  /\ resp' = [resp EXCEPT ![r] = w]

Return(r, w) == Continue(r, "done", Finish(w))

Fail(r, dependency) == faults' = [faults EXCEPT ![r] = @ \cup {dependency}]

\* http.Error: the status and a message.
HttpError(w, status) == WriteError(WriteHeader(w, status), ErrorLength)

\* http.Redirect; the link it writes for a reader of the body is left out.
Redirect(w) == WriteHeader(w, 301)

\* The middleware cannot check the permission, whoever asks.
RequireFails(r) == Return(r, WriteHeader(resp[r], 500)) /\ Fail(r, "permissions")

\* authMiddleware.Require (external) runs the handler for a permitted user only.
Require(r) ==
  /\ pc[r] = "require"
  /\ \/ client[r].permitted /\ Continue(r, "lookup", resp[r]) /\ UNCHANGED faults
     \/ \E status \in {401, 403} :
          ~client[r].permitted /\ Return(r, WriteHeader(resp[r], status)) /\ UNCHANGED faults
     \/ RequireFails(r)
  /\ UNCHANGED <<environment, read, reader>>

\* Faulty variant: no private link is taken for one that does not parse.
PrivateLinkRequired(i) ==
  IF catalogue[i].kind # "image" /\ link[i] # "usable" THEN "unreadable" ELSE "usable"

\* An image's private path is made up, a document's is parsed from its link.
PrivateLink(i) == IF catalogue[i].kind = "image" THEN "usable" ELSE link[i]

\* Faulty variant: a public link is enough.
HasPublicLink(i) == i \in public

IsPublicLinkAvailable(i) == i \in public /\ i \in published

\* Faulty variant: the caller of a web request counts too.
AuthenticateAnywhere(r) == client[r].caller

\* request.IsCallerPresent (external), in publishing only.
Authenticate(r) == isPublishing /\ client[r].caller

\* Faulty variant: a published object is streamed to authorised callers only.
EntitledCaller(r) == Authenticate(r)

Entitled(r) == ItemOf(r) \in published \/ Authenticate(r)

\* The API answers with an error of its own status, or fails in another way.
LookupFails(r) ==
  \E status \in {401, 403, 404, 500} :
    Return(r, HttpError(resp[r], status)) /\ Fail(r, "api")

\* Downloader.Get, and the choice between the links it returns.
Lookup(r) ==
  LET i == ItemOf(r)
      streamed == PrivateLink(i) = "usable" /\ Entitled(r)
  IN  /\ pc[r] = "lookup"
      /\ \/ LookupFails(r)
         \/ /\ PrivateLink(i) = "unreadable"
            /\ Return(r, HttpError(resp[r], 500)) /\ UNCHANGED faults
         \/ /\ PrivateLink(i) # "unreadable" /\ IsPublicLinkAvailable(i)
            /\ Return(r, Redirect(resp[r])) /\ UNCHANGED faults
         \/ /\ ~IsPublicLinkAvailable(i) /\ streamed
            /\ Continue(r, "open", resp[r]) /\ UNCHANGED faults
         \/ /\ PrivateLink(i) # "unreadable" /\ ~IsPublicLinkAvailable(i) /\ ~streamed
            /\ Return(r, HttpError(resp[r], 404)) /\ UNCHANGED faults
      /\ UNCHANGED <<environment, read, reader>>

\* Faulty variant: a stream that fails is answered 502.
StreamFailedAtGateway(w) == HttpError(w, 502)

\* Faulty variant: a stream that fails is answered as if there were no object.
StreamNotFound(w) == HttpError(w, 404)

\* Whatever stops the stream is answered like an error of the lookup.
StreamFailed(w) == HttpError(w, 500)

\* Faulty variant: the error of a Get that fails is lost, and nothing is streamed.
OpenStreamUnchecked(r) ==
  /\ pc[r] = "open"
  /\ \/ /\ ItemOf(r) \in stored
        /\ reader' = [reader EXCEPT ![r] = "open"]
        /\ Continue(r, "copy", resp[r])
        /\ UNCHANGED faults
     \/ Return(r, resp[r]) /\ Fail(r, "storage") /\ UNCHANGED reader
  /\ UNCHANGED <<environment, read>>

\* The Get fails if there is no object, or for another reason.
OpenStream(r) ==
  /\ pc[r] = "open"
  /\ \/ /\ ItemOf(r) \in stored
        /\ reader' = [reader EXCEPT ![r] = "open"]
        /\ Continue(r, "copy", resp[r])
        /\ UNCHANGED faults
     \/ Return(r, StreamFailed(resp[r])) /\ Fail(r, "storage") /\ UNCHANGED reader
  /\ UNCHANGED <<environment, read>>

Unread(r) == catalogue[ItemOf(r)].length - read[r]

CloseStream(r) == reader' = [reader EXCEPT ![r] = "closed"]

CopyChunk(r) ==
  \E n \in 1 .. Unread(r) :
    /\ read' = [read EXCEPT ![r] = @ + n]
    /\ Continue(r, "copy", WriteFile(resp[r], n))
    /\ UNCHANGED <<reader, faults>>

CopyEnds(r) ==
  Unread(r) = 0 /\ Return(r, resp[r]) /\ CloseStream(r) /\ UNCHANGED <<read, faults>>

\* Faulty variant: the object is closed only when all of it was copied.
ReadFailsUnclosed(r) ==
  /\ Return(r, StreamFailed(resp[r])) /\ UNCHANGED reader
  /\ Fail(r, "storage") /\ UNCHANGED read

ReadFails(r) ==
  Return(r, StreamFailed(resp[r])) /\ CloseStream(r) /\ Fail(r, "storage") /\ UNCHANGED read

WriteFails(r) ==
  /\ Unread(r) > 0
  /\ Return(r, StreamFailed(BreakConnection(resp[r]))) /\ CloseStream(r)
  /\ Fail(r, "client") /\ UNCHANGED read

StreamAndWrite(r) ==
  /\ pc[r] = "copy"
  /\ CopyChunk(r) \/ CopyEnds(r) \/ ReadFails(r) \/ WriteFails(r)
  /\ UNCHANGED environment

Handle(r) == Require(r) \/ Lookup(r) \/ OpenStream(r) \/ StreamAndWrite(r)

-----------------------------------------------------------------------------

Answered(r) == pc[r] = "done"

AllAnswered == (\A r \in Requests : Answered(r)) /\ UNCHANGED vars

Next ==
  \/ \E i \in Items : LifeCycle(i)
  \/ \E r \in Requests : Handle(r)
  \/ AllAnswered

\* A request is a goroutine: it runs until its handler returns, if its calls return.
Spec == Init /\ [][Next]_vars /\ \A r \in Requests : WF_vars(Handle(r))

-----------------------------------------------------------------------------
(* The inductive invariant: what holds of a request at each of its steps.    *)

NoLink(i) == catalogue[i].kind # "image" /\ link[i] = "none"
BadLink(i) == catalogue[i].kind # "image" /\ link[i] = "unreadable"

Pending(r) == resp[r] = NewResponse /\ read[r] = 0 /\ reader[r] = "none" /\ faults[r] = {}

Permitted(r) == isPublishing => client[r].permitted

\* Nothing but the bytes of the object has been written, without a declared length.
Streaming(r) ==
  /\ Permitted(r) /\ Entitled(r)
  /\ reader[r] = "open" /\ faults[r] = {}
  /\ read[r] <= catalogue[ItemOf(r)].length
  /\ resp[r].status \in {0, 200} /\ resp[r].conn = "up"
  /\ resp[r].header = NoHeader /\ resp[r].sent = NoHeader
  /\ resp[r].file = read[r] /\ resp[r].error = 0
  /\ read[r] > 0 => resp[r].status = 200

Refused(r) ==
  /\ resp[r].status \in {401, 403, 404, 500} /\ resp[r].file = 0
  /\ resp[r].status = 500 =>
       faults[r] \cap {"permissions", "api", "storage"} # {} \/ BadLink(ItemOf(r))

Redirected(r) ==
  /\ Permitted(r)
  /\ resp[r].status = 301 /\ resp[r].file = 0
  /\ ItemOf(r) \in published \cap public

Streamed(r) ==
  /\ Permitted(r) /\ Entitled(r)
  /\ resp[r].status = 200 /\ reader[r] = "closed"
  /\ faults[r] = {} => resp[r].file = catalogue[ItemOf(r)].length /\ resp[r].error = 0

InOrder(r) ==
  /\ pc[r] = "require" => Pending(r) /\ isPublishing
  /\ pc[r] = "lookup" => Pending(r) /\ Permitted(r)
  /\ pc[r] = "open" => Pending(r) /\ Permitted(r) /\ Entitled(r)
  /\ pc[r] = "copy" => Streaming(r)
  /\ pc[r] = "done" => reader[r] # "open" /\ (Refused(r) \/ Redirected(r) \/ Streamed(r))

\* A link is not replaced: it comes with the object.
LinkedWhenStored == \A i \in Items \ stored : link[i] = "none"

Inv == LinkedWhenStored /\ \A r \in Requests : InOrder(r)

-----------------------------------------------------------------------------
(* Properties.                                                               *)

\* Part of a private object reaches a client only if the item is published or, in
\* publishing, the caller is known; and in publishing a client without permission
\* gets neither an object nor the public address of one.
PrivateIsEntitled ==
  \A r \in Requests :
    /\ resp[r].file > 0 => ItemOf(r) \in published \/ (isPublishing /\ client[r].caller)
    /\ isPublishing /\ resp[r].status \in {200, 301} => client[r].permitted

\* A permanent redirect leads to a published item, although its public link may be
\* there before it is published.
RedirectIsPublic ==
  \A r \in Requests : resp[r].status = 301 => ItemOf(r) \in published \cap public

\* A published item with a link is not answered 404, unless the API says so.
PublishedIsFound ==
  [][\A r \in Requests :
       resp'[r].status = 404 /\ resp[r].status = 0 /\ "api" \notin faults'[r] =>
         \/ ItemOf(r) \notin published
         \/ NoLink(ItemOf(r)) /\ ItemOf(r) \notin public]_vars

\* A 500 has a cause outside the service: the permission could not be checked, the API or
\* the bucket failed (or has no such object), or the private link does not parse.
FailureHasCause ==
  \A r \in Requests :
    resp[r].status = 500 =>
      faults[r] \cap {"permissions", "api", "storage"} # {} \/ BadLink(ItemOf(r))

\* A 200 means that the object was opened and given back, and that all of it and
\* nothing else was written, unless the bucket or the client failed under the copy.
StreamIsWhole ==
  \A r \in Requests :
    Answered(r) /\ resp[r].status = 200 =>
      /\ reader[r] = "closed"
      /\ faults[r] = {} => resp[r].file = catalogue[ItemOf(r)].length /\ resp[r].error = 0

\* What the lookup may offer the client, if it comes to choose a link.
Exposure(r) ==
  LET i == ItemOf(r)
      released == i \in published \cap public
  IN  CASE ~BadLink(i) /\ released -> "public"
        [] ~BadLink(i) /\ ~released /\ ~NoLink(i) /\ Entitled(r) -> "readable"
        [] OTHER -> "hidden"

\* A 404 of the API is passed on: it says nothing of the links.
AnswerOf(r) ==
  LET status == resp[r].status
  IN  CASE status = 0   -> "none"
        [] status = 200 -> "file"
        [] status = 301 -> "redirect"
        [] status = 404 /\ "api" \notin faults[r] -> "absent"
        [] OTHER        -> "refused"

Contract == INSTANCE DownloadContract
  WITH exposure <- [r \in Requests |-> Exposure(r)],
       seen <- [r \in Requests |->
                  IF pc[r] \in {"open", "copy"} /\ resp[r].status = 0
                    THEN "readable" ELSE "none"],
       answer <- [r \in Requests |-> AnswerOf(r)]

\* An answer reflects the state and the links the item had at one moment of the request,
\* although it is streamed later; "not found" is said of no item that was found, whatever
\* fails after the lookup; and every request is answered.
ImplementsContract == Contract!Spec

\* swagger.yml:292-293: a 200 is "a streamed response containing the requested
\* download file". So is every 200 that is complete to the client.
StreamedResponseIsFile ==
  \A r \in Requests :
    Answered(r) /\ resp[r].status = 200 /\ WellFormed(resp[r]) =>
      resp[r].file = catalogue[ItemOf(r)].length /\ resp[r].error = 0
=============================================================================
