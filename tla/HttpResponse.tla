---------------------------- MODULE HttpResponse ----------------------------
(***************************************************************************)
(* The http.ResponseWriter every handler of the service writes to.  It is  *)
(* Go's net/http, outside the repository, modelled from what the handlers  *)
(* rely on:                                                                *)
(*   - the first WriteHeader commits the status and the header fields, a   *)
(*     later one is ignored;                                               *)
(*   - a Write commits 200 if nothing is committed yet;                    *)
(*   - a Write that would exceed a declared Content-Length is refused as a *)
(*     whole (http.ErrContentLength) and still counts as written;          *)
(*   - when the handler returns with fewer bytes written than declared,    *)
(*     the server closes the connection, so the client can tell that the   *)
(*     body is short.                                                      *)
(* A body is what the properties tell apart: how many units of the file,   *)
(* and how many units of an error document, reached it.                    *)
(***************************************************************************)
EXTENDS Integers

\* "max-age" stands for "max-age=31536000".
CachePolicies == {"unset", "no-cache", "max-age"}

\* No Content-Length field: the body is sent chunked.
Undeclared == -1

Headers == [cache : CachePolicies, length : Nat \cup {Undeclared}]

\* "status" is 0 until the response is committed; "header" is the live header
\* map and "sent" the one the client got; "written" counts the units passed to
\* Write, the refused ones too.
Responses == [status  : {0, 200, 301, 401, 403, 404, 429, 500},
              header  : Headers,
              sent    : Headers,
              written : Nat,
              file    : Nat,
              error   : Nat,
              conn    : {"up", "broken"}]

NoHeader == [cache |-> "unset", length |-> Undeclared]

NewResponse == [status |-> 0, header |-> NoHeader, sent |-> NoHeader,
                written |-> 0, file |-> 0, error |-> 0, conn |-> "up"]

SetCacheControl(w, policy) == [w EXCEPT !.header.cache = policy]

SetContentLength(w, n) == [w EXCEPT !.header.length = n]

Committed(w) == w.status # 0

WriteHeader(w, code) ==
  IF Committed(w) THEN w ELSE [w EXCEPT !.status = code, !.sent = w.header]

\* The connection is gone, or the declared length leaves no room for n more units
\* (http.ErrContentLength).
Refuses(w, n) ==
  LET declared == WriteHeader(w, 200).sent.length
  IN  w.conn = "broken" \/ (declared # Undeclared /\ w.written + n > declared)

Count(w, n) == [w EXCEPT !.written = w.written + n]

WriteFile(w, n) ==
  LET c == Count(WriteHeader(w, 200), n)
  IN  IF Refuses(w, n) THEN c ELSE [c EXCEPT !.file = w.file + n]

WriteError(w, n) ==
  LET c == Count(WriteHeader(w, 200), n)
  IN  IF Refuses(w, n) THEN c ELSE [c EXCEPT !.error = w.error + n]

\* The connection failed under a Write: the header may have left, the data has not.
BreakConnection(w) == [WriteHeader(w, 200) EXCEPT !.conn = "broken"]

\* The handler has returned: a response nobody committed is a 200.
Finish(w) == WriteHeader(w, 200)

\* To the client the finished response is a complete message.
WellFormed(w) ==
  /\ w.conn = "up"
  /\ w.sent.length = Undeclared \/ w.file + w.error = w.sent.length
=============================================================================
