------------------------ MODULE HttpResponse_proofs -------------------------
(* The operations on a response keep it a response. *)
EXTENDS HttpResponse, TLAPS

Codes == {200, 301, 401, 403, 404, 429, 500}

LEMMA StatusFieldType ==
  ASSUME NEW w \in Responses, NEW code \in Codes
  PROVE  [w EXCEPT !.status = code] \in Responses
BY DEF Responses, Codes

LEMMA SentFieldType ==
  ASSUME NEW w \in Responses, NEW h \in Headers
  PROVE  [w EXCEPT !.sent = h] \in Responses
BY DEF Responses

LEMMA CommitType ==
  ASSUME NEW w \in Responses, NEW code \in Codes
  PROVE  WriteHeader(w, code) \in Responses
<1> DEFINE sent(h) == [[w EXCEPT !.status = code] EXCEPT !.sent = h]
<1>1. \A h \in Headers : sent(h) \in Responses
  BY StatusFieldType, SentFieldType
<1>2. \A h : sent(h) = [w EXCEPT !.status = code, !.sent = h]
  OBVIOUS
<1>3. w.header \in Headers
  BY DEF Responses
<1> QED
  BY <1>1, <1>2, <1>3 DEF WriteHeader

LEMMA FinishType ==
  ASSUME NEW w \in Responses
  PROVE  Finish(w) \in Responses /\ BreakConnection(w) \in Responses
<1>1. WriteHeader(w, 200) \in Responses
  BY CommitType DEF Codes
<1> QED
  BY <1>1 DEF Finish, BreakConnection, Responses

LEMMA HeaderType ==
  ASSUME NEW w \in Responses, NEW policy \in CachePolicies, NEW n \in Nat
  PROVE  SetCacheControl(w, policy) \in Responses /\ SetContentLength(w, n) \in Responses
BY DEF SetCacheControl, SetContentLength, Responses, Headers

LEMMA WriteType ==
  ASSUME NEW w \in Responses, NEW n \in Nat
  PROVE  WriteFile(w, n) \in Responses /\ WriteError(w, n) \in Responses
<1> DEFINE c == Count(WriteHeader(w, 200), n)
<1>1. WriteHeader(w, 200) \in Responses
  BY CommitType DEF Codes
<1>2. c \in Responses
  BY <1>1 DEF Count, Responses
<1>3. w.file + n \in Nat /\ w.error + n \in Nat
  BY DEF Responses
<1> QED
  BY <1>2, <1>3 DEF WriteFile, WriteError, Responses

\* The first commit takes the live header and leaves the body alone; a later one does nothing.
LEMMA CommitEffect ==
  ASSUME NEW w \in Responses, NEW code \in Codes
  PROVE  /\ w.status # 0 => WriteHeader(w, code) = w
         /\ w.status = 0 =>
              /\ WriteHeader(w, code).status = code
              /\ WriteHeader(w, code).sent = w.header
         /\ WriteHeader(w, code).header = w.header
         /\ WriteHeader(w, code).file = w.file
         /\ WriteHeader(w, code).error = w.error
BY DEF WriteHeader, Committed, Responses

\* A write to a committed response changes neither its status nor its header.
LEMMA WriteEffect ==
  ASSUME NEW w \in Responses, NEW n \in Nat
  PROVE  /\ WriteFile(w, n).status = WriteHeader(w, 200).status
         /\ WriteFile(w, n).sent = WriteHeader(w, 200).sent
         /\ WriteFile(w, n).header = w.header
         /\ WriteFile(w, n).error = w.error
         /\ WriteError(w, n).status = WriteHeader(w, 200).status
         /\ WriteError(w, n).sent = WriteHeader(w, 200).sent
         /\ WriteError(w, n).header = w.header
         /\ WriteError(w, n).file = w.file
<1> DEFINE c == WriteHeader(w, 200)
<1>1. /\ c \in Responses
      /\ c.header = w.header /\ c.file = w.file /\ c.error = w.error
  BY CommitType, CommitEffect DEF Codes
<1>2. /\ Count(c, n).status = c.status /\ Count(c, n).sent = c.sent
      /\ Count(c, n).header = c.header
      /\ Count(c, n).file = c.file /\ Count(c, n).error = c.error
      /\ Count(c, n) \in Responses
  BY <1>1 DEF Count, Responses
<1> HIDE DEF c
<1> QED
  BY <1>1, <1>2 DEF WriteFile, WriteError, Responses, c

LEMMA BreakEffect ==
  ASSUME NEW w \in Responses
  PROVE  /\ BreakConnection(w).status = WriteHeader(w, 200).status
         /\ BreakConnection(w).sent = WriteHeader(w, 200).sent
         /\ BreakConnection(w).header = w.header
         /\ BreakConnection(w).file = w.file
         /\ BreakConnection(w).error = w.error
<1> DEFINE c == WriteHeader(w, 200)
<1>1. /\ c \in Responses
      /\ c.header = w.header /\ c.file = w.file /\ c.error = w.error
  BY CommitType, CommitEffect DEF Codes
<1> HIDE DEF c
<1> QED
  BY <1>1 DEF BreakConnection, Responses, c

LEMMA HeaderEffect ==
  ASSUME NEW w \in Responses, NEW policy \in CachePolicies, NEW n \in Nat
  PROVE  LET p == SetCacheControl(w, policy)
             l == SetContentLength(w, n)
         IN  /\ p.status = w.status /\ p.sent = w.sent /\ p.header.cache = policy
             /\ p.file = w.file /\ p.error = w.error
             /\ l.status = w.status /\ l.sent = w.sent /\ l.header.cache = w.header.cache
             /\ l.file = w.file /\ l.error = w.error
BY DEF SetCacheControl, SetContentLength, Responses, Headers

-----------------------------------------------------------------------------
(* What the client can tell of a body: the connection, what was declared and *)
(* what was counted.                                                         *)

\* Only BreakConnection breaks the connection; only SetContentLength declares a length.
LEMMA DeclaredEffect ==
  ASSUME NEW w \in Responses, NEW policy \in CachePolicies, NEW n \in Nat
  PROVE  LET p == SetCacheControl(w, policy)
             l == SetContentLength(w, n)
         IN  /\ p.conn = w.conn /\ p.written = w.written /\ p.header.length = w.header.length
             /\ l.conn = w.conn /\ l.written = w.written /\ l.header.length = n
BY DEF SetCacheControl, SetContentLength, Responses, Headers

LEMMA CommitKeepsConnection ==
  ASSUME NEW w \in Responses, NEW code \in Codes
  PROVE  WriteHeader(w, code).conn = w.conn /\ WriteHeader(w, code).written = w.written
BY DEF WriteHeader, Committed, Responses

\* A write counts what it is passed, and sends it unless it refuses it.
LEMMA BodyEffect ==
  ASSUME NEW w \in Responses, NEW n \in Nat
  PROVE  /\ WriteFile(w, n).conn = w.conn /\ WriteError(w, n).conn = w.conn
         /\ WriteFile(w, n).written = w.written + n
         /\ WriteFile(w, n).file = IF Refuses(w, n) THEN w.file ELSE w.file + n
         /\ WriteError(w, n).error = IF Refuses(w, n) THEN w.error ELSE w.error + n
<1> DEFINE c == WriteHeader(w, 200)
<1>1. c \in Responses /\ c.conn = w.conn /\ c.written = w.written /\ c.file = w.file /\ c.error = w.error
  BY CommitType, CommitEffect, CommitKeepsConnection DEF Codes
<1> HIDE DEF c
<1>2. /\ Count(c, n) \in Responses /\ Count(c, n).conn = c.conn
      /\ Count(c, n).file = c.file /\ Count(c, n).error = c.error
      /\ \A m : /\ [Count(c, n) EXCEPT !.file = m].conn = c.conn
              /\ [Count(c, n) EXCEPT !.error = m].conn = c.conn
  BY <1>1 DEF Count, Responses
<1>3. /\ Count(c, n).written = w.written + n
      /\ \A m : [Count(c, n) EXCEPT !.file = m].written = w.written + n
      /\ \A m : [Count(c, n) EXCEPT !.file = m].file = m
      /\ \A m : [Count(c, n) EXCEPT !.error = m].error = m
  BY <1>1 DEF Count, Responses
<1>4. CASE Refuses(w, n)
  BY <1>1, <1>2, <1>3, <1>4 DEF WriteFile, WriteError, c
<1>5. CASE ~Refuses(w, n)
  BY <1>1, <1>2, <1>3, <1>5 DEF WriteFile, WriteError, c
<1> QED
  BY <1>4, <1>5
=============================================================================
