-------------------------- MODULE DownloadContract --------------------------
(***************************************************************************)
(* What a download promises, whatever calls it makes: its answer reflects  *)
(* one state that the file had while the request was in progress.  The     *)
(* code asks several services one after the other, and the file moves on   *)
(* between the calls; here a request looks at the file once, at the latest *)
(* when it answers.  FileDownload and StoreDownload implement it.          *)
(***************************************************************************)
CONSTANT Requests

VARIABLES exposure,  \* what may be done with the file of each request, now
          seen,      \* what each request saw when it looked
          answer     \* the answer of each request

vars == <<exposure, seen, answer>>

Exposures == {"hidden", "readable", "public"}

\* What a request must have seen to give an answer: a redirect leads to a public
\* file, and "absent" is not said of one that was there. It may fail at any time.
Grounds == [file |-> {"readable"}, redirect |-> {"public"}, absent |-> {"hidden"},
            refused |-> Exposures]

Init ==
  /\ exposure \in [Requests -> Exposures]
  /\ seen = [r \in Requests |-> "none"]
  /\ answer = [r \in Requests |-> "none"]

\* The owners of the files do as they like.
Change == exposure' \in [Requests -> Exposures] /\ UNCHANGED <<seen, answer>>

Look(r) ==
  /\ answer[r] = "none" /\ seen[r] = "none"
  /\ seen' = [seen EXCEPT ![r] = exposure[r]]
  /\ UNCHANGED <<exposure, answer>>

View(r) == IF seen[r] = "none" THEN exposure[r] ELSE seen[r]

Reply(r) ==
  /\ answer[r] = "none"
  /\ \E a \in DOMAIN Grounds :
       View(r) \in Grounds[a] /\ answer' = [answer EXCEPT ![r] = a]
  /\ seen' = [seen EXCEPT ![r] = "none"]
  /\ UNCHANGED exposure

Serve(r) == Look(r) \/ Reply(r)

Next == Change \/ \E r \in Requests : Serve(r)

\* Every request is answered.
Spec == Init /\ [][Next]_vars /\ \A r \in Requests : WF_vars(Serve(r))
=============================================================================
