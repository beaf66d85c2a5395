------------------------------ MODULE MCLogData -----------------------------
(* Values for the runs of LogData. *)
EXTENDS LogData

\* Values of one key of every kind, and maps of two keys.
MCData ==
  {NoData}
    \cup [{"k1"} -> {Scalar("a"), Scalar("b"), List(<<Scalar("a")>>), Map("m")}]
    \cup [{"k1", "k2"} -> {Scalar("a"), Scalar("b")}]

\* As an error of the tests: text values only.
MCTexts == {NoData} \cup [{"k1"} -> {Scalar("a"), Scalar("b")}]
=============================================================================
