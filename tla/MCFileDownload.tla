--------------------------- MODULE MCFileDownload ---------------------------
(* Model values for the runs of FileDownload. *)
EXTENDS FileDownload, TLC

\* The requests of a safety run are interchangeable: each has its own client.
RequestSymmetry == Permutations(Requests)
=============================================================================
