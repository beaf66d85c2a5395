-------------------------- MODULE MCDownloadService -------------------------
(* Values for the run of DownloadService. *)
EXTENDS DownloadService

\* A limit that make(chan) panics on, none, and one.
MCLimits == {-1, 0, 1}
=============================================================================
