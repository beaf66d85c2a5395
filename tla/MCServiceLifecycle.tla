------------------------- MODULE MCServiceLifecycle -------------------------
(* Values for the runs of ServiceLifecycle. *)
EXTENDS ServiceLifecycle

\* A limit that make(chan) panics on, none, and one.
MCLimits == {-1, 0, 1}
=============================================================================
