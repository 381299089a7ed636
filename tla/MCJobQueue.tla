----------------------------- MODULE MCJobQueue -----------------------------
(* Small instances of JobQueue for TLC: job and worker ids are model values. *)
EXTENDS JobQueue
=============================================================================
