-------------------------------- MODULE Jobs --------------------------------
(***************************************************************************)
(* What every part of the pipeline names: the jobs.  A job is identified    *)
(* with its content hash, jobs.content_hash being UNIQUE.                   *)
(***************************************************************************)
CONSTANTS Job, None
=============================================================================
