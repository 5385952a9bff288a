------------------------ MODULE MCStandaloneApplier ------------------------
(* StandaloneApplier with a few jobs, one or two refused calls, one crash. *)
EXTENDS StandaloneApplier
=============================================================================
