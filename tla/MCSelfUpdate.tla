---------------------------- MODULE MCSelfUpdate ----------------------------
(* SelfUpdate alone; the .cfg says how the container names its image.       *)
EXTENDS SelfUpdate
=============================================================================
