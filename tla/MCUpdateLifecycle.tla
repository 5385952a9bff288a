------------------------- MODULE MCUpdateLifecycle -------------------------
(* UpdateLifecycle with two images; each .cfg gives the budgets that its  *)
(* question needs.                                                        *)
EXTENDS UpdateLifecycle
=============================================================================
