------------------------------ MODULE MCUpdates ------------------------------
(***************************************************************************)
(* One instance of the update ledger and one of the standalone applier.    *)
(* The two share no state in the models and are explored side by side, not *)
(* together: a behaviour moves one of them, the other stays as it started, *)
(* so the state spaces add up.                                             *)
(***************************************************************************)
EXTENDS UpdateLifecycle, StandaloneApplier

VARIABLE part

UpdatesInit == part \in {"ledger", "standalone"} /\ LedgerInit /\ Init

LedgerMovesOnly == part = "ledger" /\ UNCHANGED <<part, vars>>
StandaloneMovesOnly == part = "standalone" /\ UNCHANGED <<part, ledgerVars>>

UpdatesNext ==
  \/ LedgerMovesOnly /\ LedgerNext
  \/ StandaloneMovesOnly /\ Next

UpdatesVars == <<part, vars, ledgerVars>>

\* LedgerFairness, for the behaviours that move the ledger; the standalone
\* applier has safety properties only.
UpdatesFairness ==
  /\ WF_UpdatesVars(LedgerMovesOnly /\ (ScanTick \/ ScanStep))
  /\ SF_UpdatesVars(LedgerMovesOnly /\ ScanResolve)
  /\ WF_UpdatesVars(LedgerMovesOnly /\ ReconcileStep)

UpdatesSpec == UpdatesInit /\ [][UpdatesNext]_UpdatesVars /\ UpdatesFairness

\* The type invariants of the two parts.
UpdatesTypeOK == LedgerTypeOK /\ TypeOK
===============================================================================
