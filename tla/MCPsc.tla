------------------------------- MODULE MCPsc -------------------------------
(***************************************************************************)
(* Instances of Psc for TLC: the disturbances each family of runs allows.  *)
(***************************************************************************)
EXTENDS Psc

\* Everything but layer-1 reorganisations and operator signals: the promises
\* about layer 1 are made under these.
SafetyFaults == {"drop", "cancel", "oversize", "rpc", "foreign", "kill", "gap"}

\* Reorganisations, signals and graceful stops too: the promises about the
\* node's own bookkeeping are made under these.
AllFaults == {"reorg", "foreign", "drop", "kill", "stop", "oversize", "sigusr1", "sigusr2", "gap"}
=============================================================================
