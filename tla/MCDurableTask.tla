--------------------------- MODULE MCDurableTask ---------------------------
(***************************************************************************)
(* Instances of DurableTask for TLC: a web server and a command line that  *)
(* share one task store.                                                   *)
(***************************************************************************)
EXTENDS DurableTask, TLC

CONSTANTS server, cli, cli2

\* Ledger ids are interchangeable, and so are two command lines.
TaskSymmetry == Permutations(Ops) \cup Permutations({cli, cli2})
=============================================================================
