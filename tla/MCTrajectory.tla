---------------------------- MODULE MCTrajectory ----------------------------
(***************************************************************************)
(* An instance of Trajectory for TLC: an app and a page, a scratch file,   *)
(* the tests and a command that starts the app.                            *)
(***************************************************************************)
EXTENDS Trajectory, TLC

CONSTANTS app, page, tmp, pytest, start

\* A test command names no file; the app is named by what starts it.
StartedFiles == pytest :> {} @@ start :> {app}
OwnNames == [p \in {app, page, tmp} |-> p]
=============================================================================
