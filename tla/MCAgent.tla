------------------------------ MODULE MCAgent ------------------------------
(***************************************************************************)
(* The agent: what a turn may do (AgentTurn) and how a run of its loop     *)
(* ends (AgentRun).  The two look at the same loop from sides that do not  *)
(* meet, so that each behaviour is of one of them: `part` says which.  The *)
(* turns are in two parts as well: those that ask and plan nothing have    *)
(* document workers, the others have none, and approve at most one kind of *)
(* call for the whole session.                                             *)
(***************************************************************************)
EXTENDS MCAgentTurn, AgentRun

VARIABLE part

all == <<vars, runVars, part>>

\* In the behaviours of a run the turn stays as it starts, in one mode.
InitAll ==
    /\ part \in {"turn", "workers", "run"}
    /\ Init /\ (part # "turn" => mode = "full-auto")
    /\ RunInit

TurnStep(A) ==
    /\ \/ part = "turn" /\ A /\ flight' = 0 /\ always' # {"write", "push"}
       \/ part = "workers" /\ A /\ typed' = "full-auto" /\ returnMode' = "none" /\ pending' = NoCall
    /\ UNCHANGED <<runVars, part>>
LoopStep(A) == part = "run" /\ A /\ UNCHANGED <<vars, part>>

NextAll == TurnStep(Next) \/ LoopStep(RunNext)

\* The loop goes on as long as it has not returned.
SpecAll == InitAll /\ [][NextAll]_all /\ WF_all(LoopStep(RunNext))

\* AgentRun's liveness property, in the behaviours that are a run's.
RunsEnd == part = "run" => RunEnds
=============================================================================
