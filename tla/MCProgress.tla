----------------------------- MODULE MCProgress -----------------------------
(***************************************************************************)
(* What must eventually happen, on small instances of the gateway, the     *)
(* task store and the web server.  They share nothing here, so that each   *)
(* behaviour is one of theirs: `part` says whose.                          *)
(***************************************************************************)
EXTENDS Gateway

CONSTANTS group, private, u1, u2, t1, server, cli, NoPid,
          a, s1, s2, r1, Draft, Nobody

VARIABLES part,
          tState, tWorker, tOps, tAlive, tPc, tSnap, tLeft, tCur, tReq,
          wFile, wFresh, wHeap, wView, wRunning, wLock, wViewLock, wOpen, wLoc,
          wFrame, wObj, wWas, wStop, wPrompt, wAllowed, wRest, wSent

TwoRooms == [k \in {group, private} |-> k]
GroupAndPrivate == [k \in {group, private} |-> IF k = group THEN {u1, u2} ELSE {u2}]

Task == INSTANCE DurableTask WITH
    Tasks <- {t1}, Pids <- {server, cli}, Servers <- {server}, Ops <- {},
    MaxSlices <- 2, ReusePids <- FALSE,
    state <- tState, worker <- tWorker, ops <- tOps, alive <- tAlive, pc <- tPc,
    snap <- tSnap, left <- tLeft, cur <- tCur, req <- tReq

Web == INSTANCE WebSessions WITH
    Chats <- {a}, Saved <- {a}, Sockets <- {s1, s2}, Callers <- {r1},
    Objects <- 1 .. 6, Kinds <- {"chat", "exec"},
    Operations <- {"reset", "compact"}, MaxInputs <- 2,
    file <- wFile, fresh <- wFresh, heap <- wHeap, view <- wView,
    running <- wRunning, lock <- wLock, viewLock <- wViewLock, open <- wOpen,
    loc <- wLoc, frame <- wFrame, obj <- wObj, was <- wWas, stop <- wStop,
    prompt <- wPrompt, allowed <- wAllowed, rest <- wRest, sent <- wSent

tasks == <<tState, tWorker, tOps, tAlive, tPc, tSnap, tLeft, tCur, tReq>>
web == <<wFile, wFresh, wHeap, wView, wRunning, wLock, wViewLock, wOpen, wLoc,
         wFrame, wObj, wWas, wStop, wPrompt, wAllowed, wRest, wSent>>
all == <<vars, tasks, web, part>>

InitAll ==
    /\ part \in {"gateway", "tasks", "web"}
    /\ Init /\ Task!Init /\ Web!WebInit

GatewayStep(A) == part = "gateway" /\ A /\ UNCHANGED <<tasks, web, part>>
TaskStep(A) == part = "tasks" /\ A /\ UNCHANGED <<vars, web, part>>
WebStep(A) == part = "web" /\ A /\ UNCHANGED <<vars, tasks, part>>

NextAll == GatewayStep(Next) \/ TaskStep(Task!Next) \/ WebStep(Web!WebNext)

\* The modules' Fairness, for the part that runs.  As `part` never changes, one
\* condition on a step of either part says what a condition on each would.
Either(G, T, W) == GatewayStep(G) \/ TaskStep(T) \/ WebStep(W)

FairnessAll ==
    /\ WF_all(Either(Turn(group), Task!Work(server, t1), Web!SocketWork(s1)))
    /\ WF_all(Either(Turn(private), Task!Work(cli, t1), Web!SocketWork(s2)))
    /\ SF_all(Either(AgentEnds(group), Task!AgentEnds(server, t1), Web!EndTurn(s1, "stopped")))
    /\ SF_all(Either(AgentEnds(private), Task!AgentEnds(cli, t1), Web!EndTurn(s2, "stopped")))
    /\ WF_all(Either(Replay(group, u1), FALSE, Web!Endpoint(r1)))
    /\ WF_all(GatewayStep(Replay(group, u2)))
    /\ WF_all(GatewayStep(Replay(private, u2)))
    /\ WF_all(GatewayStep(NewEnds(group) \/ NewEnds(private)))

SpecAll == InitAll /\ [][NextAll]_all /\ FairnessAll

\* The task store's liveness properties (DurableTask).
EndIsHonoured == Task!EndIsHonoured
ClaimIsReleased == Task!ClaimIsReleased

\* The web server uses its engine as SharedEngine says (WebSessions).
WebSharesTheEngine == Web!SharesTheEngine

\* The web server's liveness properties, for one of its interchangeable tabs.
StoppedTurnsEnd == Web!StoppedTurnEnds(s1)
NavigationIsServed == Web!FrameIsServed(s1) /\ Web!RequestIsServed(r1)
=============================================================================
