-------------------------- MODULE WebSessionsProofs --------------------------
(***************************************************************************)
(* Proofs about WebSessions: whose the two locks are, that nobody renames  *)
(* or removes the chat of a running turn, that the server uses its engine  *)
(* as SharedEngine says, and what a compaction may lose.                   *)
(***************************************************************************)
EXTENDS WebSessions, TLAPS

\* Everything that refers to a Session refers to a live one.
Refers(D) ==
    /\ view \in D
    /\ running \in D \cup {Nobody}
    /\ \A s \in Sockets : obj[s] \in D \cup {Nobody} /\ was[s] \in D \cup {Nobody}
    /\ \A r \in Callers : rest[r].obj \in D \cup {Nobody}

\* What a frame and a request have got by the place they are at.
Frames ==
    /\ \A s \in Sockets :
           /\ loc[s] \in {"queued", "executing", "leaving"} \cup InTurn => obj[s] # Nobody
           /\ obj[s] # Nobody => was[s] # Nobody
           /\ loc[s] \in InTurn => frame[s].kind \in {"chat", "plan"}
           /\ loc[s] \in {"waiting", "queued", "executing"} => frame[s].kind \in Commands
           /\ loc[s] \in {"waiting", "bound"} \cup InTurn => frame[s].n > 0
           /\ frame[s].kind \in Navigation => frame[s].chat # Draft
    /\ \A r \in Callers :
           /\ rest[r].at = "idle" => ~rest[r].holds
           /\ rest[r].at = "compacting" => rest[r].obj # Nobody

IInv ==
    /\ WebTypeOK
    /\ Refers(DOMAIN heap)
    /\ Frames
    /\ TurnLockIsOwned
    /\ ViewLockIsOwned

\* RunningChatStays says this of every step.
ChatStays ==
    \A s \in Sockets : loc[s] \in InTurn /\ loc'[s] \in InTurn =>
        /\ obj'[s] = obj[s]
        /\ heap'[obj[s]].name = heap[obj[s]].name
        /\ heap[obj[s]].name # Draft /\ Exists(heap[obj[s]].name)
           => Exists(heap[obj[s]].name)'

Files == [Chats -> [id : Chats \cup {Draft}, msgs : SUBSET Messages]]
Heaps == UNION {[D -> Session] : D \in SUBSET Objects}

\* The files, the objects and the allowances are typed.
StoreTyped ==
    /\ file \in Files /\ fresh \subseteq Chats
    /\ heap \in Heaps
    /\ allowed \in [Chats -> SUBSET Chats]

\* So are the frames, the requests, the locks and the prompts.
ControlTyped ==
    /\ lock \in Sockets \cup Callers \cup {Nobody}
    /\ viewLock \in Sockets \cup Callers \cup {Nobody}
    /\ open \subseteq Sockets
    /\ loc \in [Sockets -> {"idle", "waiting", "bound", "queued", "executing",
                           "leaving"} \cup InTurn]
    /\ frame \in [Sockets -> Frame]
    /\ obj \in [Sockets -> Objects \cup {Nobody}]
    /\ was \in [Sockets -> Objects \cup {Nobody}]
    /\ stop \subseteq Sockets
    /\ prompt \in [Sockets -> {"none", "waiting", "settled", "session"}]
    /\ rest \in [Callers -> RestState]
    /\ sent \in 0 .. MaxInputs

\* Together they are WebTypeOK.
LEMMA TypeParts ==
    ASSUME WebTypeOK PROVE StoreTyped /\ ControlTyped
BY DEF WebTypeOK, StoreTyped, ControlTyped, Files, Heaps

\* And they make it.
LEMMA PartsType ==
    ASSUME Refers(DOMAIN heap)', StoreTyped', ControlTyped' PROVE WebTypeOK'
BY DEF WebTypeOK, StoreTyped, ControlTyped, Refers, Files, Heaps
-----------------------------------------------------------------------------
(***************************************************************************)
(* The store                                                               *)
(***************************************************************************)
\* The records of a socket without a frame and a caller without a request.
LEMMA NoneYet == NoFrame \in Frame /\ NoRequest \in RestState
BY SessionAssumption DEF NoFrame, NoRequest, Frame, RestState

\* A request that has passed the middleware.
Sent(op, c, holds) ==
    [at |-> "waiting", op |-> op, chat |-> c, holds |-> holds, obj |-> Nobody,
     kept |-> {}]

\* It is typed, and its fields are what they are.
LEMMA Sending ==
    ASSUME NEW op \in Operations, NEW c \in Chats, NEW holds \in BOOLEAN
    PROVE  /\ Sent(op, c, holds) \in RestState
           /\ Sent(op, c, holds).at = "waiting"
           /\ Sent(op, c, holds).holds = holds
           /\ Sent(op, c, holds).obj = Nobody
BY DEF Sent, RestState

\* Saving a typed Session keeps the files typed and removes none.
LEMMA Saving ==
    ASSUME NEW f \in Files, NEW x \in Session
    PROVE  /\ SavedFile(f, x) \in Files
           /\ SavedSession(f, x) \in Session
           /\ SavedSession(f, x).name = x.name
           /\ CliSavedFile(f, x) \in Files
           /\ \A c \in Chats : f[c].id # Draft =>
                  SavedFile(f, x)[c].id # Draft /\ CliSavedFile(f, x)[c].id # Draft
<1>1. x.name # Draft => SavedId(f, x) \in Chats \cup {Draft}
  BY DEF SavedId, Files, Session
<1>2. CASE x.name = Draft
  BY <1>2 DEF SavedFile, SavedSession, CliSavedFile
<1>3. CASE x.name # Draft
  <2>1. x.name \in Chats /\ x.msgs \in SUBSET Messages
    BY <1>3 DEF Session
  <2>2. SavedSession(f, x) \in Session /\ SavedSession(f, x).name = x.name
    BY <1>1, <1>3 DEF SavedSession, Session
  <2>3. SavedFile(f, x) = [f EXCEPT ![x.name] = [id |-> SavedId(f, x), msgs |-> x.msgs]]
    BY <1>3 DEF SavedFile
  <2>4. SavedFile(f, x) \in Files
    BY <2>1, <2>3, <1>1, <1>3 DEF Files
  <2>5. CliSavedFile(f, x) =
          [f EXCEPT ![x.name] =
              [id |-> IF f[x.name].id # Draft THEN f[x.name].id ELSE x.name,
               msgs |-> x.msgs]]
    BY <1>3, <2>1 DEF CliSavedFile, Files
  <2>6. CliSavedFile(f, x) \in Files
    BY <2>1, <2>5 DEF Files
  <2>7. \A c \in Chats : f[c].id # Draft => SavedFile(f, x)[c].id # Draft
    BY <2>1, <2>3 DEF Files, SavedId
  <2>8. \A c \in Chats : f[c].id # Draft => CliSavedFile(f, x)[c].id # Draft
    BY <2>1, <2>5 DEF Files
  <2> QED BY <2>2, <2>4, <2>6, <2>7, <2>8
<1> QED BY <1>2, <1>3

\* The conversation of a Session is a saved chat or the draft.
LEMMA Identified ==
    ASSUME file \in Files, NEW x \in Session PROVE Identity(x) \in Chats \cup {Draft}
BY DEF Identity, SavedId, Files, Session

\* A Session made from a chat's name, or loaded from its file, is typed.
LEMMA Making ==
    ASSUME file \in Files, NEW c \in Chats
    PROVE  Blank(c) \in Session /\ Blank(Draft) \in Session /\ Loaded(c) \in Session
BY DEF Blank, Loaded, Session, Files

\* A message joins a Session's.
LEMMA Saying ==
    ASSUME NEW x \in Session, NEW n \in 1 .. MaxInputs, NEW k \in {"question", "answer"}
    PROVE  LET y == [x EXCEPT !.msgs = @ \cup {<<n, k>>}]
           IN  y \in Session /\ y.name = x.name
BY DEF Session, Messages

\* A Session's messages are replaced.
LEMMA Emptying ==
    ASSUME NEW x \in Session, NEW m \in SUBSET Messages
    PROVE  LET y == [x EXCEPT !.msgs = m] IN y \in Session /\ y.name = x.name
BY DEF Session

\* With puts one object in, and leaves the others.
LEMMA WithIt ==
    ASSUME NEW h \in Heaps, NEW o \in Objects, NEW x \in Session
    PROVE  /\ With(h, o, x) \in Heaps
           /\ DOMAIN With(h, o, x) = DOMAIN h \cup {o}
           /\ With(h, o, x)[o] = x
           /\ \A p \in DOMAIN h : p # o => With(h, o, x)[p] = h[p]
<1>1. h \in [DOMAIN h -> Session] /\ DOMAIN h \subseteq Objects
  BY DEF Heaps
<1>2. With(h, o, x) \in [DOMAIN h \cup {o} -> Session]
  BY <1>1 DEF With
<1>3. DOMAIN h \cup {o} \in SUBSET Objects
  BY <1>1
<1> QED BY <1>2, <1>3 DEF With, Heaps

\* Replacing one object.
LEMMA Replacing ==
    ASSUME NEW h \in Heaps, NEW o \in DOMAIN h, NEW x \in Session
    PROVE  /\ [h EXCEPT ![o] = x] \in Heaps
           /\ DOMAIN [h EXCEPT ![o] = x] = DOMAIN h
           /\ [h EXCEPT ![o] = x][o] = x
           /\ \A p \in DOMAIN h : p # o => [h EXCEPT ![o] = x][p] = h[p]
<1>1. h \in [DOMAIN h -> Session] /\ DOMAIN h \in SUBSET Objects
  BY DEF Heaps
<1>2. [h EXCEPT ![o] = x] \in [DOMAIN h -> Session]
  BY <1>1
<1> QED BY <1>1, <1>2 DEF Heaps

\* There is room for another object, and it is a new one.
LEMMA NewIsNew ==
    ASSUME heap \in Heaps, Objects # DOMAIN heap
    PROVE  NewObject \in Objects /\ NewObject \notin DOMAIN heap
<1>1. \E o \in Objects : o \notin DOMAIN heap
  BY DEF Heaps
<1> QED BY <1>1 DEF NewObject

\* What the next state refers to is in D.
RefersNext(D) ==
    /\ view' \in D
    /\ running' \in D \cup {Nobody}
    /\ \A s \in Sockets : obj'[s] \in D \cup {Nobody} /\ was'[s] \in D \cup {Nobody}
    /\ \A r \in Callers : rest'[r].obj \in D \cup {Nobody}

\* Keep frees only what nothing refers to.
LEMMA Keeping ==
    ASSUME NEW h \in Heaps, RefersNext(DOMAIN h), Keep(h) \/ heap' = h
    PROVE  /\ heap' \in Heaps
           /\ Refers(DOMAIN heap)'
           /\ \A o \in DOMAIN heap' : o \in DOMAIN h /\ heap'[o] = h[o]
<1>1. CASE heap' = h
  BY <1>1 DEF RefersNext, Refers
<1>2. CASE Keep(h)
  <2>1. Nobody \notin DOMAIN h
    BY SessionAssumption DEF Heaps
  <2>2. LiveObjects' \ {Nobody} \subseteq DOMAIN h
    BY DEF RefersNext, LiveObjects
  <2>3. DOMAIN heap' = LiveObjects' \ {Nobody} /\ \A o \in DOMAIN heap' : heap'[o] = h[o]
    BY <1>2 DEF Keep
  <2>4. Refers(DOMAIN heap)'
    BY <2>1, <2>3 DEF RefersNext, Refers, LiveObjects
  <2>5. h \in [DOMAIN h -> Session] /\ DOMAIN h \subseteq Objects
    BY DEF Heaps
  <2>6. heap' \in [DOMAIN heap' -> Session] /\ DOMAIN heap' \subseteq Objects
    BY <1>2, <2>2, <2>3, <2>5 DEF Keep
  <2> QED BY <2>2, <2>3, <2>4, <2>6 DEF Heaps
<1> QED BY <1>1, <1>2

-----------------------------------------------------------------------------
(***************************************************************************)
(* Steps that leave the files and the objects alone                        *)
(***************************************************************************)
USE DEF InTurn, Threaded, Commands, Navigation, Goes

\* What such a step has to show.
LEMMA Quiet ==
    ASSUME IInv, UNCHANGED <<file, fresh, heap, view>>, allowed' \in [Chats -> SUBSET Chats],
           RefersNext(DOMAIN heap), ControlTyped', Frames', TurnLockIsOwned',
           ViewLockIsOwned',
           \A s \in Sockets : loc[s] \in InTurn /\ loc'[s] \in InTurn => obj'[s] = obj[s]
    PROVE  IInv' /\ ChatStays
<1>1. StoreTyped'
  BY TypeParts DEF IInv, StoreTyped
<1>2. Refers(DOMAIN heap)'
  BY DEF Refers, RefersNext
<1>3. WebTypeOK'
  BY <1>1, <1>2, PartsType
<1>4. ChatStays
  BY DEF ChatStays, Exists
<1> QED BY <1>2, <1>3, <1>4 DEF IInv

\* A frame arrives.
LEMMA ReceiveKeeps ==
    ASSUME IInv, NEW s \in Sockets, NEW k \in Kinds,
           NEW c \in Chats \cup {Draft}, Receive(s, k, c)
    PROVE  IInv' /\ ChatStays
<1> USE SessionAssumption DEF Receive
<1>1. ControlTyped'
  BY TypeParts DEF IInv, ControlTyped, Frame
<1>2. RefersNext(DOMAIN heap)
  BY DEF IInv, WebTypeOK, Refers, RefersNext
<1>3. Frames'
  BY DEF IInv, WebTypeOK, Frames
<1>4. TurnLockIsOwned'
  BY DEF IInv, WebTypeOK, Frames, TurnLockIsOwned
<1>5. ViewLockIsOwned'
  BY DEF IInv, WebTypeOK, Frames, ViewLockIsOwned
<1>6. allowed' \in [Chats -> SUBSET Chats]
  BY DEF IInv, WebTypeOK
<1>7. \A t \in Sockets : loc[t] \in InTurn /\ loc'[t] \in InTurn => obj'[t] = obj[t]
  BY DEF IInv, WebTypeOK
<1> QED BY <1>1, <1>2, <1>3, <1>4, <1>5, <1>6, <1>7, Quiet

\* A command gets the view lock.
LEMMA GetViewLockKeeps ==
    ASSUME IInv, NEW s \in Sockets, GetViewLock(s)
    PROVE  IInv' /\ ChatStays
<1> USE SessionAssumption DEF GetViewLock
<1>1. ControlTyped'
  BY TypeParts DEF IInv, ControlTyped
<1>2. RefersNext(DOMAIN heap)
  BY DEF IInv, WebTypeOK, Refers, RefersNext
<1>3. Frames'
  BY DEF IInv, WebTypeOK, Frames
<1>4. TurnLockIsOwned'
  BY DEF IInv, WebTypeOK, Frames, TurnLockIsOwned
<1>5. ViewLockIsOwned'
  BY DEF IInv, WebTypeOK, Frames, ViewLockIsOwned
<1>6. allowed' \in [Chats -> SUBSET Chats]
  BY DEF IInv, WebTypeOK
<1>7. \A t \in Sockets : loc[t] \in InTurn /\ loc'[t] \in InTurn => obj'[t] = obj[t]
  BY DEF IInv, WebTypeOK
<1> QED BY <1>1, <1>2, <1>3, <1>4, <1>5, <1>6, <1>7, Quiet

\* A frame is bound to the viewed Session.
LEMMA BindViewKeeps ==
    ASSUME IInv, NEW s \in Sockets, BindView(s)
    PROVE  IInv' /\ ChatStays
<1> USE SessionAssumption DEF BindView
<1>1. ControlTyped'
  BY TypeParts DEF IInv, ControlTyped, Refers, WebTypeOK
<1>2. RefersNext(DOMAIN heap)
  BY DEF IInv, WebTypeOK, Refers, RefersNext
<1>3. Frames'
  BY DEF IInv, WebTypeOK, Frames
<1>4. TurnLockIsOwned'
  BY DEF IInv, WebTypeOK, Frames, TurnLockIsOwned
<1>5. ViewLockIsOwned'
  BY DEF IInv, WebTypeOK, Frames, ViewLockIsOwned
<1>6. allowed' \in [Chats -> SUBSET Chats]
  BY DEF IInv, WebTypeOK
<1>7. \A t \in Sockets : loc[t] \in InTurn /\ loc'[t] \in InTurn => obj'[t] = obj[t]
  BY DEF IInv, WebTypeOK
<1> QED BY <1>1, <1>2, <1>3, <1>4, <1>5, <1>6, <1>7, Quiet

\* A frame's chat no longer exists.
LEMMA BindNothingKeeps ==
    ASSUME IInv, NEW s \in Sockets, BindNothing(s)
    PROVE  IInv' /\ ChatStays
<1> USE SessionAssumption DEF BindNothing, Done, NoFrame
<1>1. ControlTyped'
  BY TypeParts DEF IInv, ControlTyped, Frame
<1>2. RefersNext(DOMAIN heap)
  BY DEF IInv, WebTypeOK, Refers, RefersNext
<1>3. Frames'
  BY DEF IInv, WebTypeOK, Frames
<1>4. TurnLockIsOwned'
  BY DEF IInv, WebTypeOK, Frames, TurnLockIsOwned
<1>5. ViewLockIsOwned'
  BY DEF IInv, WebTypeOK, Frames, ViewLockIsOwned
<1>6. allowed' \in [Chats -> SUBSET Chats]
  BY DEF IInv, WebTypeOK
<1>7. \A t \in Sockets : loc[t] \in InTurn /\ loc'[t] \in InTurn => obj'[t] = obj[t]
  BY DEF IInv, WebTypeOK
<1> QED BY <1>1, <1>2, <1>3, <1>4, <1>5, <1>6, <1>7, Quiet

\* A command is answered, refused or sent to a handler.
LEMMA ReplyKeeps ==
    ASSUME IInv, NEW s \in Sockets, Reply(s)
    PROVE  IInv' /\ ChatStays
<1> USE SessionAssumption DEF Reply
<1>1. ControlTyped'
  BY TypeParts DEF IInv, ControlTyped, Frame
<1>2. RefersNext(DOMAIN heap)
  BY DEF IInv, WebTypeOK, Refers, RefersNext
<1>3. Frames'
  BY DEF IInv, WebTypeOK, Frames
<1>4. TurnLockIsOwned'
  BY DEF IInv, WebTypeOK, Frames, TurnLockIsOwned
<1>5. ViewLockIsOwned'
  BY DEF IInv, WebTypeOK, Frames, ViewLockIsOwned
<1>6. allowed' \in [Chats -> SUBSET Chats]
  BY DEF IInv, WebTypeOK
<1>7. \A t \in Sockets : loc[t] \in InTurn /\ loc'[t] \in InTurn => obj'[t] = obj[t]
  BY DEF IInv, WebTypeOK
<1> QED BY <1>1, <1>2, <1>3, <1>4, <1>5, <1>6, <1>7, Quiet

\* A handler takes the turn lock, or gives up.
LEMMA StartHandlerKeeps ==
    ASSUME IInv, NEW s \in Sockets, StartHandler(s)
    PROVE  IInv' /\ ChatStays
<1> USE SessionAssumption DEF StartHandler
<1>1. ControlTyped'
  BY TypeParts DEF IInv, ControlTyped
<1>2. RefersNext(DOMAIN heap)
  BY DEF IInv, WebTypeOK, Refers, RefersNext
<1>3. Frames'
  BY DEF IInv, WebTypeOK, Frames
<1>4. TurnLockIsOwned'
  BY DEF IInv, WebTypeOK, Frames, TurnLockIsOwned
<1>5. ViewLockIsOwned'
  BY DEF IInv, WebTypeOK, Frames, ViewLockIsOwned
<1>6. allowed' \in [Chats -> SUBSET Chats]
  BY DEF IInv, WebTypeOK
<1>7. \A t \in Sockets : loc[t] \in InTurn /\ loc'[t] \in InTurn => obj'[t] = obj[t]
  BY DEF IInv, WebTypeOK
<1> QED BY <1>1, <1>2, <1>3, <1>4, <1>5, <1>6, <1>7, Quiet

\* Stop is pressed.
LEMMA InterruptKeeps ==
    ASSUME IInv, NEW s \in Sockets, Interrupt(s)
    PROVE  IInv' /\ ChatStays
<1> USE SessionAssumption DEF Interrupt
<1>1. ControlTyped'
  BY TypeParts DEF IInv, ControlTyped
<1>2. RefersNext(DOMAIN heap)
  BY DEF IInv, WebTypeOK, Refers, RefersNext
<1>3. Frames'
  BY DEF IInv, WebTypeOK, Frames
<1>4. TurnLockIsOwned'
  BY DEF IInv, WebTypeOK, Frames, TurnLockIsOwned
<1>5. ViewLockIsOwned'
  BY DEF IInv, WebTypeOK, Frames, ViewLockIsOwned
<1>6. allowed' \in [Chats -> SUBSET Chats]
  BY DEF IInv, WebTypeOK
<1>7. \A t \in Sockets : loc[t] \in InTurn /\ loc'[t] \in InTurn => obj'[t] = obj[t]
  BY DEF IInv, WebTypeOK
<1> QED BY <1>1, <1>2, <1>3, <1>4, <1>5, <1>6, <1>7, Quiet

\* A socket closes.
LEMMA CloseKeeps ==
    ASSUME IInv, NEW s \in Sockets, CloseSocket(s)
    PROVE  IInv' /\ ChatStays
<1> USE SessionAssumption DEF CloseSocket
<1>1. ControlTyped'
  BY TypeParts DEF IInv, ControlTyped
<1>2. RefersNext(DOMAIN heap)
  BY DEF IInv, WebTypeOK, Refers, RefersNext
<1>3. Frames'
  BY DEF IInv, WebTypeOK, Frames
<1>4. TurnLockIsOwned'
  BY DEF IInv, WebTypeOK, Frames, TurnLockIsOwned
<1>5. ViewLockIsOwned'
  BY DEF IInv, WebTypeOK, Frames, ViewLockIsOwned
<1>6. allowed' \in [Chats -> SUBSET Chats]
  BY DEF IInv, WebTypeOK
<1>7. \A t \in Sockets : loc[t] \in InTurn /\ loc'[t] \in InTurn => obj'[t] = obj[t]
  BY DEF IInv, WebTypeOK
<1> QED BY <1>1, <1>2, <1>3, <1>4, <1>5, <1>6, <1>7, Quiet

\* A turn's thread asks.
LEMMA AskKeeps ==
    ASSUME IInv, NEW s \in Sockets, Ask(s)
    PROVE  IInv' /\ ChatStays
<1> USE SessionAssumption DEF Ask
<1>1. ControlTyped'
  BY TypeParts DEF IInv, ControlTyped
<1>2. RefersNext(DOMAIN heap)
  BY DEF IInv, WebTypeOK, Refers, RefersNext
<1>3. Frames'
  BY DEF IInv, WebTypeOK, Frames
<1>4. TurnLockIsOwned'
  BY DEF IInv, WebTypeOK, Frames, TurnLockIsOwned
<1>5. ViewLockIsOwned'
  BY DEF IInv, WebTypeOK, Frames, ViewLockIsOwned
<1>6. allowed' \in [Chats -> SUBSET Chats]
  BY DEF IInv, WebTypeOK
<1>7. \A t \in Sockets : loc[t] \in InTurn /\ loc'[t] \in InTurn => obj'[t] = obj[t]
  BY DEF IInv, WebTypeOK
<1> QED BY <1>1, <1>2, <1>3, <1>4, <1>5, <1>6, <1>7, Quiet

\* The owner answers.
LEMMA AnswerKeeps ==
    ASSUME IInv, NEW s \in Sockets, NEW v \in {"settled", "session"}, Answer(s, v)
    PROVE  IInv' /\ ChatStays
<1> USE SessionAssumption DEF Answer
<1>1. ControlTyped'
  BY TypeParts DEF IInv, ControlTyped
<1>2. RefersNext(DOMAIN heap)
  BY DEF IInv, WebTypeOK, Refers, RefersNext
<1>3. Frames'
  BY DEF IInv, WebTypeOK, Frames
<1>4. TurnLockIsOwned'
  BY DEF IInv, WebTypeOK, Frames, TurnLockIsOwned
<1>5. ViewLockIsOwned'
  BY DEF IInv, WebTypeOK, Frames, ViewLockIsOwned
<1>6. allowed' \in [Chats -> SUBSET Chats]
  BY DEF IInv, WebTypeOK
<1>7. \A t \in Sockets : loc[t] \in InTurn /\ loc'[t] \in InTurn => obj'[t] = obj[t]
  BY DEF IInv, WebTypeOK
<1> QED BY <1>1, <1>2, <1>3, <1>4, <1>5, <1>6, <1>7, Quiet

\* The thread reads the verdict.
LEMMA ReadVerdictKeeps ==
    ASSUME IInv, NEW s \in Sockets, ReadVerdict(s)
    PROVE  IInv' /\ ChatStays
<1> USE SessionAssumption DEF ReadVerdict
<1>1. ControlTyped'
  BY TypeParts DEF IInv, ControlTyped
<1>2. RefersNext(DOMAIN heap)
  BY DEF IInv, WebTypeOK, Refers, RefersNext
<1>3. Frames'
  BY DEF IInv, WebTypeOK, Frames
<1>4. TurnLockIsOwned'
  BY DEF IInv, WebTypeOK, Frames, TurnLockIsOwned
<1>5. ViewLockIsOwned'
  BY DEF IInv, WebTypeOK, Frames, ViewLockIsOwned
<1>6. allowed' \in [Chats -> SUBSET Chats]
  <2>1. obj[s] \in DOMAIN heap /\ heap[obj[s]] \in Session
    BY DEF IInv, WebTypeOK, Refers, Frames
  <2>2. Identity(heap[obj[s]]) \in Chats \cup {Draft}
    BY <2>1, Identified DEF IInv, WebTypeOK, Files
  <2> QED BY <2>2 DEF IInv, WebTypeOK
<1>7. \A t \in Sockets : loc[t] \in InTurn /\ loc'[t] \in InTurn => obj'[t] = obj[t]
  BY DEF IInv, WebTypeOK
<1> QED BY <1>1, <1>2, <1>3, <1>4, <1>5, <1>6, <1>7, Quiet

\* A request passes the middleware.
LEMMA RequestKeeps ==
    ASSUME IInv, NEW r \in Callers, NEW op \in Operations,
           NEW c \in Chats, CallEndpoint(r, op, c)
    PROVE  IInv' /\ ChatStays
<1> USE SessionAssumption DEF CallEndpoint
<1>0. /\ rest' \in [Callers -> RestState]
      /\ \A q \in Callers \ {r} : rest'[q] = rest[q]
      /\ rest'[r].at = "waiting" /\ rest'[r].obj = Nobody
      /\ running # Nobody \/ viewLock # Nobody => rest'[r].holds = FALSE
      /\ ~(running # Nobody \/ viewLock # Nobody) => rest'[r].holds = TRUE
  <2> DEFINE skip == running # Nobody \/ viewLock # Nobody
  <2>0. rest \in [Callers -> RestState]
    BY DEF IInv, WebTypeOK
  <2>1. rest'[r] = Sent(op, c, ~skip)
    BY <2>0 DEF NoRequest, Sent
  <2>2. rest' = [rest EXCEPT ![r] = rest'[r]]
    BY <2>0
  <2>3. CASE skip
    <3>1. rest'[r] = Sent(op, c, FALSE)
      BY <2>1, <2>3
    <3> DEFINE x == Sent(op, c, FALSE)
    <3>2. x \in RestState /\ x.holds = FALSE /\ x.at = "waiting" /\ x.obj = Nobody
      BY Sending
    <3> HIDE DEF x
    <3>3. rest'[r] = x
      BY <3>1 DEF x
    <3>4. rest' \in [Callers -> RestState] /\ \A q \in Callers \ {r} : rest'[q] = rest[q]
      BY <2>0, <2>2, <3>2, <3>3
    <3> QED BY <2>3, <3>2, <3>3, <3>4
  <2>4. CASE ~skip
    <3>1. rest'[r] = Sent(op, c, TRUE)
      BY <2>1, <2>4
    <3> DEFINE x == Sent(op, c, TRUE)
    <3>2. x \in RestState /\ x.holds = TRUE /\ x.at = "waiting" /\ x.obj = Nobody
      BY Sending
    <3> HIDE DEF x
    <3>3. rest'[r] = x
      BY <3>1 DEF x
    <3>4. rest' \in [Callers -> RestState] /\ \A q \in Callers \ {r} : rest'[q] = rest[q]
      BY <2>0, <2>2, <3>2, <3>3
    <3> QED BY <2>4, <3>2, <3>3, <3>4
  <2> QED BY <2>3, <2>4
<1>1. ControlTyped'
  BY <1>0, TypeParts DEF IInv, ControlTyped
<1>2. RefersNext(DOMAIN heap)
  BY <1>0 DEF IInv, WebTypeOK, Refers, RefersNext
<1>3. Frames'
  BY DEF IInv, WebTypeOK, Frames
<1>4. TurnLockIsOwned'
  BY <1>0 DEF IInv, WebTypeOK, Frames, TurnLockIsOwned
<1>5. ViewLockIsOwned'
  BY DEF IInv, WebTypeOK, Frames, ViewLockIsOwned
<1>6. allowed' \in [Chats -> SUBSET Chats]
  BY DEF IInv, WebTypeOK
<1>7. \A t \in Sockets : loc[t] \in InTurn /\ loc'[t] \in InTurn => obj'[t] = obj[t]
  BY DEF IInv, WebTypeOK
<1> QED BY <1>1, <1>2, <1>3, <1>4, <1>5, <1>6, <1>7, Quiet

\* A request is refused by its endpoint.
LEMMA RefuseKeeps ==
    ASSUME IInv, NEW r \in Callers, Refuse(r)
    PROVE  IInv' /\ ChatStays
<1> USE SessionAssumption DEF Refuse, EnterEndpoint, Respond, NoRequest
<1>1. ControlTyped'
  BY TypeParts DEF IInv, ControlTyped, RestState
<1>2. RefersNext(DOMAIN heap)
  BY DEF IInv, WebTypeOK, Refers, RefersNext
<1>3. Frames'
  BY DEF IInv, WebTypeOK, Frames
<1>4. TurnLockIsOwned'
  BY DEF IInv, WebTypeOK, Frames, TurnLockIsOwned
<1>5. ViewLockIsOwned'
  BY DEF IInv, WebTypeOK, Frames, ViewLockIsOwned
<1>6. allowed' \in [Chats -> SUBSET Chats]
  BY DEF IInv, WebTypeOK
<1>7. \A t \in Sockets : loc[t] \in InTurn /\ loc'[t] \in InTurn => obj'[t] = obj[t]
  BY DEF IInv, WebTypeOK
<1> QED BY <1>1, <1>2, <1>3, <1>4, <1>5, <1>6, <1>7, Quiet

-----------------------------------------------------------------------------
(***************************************************************************)
(* Steps that change the files or the objects                              *)
(***************************************************************************)
\* What such a step has to show.
LEMMA Kept ==
    ASSUME IInv, NEW h \in Heaps, Keep(h) \/ heap' = h, RefersNext(DOMAIN h), file' \in Files,
           fresh' \subseteq Chats, allowed' \in [Chats -> SUBSET Chats],
           ControlTyped', Frames', TurnLockIsOwned', ViewLockIsOwned',
           \A s \in Sockets : loc[s] \in InTurn /\ loc'[s] \in InTurn =>
               /\ obj'[s] = obj[s]
               /\ h[obj[s]].name = heap[obj[s]].name
               /\ heap[obj[s]].name # Draft /\ Exists(heap[obj[s]].name)
                  => file'[heap[obj[s]].name].id # Draft
    PROVE  IInv' /\ ChatStays
<1>1. heap' \in Heaps /\ Refers(DOMAIN heap)' /\ \A o \in DOMAIN heap' : heap'[o] = h[o]
  BY Keeping
<1>2. StoreTyped'
  BY <1>1 DEF StoreTyped
<1>3. WebTypeOK'
  BY <1>1, <1>2, PartsType
<1>4. ASSUME NEW s \in Sockets, loc[s] \in InTurn, loc'[s] \in InTurn
      PROVE  obj[s] \in DOMAIN heap'
  <2>1. obj'[s] # Nobody
    BY <1>4 DEF Frames
  <2> QED BY <1>1, <1>4, <2>1 DEF Refers
<1>5. ChatStays
  BY <1>1, <1>4 DEF ChatStays, Exists
<1> QED BY <1>1, <1>3, <1>5 DEF IInv

\* What the invariant says of the store.
LEMMA Stored ==
    ASSUME IInv
    PROVE  /\ heap \in Heaps /\ file \in Files
           /\ \A o \in DOMAIN heap : heap[o] \in Session /\ o \in Objects
           /\ view \in DOMAIN heap
           /\ \A s \in Sockets : loc[s] \in {"queued", "executing", "leaving"} \cup InTurn =>
                  obj[s] \in DOMAIN heap /\ was[s] \in DOMAIN heap
           /\ \A r \in Callers : rest[r].at = "compacting" => rest[r].obj \in DOMAIN heap
BY DEF IInv, WebTypeOK, Refers, Frames, Heaps, Files

\* Putting an object into the heap, or over one.
LEMMA Put ==
    ASSUME IInv, NEW o \in Objects, NEW x \in Session
    PROVE  /\ With(heap, o, x) \in Heaps
           /\ DOMAIN With(heap, o, x) = DOMAIN heap \cup {o}
           /\ With(heap, o, x)[o] = x
           /\ \A p \in DOMAIN heap : p # o => With(heap, o, x)[p] = heap[p]
<1>1. heap \in Heaps
  BY Stored
<1> QED BY <1>1, WithIt

\* A chat frame takes the turn lock.
LEMMA LockTurnKeeps ==
    ASSUME IInv, NEW s \in Sockets, LockTurn(s)
    PROVE  IInv' /\ ChatStays
<1> DEFINE h == heap
<1>1. h \in Heaps /\ Keep(h) /\ file' \in Files /\ file' = file
  BY Stored DEF LockTurn
<1> HIDE DEF h
<1> USE SessionAssumption DEF LockTurn
<1>0. /\ frame' \in [Sockets -> Frame]
      /\ \A t \in Sockets : frame'[t].kind = frame[t].kind /\ frame'[t].n = frame[t].n
  <2>1. heap[obj[s]].id \in Chats \cup {Draft} /\ frame \in [Sockets -> Frame]
    <3>1. obj[s] \in DOMAIN heap
      BY DEF IInv, Refers
    <3> QED BY <3>1, Stored DEF Session, IInv, WebTypeOK
  <2>2. CASE lock = Nobody
    <3> DEFINE y == [frame[s] EXCEPT !.chat = heap[obj[s]].id]
    <3>1. y \in Frame /\ y.kind = frame[s].kind /\ y.n = frame[s].n
      BY <2>1 DEF Frame
    <3>2. frame' = [frame EXCEPT ![s] = y]
      BY <2>1, <2>2
    <3> QED BY <2>1, <3>1, <3>2
  <2> QED BY <2>1, <2>2
<1>2. ControlTyped'
  BY <1>0, TypeParts DEF IInv, ControlTyped
<1>3. RefersNext(DOMAIN h)
  BY <1>1, Stored DEF IInv, WebTypeOK, Refers, RefersNext, h
<1>4. Frames'
  BY <1>0 DEF IInv, WebTypeOK, Frames
<1>5. TurnLockIsOwned'
  BY DEF IInv, WebTypeOK, Frames, TurnLockIsOwned
<1>6. ViewLockIsOwned'
  BY <1>0 DEF IInv, WebTypeOK, Frames, ViewLockIsOwned
<1>7. fresh' \subseteq Chats /\ allowed' \in [Chats -> SUBSET Chats]
  BY DEF IInv, WebTypeOK, Files
<1>8. \A t \in Sockets : loc[t] \in InTurn /\ loc'[t] \in InTurn =>
          /\ obj'[t] = obj[t]
          /\ h[obj[t]].name = heap[obj[t]].name
          /\ heap[obj[t]].name # Draft /\ Exists(heap[obj[t]].name)
             => file'[heap[obj[t]].name].id # Draft
  BY <1>1, Stored DEF IInv, WebTypeOK, Exists, h
<1> QED BY <1>1, <1>2, <1>3, <1>4, <1>5, <1>6, <1>7, <1>8, Kept

\* A turn fails before its thread has the lock.
LEMMA AbortTurnKeeps ==
    ASSUME IInv, NEW s \in Sockets, AbortTurn(s)
    PROVE  IInv' /\ ChatStays
<1> DEFINE h == heap
<1>1. h \in Heaps /\ Keep(h) /\ file' \in Files /\ file' = file
  BY Stored DEF AbortTurn
<1> HIDE DEF h
<1> USE SessionAssumption DEF AbortTurn
<1>2. ControlTyped'
  BY <1>1, TypeParts, Stored DEF IInv, ControlTyped
<1>3. RefersNext(DOMAIN h)
  BY <1>1, Stored DEF IInv, WebTypeOK, Refers, RefersNext, h
<1>4. Frames'
  BY DEF IInv, WebTypeOK, Frames
<1>5. TurnLockIsOwned'
  BY DEF IInv, WebTypeOK, Frames, TurnLockIsOwned
<1>6. ViewLockIsOwned'
  BY DEF IInv, WebTypeOK, Frames, ViewLockIsOwned
<1>7. fresh' \subseteq Chats /\ allowed' \in [Chats -> SUBSET Chats]
  BY DEF IInv, WebTypeOK, Files
<1>8. \A t \in Sockets : loc[t] \in InTurn /\ loc'[t] \in InTurn =>
          /\ obj'[t] = obj[t]
          /\ h[obj[t]].name = heap[obj[t]].name
          /\ heap[obj[t]].name # Draft /\ Exists(heap[obj[t]].name)
             => file'[heap[obj[t]].name].id # Draft
  BY <1>1, Stored DEF IInv, WebTypeOK, Exists, h
<1> QED BY <1>1, <1>2, <1>3, <1>4, <1>5, <1>6, <1>7, <1>8, Kept

\* A turn's thread gives the lock up.
LEMMA ReleaseKeeps ==
    ASSUME IInv, NEW s \in Sockets, Release(s)
    PROVE  IInv' /\ ChatStays
<1> DEFINE h == heap
<1>1. h \in Heaps /\ Keep(h) /\ file' \in Files /\ file' = file
  BY Stored DEF Release
<1> HIDE DEF h
<1> USE SessionAssumption DEF Release
<1>2. ControlTyped'
  BY <1>1, TypeParts, Stored DEF IInv, ControlTyped
<1>3. RefersNext(DOMAIN h)
  BY <1>1, Stored DEF IInv, WebTypeOK, Refers, RefersNext, h
<1>4. Frames'
  BY DEF IInv, WebTypeOK, Frames
<1>5. TurnLockIsOwned'
  BY DEF IInv, WebTypeOK, Frames, TurnLockIsOwned
<1>6. ViewLockIsOwned'
  BY DEF IInv, WebTypeOK, Frames, ViewLockIsOwned
<1>7. fresh' \subseteq Chats /\ allowed' \in [Chats -> SUBSET Chats]
  BY DEF IInv, WebTypeOK, Files
<1>8. \A t \in Sockets : loc[t] \in InTurn /\ loc'[t] \in InTurn =>
          /\ obj'[t] = obj[t]
          /\ h[obj[t]].name = heap[obj[t]].name
          /\ heap[obj[t]].name # Draft /\ Exists(heap[obj[t]].name)
             => file'[heap[obj[t]].name].id # Draft
  BY <1>1, Stored DEF IInv, WebTypeOK, Exists, h
<1> QED BY <1>1, <1>2, <1>3, <1>4, <1>5, <1>6, <1>7, <1>8, Kept

\* The question joins the messages.
LEMMA StartThreadKeeps ==
    ASSUME IInv, NEW s \in Sockets, StartThread(s)
    PROVE  IInv' /\ ChatStays
<1> DEFINE h == [heap EXCEPT ![obj[s]].msgs = @ \cup {<<frame[s].n, "question">>}]
<1>1. /\ h \in Heaps /\ Keep(h) /\ file' \in Files /\ file' = file
      /\ DOMAIN h = DOMAIN heap /\ \A o \in DOMAIN heap : h[o].name = heap[o].name
  <2> DEFINE x == [heap[obj[s]] EXCEPT !.msgs = @ \cup {<<frame[s].n, "question">>}]
  <2>1. obj[s] \in DOMAIN heap /\ heap[obj[s]] \in Session
    BY Stored DEF StartThread
  <2>2. frame[s].n \in 1 .. MaxInputs
    BY SessionAssumption DEF IInv, WebTypeOK, Frame, Frames, StartThread
  <2>3. x \in Session /\ x.name = heap[obj[s]].name
    BY <2>1, <2>2, Saying
  <2>4. h = [heap EXCEPT ![obj[s]] = x]
    BY <2>1, Stored DEF Heaps
  <2> HIDE DEF x, h
  <2>5. /\ h \in Heaps /\ DOMAIN h = DOMAIN heap /\ h[obj[s]] = x
        /\ \A o \in DOMAIN heap : o # obj[s] => h[o] = heap[o]
    BY <2>1, <2>3, <2>4, Stored, Replacing
  <2>6. Keep(h) /\ file' = file
    BY DEF StartThread, h
  <2> QED BY <2>3, <2>5, <2>6, Stored
<1> HIDE DEF h
<1> USE SessionAssumption DEF StartThread
<1>2. ControlTyped'
  BY <1>1, TypeParts, Stored DEF IInv, ControlTyped
<1>3. RefersNext(DOMAIN h)
  BY <1>1, Stored DEF IInv, WebTypeOK, Refers, RefersNext
<1>4. Frames'
  BY DEF IInv, WebTypeOK, Frames
<1>5. TurnLockIsOwned'
  BY DEF IInv, WebTypeOK, Frames, TurnLockIsOwned
<1>6. ViewLockIsOwned'
  BY DEF IInv, WebTypeOK, Frames, ViewLockIsOwned
<1>7. fresh' \subseteq Chats /\ allowed' \in [Chats -> SUBSET Chats]
  BY DEF IInv, WebTypeOK, Files
<1>8. \A t \in Sockets : loc[t] \in InTurn /\ loc'[t] \in InTurn =>
          /\ obj'[t] = obj[t]
          /\ h[obj[t]].name = heap[obj[t]].name
          /\ heap[obj[t]].name # Draft /\ Exists(heap[obj[t]].name)
             => file'[heap[obj[t]].name].id # Draft
  BY <1>1, Stored DEF IInv, WebTypeOK, Exists
<1> QED BY <1>1, <1>2, <1>3, <1>4, <1>5, <1>6, <1>7, <1>8, Kept

\* The agent's messages so far are saved.
LEMMA CheckpointKeeps ==
    ASSUME IInv, NEW s \in Sockets, Checkpoint(s)
    PROVE  IInv' /\ ChatStays
<1> DEFINE h == [heap EXCEPT ![obj[s]] = SavedSession(file, heap[obj[s]])]
<1>1. /\ h \in Heaps /\ Keep(h) /\ file' \in Files
      /\ DOMAIN h = DOMAIN heap /\ \A o \in DOMAIN heap : h[o].name = heap[o].name
      /\ \A c \in Chats : file[c].id # Draft => file'[c].id # Draft
  <2> DEFINE x == heap[obj[s]]
  <2>1. obj[s] \in DOMAIN heap
    BY Stored DEF Checkpoint
  <2>2. x \in Session /\ x.name = heap[obj[s]].name
    BY <2>1, Stored
  <2>3. h = [heap EXCEPT ![obj[s]] = SavedSession(file, x)] /\ file' = SavedFile(file, x)
    BY DEF SaveTurn, Checkpoint
  <2>4. Keep(h)
    BY DEF SaveTurn, h, Checkpoint
  <2> HIDE DEF x, h
  <2>5. /\ SavedSession(file, x) \in Session /\ SavedSession(file, x).name = x.name
        /\ file' \in Files /\ \A c \in Chats : file[c].id # Draft => file'[c].id # Draft
    BY <2>2, <2>3, Saving, Stored
  <2>6. /\ h \in Heaps /\ DOMAIN h = DOMAIN heap /\ h[obj[s]] = SavedSession(file, x)
        /\ \A o \in DOMAIN heap : o # obj[s] => h[o] = heap[o]
    BY <2>1, <2>3, <2>5, Stored, Replacing
  <2> QED BY <2>2, <2>4, <2>5, <2>6
<1> HIDE DEF h
<1> USE SessionAssumption DEF Checkpoint
<1>2. ControlTyped'
  BY <1>1, TypeParts, Stored DEF IInv, ControlTyped
<1>3. RefersNext(DOMAIN h)
  BY <1>1, Stored DEF IInv, WebTypeOK, Refers, RefersNext
<1>4. Frames'
  BY DEF IInv, WebTypeOK, Frames
<1>5. TurnLockIsOwned'
  BY DEF IInv, WebTypeOK, Frames, TurnLockIsOwned
<1>6. ViewLockIsOwned'
  BY DEF IInv, WebTypeOK, Frames, ViewLockIsOwned
<1>7. fresh' \subseteq Chats /\ allowed' \in [Chats -> SUBSET Chats]
  BY DEF IInv, WebTypeOK, Files
<1>8. \A t \in Sockets : loc[t] \in InTurn /\ loc'[t] \in InTurn =>
          /\ obj'[t] = obj[t]
          /\ h[obj[t]].name = heap[obj[t]].name
          /\ heap[obj[t]].name # Draft /\ Exists(heap[obj[t]].name)
             => file'[heap[obj[t]].name].id # Draft
  <2>1. \A t \in Sockets : loc[t] \in InTurn => obj[t] \in DOMAIN heap
    BY Stored
  <2>2. \A t \in Sockets : loc[t] \in InTurn /\ heap[obj[t]].name # Draft =>
            heap[obj[t]].name \in Chats
    BY <2>1, Stored DEF Session
  <2> QED BY <1>1, <2>1, <2>2 DEF Exists
<1> QED BY <1>1, <1>2, <1>3, <1>4, <1>5, <1>6, <1>7, <1>8, Kept

\* The agent is done, and its turn saved.
LEMMA EndTurnKeeps ==
    ASSUME IInv, NEW s \in Sockets, NEW how \in {"done", "failed", "stopped"}, 
           EndTurn(s, how)
    PROVE  IInv' /\ ChatStays
<1> DEFINE x == IF how = "done"
                   THEN [heap[obj[s]] EXCEPT !.msgs = @ \cup {<<frame[s].n, "answer">>}]
                   ELSE heap[obj[s]]
           h == [heap EXCEPT ![obj[s]] = SavedSession(file, x)]
<1>1. /\ h \in Heaps /\ Keep(h) /\ file' \in Files
      /\ DOMAIN h = DOMAIN heap /\ \A o \in DOMAIN heap : h[o].name = heap[o].name
      /\ \A c \in Chats : file[c].id # Draft => file'[c].id # Draft
  <2>1. obj[s] \in DOMAIN heap
    BY Stored DEF EndTurn
  <2>a. frame[s].n \in 1 .. MaxInputs
    BY SessionAssumption DEF IInv, WebTypeOK, Frame, Frames, EndTurn
  <2>2. x \in Session /\ x.name = heap[obj[s]].name
    BY <2>1, <2>a, Stored, Saying
  <2>3. h = [heap EXCEPT ![obj[s]] = SavedSession(file, x)] /\ file' = SavedFile(file, x)
    BY DEF SaveTurn, EndTurn
  <2>4. Keep(h)
    BY DEF SaveTurn, h, EndTurn
  <2> HIDE DEF x, h
  <2>5. /\ SavedSession(file, x) \in Session /\ SavedSession(file, x).name = x.name
        /\ file' \in Files /\ \A c \in Chats : file[c].id # Draft => file'[c].id # Draft
    BY <2>2, <2>3, Saving, Stored
  <2>6. /\ h \in Heaps /\ DOMAIN h = DOMAIN heap /\ h[obj[s]] = SavedSession(file, x)
        /\ \A o \in DOMAIN heap : o # obj[s] => h[o] = heap[o]
    BY <2>1, <2>3, <2>5, Stored, Replacing
  <2> QED BY <2>2, <2>4, <2>5, <2>6
<1> HIDE DEF h
<1> USE SessionAssumption DEF EndTurn
<1>2. ControlTyped'
  BY <1>1, TypeParts, Stored DEF IInv, ControlTyped
<1>3. RefersNext(DOMAIN h)
  BY <1>1, Stored DEF IInv, WebTypeOK, Refers, RefersNext
<1>4. Frames'
  BY DEF IInv, WebTypeOK, Frames
<1>5. TurnLockIsOwned'
  BY DEF IInv, WebTypeOK, Frames, TurnLockIsOwned
<1>6. ViewLockIsOwned'
  BY DEF IInv, WebTypeOK, Frames, ViewLockIsOwned
<1>7. fresh' \subseteq Chats /\ allowed' \in [Chats -> SUBSET Chats]
  BY DEF IInv, WebTypeOK, Files
<1>8. \A t \in Sockets : loc[t] \in InTurn /\ loc'[t] \in InTurn =>
          /\ obj'[t] = obj[t]
          /\ h[obj[t]].name = heap[obj[t]].name
          /\ heap[obj[t]].name # Draft /\ Exists(heap[obj[t]].name)
             => file'[heap[obj[t]].name].id # Draft
  <2>1. \A t \in Sockets : loc[t] \in InTurn => obj[t] \in DOMAIN heap
    BY Stored
  <2>2. \A t \in Sockets : loc[t] \in InTurn /\ heap[obj[t]].name # Draft =>
            heap[obj[t]].name \in Chats
    BY <2>1, Stored DEF Session
  <2> QED BY <1>1, <2>1, <2>2 DEF Exists
<1> QED BY <1>1, <1>2, <1>3, <1>4, <1>5, <1>6, <1>7, <1>8, Kept

\* A frame is bound to a Session loaded from its chat's file.
LEMMA BindFileKeeps ==
    ASSUME IInv, NEW s \in Sockets, NEW c \in Chats, BindFile(s, c)
    PROVE  IInv' /\ ChatStays
<1> DEFINE h == With(heap, NewObject, Loaded(c))
<1>1. /\ h \in Heaps /\ Keep(h) /\ file' \in Files /\ file' = file
      /\ NewObject \in Objects /\ DOMAIN h = DOMAIN heap \cup {NewObject}
      /\ \A o \in DOMAIN heap : h[o] = heap[o]
  <2>1. Keep(h) /\ file' = file
    BY DEF h, BindFile
  <2>2. NewObject \in Objects /\ NewObject \notin DOMAIN heap
    BY NewIsNew, Stored DEF BindFile
  <2>3. Loaded(c) \in Session
    BY Making, Stored
  <2>4. h = With(heap, NewObject, Loaded(c))
    BY DEF h
  <2> HIDE DEF h
  <2>5. /\ h \in Heaps /\ DOMAIN h = DOMAIN heap \cup {NewObject}
        /\ \A o \in DOMAIN heap : o # NewObject => h[o] = heap[o]
    BY <2>2, <2>3, <2>4, Put
  <2> QED BY <2>1, <2>2, <2>5, Stored
<1> HIDE DEF h
<1> USE SessionAssumption DEF BindFile
<1>2. ControlTyped'
  BY <1>1, TypeParts, Stored DEF IInv, ControlTyped
<1>3. RefersNext(DOMAIN h)
  BY <1>1, Stored DEF IInv, WebTypeOK, Refers, RefersNext
<1>4. Frames'
  BY DEF IInv, WebTypeOK, Frames
<1>5. TurnLockIsOwned'
  BY DEF IInv, WebTypeOK, Frames, TurnLockIsOwned
<1>6. ViewLockIsOwned'
  BY DEF IInv, WebTypeOK, Frames, ViewLockIsOwned
<1>7. fresh' \subseteq Chats /\ allowed' \in [Chats -> SUBSET Chats]
  BY DEF IInv, WebTypeOK, Files
<1>8. \A t \in Sockets : loc[t] \in InTurn /\ loc'[t] \in InTurn =>
          /\ obj'[t] = obj[t]
          /\ h[obj[t]].name = heap[obj[t]].name
          /\ heap[obj[t]].name # Draft /\ Exists(heap[obj[t]].name)
             => file'[heap[obj[t]].name].id # Draft
  BY <1>1, Stored DEF IInv, WebTypeOK, Exists
<1> QED BY <1>1, <1>2, <1>3, <1>4, <1>5, <1>6, <1>7, <1>8, Kept

\* While a handler executes, no turn runs.
LEMMA HandlerAlone ==
    ASSUME IInv, NEW s \in Sockets, loc[s] = "executing"
    PROVE  \A t \in Sockets : loc[t] \notin InTurn
BY SessionAssumption DEF IInv, TurnLockIsOwned

\* A handler works on the viewed Session, and the session file is saved.
LEMMA RunHandlerKeeps ==
    ASSUME IInv, NEW s \in Sockets, NEW reset \in BOOLEAN, RunHandler(s, reset)
    PROVE  IInv' /\ ChatStays
<1> DEFINE x == IF reset THEN [heap[view] EXCEPT !.msgs = {}] ELSE heap[view]
           h == With(heap, view, x)
<1>1. /\ h \in Heaps /\ (Keep(h) \/ heap' = h) /\ file' \in Files
      /\ DOMAIN h = DOMAIN heap
  <2>1. heap[view] \in Session /\ view \in DOMAIN heap /\ view \in Objects
    BY Stored
  <2>2. x \in Session
    BY <2>1, Emptying
  <2>3. Keep(h) /\ file' = CliSavedFile(file, x) /\ h = With(heap, view, x)
    BY DEF RunHandler, FreeLock
  <2> HIDE DEF h, x
  <2>4. h \in Heaps /\ DOMAIN h = DOMAIN heap \cup {view}
    BY <2>1, <2>2, <2>3, Put
  <2>5. file' \in Files
    BY <2>2, <2>3, Stored, Saving
  <2> QED BY <2>1, <2>3, <2>4, <2>5
<1> HIDE DEF h
<1> USE SessionAssumption DEF RunHandler, FreeLock
<1>2. ControlTyped'
  BY <1>1, TypeParts, Stored DEF IInv, ControlTyped
<1>3. RefersNext(DOMAIN h)
  BY <1>1, Stored DEF IInv, WebTypeOK, Refers, RefersNext
<1>4. Frames'
  BY DEF IInv, WebTypeOK, Frames
<1>5. TurnLockIsOwned'
  BY DEF IInv, WebTypeOK, Frames, TurnLockIsOwned
<1>6. ViewLockIsOwned'
  BY DEF IInv, WebTypeOK, Frames, ViewLockIsOwned
<1>7. fresh' \subseteq Chats /\ allowed' \in [Chats -> SUBSET Chats]
  BY DEF IInv, WebTypeOK, Files
<1>8. \A t \in Sockets : loc[t] \in InTurn /\ loc'[t] \in InTurn =>
          /\ obj'[t] = obj[t]
          /\ h[obj[t]].name = heap[obj[t]].name
          /\ heap[obj[t]].name # Draft /\ Exists(heap[obj[t]].name)
             => file'[heap[obj[t]].name].id # Draft
  BY HandlerAlone DEF FreeLock
<1> QED BY <1>1, <1>2, <1>3, <1>4, <1>5, <1>6, <1>7, <1>8, Kept

\* /new renames the viewed Session, or is refused.
LEMMA RunNewKeeps ==
    ASSUME IInv, NEW s \in Sockets, RunNew(s)
    PROVE  IInv' /\ ChatStays
<1> DEFINE h == IF frame[s].chat \notin fresh \/ Exists(frame[s].chat) THEN heap
                ELSE With(heap, view, Blank(frame[s].chat))
<1>1. /\ h \in Heaps /\ (Keep(h) \/ heap' = h) /\ file' \in Files
      /\ DOMAIN h = DOMAIN heap
  <2> DEFINE c == frame[s].chat
             saved == CliSavedFile(file, heap[view])
  <2>1. heap[view] \in Session /\ view \in DOMAIN heap /\ view \in Objects
    BY Stored
  <2>2. saved \in Files
    BY <2>1, Stored, Saving
  <2>3. CASE c \notin fresh \/ Exists(c)
    BY <2>3, Stored DEF RunNew, FreeLock
  <2>4. CASE ~(c \notin fresh \/ Exists(c))
    <3>1. c \in Chats
      BY <2>4 DEF IInv, WebTypeOK
    <3>2. Blank(c) \in Session
      BY <3>1, Stored, Making
    <3>3. Keep(h) /\ file' = CliSavedFile(saved, Blank(c)) /\ h = With(heap, view, Blank(c))
      BY <2>4 DEF RunNew, FreeLock
    <3> HIDE DEF h, saved, c
    <3>4. h \in Heaps /\ DOMAIN h = DOMAIN heap \cup {view}
      BY <2>1, <3>2, <3>3, Put
    <3>5. file' \in Files
      BY <2>2, <3>2, <3>3, Saving
    <3> QED BY <2>1, <3>3, <3>4, <3>5
  <2> QED BY <2>3, <2>4
<1> HIDE DEF h
<1> USE SessionAssumption DEF RunNew, FreeLock
<1>2. ControlTyped'
  BY <1>1, TypeParts, Stored DEF IInv, ControlTyped
<1>3. RefersNext(DOMAIN h)
  BY <1>1, Stored DEF IInv, WebTypeOK, Refers, RefersNext
<1>4. Frames'
  BY DEF IInv, WebTypeOK, Frames
<1>5. TurnLockIsOwned'
  BY DEF IInv, WebTypeOK, Frames, TurnLockIsOwned
<1>6. ViewLockIsOwned'
  BY DEF IInv, WebTypeOK, Frames, ViewLockIsOwned
<1>7. fresh' \subseteq Chats /\ allowed' \in [Chats -> SUBSET Chats]
  BY DEF IInv, WebTypeOK, Files
<1>8. \A t \in Sockets : loc[t] \in InTurn /\ loc'[t] \in InTurn =>
          /\ obj'[t] = obj[t]
          /\ h[obj[t]].name = heap[obj[t]].name
          /\ heap[obj[t]].name # Draft /\ Exists(heap[obj[t]].name)
             => file'[heap[obj[t]].name].id # Draft
  BY HandlerAlone DEF FreeLock
<1> QED BY <1>1, <1>2, <1>3, <1>4, <1>5, <1>6, <1>7, <1>8, Kept

\* /resume loads a file into the viewed Session, or finds none.
LEMMA RunResumeKeeps ==
    ASSUME IInv, NEW s \in Sockets, RunResume(s)
    PROVE  IInv' /\ ChatStays
<1> DEFINE h == IF Exists(frame[s].chat)
                THEN With(heap, view, [heap[view] EXCEPT !.name = frame[s].chat,
                                       !.msgs = file[frame[s].chat].msgs])
                ELSE heap
<1>1. /\ h \in Heaps /\ (Keep(h) \/ heap' = h) /\ file' \in Files
      /\ DOMAIN h = DOMAIN heap
  <2> DEFINE c == frame[s].chat
             x == [heap[view] EXCEPT !.name = c, !.msgs = file[c].msgs]
  <2>1. heap[view] \in Session /\ view \in DOMAIN heap /\ view \in Objects
    BY Stored
  <2>2. CASE ~Exists(c)
    BY <2>2, Stored DEF RunResume, FreeLock
  <2>3. CASE Exists(c)
    <3>1. c \in Chats
      <4>1. c \in Chats \cup {Draft}
        BY DEF IInv, WebTypeOK, Frame
      <4>2. c # Draft
        BY DEF IInv, Frames, RunResume, FreeLock
      <4> QED BY <4>1, <4>2
    <3>2. x \in Session
      BY <2>1, <3>1, Stored DEF Session, Files
    <3>3. Keep(h) /\ file' = CliSavedFile(file, heap[view]) /\ h = With(heap, view, x)
      BY <2>3 DEF RunResume, FreeLock
    <3> HIDE DEF h, x, c
    <3>4. h \in Heaps /\ DOMAIN h = DOMAIN heap \cup {view}
      BY <2>1, <3>2, <3>3, Put
    <3>5. file' \in Files
      BY <2>1, <3>3, Stored, Saving
    <3> QED BY <2>1, <3>3, <3>4, <3>5
  <2> QED BY <2>2, <2>3
<1> HIDE DEF h
<1> USE SessionAssumption DEF RunResume, FreeLock
<1>2. ControlTyped'
  BY <1>1, TypeParts, Stored DEF IInv, ControlTyped
<1>3. RefersNext(DOMAIN h)
  BY <1>1, Stored DEF IInv, WebTypeOK, Refers, RefersNext
<1>4. Frames'
  BY DEF IInv, WebTypeOK, Frames
<1>5. TurnLockIsOwned'
  BY DEF IInv, WebTypeOK, Frames, TurnLockIsOwned
<1>6. ViewLockIsOwned'
  BY DEF IInv, WebTypeOK, Frames, ViewLockIsOwned
<1>7. fresh' \subseteq Chats /\ allowed' \in [Chats -> SUBSET Chats]
  BY DEF IInv, WebTypeOK, Files
<1>8. \A t \in Sockets : loc[t] \in InTurn /\ loc'[t] \in InTurn =>
          /\ obj'[t] = obj[t]
          /\ h[obj[t]].name = heap[obj[t]].name
          /\ heap[obj[t]].name # Draft /\ Exists(heap[obj[t]].name)
             => file'[heap[obj[t]].name].id # Draft
  BY HandlerAlone DEF FreeLock
<1> QED BY <1>1, <1>2, <1>3, <1>4, <1>5, <1>6, <1>7, <1>8, Kept

\* A turn's coroutine or a command ends.
LEMMA LeaveKeeps ==
    ASSUME IInv, NEW s \in Sockets, Leave(s)
    PROVE  IInv' /\ ChatStays
<1> DEFINE f == frame[s]
           back == f.kind \in {"plan", "local", "exec"} /\ view = obj[s]
           adds == f.kind \in {"local", "exec"} /\ f.n # 0
           x == IF adds THEN [heap[obj[s]] EXCEPT !.msgs = @ \cup {<<f.n, "question">>}]
                ELSE heap[obj[s]]
           h == IF back \/ adds THEN With(heap, obj[s], SavedSession(file, x)) ELSE heap
<1>1. /\ h \in Heaps /\ Keep(h) /\ file' \in Files
      /\ DOMAIN h = DOMAIN heap /\ \A o \in DOMAIN heap : h[o].name = heap[o].name
      /\ \A c \in Chats : file[c].id # Draft => file'[c].id # Draft
  <2>1. obj[s] \in DOMAIN heap /\ heap[obj[s]] \in Session /\ obj[s] \in Objects
    BY Stored DEF Leave, Done, NoFrame
  <2>2. x \in Session /\ x.name = heap[obj[s]].name
    <3>1. adds => f.n \in 1 .. MaxInputs
      BY SessionAssumption DEF IInv, WebTypeOK, Frame
    <3> QED BY <2>1, <3>1, Saying
  <2>3. CASE back \/ adds
    <3>1. h = With(heap, obj[s], SavedSession(file, x)) /\ file' = SavedFile(file, x) /\ Keep(h)
      BY <2>3 DEF Leave, Done, NoFrame
    <3> HIDE DEF h, x, back, adds, f
    <3>2. SavedSession(file, x) \in Session /\ SavedSession(file, x).name = x.name
          /\ file' \in Files /\ \A c \in Chats : file[c].id # Draft => file'[c].id # Draft
      BY <2>2, <3>1, Saving, Stored
    <3>3. /\ h \in Heaps /\ DOMAIN h = DOMAIN heap \cup {obj[s]}
          /\ h[obj[s]] = SavedSession(file, x)
          /\ \A o \in DOMAIN heap : o # obj[s] => h[o] = heap[o]
      BY <2>1, <3>1, <3>2, Put
    <3> QED BY <2>1, <2>2, <3>1, <3>2, <3>3
  <2>4. CASE ~(back \/ adds)
    BY <2>4, Stored DEF Leave, Done, NoFrame
  <2> QED BY <2>3, <2>4
<1> HIDE DEF h, x, adds
<1> USE SessionAssumption DEF Leave, Done, NoFrame
<1>2. ControlTyped'
  BY <1>1, TypeParts, Stored DEF IInv, ControlTyped, Frame
<1>3. RefersNext(DOMAIN h)
  BY <1>1, Stored DEF IInv, WebTypeOK, Refers, RefersNext
<1>4. Frames'
  BY DEF IInv, WebTypeOK, Frames
<1>5. TurnLockIsOwned'
  BY DEF IInv, WebTypeOK, Frames, TurnLockIsOwned
<1>6. ViewLockIsOwned'
  BY DEF IInv, WebTypeOK, Frames, ViewLockIsOwned
<1>7. fresh' \subseteq Chats /\ allowed' \in [Chats -> SUBSET Chats]
  BY DEF IInv, WebTypeOK, Files
<1>8. \A t \in Sockets : loc[t] \in InTurn /\ loc'[t] \in InTurn =>
          /\ obj'[t] = obj[t]
          /\ h[obj[t]].name = heap[obj[t]].name
          /\ heap[obj[t]].name # Draft /\ Exists(heap[obj[t]].name)
             => file'[heap[obj[t]].name].id # Draft
  <2>1. \A t \in Sockets : loc[t] \in InTurn => obj[t] \in DOMAIN heap
    BY Stored
  <2>2. \A t \in Sockets : loc[t] \in InTurn /\ heap[obj[t]].name # Draft =>
            heap[obj[t]].name \in Chats
    BY <2>1, Stored DEF Session
  <2>3. \A t \in Sockets \ {s} : obj'[t] = obj[t]
    BY DEF IInv, WebTypeOK
  <2>4. \A t \in Sockets : loc'[t] \in InTurn => t # s
    BY DEF IInv, WebTypeOK
  <2> QED BY <1>1, <2>1, <2>2, <2>3, <2>4 DEF Exists
<1> QED BY <1>1, <1>2, <1>3, <1>4, <1>5, <1>6, <1>7, <1>8, Kept

-----------------------------------------------------------------------------
(***************************************************************************)
(* The session endpoints                                                   *)
(***************************************************************************)
\* The viewed chat is emptied.
LEMMA ResetKeeps ==
    ASSUME IInv, NEW r \in Callers, Reset(r)
    PROVE  IInv' /\ ChatStays
<1> DEFINE x == [heap[view] EXCEPT !.msgs = {}]
           h == With(heap, view, SavedSession(file, x))
<1>1. /\ h \in Heaps /\ (Keep(h) \/ heap' = h) /\ file' \in Files
      /\ DOMAIN heap \subseteq DOMAIN h /\ \A o \in DOMAIN heap : h[o].name = heap[o].name
      /\ \A c \in Chats : file[c].id # Draft => file'[c].id # Draft
  <2>1. heap[view] \in Session /\ view \in DOMAIN heap /\ view \in Objects
    BY Stored
  <2>2. x \in Session /\ x.name = heap[view].name
    BY <2>1, Emptying
  <2>3. Keep(h) /\ file' = SavedFile(file, x) /\ h = With(heap, view, SavedSession(file, x))
    BY DEF Reset, EnterEndpoint, Respond, NoRequest
  <2> HIDE DEF h, x
  <2>4. SavedSession(file, x) \in Session /\ SavedSession(file, x).name = x.name
        /\ file' \in Files /\ \A c \in Chats : file[c].id # Draft => file'[c].id # Draft
    BY <2>2, <2>3, Saving, Stored
  <2>5. /\ h \in Heaps /\ DOMAIN h = DOMAIN heap \cup {view}
        /\ h[view] = SavedSession(file, x)
        /\ \A o \in DOMAIN heap : o # view => h[o] = heap[o]
    BY <2>1, <2>3, <2>4, Put
  <2> QED BY <2>1, <2>2, <2>3, <2>4, <2>5
<1> HIDE DEF h
<1> USE SessionAssumption DEF Reset, EnterEndpoint, Respond, NoRequest
<1>2. ControlTyped'
  BY <1>1, TypeParts, Stored DEF IInv, ControlTyped, RestState
<1>3. RefersNext(DOMAIN h)
  BY <1>1, Stored DEF IInv, WebTypeOK, Refers, RefersNext
<1>4. Frames'
  BY DEF IInv, WebTypeOK, Frames
<1>5. TurnLockIsOwned'
  BY DEF IInv, WebTypeOK, Frames, TurnLockIsOwned
<1>6. ViewLockIsOwned'
  BY DEF IInv, WebTypeOK, Frames, ViewLockIsOwned
<1>7. fresh' \subseteq Chats /\ allowed' \in [Chats -> SUBSET Chats]
  BY DEF IInv, WebTypeOK, Files
<1>8. \A t \in Sockets : loc[t] \in InTurn /\ loc'[t] \in InTurn =>
          /\ obj'[t] = obj[t]
          /\ h[obj[t]].name = heap[obj[t]].name
          /\ heap[obj[t]].name # Draft /\ Exists(heap[obj[t]].name)
             => file'[heap[obj[t]].name].id # Draft
  <2>1. \A t \in Sockets : loc[t] \in InTurn => obj[t] \in DOMAIN heap
    BY Stored
  <2>2. \A t \in Sockets : loc[t] \in InTurn /\ heap[obj[t]].name # Draft =>
            heap[obj[t]].name \in Chats
    BY <2>1, Stored DEF Session
  <2> QED BY <1>1, <2>1, <2>2 DEF Exists
<1> QED BY <1>1, <1>2, <1>3, <1>4, <1>5, <1>6, <1>7, <1>8, Kept

\* A compaction takes the messages and asks the model.
LEMMA StartCompactKeeps ==
    ASSUME IInv, NEW r \in Callers, StartCompact(r)
    PROVE  IInv' /\ ChatStays
<1> DEFINE h == heap
<1>0. rest' \in [Callers -> RestState]
  <2> DEFINE y == [rest[r] EXCEPT !.at = "compacting", !.obj = view, !.kept = heap[view].msgs]
  <2>1. rest[r] \in RestState /\ view \in Objects /\ heap[view].msgs \in SUBSET Messages
    BY Stored DEF IInv, WebTypeOK, Session
  <2>2. y \in RestState
    BY <2>1 DEF RestState
  <2>3. rest' = [rest EXCEPT ![r] = y] /\ rest \in [Callers -> RestState]
    BY <2>1 DEF IInv, WebTypeOK, StartCompact, EnterEndpoint
  <2> HIDE DEF y
  <2> QED BY <2>2, <2>3
<1>1. h \in Heaps /\ Keep(h) /\ file' \in Files /\ file' = file
  BY Stored DEF StartCompact, EnterEndpoint
<1> HIDE DEF h
<1> USE SessionAssumption DEF StartCompact, EnterEndpoint
<1>2. ControlTyped'
  BY <1>0, <1>1, TypeParts, Stored DEF IInv, ControlTyped
<1>3. RefersNext(DOMAIN h)
  BY <1>1, Stored DEF IInv, WebTypeOK, Refers, RefersNext, h
<1>4. Frames'
  BY DEF IInv, WebTypeOK, Frames
<1>5. TurnLockIsOwned'
  BY DEF IInv, WebTypeOK, Frames, TurnLockIsOwned
<1>6. ViewLockIsOwned'
  BY DEF IInv, WebTypeOK, Frames, ViewLockIsOwned
<1>7. fresh' \subseteq Chats /\ allowed' \in [Chats -> SUBSET Chats]
  BY DEF IInv, WebTypeOK, Files
<1>8. \A t \in Sockets : loc[t] \in InTurn /\ loc'[t] \in InTurn =>
          /\ obj'[t] = obj[t]
          /\ h[obj[t]].name = heap[obj[t]].name
          /\ heap[obj[t]].name # Draft /\ Exists(heap[obj[t]].name)
             => file'[heap[obj[t]].name].id # Draft
  BY <1>1, Stored DEF IInv, WebTypeOK, Exists, h
<1> QED BY <1>1, <1>2, <1>3, <1>4, <1>5, <1>6, <1>7, <1>8, Kept

\* The model has answered, or failed.
LEMMA EndCompactKeeps ==
    ASSUME IInv, NEW r \in Callers, NEW ok \in BOOLEAN, EndCompact(r, ok)
    PROVE  IInv' /\ ChatStays
<1> DEFINE x == [heap[rest[r].obj] EXCEPT !.msgs = rest[r].kept]
           h == IF ok THEN With(heap, rest[r].obj, SavedSession(file, x)) ELSE heap
<1>1. /\ h \in Heaps /\ (Keep(h) \/ heap' = h) /\ file' \in Files
      /\ DOMAIN heap \subseteq DOMAIN h /\ \A o \in DOMAIN heap : h[o].name = heap[o].name
      /\ \A c \in Chats : file[c].id # Draft => file'[c].id # Draft
  <2> DEFINE o == rest[r].obj
  <2>1. o \in DOMAIN heap /\ heap[o] \in Session /\ o \in Objects
    BY Stored DEF EndCompact, Respond, NoRequest
  <2>2. x \in Session /\ x.name = heap[o].name
    <3>1. rest[r].kept \in SUBSET Messages
      BY DEF IInv, WebTypeOK, RestState
    <3> QED BY <2>1, <3>1, Emptying
  <2>3. CASE ok
    <3>1. h = With(heap, o, SavedSession(file, x)) /\ file' = SavedFile(file, x) /\ Keep(h)
      BY <2>3 DEF EndCompact, Respond, NoRequest
    <3> HIDE DEF h, x, o
    <3>2. SavedSession(file, x) \in Session /\ SavedSession(file, x).name = x.name
          /\ file' \in Files /\ \A c \in Chats : file[c].id # Draft => file'[c].id # Draft
      BY <2>2, <3>1, Saving, Stored
    <3>3. /\ h \in Heaps /\ DOMAIN h = DOMAIN heap \cup {o}
          /\ h[o] = SavedSession(file, x)
          /\ \A p \in DOMAIN heap : p # o => h[p] = heap[p]
      BY <2>1, <3>1, <3>2, Put
    <3> QED BY <2>1, <2>2, <3>1, <3>2, <3>3
  <2>4. CASE ~ok
    BY <2>4, Stored DEF EndCompact, Respond, NoRequest
  <2> QED BY <2>3, <2>4
<1> HIDE DEF h
<1> USE SessionAssumption DEF EndCompact, Respond, NoRequest
<1>2. ControlTyped'
  BY <1>1, TypeParts, Stored DEF IInv, ControlTyped, RestState
<1>3. RefersNext(DOMAIN h)
  BY <1>1, Stored DEF IInv, WebTypeOK, Refers, RefersNext
<1>4. Frames'
  BY DEF IInv, WebTypeOK, Frames
<1>5. TurnLockIsOwned'
  BY DEF IInv, WebTypeOK, Frames, TurnLockIsOwned
<1>6. ViewLockIsOwned'
  BY DEF IInv, WebTypeOK, Frames, ViewLockIsOwned
<1>7. fresh' \subseteq Chats /\ allowed' \in [Chats -> SUBSET Chats]
  BY DEF IInv, WebTypeOK, Files
<1>8. \A t \in Sockets : loc[t] \in InTurn /\ loc'[t] \in InTurn =>
          /\ obj'[t] = obj[t]
          /\ h[obj[t]].name = heap[obj[t]].name
          /\ heap[obj[t]].name # Draft /\ Exists(heap[obj[t]].name)
             => file'[heap[obj[t]].name].id # Draft
  <2>1. \A t \in Sockets : loc[t] \in InTurn => obj[t] \in DOMAIN heap
    BY Stored
  <2>2. \A t \in Sockets : loc[t] \in InTurn /\ heap[obj[t]].name # Draft =>
            heap[obj[t]].name \in Chats
    BY <2>1, Stored DEF Session
  <2> QED BY <1>1, <2>1, <2>2 DEF Exists
<1> QED BY <1>1, <1>2, <1>3, <1>4, <1>5, <1>6, <1>7, <1>8, Kept

\* What an endpoint that goes on has found.
LEMMA NotRefused ==
    ASSUME NEW r \in Callers, ~Refused(r)
    PROVE  /\ rest[r].op \in {"rename", "delete"} =>
                  Exists(rest[r].chat) /\ ~OwnsRunningTurn(rest[r].chat)
           /\ rest[r].op = "resume" => Exists(rest[r].chat)
BY DEF Refused

\* Saving the chat that leaves the view.
LEMMA Outgoing ==
    ASSUME IInv
    PROVE  /\ OutgoingFile \in Files /\ OutgoingHeap \in Heaps
           /\ DOMAIN OutgoingHeap = DOMAIN heap
           /\ \A o \in DOMAIN heap : OutgoingHeap[o].name = heap[o].name
           /\ \A c \in Chats : file[c].id # Draft => OutgoingFile[c].id # Draft
<1>1. CASE view = running
  BY <1>1, Stored DEF OutgoingFile, OutgoingHeap
<1>2. CASE view # running
  <2> DEFINE x == heap[view]
             y == SavedSession(file, x)
  <2>1. x \in Session /\ view \in DOMAIN heap /\ view \in Objects
    BY Stored
  <2>2. /\ y \in Session /\ y.name = x.name /\ SavedFile(file, x) \in Files
        /\ \A c \in Chats : file[c].id # Draft => SavedFile(file, x)[c].id # Draft
    BY <2>1, Saving, Stored
  <2>3. OutgoingHeap = With(heap, view, y) /\ OutgoingFile = SavedFile(file, x)
    BY <1>2 DEF OutgoingHeap, OutgoingFile
  <2> HIDE DEF y
  <2>4. /\ OutgoingHeap \in Heaps /\ DOMAIN OutgoingHeap = DOMAIN heap \cup {view}
        /\ OutgoingHeap[view] = y
        /\ \A o \in DOMAIN heap : o # view => OutgoingHeap[o] = heap[o]
    BY <2>1, <2>2, <2>3, Put
  <2> QED BY <2>1, <2>2, <2>3, <2>4
<1> QED BY <1>1, <1>2

\* A new object joins them.
LEMMA Joining ==
    ASSUME IInv, NEW o \in Objects, NEW x \in Session
    PROVE  /\ With(OutgoingHeap, o, x) \in Heaps
           /\ DOMAIN With(OutgoingHeap, o, x) = DOMAIN heap \cup {o}
           /\ \A p \in DOMAIN heap : p # o => With(OutgoingHeap, o, x)[p] = OutgoingHeap[p]
<1>1. OutgoingHeap \in Heaps /\ DOMAIN OutgoingHeap = DOMAIN heap
  BY Outgoing
<1> QED BY <1>1, WithIt

\* A draft becomes the viewed chat.
LEMMA NewDraftKeeps ==
    ASSUME IInv, NEW r \in Callers, NewDraft(r)
    PROVE  IInv' /\ ChatStays
<1> DEFINE h == With(OutgoingHeap, NewObject, Blank(Draft))
<1>1. /\ h \in Heaps /\ (Keep(h) \/ heap' = h) /\ file' \in Files
      /\ DOMAIN heap \subseteq DOMAIN h /\ view' \in DOMAIN h
      /\ \A o \in DOMAIN heap : h[o].name = heap[o].name
      /\ \A c \in Chats : file[c].id # Draft => file'[c].id # Draft
  <2>1. NewObject \in Objects /\ NewObject \notin DOMAIN heap
    BY NewIsNew, Stored DEF NewDraft, EnterEndpoint, Respond, NoRequest
  <2> DEFINE x == Blank(Draft)
  <2>2. x \in Session
    BY DEF Blank, Session
  <2>3. Keep(h) /\ h = With(OutgoingHeap, NewObject, x) /\ view' = NewObject /\ file' = OutgoingFile
    BY DEF NewDraft, EnterEndpoint, Respond, NoRequest
  <2> HIDE DEF h, x
  <2>5. /\ h \in Heaps /\ DOMAIN h = DOMAIN heap \cup {NewObject}
        /\ \A o \in DOMAIN heap : o # NewObject => h[o] = OutgoingHeap[o]
    BY <2>1, <2>2, <2>3, Joining
  <2> QED BY <2>1, <2>3, <2>5, Outgoing
<1> HIDE DEF h
<1> USE SessionAssumption DEF NewDraft, EnterEndpoint, Respond, NoRequest
<1>2. ControlTyped'
  BY <1>1, TypeParts, Stored DEF IInv, ControlTyped, RestState
<1>3. RefersNext(DOMAIN h)
  BY <1>1, Stored DEF IInv, WebTypeOK, Refers, RefersNext
<1>4. Frames'
  BY DEF IInv, WebTypeOK, Frames
<1>5. TurnLockIsOwned'
  BY DEF IInv, WebTypeOK, Frames, TurnLockIsOwned
<1>6. ViewLockIsOwned'
  BY DEF IInv, WebTypeOK, Frames, ViewLockIsOwned
<1>7. fresh' \subseteq Chats /\ allowed' \in [Chats -> SUBSET Chats]
  BY DEF IInv, WebTypeOK, Files
<1>8. \A t \in Sockets : loc[t] \in InTurn /\ loc'[t] \in InTurn =>
          /\ obj'[t] = obj[t]
          /\ h[obj[t]].name = heap[obj[t]].name
          /\ heap[obj[t]].name # Draft /\ Exists(heap[obj[t]].name)
             => file'[heap[obj[t]].name].id # Draft
  <2>1. \A t \in Sockets : loc[t] \in InTurn => obj[t] \in DOMAIN heap
    BY Stored
  <2>2. \A t \in Sockets : loc[t] \in InTurn /\ heap[obj[t]].name # Draft =>
            heap[obj[t]].name \in Chats
    BY <2>1, Stored DEF Session
  <2> QED BY <1>1, <2>1, <2>2 DEF Exists
<1> QED BY <1>1, <1>2, <1>3, <1>4, <1>5, <1>6, <1>7, <1>8, Kept

\* A new chat becomes the viewed chat.
LEMMA NewKeeps ==
    ASSUME IInv, NEW r \in Callers, New(r)
    PROVE  IInv' /\ ChatStays
<1> DEFINE h == With(OutgoingHeap, NewObject, Blank(rest[r].chat))
<1>1. /\ h \in Heaps /\ (Keep(h) \/ heap' = h) /\ file' \in Files
      /\ DOMAIN heap \subseteq DOMAIN h /\ view' \in DOMAIN h
      /\ \A o \in DOMAIN heap : h[o].name = heap[o].name
      /\ \A c \in Chats : file[c].id # Draft => file'[c].id # Draft
  <2>1. NewObject \in Objects /\ NewObject \notin DOMAIN heap
    BY NewIsNew, Stored DEF New, EnterEndpoint, Respond, NoRequest
  <2> DEFINE x == Blank(rest[r].chat)
  <2>2. x \in Session
    BY DEF Blank, Session, IInv, WebTypeOK, RestState
  <2>3. Keep(h) /\ h = With(OutgoingHeap, NewObject, x) /\ view' = NewObject /\ file' = SavedFile(OutgoingFile, x)
    BY DEF New, EnterEndpoint, Respond, NoRequest
  <2> HIDE DEF h, x
  <2>5. /\ h \in Heaps /\ DOMAIN h = DOMAIN heap \cup {NewObject}
        /\ \A o \in DOMAIN heap : o # NewObject => h[o] = OutgoingHeap[o]
    BY <2>1, <2>2, <2>3, Joining
  <2>6. file' \in Files /\ \A c \in Chats : OutgoingFile[c].id # Draft => file'[c].id # Draft
    BY <2>2, <2>3, Outgoing, Saving
  <2> QED BY <2>1, <2>3, <2>5, <2>6, Outgoing
<1> HIDE DEF h
<1> USE SessionAssumption DEF New, EnterEndpoint, Respond, NoRequest
<1>2. ControlTyped'
  BY <1>1, TypeParts, Stored DEF IInv, ControlTyped, RestState
<1>3. RefersNext(DOMAIN h)
  BY <1>1, Stored DEF IInv, WebTypeOK, Refers, RefersNext
<1>4. Frames'
  BY DEF IInv, WebTypeOK, Frames
<1>5. TurnLockIsOwned'
  BY DEF IInv, WebTypeOK, Frames, TurnLockIsOwned
<1>6. ViewLockIsOwned'
  BY DEF IInv, WebTypeOK, Frames, ViewLockIsOwned
<1>7. fresh' \subseteq Chats /\ allowed' \in [Chats -> SUBSET Chats]
  BY DEF IInv, WebTypeOK, Files
<1>8. \A t \in Sockets : loc[t] \in InTurn /\ loc'[t] \in InTurn =>
          /\ obj'[t] = obj[t]
          /\ h[obj[t]].name = heap[obj[t]].name
          /\ heap[obj[t]].name # Draft /\ Exists(heap[obj[t]].name)
             => file'[heap[obj[t]].name].id # Draft
  <2>1. \A t \in Sockets : loc[t] \in InTurn => obj[t] \in DOMAIN heap
    BY Stored
  <2>2. \A t \in Sockets : loc[t] \in InTurn /\ heap[obj[t]].name # Draft =>
            heap[obj[t]].name \in Chats
    BY <2>1, Stored DEF Session
  <2> QED BY <1>1, <2>1, <2>2 DEF Exists
<1> QED BY <1>1, <1>2, <1>3, <1>4, <1>5, <1>6, <1>7, <1>8, Kept

\* A saved chat becomes the viewed chat.
LEMMA ResumeKeeps ==
    ASSUME IInv, NEW r \in Callers, ResumeSession(r)
    PROVE  IInv' /\ ChatStays
<1> DEFINE h == IF OwnsRunningTurn(rest[r].chat) THEN OutgoingHeap
                ELSE With(OutgoingHeap, NewObject, Loaded(rest[r].chat))
<1>1. /\ h \in Heaps /\ (Keep(h) \/ heap' = h) /\ file' \in Files
      /\ DOMAIN heap \subseteq DOMAIN h /\ view' \in DOMAIN h
      /\ \A o \in DOMAIN heap : h[o].name = heap[o].name
      /\ \A c \in Chats : file[c].id # Draft => file'[c].id # Draft
  <2> DEFINE c == rest[r].chat
  <2>a. file' = OutgoingFile /\ file' \in Files
        /\ \A k \in Chats : file[k].id # Draft => file'[k].id # Draft
    BY Outgoing DEF ResumeSession, EnterEndpoint, Respond, NoRequest
  <2>b. CASE OwnsRunningTurn(c)
    <3>1. h = OutgoingHeap /\ Keep(h) /\ view' = running /\ running \in DOMAIN heap
      BY <2>b DEF ResumeSession, EnterEndpoint, Respond, NoRequest, OwnsRunningTurn, IInv, WebTypeOK
    <3> HIDE DEF h
    <3> QED BY <2>a, <3>1, Outgoing
  <2>c. CASE ~OwnsRunningTurn(c)
    <3>0. c \in Chats
      BY DEF IInv, WebTypeOK, RestState
    <3>1. NewObject \in Objects /\ NewObject \notin DOMAIN heap
      BY NewIsNew, Stored DEF ResumeSession, EnterEndpoint, Respond, NoRequest
    <3> DEFINE x == Loaded(c)
    <3>2. x \in Session
      BY <3>0, Making, Stored
    <3>3. Keep(h) /\ h = With(OutgoingHeap, NewObject, x) /\ view' = NewObject
      BY <2>c DEF ResumeSession, EnterEndpoint, Respond, NoRequest
    <3> HIDE DEF h, x
    <3>5. /\ h \in Heaps /\ DOMAIN h = DOMAIN heap \cup {NewObject}
          /\ \A o \in DOMAIN heap : o # NewObject => h[o] = OutgoingHeap[o]
      BY <3>1, <3>2, <3>3, Joining
    <3> QED BY <2>a, <3>1, <3>3, <3>5, Outgoing
  <2> QED BY <2>b, <2>c
<1> HIDE DEF h
<1> USE SessionAssumption DEF ResumeSession, EnterEndpoint, Respond, NoRequest
<1>2. ControlTyped'
  BY <1>1, TypeParts, Stored DEF IInv, ControlTyped, RestState
<1>3. RefersNext(DOMAIN h)
  BY <1>1, Stored DEF IInv, WebTypeOK, Refers, RefersNext
<1>4. Frames'
  BY DEF IInv, WebTypeOK, Frames
<1>5. TurnLockIsOwned'
  BY DEF IInv, WebTypeOK, Frames, TurnLockIsOwned
<1>6. ViewLockIsOwned'
  BY DEF IInv, WebTypeOK, Frames, ViewLockIsOwned
<1>7. fresh' \subseteq Chats /\ allowed' \in [Chats -> SUBSET Chats]
  BY DEF IInv, WebTypeOK, Files
<1>8. \A t \in Sockets : loc[t] \in InTurn /\ loc'[t] \in InTurn =>
          /\ obj'[t] = obj[t]
          /\ h[obj[t]].name = heap[obj[t]].name
          /\ heap[obj[t]].name # Draft /\ Exists(heap[obj[t]].name)
             => file'[heap[obj[t]].name].id # Draft
  <2>1. \A t \in Sockets : loc[t] \in InTurn => obj[t] \in DOMAIN heap
    BY Stored
  <2>2. \A t \in Sockets : loc[t] \in InTurn /\ heap[obj[t]].name # Draft =>
            heap[obj[t]].name \in Chats
    BY <2>1, Stored DEF Session
  <2> QED BY <1>1, <2>1, <2>2 DEF Exists
<1> QED BY <1>1, <1>2, <1>3, <1>4, <1>5, <1>6, <1>7, <1>8, Kept

\* A chat is renamed, and with it the viewed Session.
LEMMA RenameKeeps ==
    ASSUME IInv, NEW r \in Callers, NEW c \in Chats, Rename(r, c)
    PROVE  IInv' /\ ChatStays
<1> DEFINE moved == [file EXCEPT ![c] = file[rest[r].chat], ![rest[r].chat] = NoFile]
           x == [heap[view] EXCEPT !.name = c]
           h == IF heap[view].name = rest[r].chat
                THEN With(heap, view, SavedSession(moved, x)) ELSE heap
<1>a. rest[r].chat \in Chats /\ Exists(rest[r].chat) /\ ~OwnsRunningTurn(rest[r].chat)
      /\ ~Exists(c)
  BY NotRefused DEF IInv, WebTypeOK, RestState, Rename, EnterEndpoint, Respond, NoRequest
<1>1. /\ h \in Heaps /\ (Keep(h) \/ heap' = h) /\ file' \in Files
      /\ DOMAIN h = DOMAIN heap
      /\ \A o \in DOMAIN heap : o # view \/ heap[view].name # rest[r].chat =>
             h[o].name = heap[o].name
      /\ \A k \in Chats \ {rest[r].chat} : file[k].id # Draft => file'[k].id # Draft
  <2>1. heap[view] \in Session /\ view \in DOMAIN heap /\ view \in Objects
    BY Stored
  <2>2. /\ moved \in Files
        /\ \A k \in Chats \ {rest[r].chat} : file[k].id # Draft => moved[k].id # Draft
    BY <1>a, Stored DEF Files, NoFile, Exists
  <2>3. x \in Session
    BY <2>1 DEF Session
  <2>4. CASE heap[view].name = rest[r].chat
    <3>1. h = With(heap, view, SavedSession(moved, x)) /\ Keep(h) /\ file' = SavedFile(moved, x)
      BY <2>4 DEF Rename, EnterEndpoint, Respond, NoRequest
    <3> HIDE DEF h, x, moved
    <3>2. SavedSession(moved, x) \in Session /\ file' \in Files
          /\ \A k \in Chats : moved[k].id # Draft => file'[k].id # Draft
      BY <2>2, <2>3, <3>1, Saving
    <3>3. /\ h \in Heaps /\ DOMAIN h = DOMAIN heap \cup {view}
          /\ \A o \in DOMAIN heap : o # view => h[o] = heap[o]
      BY <2>1, <3>1, <3>2, Put
    <3> QED BY <2>1, <2>2, <2>4, <3>1, <3>2, <3>3
  <2>5. CASE heap[view].name # rest[r].chat
    BY <2>2, <2>5, Stored DEF Rename, EnterEndpoint, Respond, NoRequest
  <2> QED BY <2>4, <2>5
<1> HIDE DEF h, moved, x
<1> USE SessionAssumption DEF Rename, EnterEndpoint, Respond, NoRequest
<1>2. ControlTyped'
  BY <1>1, TypeParts, Stored DEF IInv, ControlTyped, RestState
<1>3. RefersNext(DOMAIN h)
  BY <1>1, Stored DEF IInv, WebTypeOK, Refers, RefersNext
<1>4. Frames'
  BY DEF IInv, WebTypeOK, Frames
<1>5. TurnLockIsOwned'
  BY DEF IInv, WebTypeOK, Frames, TurnLockIsOwned
<1>6. ViewLockIsOwned'
  BY DEF IInv, WebTypeOK, Frames, ViewLockIsOwned
<1>7. fresh' \subseteq Chats /\ allowed' \in [Chats -> SUBSET Chats]
  BY DEF IInv, WebTypeOK, Files
<1>8. \A t \in Sockets : loc[t] \in InTurn /\ loc'[t] \in InTurn =>
          /\ obj'[t] = obj[t]
          /\ h[obj[t]].name = heap[obj[t]].name
          /\ heap[obj[t]].name # Draft /\ Exists(heap[obj[t]].name)
             => file'[heap[obj[t]].name].id # Draft
  <2>1. \A t \in Sockets : loc[t] \in InTurn => obj[t] \in DOMAIN heap /\ obj[t] = running
    BY Stored DEF IInv, TurnLockIsOwned
  <2>2. \A t \in Sockets : loc[t] \in InTurn => heap[obj[t]].name # rest[r].chat
    BY <1>a, <2>1, Stored, SessionAssumption DEF OwnsRunningTurn
  <2>3. \A t \in Sockets : loc[t] \in InTurn /\ heap[obj[t]].name # Draft =>
            heap[obj[t]].name \in Chats \ {rest[r].chat}
    BY <2>1, <2>2, Stored DEF Session
  <2> QED BY <1>1, <2>1, <2>2, <2>3 DEF Exists
<1> QED BY <1>1, <1>2, <1>3, <1>4, <1>5, <1>6, <1>7, <1>8, Kept

\* A chat's file and its allowances go; a viewed one leaves a draft.
LEMMA DeleteKeeps ==
    ASSUME IInv, NEW r \in Callers, DeleteSession(r)
    PROVE  IInv' /\ ChatStays
<1> DEFINE h == IF heap[view].name = rest[r].chat
                THEN With(heap, NewObject, Blank(Draft)) ELSE heap
<1>a. rest[r].chat \in Chats /\ Exists(rest[r].chat) /\ ~OwnsRunningTurn(rest[r].chat)
  BY NotRefused DEF IInv, WebTypeOK, RestState, DeleteSession, EnterEndpoint, Respond, NoRequest
<1>1. /\ h \in Heaps /\ (Keep(h) \/ heap' = h) /\ file' \in Files
      /\ DOMAIN heap \subseteq DOMAIN h /\ view' \in DOMAIN h
      /\ \A o \in DOMAIN heap : h[o] = heap[o]
      /\ \A k \in Chats \ {rest[r].chat} : file'[k] = file[k]
  <2>1. NewObject \in Objects /\ NewObject \notin DOMAIN heap
    BY NewIsNew, Stored DEF DeleteSession, EnterEndpoint, Respond, NoRequest
  <2>2. file' \in Files /\ \A k \in Chats \ {rest[r].chat} : file'[k] = file[k]
    BY <1>a, Stored DEF Files, NoFile, DeleteSession, EnterEndpoint, Respond, NoRequest
  <2>3. CASE heap[view].name = rest[r].chat
    <3>1. Blank(Draft) \in Session
      BY DEF Blank, Session
    <3>2. h = With(heap, NewObject, Blank(Draft)) /\ Keep(h) /\ view' = NewObject
      BY <2>3 DEF DeleteSession, EnterEndpoint, Respond, NoRequest
    <3> HIDE DEF h
    <3>3. /\ h \in Heaps /\ DOMAIN h = DOMAIN heap \cup {NewObject}
          /\ \A o \in DOMAIN heap : o # NewObject => h[o] = heap[o]
      BY <2>1, <3>1, <3>2, Put
    <3> QED BY <2>1, <2>2, <3>2, <3>3
  <2>4. CASE heap[view].name # rest[r].chat
    BY <2>2, <2>4, Stored DEF DeleteSession, EnterEndpoint, Respond, NoRequest
  <2> QED BY <2>3, <2>4
<1> HIDE DEF h
<1> USE SessionAssumption DEF DeleteSession, EnterEndpoint, Respond, NoRequest
<1>2. ControlTyped'
  BY <1>1, TypeParts, Stored DEF IInv, ControlTyped, RestState
<1>3. RefersNext(DOMAIN h)
  BY <1>1, Stored DEF IInv, WebTypeOK, Refers, RefersNext
<1>4. Frames'
  BY DEF IInv, WebTypeOK, Frames
<1>5. TurnLockIsOwned'
  BY DEF IInv, WebTypeOK, Frames, TurnLockIsOwned
<1>6. ViewLockIsOwned'
  BY DEF IInv, WebTypeOK, Frames, ViewLockIsOwned
<1>7. fresh' \subseteq Chats /\ allowed' \in [Chats -> SUBSET Chats]
  BY DEF IInv, WebTypeOK, Files
<1>8. \A t \in Sockets : loc[t] \in InTurn /\ loc'[t] \in InTurn =>
          /\ obj'[t] = obj[t]
          /\ h[obj[t]].name = heap[obj[t]].name
          /\ heap[obj[t]].name # Draft /\ Exists(heap[obj[t]].name)
             => file'[heap[obj[t]].name].id # Draft
  <2>1. \A t \in Sockets : loc[t] \in InTurn => obj[t] \in DOMAIN heap /\ obj[t] = running
    BY Stored DEF IInv, TurnLockIsOwned
  <2>2. \A t \in Sockets : loc[t] \in InTurn => heap[obj[t]].name # rest[r].chat
    BY <1>a, <2>1, Stored, SessionAssumption DEF OwnsRunningTurn
  <2>3. \A t \in Sockets : loc[t] \in InTurn /\ heap[obj[t]].name # Draft =>
            heap[obj[t]].name \in Chats \ {rest[r].chat}
    BY <2>1, <2>2, Stored DEF Session
  <2> QED BY <1>1, <2>1, <2>2, <2>3 DEF Exists
<1> QED BY <1>1, <1>2, <1>3, <1>4, <1>5, <1>6, <1>7, <1>8, Kept

-----------------------------------------------------------------------------
(***************************************************************************)
(* The theorems                                                            *)
(***************************************************************************)
\* The invariant holds at first.
LEMMA InitIInv == WebInit => IInv
<1> SUFFICES ASSUME WebInit PROVE IInv
  OBVIOUS
<1> USE SessionAssumption DEF WebInit
<1>1. view \in Objects /\ heap \in Heaps /\ view \in DOMAIN heap
  <2>1. view \in Objects
    OBVIOUS
  <2>2. PICK c \in Saved : heap = [o \in {view} |-> Blank(c)]
    OBVIOUS
  <2>3. Blank(c) \in Session
    BY DEF Blank, Session
  <2>4. heap \in [{view} -> Session] /\ {view} \in SUBSET Objects
    BY <2>1, <2>2, <2>3
  <2> QED BY <2>4 DEF Heaps
<1>2. WebTypeOK
  BY <1>1, NoneYet DEF WebTypeOK, NoFile, Heaps
<1>3. Refers(DOMAIN heap)
  BY <1>1 DEF Refers, NoRequest
<1>4. Frames
  BY DEF Frames, NoRequest, NoFrame
<1>5. TurnLockIsOwned /\ ViewLockIsOwned
  BY DEF TurnLockIsOwned, ViewLockIsOwned, NoRequest
<1> QED BY <1>2, <1>3, <1>4, <1>5 DEF IInv

\* A step keeps the invariant, and the chats that run.
LEMMA NextKeeps == ASSUME IInv, [WebNext]_webVars PROVE IInv' /\ ChatStays
<1>1. CASE UNCHANGED webVars
  <2>1. IInv'
    BY <1>1 DEF webVars, IInv, WebTypeOK, Refers, Frames, TurnLockIsOwned, ViewLockIsOwned
  <2>2. ChatStays
    BY <1>1 DEF webVars, ChatStays, Exists
  <2> QED BY <2>1, <2>2
<1>2. ASSUME NEW s \in Sockets, User(s)
    PROVE  IInv' /\ ChatStays
  BY <1>2, ReceiveKeeps, AnswerKeeps, InterruptKeeps, CloseKeeps DEF User
<1>3. ASSUME NEW s \in Sockets, SocketWork(s)
    PROVE  IInv' /\ ChatStays
  <2>1. CASE Coroutine(s)
    BY <2>1, GetViewLockKeeps, BindViewKeeps, BindFileKeeps, BindNothingKeeps,
       ReplyKeeps, LockTurnKeeps, StartThreadKeeps, LeaveKeeps DEF Coroutine, Binding
  <2>2. CASE Handler(s)
    BY <2>2, StartHandlerKeeps, RunNewKeeps, RunResumeKeeps, RunHandlerKeeps DEF Handler
  <2>3. CASE ReadVerdict(s) \/ Release(s)
    BY <2>3, ReadVerdictKeeps, ReleaseKeeps
  <2> QED BY <1>3, <2>1, <2>2, <2>3 DEF SocketWork
<1>4. ASSUME NEW s \in Sockets,
             \/ AbortTurn(s) \/ Checkpoint(s) \/ Ask(s)
             \/ \E how \in {"done", "failed", "stopped"} : EndTurn(s, how)
      PROVE  IInv' /\ ChatStays
  BY <1>4, AbortTurnKeeps, CheckpointKeeps, AskKeeps, EndTurnKeeps
<1>5. ASSUME NEW r \in Callers, Endpoint(r)
    PROVE  IInv' /\ ChatStays
  BY <1>5, RefuseKeeps, DeleteKeeps, NewKeeps, NewDraftKeeps, ResumeKeeps, ResetKeeps,
     StartCompactKeeps, RenameKeeps, EndCompactKeeps DEF Endpoint
<1>6. ASSUME NEW r \in Callers, \E op \in Operations, c \in Chats : CallEndpoint(r, op, c)
      PROVE  IInv' /\ ChatStays
  BY <1>6, RequestKeeps
<1> QED BY <1>1, <1>2, <1>3, <1>4, <1>5, <1>6 DEF WebNext

\* The invariant holds in every reachable state.
THEOREM Invariant == WebSpec => []IInv
<1>1. IInv /\ [WebNext]_webVars => IInv'
  BY NextKeeps
<1> QED BY <1>1, InitIInv, PTL DEF WebSpec

\* Files, objects, frames, requests, locks and prompts stay typed; the viewed and
\* the running chat are live objects, whatever the handlers replace in place.
THEOREM TypeCorrect == WebSpec => []WebTypeOK
BY Invariant, PTL DEF IInv

\* Nothing keeps the turn lock after it is done, and no two of turns, commands and
\* requests have it: hand-over to the thread, failures and refusals included.
THEOREM TurnLockHasOneOwner == WebSpec => []TurnLockIsOwned
BY Invariant, PTL DEF IInv

\* The view lock belongs to a command or a compaction that is on its way, and is
\* given back on every path out.
THEOREM ViewLockHasOneOwner == WebSpec => []ViewLockIsOwned
BY Invariant, PTL DEF IInv

\* No step renames or removes the chat of a running turn, or gives the turn
\* another Session.
THEOREM RunningChatIsKept == WebSpec => RunningChatStays
<1>1. IInv /\ [WebNext]_webVars => [ChatStays]_webVars
  BY NextKeeps
<1>2. WebSpec => [][ChatStays]_webVars
  BY <1>1, Invariant, PTL DEF WebSpec
<1> QED BY <1>2, PTL DEF RunningChatStays, ChatStays
-----------------------------------------------------------------------------
(***************************************************************************)
(* The server uses its engine as SharedEngine says                         *)
(***************************************************************************)
\* An interrupt event is set for a turn that has the lock, and gone when it ends.
StopsAreTurns == \A s \in stop : loc[s] \in InTurn

\* An owner has the turn lock, and a compaction the view lock.
UsersHaveTheLock ==
    /\ Using \subseteq {lock} \ {Nobody}
    /\ Guests \subseteq {viewLock} \ {Nobody}

LEMMA UsingIsLocked == IInv => UsersHaveTheLock
<1> SUFFICES ASSUME IInv PROVE UsersHaveTheLock
  OBVIOUS
<1>1. ASSUME NEW o \in Using PROVE o = lock /\ o # Nobody
  BY <1>1, SessionAssumption DEF Using, IInv, TurnLockIsOwned
<1>2. ASSUME NEW o \in Guests PROVE o = viewLock /\ o # Nobody
  BY <1>2, SessionAssumption DEF Guests, IInv, ViewLockIsOwned
<1> QED BY <1>1, <1>2 DEF UsersHaveTheLock

\* The invariants of a step and what follows from them.
Sharing == IInv /\ StopsAreTurns /\ UsersHaveTheLock

\* The places of a frame whose turn or handler uses the engine.
Works == InTurn \cup {"executing"}

\* Nobody begins or ends to use it but, perhaps, x.
SameWork(x) ==
    /\ \A t \in Sockets \ {x} : loc'[t] \in Works <=> loc[t] \in Works
    /\ UNCHANGED rest

\* No question is asked or settled, and no turn ends but, perhaps, that of x.
NoQuestion == \A t \in Sockets : loc'[t] = "asking" <=> loc[t] = "asking"
TurnsGoOn(x) == \A t \in Sockets \ {x} : loc[t] \in InTurn => loc'[t] \in InTurn

\* A step that leaves the users, the events, the prompts and the allowances alone.
LEMMA NothingShared ==
    ASSUME Sharing, UsersHaveTheLock', NoQuestion, TurnsGoOn(Nobody),
           Using' = Using, Guests' = Guests, UNCHANGED <<stop, prompt, allowed>>
    PROVE  UNCHANGED Shared!vars /\ StopsAreTurns'
<1>1. Using' = Using /\ Guests' = Guests
  OBVIOUS
<1>2. Asking' = Asking
  BY DEF Asking, NoQuestion
<1>3. Answered' = Answered
  BY <1>2 DEF Answered
<1>4. Allowances' = Allowances
  BY DEF Allowances
<1>5. StopsAreTurns'
  BY SessionAssumption DEF Sharing, IInv, WebTypeOK, StopsAreTurns, TurnsGoOn
<1> QED BY <1>1, <1>2, <1>3, <1>4, <1>5 DEF Shared!vars

\* A step with which o begins to own the engine.
LEMMA LockShared ==
    ASSUME Sharing, UsersHaveTheLock', NoQuestion, TurnsGoOn(Nobody),
           NEW o \in Sockets \cup Callers, Using = {}, o \in Using', lock' = o,
           Guests' = Guests, UNCHANGED <<stop, prompt, allowed>>
    PROVE  Shared!Begin(o) /\ StopsAreTurns'
<1>1. Using = {} /\ Using' = {o}
  BY DEF UsersHaveTheLock
<1>2. Asking' = Asking
  BY DEF Asking, NoQuestion
<1>3. Answered' = Answered
  BY <1>2 DEF Answered
<1>4. Allowances' = Allowances
  BY DEF Allowances
<1>5. StopsAreTurns'
  BY SessionAssumption DEF Sharing, IInv, WebTypeOK, StopsAreTurns, TurnsGoOn
<1> QED BY <1>1, <1>2, <1>3, <1>4, <1>5 DEF Shared!Begin

\* A step that gives the lock up, and perhaps takes allowances back.
LEMMA UnlockShared ==
    ASSUME Sharing, UsersHaveTheLock', NoQuestion, NEW o \in Sockets \cup Callers,
           TurnsGoOn(o), lock = o, lock' = Nobody, stop' = stop \ {o},
           o \in Sockets => loc[o] # "asking", o \in Using, Guests' = Guests,
           Allowances' \in SUBSET Allowances, UNCHANGED prompt
    PROVE  Shared!End(o) /\ StopsAreTurns'
<1>1. Using = {o} /\ Using' = {}
  BY DEF Sharing, UsersHaveTheLock
<1>2. Asking' = Asking /\ o \notin Asking
  BY DEF Asking, NoQuestion
<1>3. Answered' = Answered
  BY <1>2 DEF Answered
<1>4. StopsAreTurns'
  BY DEF Sharing, IInv, WebTypeOK, StopsAreTurns, TurnsGoOn
<1> QED BY <1>1, <1>2, <1>3, <1>4 DEF Shared!End

\* Where the frames are, and the requests, says who uses the engine.
LEMMA SameUsers ==
    ASSUME SameWork(Nobody)
    PROVE  Using' = Using /\ Guests' = Guests
BY SessionAssumption DEF SameWork, Works, Using, Guests

\* Emptying a chat's allowances, or none, leaves no new one.
LEMMA Emptied ==
    ASSUME IInv, NEW c, allowed' = allowed \/ allowed' = [allowed EXCEPT ![c] = {}]
    PROVE  Allowances' \in SUBSET Allowances
<1>1. \A d \in Chats : allowed'[d] \subseteq allowed[d]
  BY DEF IInv, WebTypeOK
<1> QED BY <1>1 DEF Allowances

\* The steps of a frame that concern nobody else.
LEMMA FrameShared ==
    ASSUME Sharing, UsersHaveTheLock', NEW s \in Sockets,
           \/ \E k \in Kinds, c \in Chats \cup {Draft} : Receive(s, k, c)
           \/ GetViewLock(s) \/ Binding(s) \/ Reply(s) \/ StartThread(s) \/ Leave(s)
           \/ Checkpoint(s) \/ \E how \in {"done", "failed", "stopped"} : EndTurn(s, how)
    PROVE  UNCHANGED Shared!vars /\ StopsAreTurns'
<1>1. UNCHANGED <<rest, stop, prompt, allowed>>
  BY DEF Receive, GetViewLock, Binding, BindView, BindFile, BindNothing, Reply,
         StartThread, Leave, Checkpoint, EndTurn
<1>2. \/ UNCHANGED loc
      \/ \E to \in {"waiting", "bound", "queued", "leaving", "idle", "running", "ending"} :
            /\ loc' = [loc EXCEPT ![s] = to]
            /\ loc[s] \notin {"asking", "executing"}
            /\ loc[s] \in InTurn <=> to \in InTurn
  BY DEF Receive, GetViewLock, Binding, BindView, BindFile, BindNothing, Reply,
         StartThread, Leave, Checkpoint, EndTurn, Done
<1>3. NoQuestion /\ TurnsGoOn(Nobody)
  BY <1>2 DEF NoQuestion, TurnsGoOn, Sharing, IInv, WebTypeOK
<1>4. SameWork(Nobody)
  BY <1>1, <1>2 DEF SameWork, Works, Sharing, IInv, WebTypeOK
<1> QED BY <1>1, <1>3, <1>4, SameUsers, NothingShared

\* The steps of a frame that take the turn lock, if they get it.
LEMMA TakeShared ==
    ASSUME Sharing, UsersHaveTheLock', NEW s \in Sockets, LockTurn(s) \/ StartHandler(s)
    PROVE  [Shared!Next]_(Shared!vars) /\ StopsAreTurns'
<1>1. UNCHANGED <<rest, stop, prompt, allowed>>
  BY DEF LockTurn, StartHandler
<1>2. /\ loc[s] \in {"bound", "queued"}
      /\ \/ loc' = [loc EXCEPT ![s] = "leaving"]
         \/ /\ lock = Nobody /\ lock' = s
            /\ \E to \in {"locked", "executing"} : loc' = [loc EXCEPT ![s] = to]
  <2>1. CASE LockTurn(s)
    <3>1. loc[s] = "bound"
      BY <2>1 DEF LockTurn
    <3>2. CASE lock = Nobody
      BY <2>1, <3>1, <3>2 DEF LockTurn
    <3>3. CASE lock # Nobody
      BY <2>1, <3>1, <3>3 DEF LockTurn
    <3> QED BY <3>2, <3>3
  <2>2. CASE StartHandler(s)
    BY <2>2 DEF StartHandler
  <2> QED BY <2>1, <2>2
<1>3. NoQuestion /\ TurnsGoOn(Nobody)
  BY <1>2 DEF NoQuestion, TurnsGoOn, Sharing, IInv, WebTypeOK
<1>4. CASE loc' = [loc EXCEPT ![s] = "leaving"]
  <2>1. SameWork(Nobody)
    BY <1>1, <1>2, <1>4 DEF SameWork, Works, Sharing, IInv, WebTypeOK
  <2> QED BY <1>1, <1>3, <2>1, SameUsers, NothingShared
<1>5. CASE /\ lock = Nobody /\ lock' = s
           /\ \E to \in {"locked", "executing"} : loc' = [loc EXCEPT ![s] = to]
  <2>1. Using = {}
    BY <1>5 DEF Sharing, UsersHaveTheLock
  <2>2. s \in Using'
    BY <1>5 DEF Using, Sharing, IInv, WebTypeOK
  <2>3. Guests' = Guests
    BY <1>1 DEF Guests
  <2>4. Shared!Begin(s) /\ StopsAreTurns'
    BY <1>1, <1>3, <1>5, <2>1, <2>2, <2>3, LockShared
  <2> QED BY <2>4 DEF Shared!Next
<1> QED BY <1>2, <1>4, <1>5

\* The ends of a turn give it back.
LEMMA ReleaseShared ==
    ASSUME Sharing, UsersHaveTheLock', NEW s \in Sockets, AbortTurn(s) \/ Release(s)
    PROVE  Shared!End(s) /\ StopsAreTurns'
<1>1. /\ loc[s] \in {"locked", "ending"} /\ loc' = [loc EXCEPT ![s] = "leaving"]
      /\ lock' = Nobody /\ stop' = stop \ {s} /\ UNCHANGED <<rest, prompt, allowed>>
  BY DEF AbortTurn, Release
<1>2. lock = s
  BY <1>1 DEF Sharing, IInv, TurnLockIsOwned
<1>3. NoQuestion /\ TurnsGoOn(s)
  BY <1>1 DEF NoQuestion, TurnsGoOn, Sharing, IInv, WebTypeOK
<1>4. Allowances' \in SUBSET Allowances
  BY <1>1 DEF Allowances
<1>5. s \in Using /\ Guests' = Guests
  BY <1>1 DEF Using, Guests
<1> QED BY <1>1, <1>2, <1>3, <1>4, <1>5, UnlockShared

\* So does the end of a command's handler, which no interrupt can reach.
LEMMA HandlerShared ==
    ASSUME Sharing, UsersHaveTheLock', NEW s \in Sockets,
           RunNew(s) \/ RunResume(s) \/ \E reset \in BOOLEAN : RunHandler(s, reset)
    PROVE  Shared!End(s) /\ StopsAreTurns'
<1>1. /\ loc[s] = "executing" /\ loc' = [loc EXCEPT ![s] = "leaving"]
      /\ lock' = Nobody /\ UNCHANGED <<rest, stop, prompt>>
  BY DEF RunNew, RunResume, RunHandler, FreeLock
<1>2. lock = s
  BY <1>1 DEF Sharing, IInv, TurnLockIsOwned
<1>3. NoQuestion /\ TurnsGoOn(s)
  BY <1>1 DEF NoQuestion, TurnsGoOn, Sharing, IInv, WebTypeOK
<1>4. stop' = stop \ {s}
  BY <1>1 DEF Sharing, StopsAreTurns
<1>5. \E c : allowed' = allowed \/ allowed' = [allowed EXCEPT ![c] = {}]
  BY DEF RunNew, RunResume, RunHandler
<1>6. Allowances' \in SUBSET Allowances
  BY <1>5, Emptied DEF Sharing
<1>7. s \in Using /\ Guests' = Guests
  BY <1>1 DEF Using, Guests
<1> QED BY <1>1, <1>2, <1>3, <1>4, <1>6, <1>7, UnlockShared

\* The question of a turn is asked, answered and settled.
LEMMA QuestionShared ==
    ASSUME Sharing, UsersHaveTheLock', NEW s \in Sockets,
           Ask(s) \/ ReadVerdict(s) \/ \E v \in {"settled", "session"} : Answer(s, v)
    PROVE  [Shared!Next]_(Shared!vars) /\ StopsAreTurns'
<1>1. /\ loc[s] \in InTurn /\ UNCHANGED <<rest, stop>>
      /\ \E to \in InTurn : loc' = [loc EXCEPT ![s] = to] \/ loc' = loc
  BY DEF Ask, ReadVerdict, Answer
<1>2. lock = s
  BY <1>1 DEF Sharing, IInv, TurnLockIsOwned
<1>3. Using = {s} /\ Using' = Using /\ Guests' = Guests /\ UNCHANGED stop
  <2>1. SameWork(Nobody)
    BY <1>1 DEF SameWork, Works, Sharing, IInv, WebTypeOK
  <2>2. s \in Using /\ Using \subseteq {s}
    BY <1>1, <1>2 DEF Using, Sharing, UsersHaveTheLock
  <2> QED BY <1>1, <2>1, <2>2, SameUsers
<1>4. \A t \in Sockets : t # s => loc[t] # "asking"
  BY <1>2 DEF Sharing, IInv, TurnLockIsOwned
<1>5. CASE Ask(s)
  <2>1. /\ loc[s] = "running" /\ loc' = [loc EXCEPT ![s] = "asking"]
        /\ prompt' = [prompt EXCEPT ![s] = "waiting"] /\ UNCHANGED allowed
    BY <1>5 DEF Ask
  <2>2. Asking = {} /\ Asking' = {s}
    BY <1>4, <2>1 DEF Asking, Sharing, IInv, WebTypeOK
  <2>3. Answered = {} /\ Answered' = {}
    BY <2>1, <2>2 DEF Answered, Sharing, IInv, WebTypeOK
  <2>4. Allowances' = Allowances
    BY <2>1 DEF Allowances
  <2>5. StopsAreTurns'
    BY <1>3, <2>1 DEF StopsAreTurns, Sharing, IInv, WebTypeOK
  <2> QED BY <1>3, <2>2, <2>3, <2>4, <2>5 DEF Shared!Next, Shared!Ask
<1>6. ASSUME NEW v \in {"settled", "session"}, Answer(s, v)
      PROVE  [Shared!Next]_(Shared!vars) /\ StopsAreTurns'
  <2>1. /\ loc[s] = "asking" /\ prompt' = [prompt EXCEPT ![s] = v]
        /\ UNCHANGED <<loc, allowed>>
    BY <1>6 DEF Answer
  <2>2. Asking = {s} /\ Asking' = Asking
    BY <1>4, <2>1 DEF Asking
  <2>3. Answered' = {s}
    BY <2>1, <2>2 DEF Answered, Sharing, IInv, WebTypeOK
  <2>4. Answered' = Answered \cup {s}
    BY <2>2, <2>3 DEF Answered
  <2>5. Allowances' = Allowances
    BY <2>1 DEF Allowances
  <2>6. StopsAreTurns'
    BY <1>3, <2>1 DEF StopsAreTurns, Sharing
  <2> QED BY <1>3, <2>2, <2>4, <2>5, <2>6 DEF Shared!Next, Shared!Answer
<1>7. CASE ReadVerdict(s)
  <2>1. /\ loc[s] = "asking" /\ loc' = [loc EXCEPT ![s] = "running"]
    BY <1>7 DEF ReadVerdict
  <2>2. Asking = {s} /\ Asking' = {}
    BY <1>4, <2>1 DEF Asking, Sharing, IInv, WebTypeOK
  <2>3. Answered' = {}
    BY <2>2 DEF Answered
  <2>4. \/ allowed' = allowed
        \/ /\ prompt[s] = "session" /\ frame[s].chat \in Chats
           /\ allowed' = [allowed EXCEPT ![frame[s].chat] =
                             @ \cup ({Identity(heap[obj[s]])} \ {Draft})]
    BY <1>7 DEF ReadVerdict, Sharing, IInv, WebTypeOK, Frame
  <2>5. \/ Allowances' = Allowances
        \/ s \in Answered /\ \E a \in Chats \X Chats : Allowances' = Allowances \cup {a}
    <3>1. CASE allowed' = allowed
      BY <3>1 DEF Allowances
    <3>2. CASE allowed' # allowed
      <4> DEFINE c == frame[s].chat
                 i == Identity(heap[obj[s]])
      <4>1. /\ prompt[s] = "session" /\ c \in Chats
            /\ allowed' = [allowed EXCEPT ![c] = @ \cup ({i} \ {Draft})]
        BY <2>4, <3>2
      <4>2. allowed \in [Chats -> SUBSET Chats] /\ allowed' \in [Chats -> SUBSET Chats]
        <5>1. IInv'
          BY <1>7, ReadVerdictKeeps DEF Sharing
        <5> QED BY <5>1 DEF Sharing, IInv, WebTypeOK
      <4> HIDE DEF c, i
      <4>3. allowed'[c] = allowed[c] \cup {i} /\ i \in Chats
        BY <3>2, <4>1, <4>2
      <4>4. Allowances' = Allowances \cup {<<c, i>>}
        <5>1. \A d \in Chats : d # c => allowed'[d] = allowed[d]
          BY <4>1, <4>2
        <5> QED BY <4>1, <4>3, <5>1 DEF Allowances
      <4>5. s \in Answered
        BY <2>2, <4>1 DEF Answered
      <4> QED BY <4>1, <4>3, <4>4, <4>5
    <3> QED BY <3>1, <3>2
  <2>6. StopsAreTurns'
    BY <1>3, <2>1 DEF StopsAreTurns, Sharing, IInv, WebTypeOK
  <2> QED BY <1>3, <2>2, <2>3, <2>5, <2>6 DEF Shared!Next, Shared!Settle
<1> QED BY <1>5, <1>6, <1>7

\* A user's stop reaches a turn that runs; leaving answers what it asked as well.
LEMMA TellShared ==
    ASSUME Sharing, UsersHaveTheLock', NEW s \in Sockets, Interrupt(s) \/ CloseSocket(s)
    PROVE  [Shared!Next]_(Shared!vars) /\ StopsAreTurns'
<1>1. /\ UNCHANGED <<rest, lock, loc, allowed>>
      /\ \/ loc[s] \in InTurn /\ stop' = stop \cup {s}
         \/ loc[s] \notin InTurn /\ UNCHANGED stop
      /\ \A t \in Sockets : t # s => prompt'[t] = prompt[t]
      /\ \/ prompt'[s] = prompt[s]
         \/ prompt[s] = "waiting" /\ prompt'[s] = "settled"
  BY DEF Interrupt, CloseSocket, Sharing, IInv, WebTypeOK
<1>2. /\ Asking' = Asking /\ Allowances' = Allowances
      /\ Using' = Using /\ Guests' = Guests
  BY <1>1 DEF Asking, Allowances, Using, Guests
<1>3. StopsAreTurns'
  BY <1>1 DEF StopsAreTurns, Sharing
<1>4. CASE loc[s] \in InTurn
  <2>1. lock = s
    BY <1>4 DEF Sharing, IInv, TurnLockIsOwned
  <2>2. s \in Using
    BY <1>4 DEF Using
  <2>3. \A t \in Asking : t = s
    BY <2>1 DEF Asking, Sharing, IInv, TurnLockIsOwned
  <2>4. Answered' \in {Answered, Asking}
    BY <1>1, <1>2, <2>3 DEF Answered
  <2>5. stop' = stop \cup {s}
    BY <1>1, <1>4
  <2> QED BY <1>2, <1>3, <2>2, <2>4, <2>5 DEF Shared!Next, Shared!Tell
<1>5. CASE loc[s] \notin InTurn
  <2>1. s \notin Asking /\ UNCHANGED stop
    BY <1>1, <1>5 DEF Asking
  <2>2. Answered' = Answered
    BY <1>1, <1>2, <2>1 DEF Answered, Asking
  <2> QED BY <1>2, <1>3, <2>1, <2>2 DEF Shared!vars
<1> QED BY <1>4, <1>5

\* A request that is not compacting before a step nor after it uses nothing.
LEMMA RequestShared ==
    ASSUME Sharing, NEW r \in Callers, UNCHANGED loc,
           \A q \in Callers \ {r} : rest'[q] = rest[q],
           rest[r].at # "compacting", rest'[r].at # "compacting"
    PROVE  Using' = Using /\ Guests' = Guests
BY DEF Using, Guests

\* The middleware lets a request pass, with the lock or without.
LEMMA CallShared ==
    ASSUME Sharing, UsersHaveTheLock', NEW r \in Callers, NEW op \in Operations,
           NEW c \in Chats, CallEndpoint(r, op, c)
    PROVE  [Shared!Next]_(Shared!vars) /\ StopsAreTurns'
<1>0. rest \in [Callers -> RestState]
  BY DEF Sharing, IInv, WebTypeOK
<1>1. /\ UNCHANGED <<loc, stop, prompt, allowed>>
      /\ rest[r].at = "idle"
      /\ \A q \in Callers \ {r} : rest'[q] = rest[q]
  BY <1>0 DEF CallEndpoint
<1>4. rest'[r].at = "waiting"
  <2>1. rest'[r] = Sent(op, c, ~(running # Nobody \/ viewLock # Nobody))
    BY <1>0 DEF CallEndpoint, NoRequest, Sent
  <2> QED BY <2>1 DEF Sent
<1>2. NoQuestion /\ TurnsGoOn(Nobody)
  BY <1>1 DEF NoQuestion, TurnsGoOn
<1>3. Using' = Using /\ Guests' = Guests
  BY <1>1, <1>4, RequestShared
<1> QED BY <1>1, <1>2, <1>3, NothingShared

\* A request that is answered without a model call may take allowances back.
LEMMA RespondShared ==
    ASSUME Sharing, UsersHaveTheLock', NEW r \in Callers, Respond(r),
           rest[r].at = "waiting",
           \E c : allowed' = allowed \/ allowed' = [allowed EXCEPT ![c] = {}]
    PROVE  [Shared!Next]_(Shared!vars) /\ StopsAreTurns'
<1>0. NoRequest.at = "idle" /\ rest \in [Callers -> RestState]
  BY DEF NoRequest, Sharing, IInv, WebTypeOK
<1>1. /\ UNCHANGED <<loc, stop, prompt>>
      /\ rest'[r].at = "idle"
      /\ \A q \in Callers \ {r} : rest'[q] = rest[q]
  BY <1>0 DEF Respond
<1>2. Allowances' \in SUBSET Allowances
  BY Emptied DEF Sharing
<1>3. Using' = Using /\ Guests' = Guests
  BY <1>1, RequestShared
<1>4. Asking' = Asking /\ Answered' = Answered /\ StopsAreTurns'
  BY <1>1 DEF Asking, Answered, Sharing, StopsAreTurns
<1> QED BY <1>1, <1>2, <1>3, <1>4 DEF Shared!Next, Shared!Revoke

\* Nobody uses the engine when a compaction begins: not a turn, which it tests for;
\* not a command nor another compaction, which have the view lock.
LEMMA NobodyUses ==
    ASSUME Sharing, NEW r \in Callers, rest[r].at # "compacting",
           running = Nobody, viewLock = Nobody
    PROVE  Using = {} /\ Guests = {}
<1>1. ASSUME NEW s \in Sockets PROVE loc[s] \notin Works
  <2>1. loc[s] \in InTurn => running = obj[s] /\ obj[s] # Nobody
    BY DEF Sharing, IInv, TurnLockIsOwned, Frames
  <2>2. loc[s] = "executing" => viewLock = s
    BY DEF Sharing, IInv, ViewLockIsOwned, Frames
  <2> QED BY <2>1, <2>2, SessionAssumption DEF Works
<1>2. ASSUME NEW q \in Callers PROVE rest[q].at # "compacting"
  BY SessionAssumption DEF Sharing, IInv, ViewLockIsOwned
<1> QED BY <1>1, <1>2 DEF Using, Guests, Works

\* A compaction begins: it owns the engine if it has the turn lock.
LEMMA CompactShared ==
    ASSUME Sharing, UsersHaveTheLock', NEW r \in Callers, StartCompact(r)
    PROVE  [Shared!Next]_(Shared!vars) /\ StopsAreTurns'
<1>1. /\ UNCHANGED <<lock, loc, stop, prompt, allowed>>
      /\ rest[r].at = "waiting" /\ rest[r].op = "compact"
      /\ viewLock = Nobody /\ running = Nobody /\ viewLock' = r
      /\ rest' = [rest EXCEPT ![r] = [rest[r] EXCEPT !.at = "compacting", !.obj = view,
                                         !.kept = heap[view].msgs]]
  BY DEF StartCompact, EnterEndpoint, Refused, Sharing, IInv, WebTypeOK
<1>2. rest'[r].at = "compacting" /\ rest'[r].holds = rest[r].holds
  BY <1>1 DEF Sharing, IInv, WebTypeOK, RestState
<1>3. Using = {} /\ Guests = {}
  BY <1>1, NobodyUses
<1>4. NoQuestion /\ TurnsGoOn(Nobody)
  BY <1>1 DEF NoQuestion, TurnsGoOn
<1>5. CASE rest[r].holds
  <2>1. r \in Using' /\ lock' = r
    BY <1>1, <1>2, <1>5 DEF Using, Sharing, IInv, TurnLockIsOwned
  <2>2. Guests' = {}
    BY <1>1, <1>2, <1>5 DEF UsersHaveTheLock, Guests
  <2>3. Shared!Begin(r) /\ StopsAreTurns'
    BY <1>1, <1>3, <1>4, <2>1, <2>2, LockShared
  <2> QED BY <2>3 DEF Shared!Next
<1>6. CASE ~rest[r].holds
  <2>1. Guests' = {r}
    <3>1. r \in Guests'
      BY <1>2, <1>6 DEF Guests
    <3> QED BY <1>1, <3>1 DEF UsersHaveTheLock
  <2>2. Using' = {}
    <3>1. \A q \in Callers : q # r => rest'[q] = rest[q]
      BY <1>1 DEF Sharing, IInv, WebTypeOK
    <3> QED BY <1>1, <1>2, <1>3, <1>6, <3>1 DEF Using
  <2>3. UNCHANGED <<Asking, Answered, Allowances>> /\ StopsAreTurns'
    BY <1>1 DEF Asking, Answered, Allowances, Sharing, StopsAreTurns
  <2>4. Shared!Enter(r)
    BY <1>1, <1>3, <2>1, <2>2, <2>3 DEF Shared!Enter
  <2> QED BY <2>3, <2>4 DEF Shared!Next
<1> QED BY <1>5, <1>6

\* And it ends, as what it was.
LEMMA CompactedShared ==
    ASSUME Sharing, UsersHaveTheLock', NEW r \in Callers, NEW ok \in BOOLEAN,
           EndCompact(r, ok)
    PROVE  [Shared!Next]_(Shared!vars) /\ StopsAreTurns'
<1>1. /\ UNCHANGED <<loc, stop, prompt, allowed>>
      /\ rest[r].at = "compacting" /\ viewLock' = Nobody
      /\ rest' = [rest EXCEPT ![r] = NoRequest]
      /\ lock' = IF rest[r].holds THEN Nobody ELSE lock
  BY DEF EndCompact, Respond
<1>2. rest'[r].at = "idle" /\ \A q \in Callers : q # r => rest'[q] = rest[q]
  BY <1>1 DEF Sharing, IInv, WebTypeOK, NoRequest
<1>3. NoQuestion /\ TurnsGoOn(r)
  BY <1>1 DEF NoQuestion, TurnsGoOn
<1>4. Guests' = {}
  BY <1>1 DEF UsersHaveTheLock
<1>5. viewLock = r
  BY <1>1 DEF Sharing, IInv, ViewLockIsOwned
<1>6. CASE rest[r].holds
  <2>1. lock = r /\ lock' = Nobody /\ r \in Using
    BY <1>1, <1>6 DEF Using, Sharing, IInv, TurnLockIsOwned
  <2>2. stop' = stop \ {r} /\ r \notin Sockets
    BY <1>1, SessionAssumption DEF Sharing, IInv, WebTypeOK
  <2>3. Guests = {}
    BY <1>5, <1>6 DEF Guests, Sharing, UsersHaveTheLock
  <2>4. Allowances' \in SUBSET Allowances
    BY <1>1 DEF Allowances
  <2>5. Shared!End(r) /\ StopsAreTurns'
    BY <1>1, <1>3, <1>4, <2>1, <2>2, <2>3, <2>4, UnlockShared
  <2> QED BY <2>5 DEF Shared!Next
<1>7. CASE ~rest[r].holds
  <2>1. Guests = {r}
    BY <1>1, <1>5, <1>7 DEF Guests, Sharing, UsersHaveTheLock
  <2>2. Using' = Using
    BY <1>1, <1>2, <1>7 DEF Using
  <2>3. UNCHANGED <<Asking, Answered, Allowances>> /\ StopsAreTurns'
    BY <1>1 DEF Asking, Answered, Allowances, Sharing, StopsAreTurns
  <2>4. Shared!Depart(r)
    BY <1>1, <1>4, <2>1, <2>2, <2>3 DEF Shared!Depart
  <2> QED BY <2>3, <2>4 DEF Shared!Next
<1> QED BY <1>6, <1>7

\* Every endpoint answers at once, or compacts.
LEMMA EndpointShared ==
    ASSUME Sharing, UsersHaveTheLock', NEW r \in Callers, Endpoint(r)
    PROVE  [Shared!Next]_(Shared!vars) /\ StopsAreTurns'
<1>1. CASE StartCompact(r)
  BY <1>1, CompactShared
<1>2. CASE \/ Refuse(r) \/ New(r) \/ NewDraft(r) \/ ResumeSession(r)
           \/ \E c \in Chats : Rename(r, c)
  <2>1. Respond(r) /\ allowed' = allowed /\ rest[r].at = "waiting"
    BY <1>2 DEF Refuse, New, NewDraft, ResumeSession, Rename, EnterEndpoint
  <2> QED BY <2>1, RespondShared
<1>3. CASE DeleteSession(r) \/ Reset(r)
  <2>1. /\ Respond(r) /\ rest[r].at = "waiting"
        /\ \E c : allowed' = allowed \/ allowed' = [allowed EXCEPT ![c] = {}]
    BY <1>3 DEF DeleteSession, Reset, EnterEndpoint
  <2> QED BY <2>1, RespondShared
<1>4. CASE \E ok \in BOOLEAN : EndCompact(r, ok)
  BY <1>4, CompactedShared
<1> QED BY <1>1, <1>2, <1>3, <1>4 DEF Endpoint

\* Every step of the server is one of SharedEngine's, or a stutter.
LEMMA SharedStep ==
    ASSUME Sharing, UsersHaveTheLock', [WebNext]_webVars
    PROVE  [Shared!Next]_(Shared!vars) /\ StopsAreTurns'
<1>1. CASE UNCHANGED webVars
  <2>1. UNCHANGED <<rest, loc, stop, prompt, allowed>>
    BY <1>1 DEF webVars
  <2>2. NoQuestion /\ TurnsGoOn(Nobody)
    BY <2>1 DEF NoQuestion, TurnsGoOn
  <2>3. SameWork(Nobody)
    BY <2>1 DEF SameWork
  <2> QED BY <2>1, <2>2, <2>3, SameUsers, NothingShared
<1>2. ASSUME NEW s \in Sockets, User(s)
      PROVE  [Shared!Next]_(Shared!vars) /\ StopsAreTurns'
  BY <1>2, FrameShared, QuestionShared, TellShared DEF User
<1>3. ASSUME NEW s \in Sockets, SocketWork(s)
      PROVE  [Shared!Next]_(Shared!vars) /\ StopsAreTurns'
  <2>1. CASE Coroutine(s)
    BY <2>1, FrameShared, TakeShared DEF Coroutine
  <2>2. CASE StartHandler(s)
    BY <2>2, TakeShared
  <2>3. CASE Handler(s) /\ ~StartHandler(s)
    <3>1. Shared!End(s) /\ StopsAreTurns'
      BY <2>3, HandlerShared DEF Handler
    <3> QED BY <3>1 DEF Shared!Next
  <2>4. CASE ReadVerdict(s)
    BY <2>4, QuestionShared
  <2>5. CASE Release(s)
    BY <2>5, ReleaseShared DEF Shared!Next
  <2> QED BY <1>3, <2>1, <2>2, <2>3, <2>4, <2>5 DEF SocketWork
<1>4. ASSUME NEW s \in Sockets,
             \/ Checkpoint(s) \/ Ask(s)
             \/ \E how \in {"done", "failed", "stopped"} : EndTurn(s, how)
      PROVE  [Shared!Next]_(Shared!vars) /\ StopsAreTurns'
  BY <1>4, FrameShared, QuestionShared
<1>5. ASSUME NEW s \in Sockets, AbortTurn(s)
      PROVE  [Shared!Next]_(Shared!vars) /\ StopsAreTurns'
  BY <1>5, ReleaseShared DEF Shared!Next
<1>6. ASSUME NEW r \in Callers, Endpoint(r)
      PROVE  [Shared!Next]_(Shared!vars) /\ StopsAreTurns'
  BY <1>6, EndpointShared
<1>7. ASSUME NEW r \in Callers, \E op \in Operations, c \in Chats : CallEndpoint(r, op, c)
      PROVE  [Shared!Next]_(Shared!vars) /\ StopsAreTurns'
  BY <1>7, CallShared
<1> QED BY <1>1, <1>2, <1>3, <1>4, <1>5, <1>6, <1>7 DEF WebNext

\* The server's turns, commands and compactions implement SharedEngine, for any
\* number of tabs and clients, chats and Session objects: one of those that have the
\* turn lock owns the engine at a time; a compaction without it, which begins only
\* while nobody uses the engine, is a guest that a turn may join; an interrupt and a
\* prompt are the running turn's and end with it, and an allowance follows an answer
\* to its prompt.
THEOREM SharesEngine == WebSpec => SharesTheEngine
<1>1. WebInit => Shared!Init /\ StopsAreTurns
  BY DEF WebInit, Shared!Init, Using, Guests, Asking, Answered, Allowances, StopsAreTurns, NoRequest
<1>2. Sharing /\ UsersHaveTheLock' /\ [WebNext]_webVars
      => [Shared!Next]_(Shared!vars) /\ StopsAreTurns'
  BY SharedStep
<1>3. Sharing <=> IInv /\ StopsAreTurns /\ UsersHaveTheLock
  BY DEF Sharing
<1>4. WebSpec => []StopsAreTurns
  BY <1>1, <1>2, <1>3, UsingIsLocked, Invariant, PTL DEF WebSpec
<1> QED
  BY <1>1, <1>2, <1>3, <1>4, UsingIsLocked, Invariant, PTL
     DEF WebSpec, SharesTheEngine, Shared!Spec

\* In one state: one of them owns the engine, with at most one compaction beside it;
\* the interrupt and the question are the owner's.
THEOREM SharedSoundly == WebSpec => []Shared!Sound
<1>1. WebInit => StopsAreTurns
  BY DEF WebInit, StopsAreTurns
<1>2. Sharing /\ UsersHaveTheLock' /\ [WebNext]_webVars => StopsAreTurns'
  BY SharedStep
<1>3. Sharing <=> IInv /\ StopsAreTurns /\ UsersHaveTheLock
  BY DEF Sharing
<1>4. WebSpec => []Sharing
  BY <1>1, <1>2, <1>3, UsingIsLocked, Invariant, PTL DEF WebSpec
<1>5. Sharing => Shared!Sound
  <2> SUFFICES ASSUME Sharing PROVE Shared!Sound
    OBVIOUS
  <2>1. \A o, p \in Using : o = p
    BY DEF Sharing, UsersHaveTheLock
  <2>2. \A o, p \in Guests : o = p
    BY DEF Sharing, UsersHaveTheLock
  <2>3. Using \cap Guests = {}
    BY SessionAssumption DEF Using, Guests
  <2>4. stop \subseteq Using /\ Answered \subseteq Asking /\ Asking \subseteq Using
    BY DEF Sharing, StopsAreTurns, Using, Asking, Answered, IInv, WebTypeOK
  <2> QED BY <2>1, <2>2, <2>3, <2>4 DEF Shared!Sound
<1> QED BY <1>4, <1>5, PTL

-----------------------------------------------------------------------------
(***************************************************************************)
(* Compaction                                                              *)
(***************************************************************************)
\* A compaction under the turn lock has what its Session still holds.
Exact(r) ==
    rest[r].at = "compacting" /\ rest[r].holds => rest[r].kept = heap[rest[r].obj].msgs
Exactly == \A r \in Callers : Exact(r)

\* The Session o has the messages that it had.
SameMessages(o) == o \in DOMAIN heap' => heap'[o].msgs = heap[o].msgs

LEMMA StepIsSame ==
    ASSUME IInv, NEW o \in DOMAIN heap,
           \/ UNCHANGED heap
           \/ Keep(heap)
           \/ \E p, x : Keep(With(heap, p, x)) /\ (p # o \/ x.msgs = heap[o].msgs)
    PROVE  SameMessages(o)
BY DEF SameMessages, Keep, With

\* What a compaction under the turn lock keeps out: turns, handlers and other
\* requests, and commands, which need the view lock.
LEMMA NobodyElse ==
    ASSUME IInv, NEW r \in Callers, rest[r].at = "compacting", rest[r].holds
    PROVE  /\ lock = r /\ viewLock = r
           /\ \A s \in Sockets : loc[s] \notin InTurn \cup {"queued", "executing"}
           /\ \A s \in Sockets : loc[s] \in {"bound", "leaving"} => frame[s].kind \in {"chat", "plan"}
           /\ rest[r].obj \in DOMAIN heap
<1>1. lock = r /\ viewLock = r
  BY DEF IInv, TurnLockIsOwned, ViewLockIsOwned
<1>2. r \notin Sockets
  BY SessionAssumption
<1>3. \A s \in Sockets : frame[s].kind \in {"chat", "plan"} \cup Commands
  BY SessionAssumption DEF IInv, WebTypeOK, Frame
<1>4. ASSUME NEW s \in Sockets
      PROVE  /\ loc[s] \notin InTurn \cup {"queued", "executing"}
             /\ loc[s] \in {"bound", "leaving"} => frame[s].kind \in {"chat", "plan"}
  <2>1. lock # s /\ viewLock # s
    BY <1>1, <1>2
  <2>2. loc[s] \notin InTurn \cup {"executing"}
    BY <2>1 DEF IInv, TurnLockIsOwned
  <2>3. loc[s] \in {"bound", "queued", "leaving"} => frame[s].kind \notin Commands
    BY <2>1 DEF IInv, ViewLockIsOwned
  <2>4. loc[s] # "queued"
    BY <2>3 DEF IInv, Frames
  <2> QED BY <1>3, <2>2, <2>3, <2>4
<1> QED BY <1>1, <1>4, Stored

\* A request is compacting because it was, or because it has begun to.
LEMMA Begins ==
    ASSUME IInv, [WebNext]_webVars, NEW r \in Callers, rest'[r].at = "compacting"
    PROVE  rest'[r] = rest[r] \/ (rest[r].at = "waiting" /\ StartCompact(r))
<1>0. rest \in [Callers -> RestState]
  BY DEF IInv, WebTypeOK
<1>1. \/ UNCHANGED rest
      \/ \E q \in Callers : StartCompact(q) \/ Respond(q)
      \/ \E q \in Callers, op \in Operations, c \in Chats : CallEndpoint(q, op, c)
  <2>1. CASE \E s \in Sockets :
               \/ User(s) \/ SocketWork(s) \/ AbortTurn(s) \/ Checkpoint(s) \/ Ask(s)
               \/ \E how \in {"done", "failed", "stopped"} : EndTurn(s, how)
    BY <2>1 DEF User, Receive, Answer, Interrupt, CloseSocket, SocketWork,
                Coroutine, GetViewLock, Binding, BindView, BindNothing, BindFile, Reply, LockTurn,
                StartThread, Leave, Handler, StartHandler, RunNew, RunResume, RunHandler, FreeLock,
                ReadVerdict, Release, AbortTurn, Checkpoint, Ask, EndTurn
  <2>2. CASE \E q \in Callers : Endpoint(q)
    BY <2>2 DEF Endpoint, Refuse, DeleteSession, New, NewDraft, ResumeSession, Reset,
                Rename, EndCompact
  <2>3. CASE UNCHANGED webVars
    BY <2>3 DEF webVars
  <2> QED BY <2>1, <2>2, <2>3 DEF WebNext
<1>2. ASSUME NEW q \in Callers, Respond(q) PROVE rest'[r] = rest[r]
  <2>1. rest' = [rest EXCEPT ![q] = NoRequest]
    BY <1>2 DEF Respond
  <2> QED BY <1>0, <2>1 DEF NoRequest
<1>3. ASSUME NEW q \in Callers, StartCompact(q)
      PROVE  rest'[r] = rest[r] \/ (rest[r].at = "waiting" /\ StartCompact(r))
  <2>1. rest[q].at = "waiting" /\ \E x : rest' = [rest EXCEPT ![q] = x]
    BY <1>3 DEF StartCompact, EnterEndpoint
  <2>2. q = r \/ rest'[r] = rest[r]
    BY <1>0, <2>1
  <2> QED BY <1>3, <2>1, <2>2
<1>4. ASSUME NEW q \in Callers, NEW op \in Operations, NEW c \in Chats, CallEndpoint(q, op, c)
      PROVE  rest'[r] = rest[r]
  <2>1. rest' = [rest EXCEPT ![q] = [NoRequest EXCEPT !.at = "waiting", !.op = op, !.chat = c,
                                         !.holds = ~(running # Nobody \/ viewLock # Nobody)]]
    BY <1>4 DEF CallEndpoint
  <2> QED BY <1>0, <2>1 DEF NoRequest
<1> QED BY <1>1, <1>2, <1>3, <1>4

\* Until it is over the Session's messages stay what they are.
LEMMA HeldStill ==
    ASSUME IInv, NEW r \in Callers, rest[r].at = "compacting", rest[r].holds,
           [WebNext]_webVars, rest'[r] = rest[r]
    PROVE  SameMessages(rest[r].obj)
<1> DEFINE o == rest[r].obj
<1>0. /\ lock = r /\ viewLock = r /\ lock # Nobody /\ viewLock # Nobody
      /\ \A s \in Sockets : loc[s] \notin InTurn \cup {"queued", "executing"}
      /\ \A s \in Sockets : loc[s] \in {"bound", "leaving"} => frame[s].kind \in {"chat", "plan"}
      /\ o \in DOMAIN heap
  BY NobodyElse, SessionAssumption
<1>1. CASE UNCHANGED webVars
  BY <1>0, <1>1, StepIsSame DEF webVars
<1>2. ASSUME NEW s \in Sockets, User(s) PROVE SameMessages(o)
  <2>1. UNCHANGED heap
    BY <1>2 DEF User, Receive, Answer, Interrupt, CloseSocket
  <2> QED BY <1>0, <2>1, StepIsSame
<1>3. ASSUME NEW s \in Sockets, Coroutine(s) PROVE SameMessages(o)
  <2>1. CASE GetViewLock(s) \/ BindView(s) \/ BindNothing(s) \/ Reply(s)
    <3>1. UNCHANGED heap
      BY <2>1 DEF GetViewLock, BindView, BindNothing, Reply
    <3> QED BY <1>0, <3>1, StepIsSame
  <2>2. CASE \E c \in Chats : BindFile(s, c)
    <3>1. PICK c \in Chats : BindFile(s, c)
      BY <2>2
    <3>2. Keep(With(heap, NewObject, Loaded(c))) /\ NewObject \notin DOMAIN heap
      BY <3>1, NewIsNew, Stored DEF BindFile
    <3> QED BY <1>0, <3>2, StepIsSame
  <2>3. CASE LockTurn(s)
    BY <1>0, <2>3, StepIsSame DEF LockTurn
  <2>4. CASE StartThread(s)
    BY <1>0, <2>4 DEF StartThread
  <2>5. CASE Leave(s)
    <3>1. frame[s].kind \in {"chat", "plan"}
      BY <1>0, <2>5 DEF Leave
    <3>2. Keep(heap) \/ Keep(With(heap, obj[s], SavedSession(file, heap[obj[s]])))
      BY <2>5, <3>1 DEF Leave
    <3>3. obj[s] \in DOMAIN heap /\ heap[obj[s]] \in Session
      BY <2>5, Stored DEF Leave
    <3>4. SavedSession(file, heap[obj[s]]).msgs = heap[obj[s]].msgs
      BY <3>3 DEF SavedSession, Session
    <3> QED BY <1>0, <3>2, <3>4, StepIsSame
  <2> QED BY <1>3, <2>1, <2>2, <2>3, <2>4, <2>5 DEF Coroutine, Binding
<1>4. ASSUME NEW s \in Sockets
      PROVE  ~ \/ Handler(s) \/ ReadVerdict(s) \/ Release(s) \/ AbortTurn(s) \/ Checkpoint(s) \/ Ask(s)
               \/ \E how \in {"done", "failed", "stopped"} : EndTurn(s, how)
  BY <1>0 DEF Handler, StartHandler, RunNew, RunResume, RunHandler, FreeLock, ReadVerdict,
              Release, AbortTurn, Checkpoint, Ask, EndTurn
<1>5. ASSUME NEW q \in Callers, Endpoint(q) PROVE FALSE
  <2>1. PICK ok \in BOOLEAN : EndCompact(q, ok)
    BY <1>0, <1>5 DEF Endpoint, EnterEndpoint, Refuse, DeleteSession, New, NewDraft,
                      ResumeSession, Reset, StartCompact, Rename
  <2>2. q = r
    BY <1>0, <2>1 DEF EndCompact, IInv, ViewLockIsOwned
  <2>3. rest'[r] = NoRequest
    BY <2>1, <2>2 DEF EndCompact, Respond, IInv, WebTypeOK
  <2> QED BY <2>3 DEF NoRequest
<1>6. ASSUME NEW q \in Callers, \E op \in Operations, c \in Chats : CallEndpoint(q, op, c)
      PROVE  SameMessages(o)
  <2>1. UNCHANGED heap
    BY <1>6 DEF CallEndpoint
  <2> QED BY <1>0, <2>1, StepIsSame
<1> QED BY <1>1, <1>2, <1>3, <1>4, <1>5, <1>6 DEF WebNext, SocketWork

\* It begins with the messages that are there.
LEMMA BegunExactly ==
    ASSUME IInv, IInv', NEW r \in Callers, StartCompact(r)
    PROVE  rest'[r].kept = heap'[rest'[r].obj].msgs
<1>1. rest \in [Callers -> RestState]
  BY DEF IInv, WebTypeOK
<1>2. rest'[r].obj = view /\ rest'[r].kept = heap[view].msgs /\ Keep(heap)
  BY <1>1 DEF StartCompact, RestState
<1>3. view \in LiveObjects' \ {Nobody}
  <2>1. view \in Objects
    BY DEF IInv, WebTypeOK
  <2> QED BY <1>2, <2>1, SessionAssumption DEF LiveObjects
<1> QED BY <1>2, <1>3 DEF Keep

\* A compaction that got the turn lock puts back what it took: from the moment it
\* read the messages until its summary replaces them nothing else touches its
\* Session (compact_session).  Only one whose middleware passed without the turn
\* lock, because a turn ran or the view lock was held, may drop a message.
THEOREM CompactionLosesNothing == WebSpec => []Exactly
<1>1. WebInit => Exactly
  BY DEF WebInit, Exactly, Exact, NoRequest
<1>2. IInv /\ IInv' /\ Exactly /\ [WebNext]_webVars => Exactly'
  <2> SUFFICES ASSUME IInv, IInv', Exactly, [WebNext]_webVars, NEW r \in Callers,
                      rest'[r].at = "compacting", rest'[r].holds
               PROVE  rest'[r].kept = heap'[rest'[r].obj].msgs
    BY DEF Exactly, Exact
  <2>1. CASE StartCompact(r)
    BY <2>1, BegunExactly
  <2>2. CASE rest'[r] = rest[r]
    <3>1. SameMessages(rest[r].obj) /\ rest[r].obj \in DOMAIN heap
      BY <2>2, HeldStill, NobodyElse
    <3>2. rest[r].obj \in DOMAIN heap'
      BY <2>2, SessionAssumption DEF IInv, Refers, Frames
    <3> QED BY <2>2, <3>1, <3>2 DEF Exactly, Exact, SameMessages
  <2> QED BY <2>1, <2>2, Begins
<1> QED BY <1>1, <1>2, Invariant, PTL DEF WebSpec
=============================================================================
