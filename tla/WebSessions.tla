---------------------------- MODULE WebSessions ----------------------------
(***************************************************************************)
(* The web server: chats as Session objects and files, the turn lock, the  *)
(* view lock, socket frames, session requests and approval prompts         *)
(* (web_server.py).                                                        *)
(*                                                                         *)
(* Coroutines share one event loop with the request handlers; an action is *)
(* what one of them does between two awaits.  A turn's agent and a         *)
(* command's handler run in threads of their own, whose steps also fall    *)
(* between a coroutine's binding of a session and its test of the lock:    *)
(* that stretch is two actions, with no other coroutine in between.        *)
(*                                                                         *)
(* Left out: a name is not used again once its chat is gone, the writes of *)
(* files do not fail, and the calls to the engine that have nothing to do  *)
(* with chats (a profile's endpoint, durable tasks) are not seen.          *)
(***************************************************************************)
EXTENDS Integers, FiniteSets

CONSTANTS Chats,     \* names of saved chats, which also serve as ids
          Saved,     \* the chats that have a file when the server starts
          Sockets,   \* open browser tabs
          Callers,   \* clients of the session endpoints
          Objects,   \* bound: Session objects that may be alive together
          Kinds,     \* the kinds of frames and the operations of the endpoints
          Operations, \* that an instance uses
          MaxInputs, \* bound: frames and requests that are sent
          Draft,     \* the name and the id of a chat that has no file
          Nobody     \* no object, no owner of a lock

Navigation == {"new", "resume"}
Commands == {"local", "exec"} \cup Navigation

ASSUME SessionAssumption ==
    /\ {"chat"} \subseteq Kinds /\ Kinds \subseteq {"chat", "plan"} \cup Commands
    /\ Operations \subseteq {"rename", "delete", "new", "draft", "resume", "reset", "compact"}
    /\ "reset" \in Operations
    /\ Saved \subseteq Chats /\ Saved # {}
    /\ Draft \notin Chats
    /\ Sockets \cap Callers = {}
    /\ Nobody \notin Objects \cup Sockets \cup Callers
    /\ Objects # {}
    /\ MaxInputs \in Nat

VARIABLES
    file,     \* the saved chats: id and messages, or NoFile
    fresh,    \* ids that were never used
    heap,     \* the live Session objects
    view,     \* C.S, the chat that is viewed
    running,  \* _running["session"]
    lock,     \* _TURN_LOCK: the socket or caller that took it
    viewLock, \* _SESSION_VIEW_LOCK, likewise
    open,     \* sockets that are connected
    loc,      \* where a socket's frame is
    frame,    \* that frame: kind, chat it names, number
    obj,      \* the Session it is bound to
    was,      \* the Session that was viewed when a command was bound
    stop,     \* sockets whose turn's interrupt event is set
    prompt,   \* the entry in _pending_approvals of a socket's turn
    allowed,  \* _session_allowlist, with the chat in which the user approved
    rest,     \* where a caller's request is
    sent      \* the bound's counter

webVars == <<file, fresh, heap, view, running, lock, viewLock, open, loc, frame,
          obj, was, stop, prompt, allowed, rest, sent>>

NoFile == [id |-> Draft, msgs |-> {}]

\* A turn holds the lock from its first to its last step; in "running",
\* "asking" and "ending" its thread does.
Threaded == {"running", "asking", "ending"}
InTurn == {"locked"} \cup Threaded

Messages == (1 .. MaxInputs) \X {"question", "answer"}
Session == [name : Chats \cup {Draft}, id : Chats \cup {Draft},
            msgs : SUBSET Messages]
Frame == [kind : Kinds, chat : Chats \cup {Draft}, n : 0 .. MaxInputs]
RestState == [at : {"idle", "waiting", "compacting"}, op : Operations,
            chat : Chats, holds : BOOLEAN, obj : Objects \cup {Nobody},
            kept : SUBSET Messages]

NoFrame == [kind |-> "chat", chat |-> Draft, n |-> 0]
NoRequest == [at |-> "idle", op |-> "reset", chat |-> CHOOSE c \in Saved : TRUE,
              holds |-> FALSE, obj |-> Nobody, kept |-> {}]

WebTypeOK ==
    /\ file \in [Chats -> [id : Chats \cup {Draft}, msgs : SUBSET Messages]]
    /\ fresh \subseteq Chats
    /\ DOMAIN heap \subseteq Objects /\ heap \in [DOMAIN heap -> Session]
    /\ view \in DOMAIN heap
    /\ running \in DOMAIN heap \cup {Nobody}
    /\ lock \in Sockets \cup Callers \cup {Nobody}
    /\ viewLock \in Sockets \cup Callers \cup {Nobody}
    /\ open \subseteq Sockets
    /\ loc \in [Sockets -> {"idle", "waiting", "bound", "queued", "executing",
                            "leaving"} \cup InTurn]
    /\ frame \in [Sockets -> Frame]
    /\ obj \in [Sockets -> Objects \cup {Nobody}]
    /\ was \in [Sockets -> Objects \cup {Nobody}]
    /\ stop \subseteq Sockets
    /\ prompt \in [Sockets -> {"none", "waiting", "settled", "session"}]
    /\ allowed \in [Chats -> SUBSET Chats]
    /\ rest \in [Callers -> RestState]
    /\ sent \in 0 .. MaxInputs
-----------------------------------------------------------------------------
(***************************************************************************)
(* Sessions and files                                                      *)
(***************************************************************************)
Exists(c) == file[c].id # Draft

\* The objects something refers to; Python frees the others.
LiveObjects == {view, running} \cup {obj[s] : s \in Sockets}
            \cup {was[s] : s \in Sockets} \cup {rest[r].obj : r \in Callers}

\* The heap after a step that leaves h: the objects still referred to.
Keep(h) == heap' = [o \in LiveObjects' \ {Nobody} |-> h[o]]

\* An object nothing refers to yet.
NewObject == CHOOSE o \in Objects : o \notin DOMAIN heap

\* h with a Session object x at o.
With(h, o, x) == [p \in DOMAIN h \cup {o} |-> IF p = o THEN x ELSE h[p]]

Blank(c) == [name |-> c, id |-> c, msgs |-> {}]

\* _load_session: the file's messages, and its id.
Loaded(c) == [name |-> c, id |-> file[c].id, msgs |-> file[c].msgs]

\* _save_session: drafts stay unsaved, and a file's id wins over the object's.
SavedId(f, x) == IF f[x.name].id # Draft THEN f[x.name].id ELSE x.id
SavedFile(f, x) ==
    IF x.name = Draft THEN f
    ELSE [f EXCEPT ![x.name] = [id |-> SavedId(f, x), msgs |-> x.msgs]]
SavedSession(f, x) == IF x.name = Draft THEN x ELSE [x EXCEPT !.id = SavedId(f, x)]

\* cli._save_active_session: a new file gets a new id, the object keeps its own.
CliSavedFile(f, x) ==
    IF x.name = Draft THEN f
    ELSE [f EXCEPT ![x.name] =
              [id |-> IF @.id # Draft THEN @.id ELSE x.name, msgs |-> x.msgs]]

\* The conversation that a Session holds: its file's, once it has one.
Identity(x) == IF x.name = Draft THEN x.id ELSE SavedId(file, x)

\* Mutant: it compares with the chat that is viewed.
OwnsViewed(c) == heap[view].name = c

\* _owns_running_turn, by name.
OwnsRunningTurn(c) == running # Nobody /\ heap[running].name = c

\* _save_outgoing_view: what it leaves of the files and the heap.
OutgoingFile == IF view = running THEN file ELSE SavedFile(file, heap[view])
OutgoingHeap == IF view = running THEN heap
                ELSE With(heap, view, SavedSession(file, heap[view]))

LoopFree == \A s \in Sockets : loc[s] # "bound"
-----------------------------------------------------------------------------
WebInit ==
    /\ file = [c \in Chats |-> IF c \in Saved THEN [id |-> c, msgs |-> {}] ELSE NoFile]
    /\ fresh = Chats \ Saved
    /\ view = CHOOSE o \in Objects : TRUE
    /\ \E c \in Saved : heap = [o \in {view} |-> Blank(c)]
    /\ running = Nobody /\ lock = Nobody /\ viewLock = Nobody
    /\ open = Sockets
    /\ loc = [s \in Sockets |-> "idle"]
    /\ frame = [s \in Sockets |-> NoFrame]
    /\ obj = [s \in Sockets |-> Nobody]
    /\ was = [s \in Sockets |-> Nobody]
    /\ stop = {}
    /\ prompt = [s \in Sockets |-> "none"]
    /\ allowed = [c \in Chats |-> {}]
    /\ rest = [r \in Callers |-> NoRequest]
    /\ sent = 0

Goes(s, there) == loc' = [loc EXCEPT ![s] = there]

\* The frame of s is done with.
Done(s) ==
    /\ Goes(s, "idle")
    /\ frame' = [frame EXCEPT ![s] = NoFrame]
    /\ obj' = [obj EXCEPT ![s] = Nobody]
    /\ was' = [was EXCEPT ![s] = Nobody]
-----------------------------------------------------------------------------
(***************************************************************************)
(* Frames                                                                  *)
(***************************************************************************)
\* websocket_endpoint: one frame at a time per socket.  A command other than
\* /plan first waits for the view lock.
Receive(s, k, c) ==
    /\ LoopFree
    /\ s \in open /\ loc[s] = "idle"
    /\ sent < MaxInputs /\ sent' = sent + 1
    /\ k \in Navigation => c # Draft
    /\ Goes(s, IF k \in Commands THEN "waiting" ELSE "bound")
    /\ frame' = [frame EXCEPT ![s] = [kind |-> k, chat |-> c, n |-> sent + 1]]
    /\ UNCHANGED <<file, fresh, heap, view, running, lock, viewLock, open, obj,
                   was, stop, prompt, allowed, rest>>

GetViewLock(s) ==
    /\ LoopFree
    /\ loc[s] = "waiting" /\ viewLock = Nobody
    /\ viewLock' = s
    /\ Goes(s, "bound")
    /\ UNCHANGED <<file, fresh, heap, view, running, lock, open, frame, obj, was,
                   stop, prompt, allowed, rest, sent>>

\* _turn_session, when the frame names the viewed chat or none; a navigation
\* command works on the viewed chat whatever it names.
BindView(s) ==
    /\ loc[s] = "bound" /\ obj[s] = Nobody
    /\ frame[s].kind \in Navigation \/ frame[s].chat \in {Draft, heap[view].id}
    /\ obj' = [obj EXCEPT ![s] = view]
    /\ was' = [was EXCEPT ![s] = view]
    /\ UNCHANGED <<file, fresh, heap, view, running, lock, viewLock, open, loc,
                   frame, stop, prompt, allowed, rest, sent>>

\* _turn_session, when it loads the chat's file; a command, /plan included,
\* makes what it loaded the viewed chat for as long as it lasts.
BindFile(s, c) ==
    /\ loc[s] = "bound" /\ obj[s] = Nobody
    /\ frame[s].kind \notin Navigation
    /\ frame[s].chat \notin {Draft, heap[view].id}
    /\ Exists(c) /\ file[c].id = frame[s].chat
    /\ Objects # DOMAIN heap
    /\ obj' = [obj EXCEPT ![s] = NewObject]
    /\ was' = [was EXCEPT ![s] = view]
    /\ view' = IF frame[s].kind = "chat" THEN view ELSE NewObject
    /\ UNCHANGED <<file, fresh, running, lock, viewLock, open, loc, frame, stop,
                   prompt, allowed, rest, sent>>
    /\ Keep(With(heap, NewObject, Loaded(c)))

\* Mutant: the early return forgets the view lock.
BindNothingHolding(s) ==
    /\ loc[s] = "bound" /\ obj[s] = Nobody
    /\ frame[s].kind \notin Navigation
    /\ frame[s].chat \notin {Draft, heap[view].id}
    /\ \A c \in Chats : Exists(c) => file[c].id # frame[s].chat
    /\ Done(s)
    /\ UNCHANGED <<file, fresh, heap, view, running, lock, viewLock, open, stop,
                   prompt, allowed, rest, sent>>

\* The chat no longer exists.
BindNothing(s) ==
    /\ loc[s] = "bound" /\ obj[s] = Nobody
    /\ frame[s].kind \notin Navigation
    /\ frame[s].chat \notin {Draft, heap[view].id}
    /\ \A c \in Chats : Exists(c) => file[c].id # frame[s].chat
    /\ Done(s)
    /\ viewLock' = IF viewLock = s THEN Nobody ELSE viewLock
    /\ UNCHANGED <<file, fresh, heap, view, running, lock, open, stop, prompt,
                   allowed, rest, sent>>

\* _handle_command_impl, for the commands that are answered without a handler,
\* and the refusal of any (its number is 0 then) while the turn lock is held.
Reply(s) ==
    /\ loc[s] = "bound" /\ obj[s] # Nobody
    /\ frame[s].kind \in Commands
    /\ Goes(s, IF frame[s].kind = "local" \/ lock # Nobody THEN "leaving" ELSE "queued")
    /\ frame' = IF lock = Nobody THEN frame ELSE [frame EXCEPT ![s].n = 0]
    /\ UNCHANGED <<file, fresh, heap, view, running, lock, viewLock, open,
                   obj, was, stop, prompt, allowed, rest, sent>>

\* _handle_chat takes the turn lock, or refuses.  From here on the frame holds
\* the session id that the turn's events and allowances go under.
LockTurn(s) ==
    /\ loc[s] = "bound" /\ obj[s] # Nobody
    /\ frame[s].kind \in {"chat", "plan"}
    /\ IF lock = Nobody
       THEN /\ lock' = s
            /\ running' = obj[s]
            /\ Goes(s, "locked")
            /\ frame' = [frame EXCEPT ![s].chat = heap[obj[s]].id]
       ELSE Goes(s, "leaving") /\ UNCHANGED <<lock, running, frame>>
    /\ UNCHANGED <<file, fresh, view, viewLock, open, obj, was, stop, prompt,
                   allowed, rest, sent>>
    /\ Keep(heap)

\* Mutant: only the thread releases the lock.
AbortLocked(s) ==
    /\ LoopFree
    /\ loc[s] = "locked"
    /\ running' = Nobody
    /\ stop' = stop \ {s}
    /\ Goes(s, "leaving")
    /\ UNCHANGED <<file, fresh, view, lock, viewLock, open, frame, obj, was, prompt,
                   allowed, rest, sent>>
    /\ Keep(heap)

\* An exception before the thread owns the lock: _handle_chat's finally.
AbortTurn(s) ==
    /\ LoopFree
    /\ loc[s] = "locked"
    /\ running' = Nobody
    /\ lock' = Nobody
    /\ stop' = stop \ {s}
    /\ Goes(s, "leaving")
    /\ UNCHANGED <<file, fresh, view, viewLock, open, frame, obj, was, prompt,
                   allowed, rest, sent>>
    /\ Keep(heap)

\* _handle_chat_locked: the question joins the messages, the thread starts
\* and owns the lock.
StartThread(s) ==
    /\ LoopFree
    /\ loc[s] = "locked"
    /\ Goes(s, "running")
    /\ UNCHANGED <<file, fresh, view, running, lock, viewLock, open, frame, obj,
                   was, stop, prompt, allowed, rest, sent>>
    /\ Keep([heap EXCEPT ![obj[s]].msgs = @ \cup {<<frame[s].n, "question">>}])
-----------------------------------------------------------------------------
(***************************************************************************)
(* A turn's thread                                                         *)
(***************************************************************************)
SaveTurn(s, x) ==
    /\ file' = SavedFile(file, x)
    /\ Keep([heap EXCEPT ![obj[s]] = SavedSession(file, x)])

\* on_trajectory_state
Checkpoint(s) ==
    /\ loc[s] = "running"
    /\ UNCHANGED <<fresh, view, running, lock, viewLock, open, loc, frame, obj, was,
                   stop, prompt, allowed, rest, sent>>
    /\ SaveTurn(s, heap[obj[s]])

\* on_escalation and _plan_on_approval register an entry and wait.  An
\* allowance of the chat is used without asking and changes nothing here.
Ask(s) ==
    /\ loc[s] = "running"
    /\ Goes(s, "asking")
    /\ prompt' = [prompt EXCEPT ![s] = "waiting"]
    /\ UNCHANGED <<file, fresh, heap, view, running, lock, viewLock, open, frame,
                   obj, was, stop, allowed, rest, sent>>

\* An approval frame of the owner, the last one before the thread looks: for the
\* rest of the session, or any verdict that leaves nothing behind.
Answer(s, verdict) ==
    /\ LoopFree
    /\ s \in open /\ loc[s] = "asking"
    /\ prompt' = [prompt EXCEPT ![s] = verdict]
    /\ UNCHANGED <<file, fresh, heap, view, running, lock, viewLock, open, loc,
                   frame, obj, was, stop, allowed, rest, sent>>

\* The thread wakes, answered or timed out, and reads the entry.
ReadVerdict(s) ==
    /\ loc[s] = "asking"
    /\ Goes(s, "running")
    /\ prompt' = [prompt EXCEPT ![s] = "none"]
    /\ allowed' = IF prompt[s] = "session" /\ frame[s].chat # Draft
                  THEN [allowed EXCEPT ![frame[s].chat] =
                            @ \cup ({Identity(heap[obj[s]])} \ {Draft})]
                  ELSE allowed
    /\ UNCHANGED <<file, fresh, heap, view, running, lock, viewLock, open, frame,
                   obj, was, stop, rest, sent>>

\* Mutant: nobody polls the event.
EndUnasked(s, how) ==
    /\ loc[s] = "running"
    /\ how # "stopped"
    /\ Goes(s, "ending")
    /\ UNCHANGED <<fresh, view, running, lock, viewLock, open, frame, obj, was,
                   stop, prompt, allowed, rest, sent>>
    /\ SaveTurn(s, heap[obj[s]])

\* The agent returns, fails, or stops because its event is set; what it has
\* said so far is saved in every case.
EndTurn(s, how) ==
    /\ loc[s] = "running"
    /\ how = "stopped" => s \in stop
    /\ Goes(s, "ending")
    /\ UNCHANGED <<fresh, view, running, lock, viewLock, open, frame, obj, was,
                   stop, prompt, allowed, rest, sent>>
    /\ SaveTurn(s, IF how = "done"
                   THEN [heap[obj[s]] EXCEPT !.msgs = @ \cup {<<frame[s].n, "answer">>}]
                   ELSE heap[obj[s]])

\* _run's finally
Release(s) ==
    /\ loc[s] = "ending"
    /\ running' = Nobody
    /\ lock' = Nobody
    /\ stop' = stop \ {s}
    /\ Goes(s, "leaving")
    /\ UNCHANGED <<file, fresh, view, viewLock, open, frame, obj, was, prompt,
                   allowed, rest, sent>>
    /\ Keep(heap)
-----------------------------------------------------------------------------
(***************************************************************************)
(* Commands                                                                *)
(***************************************************************************)
\* Mutant: the handler runs whether it got the lock or not.
StartHandlerAnyway(s) ==
    /\ loc[s] = "queued"
    /\ lock' = s
    /\ Goes(s, "executing")
    /\ UNCHANGED <<file, fresh, heap, view, running, viewLock, open, frame, obj,
                   was, stop, prompt, allowed, rest, sent>>

\* _exec_command, on its thread: the turn lock, or an error.
StartHandler(s) ==
    /\ loc[s] = "queued"
    /\ IF lock = Nobody
       THEN lock' = s /\ Goes(s, "executing")
       ELSE Goes(s, "leaving") /\ UNCHANGED lock
    /\ UNCHANGED <<file, fresh, heap, view, running, viewLock, open, frame, obj,
                   was, stop, prompt, allowed, rest, sent>>

FreeLock(s) ==
    /\ loc[s] = "executing"
    /\ lock' = Nobody
    /\ Goes(s, "leaving")
    /\ UNCHANGED <<view, running, viewLock, open, frame, obj, was, stop, prompt,
                   rest, sent>>

\* /reset and the handlers that leave the conversation alone, and any that fails.
RunHandler(s, reset) ==
    /\ FreeLock(s)
    /\ frame[s].kind = "exec"
    /\ LET x == IF reset THEN [heap[view] EXCEPT !.msgs = {}] ELSE heap[view] IN
       /\ file' = CliSavedFile(file, x)
       /\ allowed' = IF reset /\ x.id # Draft THEN [allowed EXCEPT ![x.id] = {}]
                     ELSE allowed
       /\ UNCHANGED fresh
       /\ Keep(With(heap, view, x))

\* /new renames and empties the viewed Session in place and gives it a new id.
RunNew(s) ==
    /\ FreeLock(s)
    /\ frame[s].kind = "new"
    /\ LET c == frame[s].chat
           saved == CliSavedFile(file, heap[view])
       IN  IF c \notin fresh \/ Exists(c)
           THEN UNCHANGED <<file, fresh, allowed, heap>>
           ELSE /\ file' = CliSavedFile(saved, Blank(c))
                /\ fresh' = fresh \ {c}
                /\ allowed' = IF heap[view].id = Draft THEN allowed
                              ELSE [allowed EXCEPT ![heap[view].id] = {}]
                /\ Keep(With(heap, view, Blank(c)))

\* /resume loads a file into the viewed Session in place, which keeps its id.
RunResume(s) ==
    /\ FreeLock(s)
    /\ frame[s].kind = "resume"
    /\ UNCHANGED <<fresh, allowed>>
    /\ LET c == frame[s].chat IN
       IF Exists(c)
       THEN /\ file' = CliSavedFile(file, heap[view])
            /\ Keep(With(heap, view, [heap[view] EXCEPT !.name = c,
                                                       !.msgs = file[c].msgs]))
       ELSE UNCHANGED <<file, heap>>

\* The end of a turn's coroutine, and _handle_command's finally: what the command
\* worked on is saved while it is viewed, and the view goes back; then the text
\* of a command that was not refused joins the messages.
Leave(s) ==
    /\ LoopFree
    /\ loc[s] = "leaving"
    /\ LET f == frame[s]
           back == f.kind \in {"plan", "local", "exec"} /\ view = obj[s]
           adds == f.kind \in {"local", "exec"} /\ f.n # 0
           x == IF adds THEN [heap[obj[s]] EXCEPT !.msgs = @ \cup {<<f.n, "question">>}]
                ELSE heap[obj[s]]
       IN  /\ view' = IF back THEN was[s] ELSE view
           /\ file' = IF back \/ adds THEN SavedFile(file, x) ELSE file
           /\ Done(s)
           /\ viewLock' = IF viewLock = s THEN Nobody ELSE viewLock
           /\ UNCHANGED <<fresh, running, lock, open, stop, prompt, allowed, rest,
                          sent>>
           /\ Keep(IF back \/ adds THEN With(heap, obj[s], SavedSession(file, x))
                   ELSE heap)

\* The stop button; a turn has an event from the moment it has the lock.
Interrupt(s) ==
    /\ LoopFree
    /\ s \in open /\ loc[s] \in InTurn
    /\ stop' = stop \cup {s}
    /\ UNCHANGED <<file, fresh, heap, view, running, lock, viewLock, open, loc,
                   frame, obj, was, prompt, allowed, rest, sent>>

\* The socket closes: its turn is interrupted, and the prompts nobody answered
\* are refused.
CloseSocket(s) ==
    /\ LoopFree
    /\ s \in open
    /\ open' = open \ {s}
    /\ stop' = IF loc[s] \in InTurn THEN stop \cup {s} ELSE stop
    /\ prompt' = [prompt EXCEPT ![s] = IF @ = "waiting" THEN "settled" ELSE @]
    /\ UNCHANGED <<file, fresh, heap, view, running, lock, viewLock, loc, frame,
                   obj, was, allowed, rest, sent>>
-----------------------------------------------------------------------------
(***************************************************************************)
(* Session endpoints                                                       *)
(***************************************************************************)
\* The middleware takes the turn lock, unless a turn runs or the view lock is
\* held; a request that finds the turn lock taken is refused.
CallEndpoint(r, op, c) ==
    /\ LoopFree
    /\ rest[r].at = "idle"
    /\ sent < MaxInputs /\ sent' = sent + 1
    /\ LET skip == running # Nobody \/ viewLock # Nobody IN
       /\ skip \/ lock = Nobody
       /\ lock' = IF skip THEN lock ELSE r
       /\ rest' = [rest EXCEPT ![r] = [NoRequest EXCEPT
                       !.at = "waiting", !.op = op, !.chat = c, !.holds = ~skip]]
    /\ UNCHANGED <<file, fresh, heap, view, running, viewLock, open, loc, frame, obj,
                   was, stop, prompt, allowed>>

\* Mutant: it waits for the running turn as well.
EnterAlone(r, op) ==
    /\ LoopFree
    /\ rest[r].at = "waiting" /\ rest[r].op = op
    /\ viewLock = Nobody /\ running = Nobody

\* The endpoint has the view lock; it answers before the next await.
EnterEndpoint(r, op) ==
    /\ LoopFree
    /\ rest[r].at = "waiting" /\ rest[r].op = op
    /\ viewLock = Nobody

Respond(r) ==
    /\ rest' = [rest EXCEPT ![r] = NoRequest]
    /\ lock' = IF rest[r].holds THEN Nobody ELSE lock
    /\ UNCHANGED <<running, open, loc, frame, obj, was, stop, prompt, sent>>

\* Mutant: the chat of a running turn is not protected.
RefusedUnlessThere(r) ==
    LET c == rest[r].chat IN
    CASE rest[r].op \in {"rename", "delete", "resume"} -> ~Exists(c)
      [] rest[r].op = "new" -> c \notin fresh \/ Exists(c)
      [] rest[r].op = "reset" -> view = running
      [] rest[r].op = "compact" -> running # Nobody \/ heap[view].msgs = {}
      [] rest[r].op = "draft" -> FALSE

\* What is refused, or finds nothing to do.
Refused(r) ==
    LET c == rest[r].chat IN
    CASE rest[r].op \in {"rename", "delete"} -> ~Exists(c) \/ OwnsRunningTurn(c)
      [] rest[r].op = "new" -> c \notin fresh \/ Exists(c)
      [] rest[r].op = "resume" -> ~Exists(c)
      [] rest[r].op = "reset" -> view = running
      [] rest[r].op = "compact" -> running # Nobody \/ heap[view].msgs = {}
      [] rest[r].op = "draft" -> FALSE

Refuse(r) ==
    /\ EnterEndpoint(r, rest[r].op) /\ Refused(r)
    /\ Respond(r)
    /\ UNCHANGED <<file, fresh, heap, view, viewLock, allowed>>

\* rename_session moves the file; only the viewed Session follows it.
Rename(r, c) ==
    /\ EnterEndpoint(r, "rename") /\ ~Refused(r) /\ ~Exists(c)
    /\ LET moved == [file EXCEPT ![c] = file[rest[r].chat], ![rest[r].chat] = NoFile]
           x == [heap[view] EXCEPT !.name = c]
       IN  /\ Respond(r)
           /\ UNCHANGED <<fresh, view, viewLock, allowed>>
           /\ IF heap[view].name = rest[r].chat
              THEN /\ file' = SavedFile(moved, x)
                   /\ Keep(With(heap, view, SavedSession(moved, x)))
              ELSE file' = moved /\ UNCHANGED heap

DeleteSession(r) ==
    /\ EnterEndpoint(r, "delete") /\ ~Refused(r) /\ Objects # DOMAIN heap
    /\ LET c == rest[r].chat IN
       /\ Respond(r)
       /\ file' = [file EXCEPT ![c] = NoFile]
       /\ allowed' = [allowed EXCEPT ![file[c].id] = {}]
       /\ UNCHANGED <<fresh, viewLock>>
       /\ IF heap[view].name = c
          THEN view' = NewObject /\ Keep(With(heap, NewObject, Blank(Draft)))
          ELSE UNCHANGED <<view, heap>>

New(r) ==
    /\ EnterEndpoint(r, "new") /\ ~Refused(r) /\ Objects # DOMAIN heap
    /\ LET c == rest[r].chat IN
       /\ Respond(r)
       /\ file' = SavedFile(OutgoingFile, Blank(c))
       /\ fresh' = fresh \ {c}
       /\ view' = NewObject
       /\ UNCHANGED <<viewLock, allowed>>
       /\ Keep(With(OutgoingHeap, NewObject, Blank(c)))

NewDraft(r) ==
    /\ EnterEndpoint(r, "draft") /\ ~Refused(r) /\ Objects # DOMAIN heap
    /\ Respond(r)
    /\ file' = OutgoingFile
    /\ view' = NewObject
    /\ UNCHANGED <<fresh, viewLock, allowed>>
    /\ Keep(With(OutgoingHeap, NewObject, Blank(Draft)))

\* resume_session: the running turn's own Session, or one loaded from the file.
ResumeSession(r) ==
    /\ EnterEndpoint(r, "resume") /\ ~Refused(r) /\ Objects # DOMAIN heap
    /\ LET c == rest[r].chat IN
       /\ Respond(r)
       /\ file' = OutgoingFile
       /\ UNCHANGED <<fresh, viewLock, allowed>>
       /\ IF OwnsRunningTurn(c)
          THEN view' = running /\ Keep(OutgoingHeap)
          ELSE view' = NewObject /\ Keep(With(OutgoingHeap, NewObject, Loaded(c)))

Reset(r) ==
    /\ EnterEndpoint(r, "reset") /\ ~Refused(r)
    /\ LET x == [heap[view] EXCEPT !.msgs = {}] IN
       /\ Respond(r)
       /\ file' = SavedFile(file, x)
       /\ allowed' = IF x.id = Draft THEN allowed ELSE [allowed EXCEPT ![x.id] = {}]
       /\ UNCHANGED <<fresh, view, viewLock>>
       /\ Keep(With(heap, view, SavedSession(file, x)))

\* compact_session takes the messages, then waits for a model call of its own.
\* Older messages live on in the summary, which is not told apart from them.
StartCompact(r) ==
    /\ EnterEndpoint(r, "compact") /\ ~Refused(r)
    /\ viewLock' = r
    /\ rest' = [rest EXCEPT ![r] = [@ EXCEPT !.at = "compacting", !.obj = view,
                                             !.kept = heap[view].msgs]]
    /\ UNCHANGED <<file, fresh, view, running, lock, open, loc, frame, obj, was,
                   stop, prompt, allowed, sent>>
    /\ Keep(heap)

\* The call is over; on success its summary replaces the messages.
EndCompact(r, ok) ==
    /\ LoopFree
    /\ rest[r].at = "compacting"
    /\ LET x == [heap[rest[r].obj] EXCEPT !.msgs = rest[r].kept] IN
       /\ Respond(r)
       /\ viewLock' = Nobody
       /\ file' = IF ok THEN SavedFile(file, x) ELSE file
       /\ UNCHANGED <<fresh, view, allowed>>
       /\ Keep(IF ok THEN With(heap, rest[r].obj, SavedSession(file, x)) ELSE heap)
-----------------------------------------------------------------------------
Binding(s) ==
    \/ BindView(s) \/ BindNothing(s)
    \/ \E c \in Chats : BindFile(s, c)

Coroutine(s) ==
    \/ GetViewLock(s) \/ Binding(s) \/ Reply(s) \/ LockTurn(s)
    \/ StartThread(s) \/ Leave(s)

Handler(s) ==
    \/ StartHandler(s) \/ RunNew(s) \/ RunResume(s)
    \/ \E reset \in BOOLEAN : RunHandler(s, reset)

\* What the server does for a frame once it has arrived.
SocketWork(s) == Coroutine(s) \/ Handler(s) \/ ReadVerdict(s) \/ Release(s)

User(s) ==
    \/ \E k \in Kinds, c \in Chats \cup {Draft} : Receive(s, k, c)
    \/ \E v \in {"settled", "session"} : Answer(s, v)
    \/ Interrupt(s) \/ CloseSocket(s)

Endpoint(r) ==
    \/ Refuse(r) \/ DeleteSession(r) \/ New(r) \/ NewDraft(r) \/ ResumeSession(r)
    \/ Reset(r) \/ StartCompact(r)
    \/ \E c \in Chats : Rename(r, c)
    \/ \E ok \in BOOLEAN : EndCompact(r, ok)

WebNext ==
    \/ \E s \in Sockets :
           \/ User(s) \/ SocketWork(s) \/ AbortTurn(s) \/ Checkpoint(s) \/ Ask(s)
           \/ \E how \in {"done", "failed", "stopped"} : EndTurn(s, how)
    \/ \E r \in Callers :
           \/ Endpoint(r)
           \/ \E op \in Operations, c \in Chats : CallEndpoint(r, op, c)

WebSpec == WebInit /\ [][WebNext]_webVars

\* Coroutines, handlers and endpoints go on, prompts time out, and an agent
\* whose event is set stops; that an agent ends by itself is not assumed.
WebFairness ==
    /\ \A s \in Sockets :
           /\ WF_webVars(SocketWork(s))
           /\ SF_webVars(EndTurn(s, "stopped"))
    /\ \A r \in Callers : WF_webVars(Endpoint(r))

WebFairSpec == WebSpec /\ WebFairness
-----------------------------------------------------------------------------
(***************************************************************************)
(* Safety                                                                  *)
(***************************************************************************)
\* Who holds the turn lock, and what _running says, follow from where the
\* turns, the commands and the requests are: nothing keeps the lock after it
\* is done, and no two of them have it.
TurnLockIsOwned ==
    /\ \A s \in Sockets : lock = s <=> loc[s] \in InTurn \cup {"executing"}
    /\ \A r \in Callers : lock = r <=> rest[r].holds
    /\ \A s \in Sockets : loc[s] \in InTurn => running = obj[s]
    /\ running # Nobody => lock \in Sockets /\ loc[lock] \in InTurn

\* The view lock is held through every command but /plan, and through a
\* compaction's model call, by nobody else.
ViewLockIsOwned ==
    /\ \A s \in Sockets : viewLock = s <=>
           /\ frame[s].kind \in Commands
           /\ loc[s] \in {"bound", "queued", "executing", "leaving"}
    /\ \A r \in Callers : viewLock = r <=> rest[r].at = "compacting"

\* "Session-scoped grants are cleared when switching chats": a turn uses no
\* allowance that was given in another chat.
GrantsStayHome ==
    \A s \in Sockets : loc[s] \in Threaded /\ frame[s].chat # Draft =>
        allowed[frame[s].chat] \subseteq {Identity(heap[obj[s]])}

\* While a turn runs, nobody renames its chat, removes its file, or gives its
\* Session another identity.
RunningChatStays ==
    [][\A s \in Sockets : loc[s] \in InTurn /\ loc'[s] \in InTurn =>
           /\ obj'[s] = obj[s]
           /\ heap'[obj[s]].name = heap[obj[s]].name
           /\ heap[obj[s]].name # Draft /\ Exists(heap[obj[s]].name)
              => Exists(heap[obj[s]].name)']_webVars

\* The server uses the engine as SharedEngine says: its owners are the turns, the
\* commands that run and the compactions under the turn lock; its guests are the
\* compactions that the middleware let pass without it.
Using ==
    {s \in Sockets : loc[s] \in InTurn \cup {"executing"}}
    \cup {r \in Callers : rest[r].at = "compacting" /\ rest[r].holds}
Guests == {r \in Callers : rest[r].at = "compacting" /\ ~rest[r].holds}
Asking == {s \in Sockets : loc[s] = "asking"}
Answered == {s \in Asking : prompt[s] # "waiting"}
Allowances == {a \in Chats \X Chats : a[2] \in allowed[a[1]]}

Shared == INSTANCE SharedEngine WITH
    Owners <- Sockets \cup Callers, Allowances <- Chats \X Chats,
    using <- Using, guests <- Guests, told <- stop, asking <- Asking,
    answered <- Answered, allowed <- Allowances

\* One turn, command or compaction owns the engine at a time; a compaction without
\* the turn lock begins only when nobody uses it, though a turn may then begin
\* beside it; an interrupt reaches a running turn and is gone when it ends; no
\* prompt outlives its turn; and an allowance follows an answer to the running
\* turn's prompt.
SharesTheEngine == Shared!Spec
-----------------------------------------------------------------------------
(***************************************************************************)
(* Liveness                                                                *)
(***************************************************************************)
\* The turn of a socket that closed, or whose user pressed stop, gives the turn
\* lock up, even when it waits for an approval nobody will give.
StoppedTurnEnds(s) == s \in stop ~> s \notin stop

\* A session request is answered and a command finished while a turn goes on
\* for as long as it likes: nobody who has the view lock waits for the turn lock.
FrameIsServed(s) == loc[s] = "waiting" ~> loc[s] = "idle"
RequestIsServed(r) == rest[r].at # "idle" ~> rest[r].at = "idle"
=============================================================================
