-------------------------- MODULE ServiceLifecycle --------------------------
(***************************************************************************)
(* Start and stop of the service: the thread of ServiceMain or RunConsole  *)
(* walks through ServiceApp::Start and ServiceApp::Stop while the threads  *)
(* it has started run: AcceptLoop and the connections it accepts, with two *)
(* threads each, the workers that call the engine's DLL, and the loops of  *)
(* SessionManager, ThrottleMonitor and ServiceApp.                         *)
(*                                                                         *)
(* What a connection or a worker does in between is the subject of modules *)
(* Sessions and JobManager.  That a notification of JobManager::Stop may   *)
(* be lost is shown there; here an idle worker sees that jobs are stopped. *)
(***************************************************************************)
EXTENDS Integers, FiniteSets

CONSTANTS
  Workers,      \* worker threads
  Conns,        \* connections (ClientSession objects and their Run threads)
  MaxJobs       \* bound: SCAN requests

ASSUME LifecycleAssumption ==
  /\ MaxJobs \in Nat
  /\ Workers \cap Conns = {}
  /\ (Workers \cup Conns) \cap {"accept", "cleanup", "monitor", "telemetry"} = {}

Loops   == {"cleanup", "monitor", "telemetry"}
Threads == Workers \cup Conns \cup Loops \cup {"accept"}

\* The running_ flag that the loop looks at.
Flag == [cleanup |-> "sessions", monitor |-> "throttle", telemetry |-> "app"]

VARIABLES
  console,      \* started with --console: Ctrl+C instead of the control manager
  main,         \* how far Start or Stop is
  status,       \* dwCurrentState
  stopEvent,    \* g_stopEvent is set
  on,           \* running_ of ServiceApp and of each part
  engine,       \* module_ and the function pointers of EngineLoader are set
  thread,       \* where each thread is
  running,      \* running_ of each connection
  events,       \* where each connection's event thread is
  clients,      \* PipeServer::clientSessions_
  queue,        \* jobs in queue_
  received      \* SCAN requests so far

mainVars == <<console, main, status, stopEvent>>
pipeVars == <<running, events, clients>>
jobVars  == <<queue, received>>
vars == <<mainVars, on, engine, thread, pipeVars, jobVars>>

Over(t) == thread[t] \in {"none", "ended"}
EventsOver(c) == events[c] \in {"none", "ended"}

Init ==
  /\ console \in BOOLEAN
  /\ main = "load" /\ stopEvent = FALSE
  /\ status = IF console THEN "none" ELSE "start_pending"
  /\ on = [p \in {"app", "sessions", "throttle", "jobs", "pipe"} |-> p = "app"]
  /\ engine = FALSE
  /\ thread = [t \in Threads |-> "none"]
  /\ running = [c \in Conns |-> FALSE] /\ clients = {}
  /\ events = [c \in Conns |-> "none"]
  /\ queue = 0 /\ received = 0

-----------------------------------------------------------------------------
(* ServiceApp::Start.                                                      *)

Goto(s) == main' = s /\ UNCHANGED <<console, stopEvent>>
Report(s) == status' = IF console THEN status ELSE s

Load ==
  /\ main = "load"
  /\ engine' = TRUE
  /\ Goto("sessions")
  /\ UNCHANGED <<status, on, thread, pipeVars, jobVars>>

\* No DLL, a missing export or a failing EngineInitialize: Load unloads what it has.
LoadFails ==
  /\ main = "load"
  /\ on' = [on EXCEPT !["app"] = FALSE]
  /\ Goto("failed") /\ Report("stopped")
  /\ UNCHANGED <<engine, thread, pipeVars, jobVars>>

\* Start() of part p: its flag is set and its threads are created.
Begin(s, p, threads, at, next) ==
  /\ main = s
  /\ on' = [on EXCEPT ![p] = TRUE]
  /\ thread' = [t \in Threads |-> IF t \in threads THEN at ELSE thread[t]]
  /\ Goto(next)
  /\ UNCHANGED <<status, engine, pipeVars, jobVars>>

StartSessions == Begin("sessions", "sessions", {"cleanup"}, "loop", "throttle")
StartThrottle == Begin("throttle", "throttle", {"monitor"}, "loop", "jobs")
StartJobs     == Begin("jobs", "jobs", Workers, "idle", "pipe")

\* PipeServer::Start always succeeds; an instance that cannot be created is retried.
StartPipe     == Begin("pipe", "pipe", {"accept"}, "check", "telemetry")

StartTelemetry ==
  /\ main = "telemetry"
  /\ thread' = [thread EXCEPT !["telemetry"] = "loop"]
  /\ Goto("wait") /\ Report("running")
  /\ UNCHANGED <<on, engine, pipeVars, jobVars>>

\* SERVICE_CONTROL_STOP, which the control manager sends to a running service, or
\* Ctrl+C, also while Start is under way.
Control ==
  /\ console \/ status = "running"
  /\ ~stopEvent /\ main \notin {"failed", "stopped"}
  /\ stopEvent' = TRUE
  /\ Report("stop_pending")
  /\ UNCHANGED <<console, main, on, engine, thread, pipeVars, jobVars>>

-----------------------------------------------------------------------------
(* ServiceApp::Stop.                                                       *)

TurnOff(s, p, next) ==
  /\ main = s
  /\ on' = [on EXCEPT ![p] = FALSE]
  /\ Goto(next)
  /\ UNCHANGED <<status, engine, thread, pipeVars, jobVars>>

Join(s, threads, next) ==
  /\ main = s /\ \A t \in threads : Over(t)
  /\ Goto(next)
  /\ UNCHANGED <<status, on, engine, thread, pipeVars, jobVars>>

StopApp == stopEvent /\ TurnOff("wait", "app", "pipe_off")

StopPipe == TurnOff("pipe_off", "pipe", "wake")

\* Stop opens the pipe itself to wake AcceptLoop, which succeeds if an instance waits
\* for a client at that moment.
Wake ==
  /\ main = "wake"
  /\ thread' = IF thread["accept"] = "listen" THEN [thread EXCEPT !["accept"] = "connected"]
                                              ELSE thread
  /\ Goto("accept_join")
  /\ UNCHANGED <<status, on, engine, pipeVars, jobVars>>

JoinAccept == Join("accept_join", {"accept"}, "close")


\* ClientSession::Stop for every connection: it is turned off and woken, its reads and
\* writes are cancelled (EventsCancelled) and its end of the pipe is closed.
CloseConnections ==
  /\ main = "close"
  /\ running' = [c \in Conns |-> running[c] /\ c \notin clients]
  /\ Goto("conns_join")
  /\ UNCHANGED <<status, on, engine, thread, events, clients, jobVars>>

\* Mutant: the threads of the connections are not joined.
JoinNoConnections == Join("conns_join", {}, "jobs_off")

\* Mutant: ClientSession::Join forgets the event thread.
JoinRunThreads == Join("conns_join", clients, "jobs_off")

\* ClientSession::Join waits for both threads of a connection.
Joinable(c) == Over(c) /\ EventsOver(c)

JoinConnections ==
  (\A c \in clients : Joinable(c)) /\ Join("conns_join", clients, "jobs_off")

StopJobs == TurnOff("jobs_off", "jobs", "jobs_join")

\* Mutant: the workers are not joined.
JoinNoWorkers == Join("jobs_join", {}, "sessions_off")

JoinWorkers == Join("jobs_join", Workers, "sessions_off")

StopSessions == TurnOff("sessions_off", "sessions", "sessions_join")
JoinCleanup  == Join("sessions_join", {"cleanup"}, "throttle_off")
StopThrottle == TurnOff("throttle_off", "throttle", "throttle_join")
JoinMonitor  == Join("throttle_join", {"monitor"}, "telemetry_join")

JoinTelemetry == Join("telemetry_join", {"telemetry"}, "unload")

\* The cache is flushed and the engine unloaded.
Unload ==
  /\ main = "unload"
  /\ engine' = FALSE
  /\ Goto("stopped") /\ Report("stopped")
  /\ UNCHANGED <<on, thread, pipeVars, jobVars>>

-----------------------------------------------------------------------------
(* AcceptLoop and the connections.                                         *)

Move(t, from, to) ==
  /\ thread[t] = from
  /\ thread' = [thread EXCEPT ![t] = to]
  /\ UNCHANGED <<mainVars, on, engine>>

Check ==
  /\ Move("accept", "check", IF on["pipe"] THEN "create" ELSE "ended")
  /\ UNCHANGED <<pipeVars, jobVars>>

CreatePipe == Move("accept", "create", "listen") /\ UNCHANGED <<pipeVars, jobVars>>

\* No security descriptor or no instance: again after a second.
CreateFails == Move("accept", "create", "check") /\ UNCHANGED <<pipeVars, jobVars>>

\* A client opens the instance.
ClientConnects == Move("accept", "listen", "connected") /\ UNCHANGED <<pipeVars, jobVars>>

Leave ==
  /\ ~on["pipe"] /\ Move("accept", "connected", "ended")
  /\ UNCHANGED <<pipeVars, jobVars>>

\* The loop did not see the stop.  It joins and erases the connections that have been
\* turned off, waiting for both threads of each, and starts the new one.
Accept ==
  LET dead == {c \in clients : ~running[c]} IN
  /\ thread["accept"] \in {"connected", "reap"}
  /\ thread["accept"] = "connected" => on["pipe"]
  /\ IF \A c \in dead : Joinable(c)
       THEN \E c \in Conns \ (clients \ dead) :
              /\ clients' = (clients \ dead) \cup {c}
              /\ running' = [running EXCEPT ![c] = TRUE]
              /\ events' = [events EXCEPT ![c] = "none"]
              /\ thread' = [thread EXCEPT !["accept"] = "check", ![c] = "hello"]
       ELSE /\ thread["accept"] = "connected"
            /\ thread' = [thread EXCEPT !["accept"] = "reap"]
            /\ UNCHANGED pipeVars
  /\ UNCHANGED <<mainVars, on, engine, jobVars>>

\* PerformHandshake succeeds, and Run starts the event thread ...
Handshake(c) ==
  /\ Move(c, "hello", "serve")
  /\ events' = [events EXCEPT ![c] = "loop"]
  /\ UNCHANGED <<running, clients, jobVars>>

\* ... or it fails, and Run calls Stop and ends.
HandshakeFails(c) ==
  /\ Move(c, "hello", "ended")
  /\ running' = [running EXCEPT ![c] = FALSE]
  /\ UNCHANGED <<events, clients, jobVars>>

\* Run reads a SCAN ...
ReadScan(c) ==
  /\ running[c] /\ received < MaxJobs
  /\ Move(c, "serve", "scan")
  /\ received' = received + 1
  /\ UNCHANGED <<pipeVars, queue>>

\* ... and HandleScan submits the job, or refuses it, and answers.  An answer that
\* cannot be written turns running_ off.
Submit(c) ==
  /\ Move(c, "scan", "serve")
  /\ queue' \in {queue, queue + 1}
  /\ \E sent \in BOOLEAN : running' = [running EXCEPT ![c] = @ /\ sent]
  /\ UNCHANGED <<events, clients, received>>

\* The client goes away, is silent for five seconds, or Stop() has closed the pipe:
\* Run turns the connection off, wakes the event thread, marks the session
\* disconnected and ends.  The pipe stays open.
Disconnect(c) ==
  /\ Move(c, "serve", "ended")
  /\ running' = [running EXCEPT ![c] = FALSE]
  /\ UNCHANGED <<events, clients, jobVars>>

MoveEvents(c, from, to) ==
  /\ events[c] = from
  /\ events' = [events EXCEPT ![c] = to]
  /\ UNCHANGED <<mainVars, on, engine, thread, clients, jobVars>>

\* RunEventLoop takes an event and writes it ...
EventsWrite(c) == running[c] /\ MoveEvents(c, "loop", "write") /\ UNCHANGED running

\* ... for which the client has to make room ...
EventsWritten(c) == MoveEvents(c, "write", "loop") /\ UNCHANGED running

\* ... or to close its end.
EventsWriteFails(c) ==
  MoveEvents(c, "write", "ended") /\ running' = [running EXCEPT ![c] = FALSE]

\* CancelIoEx and DisconnectNamedPipe, which come only after AcceptLoop has been
\* joined, make the write fail.
EventsCancelled(c) == main = "conns_join" /\ EventsWriteFails(c)

\* It sees that the connection is over ...
EventsEnd(c) == ~running[c] /\ MoveEvents(c, "loop", "ended") /\ UNCHANGED running

\* ... unless the one notification came between its predicate and its wait and the
\* second one was not sent, since the session had been erased from the table (module
\* Sessions shows when) ...
EventsMiss(c) == ~running[c] /\ MoveEvents(c, "loop", "deaf") /\ UNCHANGED running

\* ... and nothing wakes it but an event of a job of the session.
EventsHear(c) == MoveEvents(c, "deaf", "ended") /\ UNCHANGED running

-----------------------------------------------------------------------------
(* The workers, and the loops.                                             *)

\* WorkerLoop takes a job and calls the engine ...
Take(w) ==
  /\ on["jobs"] /\ queue > 0
  /\ Move(w, "idle", "engine")
  /\ queue' = queue - 1
  /\ UNCHANGED <<pipeVars, received>>

\* ... which returns.
Return(w) == Move(w, "engine", "idle") /\ UNCHANGED <<pipeVars, jobVars>>

WorkerEnds(w) == ~on["jobs"] /\ Move(w, "idle", "ended") /\ UNCHANGED <<pipeVars, jobVars>>

LoopEnds(l) ==
  /\ ~on[Flag[l]] /\ Move(l, "loop", "ended")
  /\ UNCHANGED <<pipeVars, jobVars>>

Finished == main \in {"failed", "stopped"} /\ UNCHANGED vars

-----------------------------------------------------------------------------

Start ==
  \/ Load \/ LoadFails \/ StartSessions \/ StartThrottle \/ StartJobs \/ StartPipe
  \/ StartTelemetry

Stop ==
  \/ StopApp \/ StopPipe \/ Wake \/ JoinAccept \/ CloseConnections \/ JoinConnections
  \/ StopJobs \/ JoinWorkers \/ StopSessions \/ JoinCleanup \/ StopThrottle
  \/ JoinMonitor \/ JoinTelemetry \/ Unload

AcceptStep == Check \/ CreatePipe \/ Leave \/ Accept
ConnStep(c) == Handshake(c) \/ HandshakeFails(c) \/ (~running[c] /\ (Submit(c) \/ Disconnect(c)))
EventStep(c) == EventsCancelled(c) \/ EventsEnd(c)
WorkerStep(w) == Return(w) \/ WorkerEnds(w)

EventsNext(c) ==
  \/ EventsWrite(c) \/ EventsWritten(c) \/ EventsWriteFails(c)
  \/ EventsEnd(c) \/ EventsMiss(c) \/ EventsHear(c)
ConnNext(c) ==
  \/ Handshake(c) \/ HandshakeFails(c) \/ ReadScan(c) \/ Submit(c) \/ Disconnect(c)
  \/ EventsNext(c)

Next ==
  \/ Start \/ Stop \/ Control
  \/ AcceptStep \/ CreateFails \/ ClientConnects
  \/ \E c \in Conns : ConnNext(c)
  \/ \E w \in Workers : Take(w) \/ WorkerStep(w)
  \/ \E l \in Loops : LoopEnds(l)
  \/ Finished

Spec == Init /\ [][Next]_vars

\* Every thread runs and every call of the engine returns.  Clients need not come, and
\* need not read: a write ends for certain only when the pipe is broken, as it is when
\* a write has failed before, or closed.  The handshake's own frames fit the buffer.
Fairness ==
  /\ WF_vars(Start) /\ WF_vars(Stop) /\ WF_vars(AcceptStep)
  /\ \A c \in Conns : WF_vars(ConnStep(c)) /\ WF_vars(EventStep(c))
  /\ \A w \in Workers : WF_vars(WorkerStep(w))
  /\ \A l \in Loops : WF_vars(LoopEnds(l))

FairSpec == Spec /\ Fairness

-----------------------------------------------------------------------------
(* Properties.                                                             *)

Mains ==
  {"load", "sessions", "throttle", "jobs", "pipe", "telemetry", "wait", "pipe_off", "wake",
   "accept_join", "close", "conns_join", "jobs_off", "jobs_join", "sessions_off",
   "sessions_join", "throttle_off", "throttle_join", "telemetry_join", "unload",
   "stopped", "failed"}

ThreadStates ==
  {"none", "loop", "idle", "engine", "hello", "serve", "scan", "check", "create", "listen",
   "connected", "reap", "ended"}
EventStates == {"none", "loop", "write", "deaf", "ended"}

TypeOK ==
  /\ console \in BOOLEAN /\ stopEvent \in BOOLEAN /\ engine \in BOOLEAN
  /\ main \in Mains
  /\ status \in {"none", "start_pending", "running", "stop_pending", "stopped"}
  /\ on \in [{"app", "sessions", "throttle", "jobs", "pipe"} -> BOOLEAN]
  /\ thread \in [Threads -> ThreadStates]
  /\ running \in [Conns -> BOOLEAN] /\ clients \subseteq Conns
  /\ events \in [Conns -> EventStates]
  /\ queue \in Nat /\ received \in 0..MaxJobs

\* While a request is read or handled everything it needs is there: the connection's
\* session can be looked up, a submitted job finds workers, and they find the engine.
\* It holds when the pipe opens as well as on the way down, with a client that
\* connects while Stop is under way.
ServedWhenReady ==
  \A c \in Conns : ~Over(c) => on["sessions"] /\ on["jobs"] /\ engine

\* A worker calls through the pointers of the loaded DLL only: Unload, which clears
\* them without a lock, comes after the last call has returned.
EngineLoadedWhenCalled == \A w \in Workers : thread[w] = "engine" => engine

\* When the service says that it has stopped, or has failed to start, none of its
\* threads is left, the event threads of connections that ended long ago included:
\* they use objects that end with ServiceMain.
StoppedIsQuiet ==
  main \in {"failed", "stopped"} =>
    (\A t \in Threads : Over(t)) /\ (\A c \in Conns : EventsOver(c))

\* AcceptLoop has seen that the pipe is to run, Stop has looked for an instance to
\* wake it with, and only then the instance was created.
WakeMissed == main = "accept_join" /\ thread["accept"] = "listen"

\* AcceptLoop, which Stop joins before it cancels anything, is joining a connection
\* whose client neither reads nor closes its end.
ReapBlocked ==
  /\ main = "accept_join" /\ thread["accept"] = "reap"
  /\ \E c \in clients : ~running[c] /\ events[c] = "write"

\* Stop, or AcceptLoop, is joining an event thread that missed its notification.
EventsDeaf ==
  /\ main = "conns_join" \/ (main = "accept_join" /\ thread["accept"] = "reap")
  /\ \E c \in clients : ~running[c] /\ events[c] = "deaf"

=============================================================================
