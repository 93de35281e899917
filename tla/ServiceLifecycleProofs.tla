----------------------- MODULE ServiceLifecycleProofs -----------------------
(***************************************************************************)
(* Proofs about ServiceLifecycle for any workers, connections and number   *)
(* of requests: nothing is used before it is there or after it is gone,    *)
(* and no thread survives the service.                                     *)
(*                                                                         *)
(* The invariant says what the place of the main thread in Start or Stop   *)
(* tells about the rest: which parts are on, and which threads may still   *)
(* run.  A connection with a thread that runs is in clientSessions_, so    *)
(* joining those joins all of them.                                        *)
(***************************************************************************)
EXTENDS ServiceLifecycle, TLAPS

\* The places of the main thread at which a thread of each kind may run: from the step
\* after the one that creates it to the one that joins it.
AcceptLife  == {"telemetry", "wait", "pipe_off", "wake", "accept_join"}
ConnLife    == AcceptLife \cup {"close", "conns_join"}
WorkerLife  == {"pipe"} \cup ConnLife \cup {"jobs_off", "jobs_join"}
CleanupLife == {"throttle", "jobs"} \cup WorkerLife \cup {"sessions_off", "sessions_join"}
MonitorLife == (CleanupLife \ {"throttle"}) \cup {"throttle_off", "throttle_join"}
TelemetryLife ==
  (MonitorLife \ {"jobs", "pipe", "telemetry"}) \cup {"telemetry_join"}

\* The places at which the parts that requests need are on.
SessionsOn == CleanupLife \ {"sessions_join"}
JobsOn     == WorkerLife \ {"jobs_join"}
EngineIn   == Mains \ {"load", "stopped", "failed"}

Lives ==
  /\ ~Over("accept") => main \in AcceptLife
  /\ \A c \in Conns : ~Joinable(c) => main \in ConnLife /\ c \in clients
  /\ \A w \in Workers : ~Over(w) => main \in WorkerLife
  /\ ~Over("cleanup") => main \in CleanupLife
  /\ ~Over("monitor") => main \in MonitorLife
  /\ ~Over("telemetry") => main \in TelemetryLife

PartsOn ==
  /\ main \in SessionsOn => on["sessions"]
  /\ main \in JobsOn => on["jobs"]
  /\ main \in EngineIn => engine

IInv == TypeOK /\ Lives /\ PartsOn

LEMMA Phases ==
  /\ ConnLife \subseteq SessionsOn /\ ConnLife \subseteq JobsOn /\ ConnLife \subseteq EngineIn
  /\ WorkerLife \subseteq EngineIn
  /\ \A m \in {"failed", "stopped"} :
       m \notin AcceptLife \cup ConnLife \cup WorkerLife \cup CleanupLife \cup MonitorLife
                \cup TelemetryLife
BY DEF AcceptLife, ConnLife, WorkerLife, CleanupLife, MonitorLife, TelemetryLife,
       SessionsOn, JobsOn, EngineIn, Mains

\* The names of the threads are different.
LEMMA Names ==
  /\ Workers \subseteq Threads /\ Conns \subseteq Threads
  /\ {"accept", "cleanup", "monitor", "telemetry"} \subseteq Threads
  /\ \A t \in Workers : t \notin Conns
  /\ \A t \in Workers \cup Conns : t \notin {"accept", "cleanup", "monitor", "telemetry"}
  /\ \A t \in Threads :
       t \in Workers \cup Conns \/ t \in {"accept", "cleanup", "monitor", "telemetry"}
BY LifecycleAssumption DEF Threads, Loops

LEMMA InitIInv == Init => IInv
<1> SUFFICES ASSUME Init PROVE IInv
  OBVIOUS
<1>1. TypeOK
  <2>1. on \in [{"app", "sessions", "throttle", "jobs", "pipe"} -> BOOLEAN]
    <3>1. \A p \in {"app", "sessions", "throttle", "jobs", "pipe"} : (p = "app") \in BOOLEAN
      BY Zenon
    <3> QED BY <3>1, Zenon DEF Init
  <2>2. status \in {"none", "start_pending", "running", "stop_pending", "stopped"}
    BY DEF Init
  <2>3. thread \in [Threads -> ThreadStates]
    BY DEF Init, ThreadStates
  <2>4. running \in [Conns -> BOOLEAN]
    BY DEF Init
  <2>5. console \in BOOLEAN /\ stopEvent \in BOOLEAN /\ engine \in BOOLEAN /\ main \in Mains
    BY DEF Init, Mains
  <2>6. clients \subseteq Conns /\ queue \in Nat /\ received \in 0..MaxJobs
    BY LifecycleAssumption DEF Init
  <2>7. events \in [Conns -> EventStates]
    BY DEF Init, EventStates
  <2> QED BY <2>1, <2>2, <2>3, <2>4, <2>5, <2>6, <2>7 DEF TypeOK
<1>2. Lives
  BY Names DEF Init, Lives, Over, Joinable, EventsOver
<1>3. PartsOn
  BY DEF Init, PartsOn, SessionsOn, CleanupLife, WorkerLife, ConnLife, AcceptLife, JobsOn,
         EngineIn
<1> QED BY <1>1, <1>2, <1>3 DEF IInv

-----------------------------------------------------------------------------
(* Steps of the main thread.                                               *)

\* The main thread goes on, no thread is created, and those that are not to run at
\* its new place have ended.
LEMMA MainMoves ==
  ASSUME IInv, TypeOK', PartsOn',
         UNCHANGED <<events, clients>>,
         \A t \in Threads : Over(t) => Over(t)',
         Over("accept") \/ main \notin AcceptLife \/ main' \in AcceptLife,
         main \notin ConnLife \/ main' \in ConnLife \/ \A c \in clients : Joinable(c),
         main \notin WorkerLife \/ main' \in WorkerLife \/ \A w \in Workers : Over(w),
         Over("cleanup") \/ main \notin CleanupLife \/ main' \in CleanupLife,
         Over("monitor") \/ main \notin MonitorLife \/ main' \in MonitorLife,
         Over("telemetry") \/ main \notin TelemetryLife \/ main' \in TelemetryLife
  PROVE  IInv'
<1>1. \A c \in Conns : Joinable(c) => Joinable(c)'
  BY Names DEF Joinable, EventsOver
<1>2. Lives'
  BY <1>1, Names DEF IInv, Lives
<1> QED BY <1>2 DEF IInv

\* A thread other than the main one takes a step: it ends or goes on.
LEMMA ThreadMoves ==
  ASSUME IInv, TypeOK', UNCHANGED <<main, on, engine, clients>>,
         \A t \in Threads : Over(t) => Over(t)',
         \A c \in Conns : EventsOver(c) => EventsOver(c)'
  PROVE  IInv'
<1>1. Lives'
  BY Names DEF IInv, Lives, Joinable
<1>2. PartsOn'
  BY DEF IInv, PartsOn
<1> QED BY <1>1, <1>2 DEF IInv


LEMMA TypeStep == TypeOK /\ [Next]_vars => TypeOK'
<1> SUFFICES ASSUME TypeOK, [Next]_vars PROVE TypeOK'
  OBVIOUS
<1> USE LifecycleAssumption DEF TypeOK, Goto, Report, Mains, ThreadStates, EventStates, mainVars,
        pipeVars, jobVars
<1>1. CASE UNCHANGED vars
  BY <1>1 DEF vars
<1>2. CASE Start
  <2>1. CASE Load
    BY <2>1 DEF Load
  <2>2. CASE LoadFails
    BY <2>2 DEF LoadFails
  <2>3. ASSUME NEW s, NEW p, NEW threads, NEW at \in ThreadStates, NEW next \in Mains,
               Begin(s, p, threads, at, next)
        PROVE  TypeOK'
    <3>1. thread' \in [Threads -> ThreadStates]
      BY <2>3 DEF Begin
    <3>2. on' \in [{"app", "sessions", "throttle", "jobs", "pipe"} -> BOOLEAN]
      BY <2>3 DEF Begin
    <3> QED BY <2>3, <3>1, <3>2 DEF Begin
  <2>4. CASE StartTelemetry
    BY <2>4, Names DEF StartTelemetry
  <2> QED BY <1>2, <2>1, <2>2, <2>3, <2>4
          DEF Start, StartSessions, StartThrottle, StartJobs, StartPipe
<1>3. CASE Stop
  <2>1. CASE StopApp \/ StopPipe \/ StopJobs \/ StopSessions \/ StopThrottle
    BY <2>1 DEF StopApp, StopPipe, StopJobs, StopSessions, StopThrottle, TurnOff
  <2>2. CASE JoinAccept \/ JoinConnections \/ JoinWorkers \/ JoinCleanup \/ JoinMonitor
             \/ JoinTelemetry
    BY <2>2 DEF JoinAccept, JoinConnections, JoinWorkers, JoinCleanup, JoinMonitor,
                JoinTelemetry, Join
  <2>3. CASE Wake
    BY <2>3 DEF Wake
  <2>4. CASE CloseConnections
    <3>1. \A c \in Conns : (running[c] /\ c \notin clients) \in BOOLEAN
      OBVIOUS
    <3> QED BY <2>4, <3>1 DEF CloseConnections
  <2>5. CASE Unload
    BY <2>5 DEF Unload
  <2> QED BY <1>3, <2>1, <2>2, <2>3, <2>4, <2>5 DEF Stop
<1>4. CASE Control
  BY <1>4 DEF Control
<1>5. CASE AcceptStep \/ CreateFails \/ ClientConnects
  <2>1. CASE Accept
    <3> DEFINE dead == {c \in clients : ~running[c]}
    <3>1. CASE \A c \in dead : Joinable(c)
      <4>1. PICK c \in Conns \ (clients \ dead) :
              /\ clients' = (clients \ dead) \cup {c}
              /\ running' = [running EXCEPT ![c] = TRUE]
              /\ events' = [events EXCEPT ![c] = "none"]
              /\ thread' = [thread EXCEPT !["accept"] = "check", ![c] = "hello"]
        BY <2>1, <3>1 DEF Accept
      <4> QED BY <2>1, <4>1 DEF Accept
    <3>2. CASE ~(\A c \in dead : Joinable(c))
      <4>1. thread' = [thread EXCEPT !["accept"] = "reap"] /\ UNCHANGED pipeVars
        BY <2>1, <3>2 DEF Accept
      <4> QED BY <2>1, <4>1 DEF Accept
    <3> QED BY <3>1, <3>2
  <2>2. CASE Check \/ CreatePipe \/ Leave \/ CreateFails \/ ClientConnects
    BY <2>2 DEF Check, CreatePipe, Leave, CreateFails, ClientConnects, Move
  <2> QED BY <1>5, <2>1, <2>2 DEF AcceptStep
<1>6. ASSUME NEW c \in Conns, ConnNext(c)
      PROVE  TypeOK'
  <2>1. CASE ReadScan(c)
    <3>1. received' \in 0..MaxJobs
      BY <2>1 DEF ReadScan
    <3> QED BY <2>1, <3>1 DEF ReadScan, Move
  <2>2. CASE Submit(c)
    <3>1. PICK b \in BOOLEAN : running' = [running EXCEPT ![c] = @ /\ b]
      BY <2>2 DEF Submit
    <3>2. running' \in [Conns -> BOOLEAN]
      <4>1. (running[c] /\ b) \in BOOLEAN
        OBVIOUS
      <4> QED BY <3>1, <4>1
    <3>3. queue' \in Nat
      BY <2>2 DEF Submit
    <3>4. thread' \in [Threads -> ThreadStates]
      BY <2>2 DEF Submit, Move
    <3> QED BY <2>2, <3>2, <3>3, <3>4 DEF Submit, Move
  <2>3. CASE Disconnect(c)
    BY <2>3 DEF Disconnect, Move
  <2>6. CASE HandshakeFails(c)
    BY <2>6 DEF HandshakeFails, Move
  <2>4. CASE Handshake(c)
    BY <2>4 DEF Handshake, Move
  <2>5. ASSUME NEW from, NEW to \in EventStates, MoveEvents(c, from, to),
               running' \in [Conns -> BOOLEAN]
        PROVE  TypeOK'
    <3>1. events' \in [Conns -> EventStates]
      BY <2>5 DEF MoveEvents
    <3> QED BY <2>5, <3>1 DEF MoveEvents
  <2>7. CASE EventsNext(c)
    <3>1. running' \in [Conns -> BOOLEAN]
      BY <2>7 DEF EventsNext, EventsWrite, EventsWritten, EventsWriteFails, EventsEnd, EventsMiss,
                  EventsHear
    <3>2. {"loop", "write", "deaf", "ended"} \subseteq EventStates
      OBVIOUS
    <3>3. \E from, to \in EventStates : MoveEvents(c, from, to)
      BY <2>7, <3>2
         DEF EventsNext, EventsWrite, EventsWritten, EventsWriteFails, EventsEnd, EventsMiss,
             EventsHear
    <3> QED BY <2>5, <3>1, <3>3
  <2> QED BY <1>6, <2>1, <2>2, <2>3, <2>4, <2>6, <2>7 DEF ConnNext
<1>7. ASSUME NEW w \in Workers, Take(w) \/ WorkerStep(w)
      PROVE  TypeOK'
  BY <1>7 DEF Take, WorkerStep, Return, WorkerEnds, Move
<1>8. ASSUME NEW l \in Loops, LoopEnds(l)
      PROVE  TypeOK'
  BY <1>8 DEF LoopEnds, Move
<1>9. CASE Finished
  BY <1>9 DEF Finished, vars
<1> QED BY <1>1, <1>2, <1>3, <1>4, <1>5, <1>6, <1>7, <1>8, <1>9 DEF Next

LEMMA IInvStep == IInv /\ [Next]_vars => IInv'
<1> SUFFICES ASSUME IInv, [Next]_vars PROVE IInv'
  OBVIOUS
<1>t. TypeOK /\ TypeOK'
  BY TypeStep DEF IInv
<1> USE <1>t
<1>1. CASE UNCHANGED vars
  BY <1>1, ThreadMoves DEF vars, mainVars, pipeVars, Over, EventsOver
<1>2. CASE Start
  <2> USE DEF IInv, Lives, PartsOn, Over, Joinable, EventsOver, Goto, pipeVars, TypeOK,
          SessionsOn, JobsOn, EngineIn, CleanupLife, MonitorLife, TelemetryLife, WorkerLife, ConnLife, AcceptLife
  <2>1. CASE Load
    BY <2>1 DEF Load, Mains
  <2>2. CASE LoadFails
    BY <2>2 DEF LoadFails, Mains
  <2>3. CASE StartSessions
    BY <2>3, Names DEF StartSessions, Begin, Mains
  <2>4. CASE StartThrottle
    BY <2>4, Names DEF StartThrottle, Begin, Mains
  <2>5. CASE StartJobs
    BY <2>5, Names DEF StartJobs, Begin, Mains
  <2>6. CASE StartPipe
    BY <2>6, Names DEF StartPipe, Begin, Mains
  <2>7. CASE StartTelemetry
    BY <2>7, Names DEF StartTelemetry, Mains
  <2> QED BY <1>2, <2>1, <2>2, <2>3, <2>4, <2>5, <2>6, <2>7 DEF Start
<1>3. CASE Stop
  <2> USE DEF SessionsOn, JobsOn, EngineIn, CleanupLife, MonitorLife, TelemetryLife, WorkerLife,
              ConnLife, AcceptLife, Goto, pipeVars
  <2>1. ASSUME NEW s, NEW p, NEW next, TurnOff(s, p, next),
               <<s, p, next>> \in {<<"wait", "app", "pipe_off">>, <<"pipe_off", "pipe", "wake">>,
                  <<"jobs_off", "jobs", "jobs_join">>,
                  <<"sessions_off", "sessions", "sessions_join">>,
                  <<"throttle_off", "throttle", "throttle_join">>}
        PROVE  IInv'
    <3>1. PartsOn'
      BY <2>1 DEF TurnOff, IInv, PartsOn, TypeOK, Mains
    <3> QED BY <2>1, <3>1, MainMoves DEF TurnOff, Over
  <2>2. ASSUME NEW s, NEW threads, NEW next, Join(s, threads, next),
               <<s, threads, next>> \in
                 {<<"accept_join", {"accept"}, "close">>, <<"jobs_join", Workers, "sessions_off">>,
                  <<"sessions_join", {"cleanup"}, "throttle_off">>,
                  <<"throttle_join", {"monitor"}, "telemetry_join">>,
                  <<"telemetry_join", {"telemetry"}, "unload">>}
        PROVE  IInv'
    <3>1. PartsOn'
      BY <2>2 DEF Join, IInv, PartsOn, TypeOK, Mains
    <3>2. UNCHANGED <<thread, events, clients>> /\ main = s /\ main' = next /\ \A t \in threads : Over(t)
      BY <2>2 DEF Join
    <3> QED BY <2>2, <3>1, <3>2, MainMoves DEF Over
  <2>3. CASE Wake
    <3>1. PartsOn'
      BY <2>3 DEF Wake, IInv, PartsOn, TypeOK, Mains
    <3>2. \A t \in Threads : Over(t) => Over(t)'
      BY <2>3 DEF Wake, Over, TypeOK
    <3> QED BY <2>3, <3>1, <3>2, MainMoves DEF Wake
  <2>4. CASE CloseConnections
    <3>1. PartsOn'
      BY <2>4 DEF CloseConnections, IInv, PartsOn, TypeOK, Mains
    <3>2. UNCHANGED <<thread, events, clients>> /\ main = "close" /\ main' = "conns_join"
      BY <2>4 DEF CloseConnections
    <3> QED BY <3>1, <3>2, MainMoves DEF Over
  <2>5. CASE Unload
    <3>1. PartsOn'
      BY <2>5 DEF Unload, IInv, PartsOn, TypeOK, Mains
    <3> QED BY <2>5, <3>1, MainMoves DEF Unload, Over
  <2>6. CASE JoinConnections
    <3>1. PartsOn'
      BY <2>6 DEF JoinConnections, Join, IInv, PartsOn, TypeOK, Mains
    <3>2. /\ UNCHANGED <<thread, events, clients>> /\ main = "conns_join" /\ main' = "jobs_off"
          /\ \A c \in clients : Joinable(c)
      BY <2>6 DEF JoinConnections, Join
    <3> QED BY <3>1, <3>2, MainMoves DEF Over
  <2> QED BY <1>3, <2>1, <2>2, <2>3, <2>4, <2>5, <2>6
          DEF Stop, StopApp, StopPipe, JoinAccept, StopJobs, JoinWorkers, StopSessions,
              JoinCleanup, StopThrottle, JoinMonitor, JoinTelemetry
<1>4. CASE Control
  BY <1>4, ThreadMoves DEF Control, pipeVars, Over, EventsOver
<1>5. CASE Check \/ CreatePipe \/ Leave \/ CreateFails \/ ClientConnects
  BY <1>5, ThreadMoves, Names
     DEF Check, CreatePipe, Leave, CreateFails, ClientConnects, Move, mainVars, pipeVars, Over,
         EventsOver, TypeOK
<1>6. CASE Accept
  <2> DEFINE dead == {c \in clients : ~running[c]}
  <2>1. CASE \A c \in dead : Joinable(c)
    <3>1. PICK c \in Conns \ (clients \ dead) :
            /\ clients' = (clients \ dead) \cup {c}
            /\ events' = [events EXCEPT ![c] = "none"]
            /\ thread' = [thread EXCEPT !["accept"] = "check", ![c] = "hello"]
      BY <1>6, <2>1 DEF Accept
    <3>2. main' = main /\ main \in AcceptLife /\ UNCHANGED <<on, engine>>
      BY <1>6 DEF Accept, IInv, Lives, Over, mainVars
    <3>3. \A t \in Threads \ {"accept", c} : thread'[t] = thread[t]
      BY <3>1 DEF TypeOK
    <3>4. \A d \in Conns : ~Joinable(d)' => main \in ConnLife /\ d \in clients'
      <4>1. c \in clients' /\ main \in ConnLife
        BY <3>1, <3>2 DEF ConnLife
      <4>2. ASSUME NEW d \in Conns \ {c}, ~Joinable(d)'
            PROVE  d \in clients'
        <5>1. thread'[d] = thread[d] /\ events'[d] = events[d]
          BY <3>1, <3>3, Names DEF TypeOK
        <5>2. ~Joinable(d)
          BY <4>2, <5>1 DEF Joinable, Over, EventsOver
        <5> QED BY <2>1, <3>1, <5>2 DEF IInv, Lives
      <4> QED BY <4>1, <4>2
    <3>5. Lives'
      BY <3>2, <3>3, <3>4, Names DEF IInv, Lives, Over
    <3> QED BY <3>2, <3>5 DEF IInv, PartsOn
  <2>2. CASE ~(\A c \in dead : Joinable(c))
    <3>1. /\ thread["accept"] = "connected" /\ UNCHANGED <<events, clients>>
          /\ thread' = [thread EXCEPT !["accept"] = "reap"]
      BY <1>6, <2>2 DEF Accept, pipeVars
    <3>2. \A t \in Threads : Over(t) => Over(t)'
      BY <3>1 DEF Over, TypeOK
    <3> QED BY <1>6, <3>1, <3>2, ThreadMoves DEF Accept, mainVars, EventsOver
  <2> QED BY <2>1, <2>2
<1>7. ASSUME NEW c \in Conns, ConnNext(c)
      PROVE  IInv'
  <2>1. CASE HandshakeFails(c) \/ ReadScan(c) \/ Submit(c) \/ Disconnect(c)
    BY <2>1, ThreadMoves, Names
       DEF HandshakeFails, ReadScan, Submit, Disconnect, Move, mainVars, pipeVars, Over,
           EventsOver, TypeOK
  <2>2. CASE Handshake(c)
    <3>1. /\ UNCHANGED <<main, on, engine, clients>> /\ thread[c] = "hello"
          /\ thread' = [thread EXCEPT ![c] = "serve"] /\ events' = [events EXCEPT ![c] = "loop"]
      BY <2>2 DEF Handshake, Move, mainVars
    <3>2. \A t \in Threads : Over(t)' <=> Over(t)
      BY <3>1 DEF Over, TypeOK
    <3>3. \A d \in Conns \ {c} : Joinable(d)' <=> Joinable(d)
      BY <3>1, <3>2, Names DEF Joinable, EventsOver, TypeOK
    <3>4. ~Joinable(c)
      BY <3>1 DEF Joinable, Over
    <3>5. Lives'
      BY <3>1, <3>2, <3>3, <3>4, Names DEF IInv, Lives
    <3> QED BY <3>1, <3>5 DEF IInv, PartsOn
  <2>3. CASE EventsNext(c)
    <3>1. UNCHANGED <<main, on, engine, thread, clients>>
      BY <2>3 DEF EventsNext, EventsWrite, EventsWritten, EventsWriteFails, EventsEnd, EventsMiss,
                  EventsHear, MoveEvents, mainVars
    <3>2. \A d \in Conns : EventsOver(d) => EventsOver(d)'
      BY <2>3 DEF EventsNext, EventsWrite, EventsWritten, EventsWriteFails, EventsEnd, EventsMiss,
                  EventsHear, MoveEvents, EventsOver, TypeOK
    <3> QED BY <3>1, <3>2, ThreadMoves DEF Over
  <2> QED BY <1>7, <2>1, <2>2, <2>3 DEF ConnNext
<1>8. ASSUME NEW w \in Workers, Take(w) \/ WorkerStep(w)
      PROVE  IInv'
  BY <1>8, ThreadMoves, Names
     DEF Take, WorkerStep, Return, WorkerEnds, Move, mainVars, pipeVars, Over, EventsOver, TypeOK
<1>9. ASSUME NEW l \in Loops, LoopEnds(l)
      PROVE  IInv'
  BY <1>9, ThreadMoves, Names
     DEF LoopEnds, Move, mainVars, pipeVars, Over, EventsOver, TypeOK, Loops
<1>10. CASE Finished
  BY <1>10, <1>1 DEF Finished
<1> QED BY <1>1, <1>2, <1>3, <1>4, <1>5, <1>6, <1>7, <1>8, <1>9, <1>10 DEF Next, AcceptStep

-----------------------------------------------------------------------------

THEOREM Invariance == Spec => []IInv
<1>1. Init => IInv
  BY InitIInv
<1>2. IInv /\ [Next]_vars => IInv'
  BY IInvStep
<1> QED BY <1>1, <1>2, PTL DEF Spec

\* The types of the variables.
THEOREM TypeCorrect == Spec => []TypeOK
<1>1. IInv => TypeOK
  BY DEF IInv
<1> QED BY <1>1, Invariance, PTL

\* A request is handled only while the sessions, the jobs and the engine are up.
THEOREM Served == Spec => []ServedWhenReady
<1>1. IInv => ServedWhenReady
  BY Phases DEF IInv, Lives, PartsOn, ServedWhenReady, Joinable
<1> QED BY <1>1, Invariance, PTL

\* The engine is called only while it is loaded.
THEOREM EngineStays == Spec => []EngineLoadedWhenCalled
<1>1. IInv => EngineLoadedWhenCalled
  <2> SUFFICES ASSUME IInv, NEW w \in Workers, thread[w] = "engine" PROVE engine
    BY DEF EngineLoadedWhenCalled
  <2>1. ~Over(w)
    BY DEF Over
  <2> QED BY <2>1, Phases DEF IInv, Lives, PartsOn
<1> QED BY <1>1, Invariance, PTL

\* No thread survives the service, nor a start that failed: neither a loop or a worker
\* nor one of the two threads of a connection.
THEOREM Quiet == Spec => []StoppedIsQuiet
<1>1. IInv => StoppedIsQuiet
  BY Phases, Names DEF IInv, Lives, StoppedIsQuiet, Joinable
<1> QED BY <1>1, Invariance, PTL
=============================================================================
