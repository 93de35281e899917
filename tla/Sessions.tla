------------------------------ MODULE Sessions ------------------------------
(***************************************************************************)
(* The life of connections and logical sessions: PipeServer's accept loop, *)
(* the two threads of each ClientSession (Run and the event thread), the   *)
(* table of SessionManager with its cleanup thread, and the connected_     *)
(* flag of each SessionState.  What flows through a session is the subject *)
(* of module EventDelivery.                                                *)
(*                                                                         *)
(* One action is one critical section or one step between two of them.     *)
(* SessionManager::mutex_ is held across steps only by the cleanup thread, *)
(* from an expiry check to the erase; SessionState::mutex_ only by an      *)
(* event thread between the wait predicate and the wait.                   *)
(***************************************************************************)
EXTENDS Integers

CONSTANTS
  Conns,        \* ClientSession objects; a reaped one stands for a later one
  MaxSessions   \* bound: HELLO creates at most MaxSessions sessions

ASSUME SessionsAssumption == MaxSessions \in Nat \ {0}

Ids  == 1..MaxSessions
NoId == 0

VARIABLES
  nextSessionId,  \* nextSessionId_
  table,          \* the keys of SessionManager::sessions_
  connected,      \* connected_ of each session
  windowOver,     \* ten seconds have passed since disconnectedAt_
  cleaning,       \* the session the cleanup thread is about to erase
  step,           \* each connection: how far Run is
  running,        \* ClientSession::running_
  session,        \* sessionState_, or the session RESUME has looked up
  events          \* each connection: where its event thread is

managerVars == <<nextSessionId, table, cleaning>>
stateVars   == <<connected, windowOver>>
connVars    == <<step, running, session, events>>
vars == <<managerVars, stateVars, connVars>>

ManagerFree == cleaning = NoId
StateFree(s) == \A c \in Conns : session[c] = s => events[c] # "block"

Attached(c) == step[c] \in {"welcome", "serving", "wake", "lookup", "mark"}

Init ==
  /\ nextSessionId = 1
  /\ table = {}
  /\ connected = [s \in Ids |-> FALSE]
  /\ windowOver = [s \in Ids |-> FALSE]
  /\ cleaning = NoId
  /\ step = [c \in Conns |-> "free"]
  /\ running = [c \in Conns |-> FALSE]
  /\ session = [c \in Conns |-> NoId]
  /\ events = [c \in Conns |-> "none"]

Goto(c, s) == step' = [step EXCEPT ![c] = s]

\* cv_.notify_all() of session s: the event threads that wait there go on.
Woken(s) ==
  [c \in Conns |-> IF session[c] = s /\ events[c] = "waiting" THEN "loop" ELSE events[c]]

-----------------------------------------------------------------------------
(* AcceptLoop().                                                           *)

Ended(c) == step[c] = "done" /\ events[c] \in {"none", "exited"}

\* A client connects.  The loop first joins and erases every connection that does
\* not run, waiting for its two threads, then starts the new one.
Accept(c) ==
  LET dead == {d \in Conns : step[d] # "free" /\ ~running[d]} IN
  /\ step[c] = "free"
  /\ \A d \in dead : Ended(d)
  /\ step' = [d \in Conns |-> IF d = c THEN "hello" ELSE IF d \in dead THEN "free" ELSE step[d]]
  /\ running' = [running EXCEPT ![c] = TRUE]
  /\ session' = [d \in Conns |-> IF d \in dead THEN NoId ELSE session[d]]
  /\ events' = [d \in Conns |-> IF d \in dead THEN "none" ELSE events[d]]
  /\ UNCHANGED <<managerVars, stateVars>>

-----------------------------------------------------------------------------
(* PerformHandshake().                                                     *)

\* The handshake fails before a session is attached; Run calls Stop().
Refuse(c) ==
  /\ running' = [running EXCEPT ![c] = FALSE]
  /\ session' = [session EXCEPT ![c] = NoId]
  /\ Goto(c, "done")
  /\ UNCHANGED events

\* No frame, not HELLO or RESUME, malformed, or the caller is not who it says.
BadHandshake(c) ==
  /\ step[c] = "hello"
  /\ Refuse(c)
  /\ UNCHANGED <<managerVars, stateVars>>

\* HELLO: SessionManager::Create.
Hello(c) ==
  /\ step[c] = "hello" /\ ManagerFree
  /\ nextSessionId \in Ids
  /\ nextSessionId' = nextSessionId + 1
  /\ table' = table \cup {nextSessionId}
  /\ connected' = [connected EXCEPT ![nextSessionId] = TRUE]
  /\ session' = [session EXCEPT ![c] = nextSessionId]
  /\ Goto(c, "welcome")
  /\ UNCHANGED <<cleaning, windowOver, running, events>>

\* RESUME: SessionManager::Resume looks the session up under mutex_ ...
ResumeLookup(c, s) ==
  /\ step[c] = "hello" /\ ManagerFree
  /\ IF s \in table
       THEN /\ session' = [session EXCEPT ![c] = s]
            /\ Goto(c, "found")
            /\ UNCHANGED <<running, events>>
       ELSE Refuse(c)
  /\ UNCHANGED <<managerVars, stateVars>>

\* Mutant: the test of connected_ is inverted.
IsExpiredInverted(s) == connected[s] /\ windowOver[s]

IsExpired(s) == ~connected[s] /\ windowOver[s]

\* ... looks at its age without that lock ...
ResumeCheck(c) ==
  /\ step[c] = "found" /\ StateFree(session[c])
  /\ Goto(c, IF IsExpired(session[c]) THEN "expired" ELSE "checked")
  /\ UNCHANGED <<managerVars, stateVars, running, session, events>>

\* ... erases it when it is too old ...
ResumeErase(c) ==
  /\ step[c] = "expired" /\ ManagerFree
  /\ table' = table \ {session[c]}
  /\ Refuse(c)
  /\ UNCHANGED <<nextSessionId, cleaning, stateVars>>

\* Mutant: PrepareResume does not look at connected_.
ResumePrepareAlways(c) ==
  /\ step[c] = "checked" /\ StateFree(session[c])
  /\ connected' = [connected EXCEPT ![session[c]] = TRUE]
  /\ windowOver' = [windowOver EXCEPT ![session[c]] = FALSE]
  /\ Goto(c, "welcome")
  /\ UNCHANGED <<managerVars, running, session, events>>

\* ... and else attaches it, if it is disconnected.
ResumePrepare(c) ==
  LET s == session[c] IN
  /\ step[c] = "checked" /\ StateFree(s) /\ ~connected[s]
  /\ connected' = [connected EXCEPT ![s] = TRUE]
  /\ windowOver' = [windowOver EXCEPT ![s] = FALSE]
  /\ Goto(c, "welcome")
  /\ UNCHANGED <<managerVars, running, session, events>>

\* Another client or identity, still connected, or the history is too short.
ResumeRefused(c) ==
  /\ step[c] = "checked" /\ StateFree(session[c])
  /\ Refuse(c)
  /\ UNCHANGED <<managerVars, stateVars>>

\* WELCOME is sent and the event thread starts.
Welcome(c) ==
  /\ step[c] = "welcome"
  /\ Goto(c, "serving")
  /\ events' = [events EXCEPT ![c] = "loop"]
  /\ UNCHANGED <<managerVars, stateVars, running, session>>

\* The write of WELCOME fails: Send clears running_ and wakes, so that Stop(), which
\* Run calls next, finds it cleared, wakes again and leaves the session as it is.
WelcomeFails(c) ==
  /\ step[c] = "welcome"
  /\ running' = [running EXCEPT ![c] = FALSE]
  /\ events' = Woken(session[c])
  /\ Goto(c, "done")
  /\ UNCHANGED <<managerVars, stateVars, session>>

-----------------------------------------------------------------------------
(* Run(), after the handshake.                                             *)

\* The read fails (the client is gone, or silent for five seconds), or the event
\* thread has cleared running_.  The pipe stays open until the object is destroyed.
LeaveLoop(c) ==
  /\ step[c] = "serving"
  /\ running' = [running EXCEPT ![c] = FALSE]
  /\ Goto(c, "wake")
  /\ UNCHANGED <<managerVars, stateVars, session, events>>

\* Wake() notifies without SessionState::mutex_.
Wake(c) ==
  /\ step[c] = "wake"
  /\ events' = Woken(session[c])
  /\ Goto(c, "lookup")
  /\ UNCHANGED <<managerVars, stateVars, running, session>>

\* Mutant: the old connection marks the session a second time after it was resumed.
LateMarkLookup(c) ==
  /\ step[c] \in {"lookup", "done"} /\ ManagerFree /\ session[c] # NoId
  /\ Goto(c, IF session[c] \in table THEN "mark" ELSE "done")
  /\ UNCHANGED <<managerVars, stateVars, running, session, events>>

\* SessionManager::MarkDisconnected finds the session, or not ...
MarkLookup(c) ==
  /\ step[c] = "lookup" /\ ManagerFree
  /\ Goto(c, IF session[c] \in table THEN "mark" ELSE "done")
  /\ UNCHANGED <<managerVars, stateVars, running, session, events>>

\* Mutant: MarkDisconnected does not notify.
MarkSilently(c) ==
  /\ step[c] = "mark" /\ StateFree(session[c])
  /\ connected' = [connected EXCEPT ![session[c]] = FALSE]
  /\ Goto(c, "done")
  /\ UNCHANGED <<managerVars, windowOver, running, session, events>>

\* ... and SessionState::MarkDisconnected marks it and notifies.
Mark(c) ==
  LET s == session[c] IN
  /\ step[c] = "mark" /\ StateFree(s)
  /\ connected' = [connected EXCEPT ![s] = FALSE]
  /\ events' = IF connected[s] THEN Woken(s) ELSE events
  /\ Goto(c, "done")
  /\ UNCHANGED <<managerVars, windowOver, running, session>>

-----------------------------------------------------------------------------
(* RunEventLoop().                                                         *)

\* The loop, WaitPop or Send, before it writes, sees that the connection has ended.
EventsExit(c) ==
  /\ events[c] \in {"loop", "sending"} /\ ~running[c]
  /\ events' = [events EXCEPT ![c] = "exited"]
  /\ UNCHANGED <<managerVars, stateVars, step, running, session>>

\* WaitPop finds an event ...
EventsPop(c) ==
  /\ events[c] = "loop" /\ running[c] /\ StateFree(session[c])
  /\ events' = [events EXCEPT ![c] = "sending"]
  /\ UNCHANGED <<managerVars, stateVars, step, running, session>>

\* ... and writes it with a WriteFile that has no timeout.  It returns when the client
\* has made room, also after Run has left its loop ...
EventsSent(c) ==
  /\ events[c] = "sending"
  /\ events' = [events EXCEPT ![c] = "loop"]
  /\ UNCHANGED <<managerVars, stateVars, step, running, session>>

\* ... or fails when the client closes its end: Send clears running_ and wakes.
EventsSendFails(c) ==
  /\ events[c] = "sending"
  /\ running' = [running EXCEPT ![c] = FALSE]
  /\ events' = [Woken(session[c]) EXCEPT ![c] = "exited"]
  /\ UNCHANGED <<managerVars, stateVars, step, session>>

\* WaitPop finds none: it holds mutex_ from the predicate on ...
EventsBlock(c) ==
  /\ events[c] = "loop" /\ running[c] /\ StateFree(session[c])
  /\ events' = [events EXCEPT ![c] = "block"]
  /\ UNCHANGED <<managerVars, stateVars, step, running, session>>

\* ... until it waits.
EventsWait(c) ==
  /\ events[c] = "block"
  /\ events' = [events EXCEPT ![c] = "waiting"]
  /\ UNCHANGED <<managerVars, stateVars, step, running, session>>

\* SendJobEvent of some job of the session, under mutex_.
JobEvent(s) ==
  /\ StateFree(s)
  /\ events' = Woken(s)
  /\ UNCHANGED <<managerVars, stateVars, step, running, session>>

-----------------------------------------------------------------------------
(* Time, and CleanupLoop().                                                *)

\* Ten seconds have passed since the session was disconnected.
WindowPasses(s) ==
  /\ s < nextSessionId /\ ~connected[s]
  /\ windowOver' = [windowOver EXCEPT ![s] = TRUE]
  /\ UNCHANGED <<managerVars, connected, connVars>>

CleanupCheck(s) ==
  /\ ManagerFree /\ s \in table /\ StateFree(s)
  /\ IsExpired(s)
  /\ cleaning' = s
  /\ UNCHANGED <<nextSessionId, table, stateVars, connVars>>

CleanupErase ==
  /\ cleaning # NoId
  /\ table' = table \ {cleaning}
  /\ cleaning' = NoId
  /\ UNCHANGED <<nextSessionId, stateVars, connVars>>

-----------------------------------------------------------------------------

Handshake(c) ==
  \/ BadHandshake(c) \/ Hello(c) \/ \E s \in Ids : ResumeLookup(c, s)

ResumeStep(c) ==
  ResumeCheck(c) \/ ResumeErase(c) \/ ResumePrepare(c) \/ ResumeRefused(c)

\* What an event thread does on its own; a write it has begun is up to the client.
EventStep(c) == (events[c] = "loop" /\ EventsExit(c)) \/ EventsWait(c)

ConnNext(c) ==
  \/ Accept(c) \/ Handshake(c) \/ ResumeStep(c) \/ Welcome(c) \/ WelcomeFails(c)
  \/ LeaveLoop(c) \/ Wake(c) \/ MarkLookup(c) \/ Mark(c)
  \/ EventsExit(c) \/ EventsPop(c) \/ EventsSent(c) \/ EventsSendFails(c)
  \/ EventsBlock(c) \/ EventsWait(c)

Next ==
  \/ \E c \in Conns : ConnNext(c)
  \/ \E s \in Ids : JobEvent(s) \/ WindowPasses(s) \/ CleanupCheck(s)
  \/ CleanupErase

Spec == Init /\ [][Next]_vars

\* Every thread runs, ReadMessage and so the handshake ends, time passes, the
\* cleanup thread comes round, and a thread that asks for a mutex again and again
\* gets it (strong fairness).  WELCOME fits the pipe's buffer.  Clients need not
\* connect, read or close, and jobs need not report: nothing makes EventsSent or
\* EventsSendFails happen.
Fairness ==
  /\ \A c \in Conns :
       /\ WF_vars(BadHandshake(c)) /\ SF_vars(ResumeStep(c)) /\ WF_vars(Welcome(c))
       /\ WF_vars(~running[c] /\ LeaveLoop(c)) /\ WF_vars(Wake(c))
       /\ SF_vars(MarkLookup(c)) /\ SF_vars(Mark(c)) /\ WF_vars(EventStep(c))
  /\ \A s \in Ids : WF_vars(~windowOver[s] /\ WindowPasses(s)) /\ SF_vars(CleanupCheck(s))
  /\ WF_vars(CleanupErase)

FairSpec == Spec /\ Fairness

-----------------------------------------------------------------------------
(* Properties.                                                             *)

TypeOK ==
  /\ nextSessionId \in 1..(MaxSessions + 1)
  /\ table \in SUBSET Ids
  /\ connected \in [Ids -> BOOLEAN]
  /\ windowOver \in [Ids -> BOOLEAN]
  /\ cleaning \in Ids \cup {NoId}
  /\ step \in [Conns -> {"free", "hello", "found", "checked", "expired", "welcome",
                         "serving", "wake", "lookup", "mark", "done"}]
  /\ running \in [Conns -> BOOLEAN]
  /\ session \in [Conns -> Ids \cup {NoId}]
  /\ events \in [Conns -> {"none", "loop", "block", "waiting", "sending", "exited"}]

\* A session is streamed by one connection at a time: of two connections attached
\* to the same session at most one is running, also when two clients resume it at
\* once and while the threads of the old connection are still on their way out.
OneStreamPerSession ==
  \A c, d \in Conns :
    c # d /\ session[c] = session[d] /\ Attached(c) /\ Attached(d) =>
      ~(running[c] /\ running[d])

\* A running connection's session is marked connected, so that nobody else can take
\* it over and the cleanup thread leaves it alone.
StreamIsConnected ==
  \A c \in Conns : running[c] /\ Attached(c) => connected[session[c]]

StreamsKept == \A c \in Conns : Attached(c) => session[c] \in table

\* No write is held up for good: each client reads on, or closes its end.
WritesReturn == \A c \in Conns : []<>(events[c] # "sending")

\* The event thread of a connection that ends always leaves, although Wake() can be
\* lost between its predicate and its wait: MarkDisconnected notifies under mutex_.
\* That takes a session which is still in the table, and clients that let writes
\* return: one that keeps its end open and does not read holds the thread in WriteFile,
\* and AcceptLoop, which joins it, for as long as it likes.
EventsExitIfKept ==
  ([]StreamsKept /\ WritesReturn) =>
    \A c \in Conns : (events[c] # "none" /\ ~running[c]) ~> (events[c] \in {"none", "exited"})

\* docs/WEEK5_FLOW.md:325 and after say that when the pipe breaks the session is
\* marked disconnected: the connection of a connected session is not over.
NoStrandedSession ==
  \A s \in table : connected[s] => \E c \in Conns : session[c] = s /\ Attached(c)

\* As long as no session is stranded, a session is never left behind: without a
\* running connection it is in the end resumed or removed from the table.
SessionReclaimed ==
  []NoStrandedSession =>
    \A s \in Ids :
      (s \in table /\ \A c \in Conns : session[c] = s => ~running[c])
        ~> (s \notin table \/ \E c \in Conns : session[c] = s /\ running[c])
=============================================================================
