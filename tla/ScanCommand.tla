----------------------------- MODULE ScanCommand -----------------------------
(***************************************************************************)
(* The scan command of the client against the service, end to end: the     *)
(* pipe with its five-second silences, HELLO and RESUME, the connection    *)
(* that reads SCAN and answers it while its event thread streams the job's *)
(* events, and the client that takes up its session after every break.     *)
(*                                                                         *)
(* Module Sessions refines the table and the threads of a connection,      *)
(* module EventDelivery the queue and the history; here a session streams  *)
(* all events of its job in order, and a frame is written as a whole or    *)
(* not at all.  A session has one job, as a client sends one SCAN.         *)
(***************************************************************************)
EXTENDS Integers, Sequences, FiniteSets

CONSTANTS
  Clients,       \* scan commands, each with a path of its own
  Conns,         \* connections (ClientSession objects)
  MaxProgress,   \* bound: events of a job before its last
  MaxRestarts,   \* bound: how often the service is restarted
  None

ASSUME ScanCommandAssumption ==
  /\ IsFiniteSet(Clients) /\ None \notin Clients \cup Conns \cup {"running", "completed", "failed"}
  /\ MaxProgress \in Nat /\ MaxRestarts \in Nat

Ids == 1..Cardinality(Clients)   \* each client creates one session and one job
NoId == 0

VARIABLES
  \* each client
  cstep,          \* how far ScanCommand is
  pipe,           \* the connection it holds open
  sessionId, jobId, lastEventSeq, exitCode,
  \* each connection
  step,           \* how far Run is
  running,        \* running_
  session,        \* sessionState_
  toServer, toClient,   \* written and not yet read
  \* the service
  sessions,       \* each session with the job that reports to it
  nextJobId,      \* nextJobId_
  restarts,
  outcome         \* history: how the job of each client ended

clientVars == <<cstep, pipe, sessionId, jobId, lastEventSeq, exitCode>>
pipeVars   == <<toServer, toClient>>
connVars   == <<step, running, session>>
vars == <<clientVars, pipeVars, connVars, sessions, nextJobId, restarts, outcome>>

\* sent: the events popped from outbound_; published: those in history_; result: how
\* the job ended; client: whose session it is (the program does not keep that).
NoSession ==
  [inTable |-> FALSE, connected |-> FALSE, sent |-> 0, published |-> 0,
   job |-> NoId, result |-> None, client |-> None]

Msg(type, id, seq, state) == [type |-> type, id |-> id, seq |-> seq, state |-> state]

Init ==
  /\ cstep = [k \in Clients |-> "start"] /\ pipe = [k \in Clients |-> None]
  /\ sessionId = [k \in Clients |-> NoId] /\ jobId = [k \in Clients |-> NoId]
  /\ lastEventSeq = [k \in Clients |-> 0] /\ exitCode = [k \in Clients |-> 1]
  /\ step = [c \in Conns |-> "free"] /\ running = [c \in Conns |-> FALSE]
  /\ session = [c \in Conns |-> NoId]
  /\ toServer = [c \in Conns |-> <<>>] /\ toClient = [c \in Conns |-> <<>>]
  /\ sessions = [s \in Ids |-> NoSession]
  /\ nextJobId = 1 /\ restarts = 0
  /\ outcome = [k \in Clients |-> None]

ClientGoto(k, s) == cstep' = [cstep EXCEPT ![k] = s]
Goto(c, s) == step' = [step EXCEPT ![c] = s]

ClientThere(c) == \E k \in Clients : pipe[k] = c
Open(c) == step[c] # "free"      \* the service has its end open

-----------------------------------------------------------------------------
(* The client: OpenSession, SendHello, ReconnectAndResume, SendResume.     *)

FirstTime(k) == cstep[k] \in {"start", "welcome"}

\* An attempt fails: the first time the command ends, later it tries again.
Fail(k) ==
  /\ ClientGoto(k, IF FirstTime(k) THEN "done" ELSE "retry")
  /\ pipe' = [pipe EXCEPT ![k] = None]
  /\ UNCHANGED <<sessionId, jobId, lastEventSeq, exitCode>>

\* CreateFile succeeds, AcceptLoop starts a connection, and HELLO or RESUME is written.
Connect(k) ==
  /\ cstep[k] \in {"start", "resume", "retry"}
  /\ \E c \in Conns :
       /\ step[c] \in {"free", "over"} /\ ~ClientThere(c)
       /\ pipe' = [pipe EXCEPT ![k] = c]
       /\ toServer' = [toServer EXCEPT ![c] =
            <<Msg(IF FirstTime(k) THEN "HELLO" ELSE "RESUME",
                  sessionId[k], lastEventSeq[k], None)>>]
       /\ toClient' = [toClient EXCEPT ![c] = <<>>]
       /\ Goto(c, "handshake")
       /\ running' = [running EXCEPT ![c] = TRUE]
       /\ session' = [session EXCEPT ![c] = NoId]
  /\ ClientGoto(k, IF FirstTime(k) THEN "welcome" ELSE "resuming")
  /\ UNCHANGED <<sessionId, jobId, lastEventSeq, exitCode, sessions, nextJobId, restarts, outcome>>

\* The pipe does not exist or stays busy.
ConnectFails(k) ==
  /\ cstep[k] \in {"start", "resume", "retry"}
  /\ Fail(k)
  /\ UNCHANGED <<pipeVars, connVars, sessions, nextJobId, restarts, outcome>>

ReadWelcome(k) ==
  LET c == pipe[k] IN
  /\ cstep[k] \in {"welcome", "resuming"} /\ toClient[c] # <<>>
  /\ ClientGoto(k, IF FirstTime(k) THEN "write" ELSE "read")
  /\ sessionId' = [sessionId EXCEPT ![k] = Head(toClient[c]).id]
  /\ toClient' = [toClient EXCEPT ![c] = Tail(@)]
  /\ UNCHANGED <<pipe, jobId, lastEventSeq, exitCode, toServer, connVars, sessions,
                 nextJobId, restarts, outcome>>

\* The service closed the pipe, or five seconds passed without a byte.
ReadWelcomeFails(k) ==
  /\ cstep[k] \in {"welcome", "resuming"} /\ toClient[pipe[k]] = <<>>
  /\ Fail(k)
  /\ UNCHANGED <<pipeVars, connVars, sessions, nextJobId, restarts, outcome>>

\* The deadline of ten seconds has passed.
GiveUp(k) ==
  /\ cstep[k] = "retry"
  /\ ClientGoto(k, "done")
  /\ UNCHANGED <<pipe, sessionId, jobId, lastEventSeq, exitCode, pipeVars, connVars,
                 sessions, nextJobId, restarts, outcome>>

-----------------------------------------------------------------------------
(* The client: ScanCommand.                                                *)

\* A pipe whose other end is open takes the request, whether or not it is still read.
WriteScan(k) ==
  /\ cstep[k] = "write"
  /\ IF Open(pipe[k])
       THEN /\ toServer' = [toServer EXCEPT ![pipe[k]] = Append(@, Msg("SCAN", NoId, 0, None))]
            /\ ClientGoto(k, "read") /\ UNCHANGED pipe
       ELSE /\ ClientGoto(k, "done") /\ pipe' = [pipe EXCEPT ![k] = None]
            /\ UNCHANGED toServer
  /\ UNCHANGED <<sessionId, jobId, lastEventSeq, exitCode, toClient, connVars, sessions,
                 nextJobId, restarts, outcome>>

\* Read one message of the given type; the loop ends when stop holds.
Read(k, type, stop) ==
  /\ cstep[k] = "read" /\ toClient[pipe[k]] # <<>>
  /\ Head(toClient[pipe[k]]).type = type
  /\ toClient' = [toClient EXCEPT ![pipe[k]] = Tail(@)]
  /\ IF stop THEN ClientGoto(k, "done") /\ pipe' = [pipe EXCEPT ![k] = None]
             ELSE UNCHANGED <<cstep, pipe>>
  /\ UNCHANGED <<sessionId, toServer, connVars, sessions, nextJobId, restarts, outcome>>

ReadError(k) == Read(k, "ERROR", TRUE) /\ UNCHANGED <<jobId, lastEventSeq, exitCode>>

ReadAck(k) ==
  /\ Read(k, "ACK", FALSE)
  /\ jobId' = [jobId EXCEPT ![k] = Head(toClient[pipe[k]]).id]
  /\ UNCHANGED <<lastEventSeq, exitCode>>

\* Mutant: any last event ends the command with 0.
ReadEventOptimist(k) ==
  LET m == Head(toClient[pipe[k]]) IN
  /\ Read(k, "EVENT", m.state # "running")
  /\ lastEventSeq' = [lastEventSeq EXCEPT ![k] = IF m.seq > @ THEN m.seq ELSE @]
  /\ jobId' = [jobId EXCEPT ![k] = IF @ = NoId THEN m.id ELSE @]
  /\ exitCode' = [exitCode EXCEPT ![k] = IF m.state # "running" THEN 0 ELSE 2]

\* Events of another job are passed over; before the ACK any job is the client's.
ReadEvent(k) ==
  LET m == Head(toClient[pipe[k]])
      own == jobId[k] \in {NoId, m.id}
  IN
  /\ Read(k, "EVENT", own /\ m.state # "running")
  /\ lastEventSeq' = [lastEventSeq EXCEPT ![k] = IF m.seq > @ THEN m.seq ELSE @]
  /\ jobId' = [jobId EXCEPT ![k] = IF @ = NoId THEN m.id ELSE @]
  /\ exitCode' = [exitCode EXCEPT ![k] =
       IF ~own THEN @ ELSE IF m.state = "completed" THEN 0 ELSE 2]

\* The pipe is broken or was silent for five seconds: it is closed and the session
\* is to be resumed.
ReadFails(k) ==
  /\ cstep[k] = "read" /\ toClient[pipe[k]] = <<>>
  /\ ClientGoto(k, "resume")
  /\ pipe' = [pipe EXCEPT ![k] = None]
  /\ UNCHANGED <<sessionId, jobId, lastEventSeq, exitCode, pipeVars, connVars, sessions,
                 nextJobId, restarts, outcome>>

-----------------------------------------------------------------------------
(* The service: PerformHandshake.                                          *)

SessionUpdate(s, r) == sessions' = [sessions EXCEPT ![s] = r]

\* Stop() in place of the session: the pipe is disconnected, unread answers are lost.
Closed(c) ==
  /\ Goto(c, "free")
  /\ running' = [running EXCEPT ![c] = FALSE] /\ session' = [session EXCEPT ![c] = NoId]
  /\ toServer' = [toServer EXCEPT ![c] = <<>>] /\ toClient' = [toClient EXCEPT ![c] = <<>>]

\* No identity, or the read comes too late.
HandshakeFails(c) ==
  /\ step[c] = "handshake"
  /\ Closed(c)
  /\ UNCHANGED <<clientVars, sessions, nextJobId, restarts, outcome>>

Owner(c) == IF ClientThere(c) THEN CHOOSE k \in Clients : pipe[k] = c ELSE None

Attach(c, s) ==
  /\ session' = [session EXCEPT ![c] = s]
  /\ toServer' = [toServer EXCEPT ![c] = Tail(@)]
  /\ Goto(c, "welcome")
  /\ UNCHANGED <<running, toClient, clientVars, nextJobId, restarts, outcome>>

NextSessionId == Cardinality({s \in Ids : sessions[s] # NoSession}) + 1

Hello(c) ==
  /\ step[c] = "handshake" /\ Head(toServer[c]).type = "HELLO"
  /\ NextSessionId \in Ids
  /\ SessionUpdate(NextSessionId, [NoSession EXCEPT !.inTable = TRUE, !.connected = TRUE,
                                                    !.client = Owner(c)])
  /\ Attach(c, NextSessionId)

\* GetAfter accepts every number as long as the history is empty.
Resumable(m) ==
  LET s == sessions[m.id] IN
  /\ s.inTable /\ ~s.connected
  /\ s.published > 0 => m.seq <= s.published

\* Mutant: the events the last connection has popped are not replayed.
ResumeUnreplayed(c) ==
  LET m == Head(toServer[c]) IN
  /\ step[c] = "handshake" /\ m.type = "RESUME" /\ Resumable(m)
  /\ SessionUpdate(m.id, [sessions[m.id] EXCEPT !.connected = TRUE])
  /\ Attach(c, m.id)

Resume(c) ==
  LET m == Head(toServer[c]) IN
  /\ step[c] = "handshake" /\ m.type = "RESUME" /\ Resumable(m)
  /\ SessionUpdate(m.id, [sessions[m.id] EXCEPT
       !.connected = TRUE, !.sent = IF sessions[m.id].published = 0 THEN 0 ELSE m.seq])
  /\ Attach(c, m.id)

ResumeRefused(c) ==
  /\ step[c] = "handshake" /\ Head(toServer[c]).type = "RESUME"
  /\ ~Resumable(Head(toServer[c]))
  /\ Closed(c)
  /\ UNCHANGED <<clientVars, sessions, nextJobId, restarts, outcome>>

\* Send(): it fails when the client has closed its end, and then ends the connection.
Send(c, m) ==
  /\ IF running[c] /\ ClientThere(c)
       THEN toClient' = [toClient EXCEPT ![c] = Append(@, m)] /\ UNCHANGED running
       ELSE running' = [running EXCEPT ![c] = FALSE] /\ UNCHANGED toClient
  /\ UNCHANGED toServer

\* When WELCOME cannot be written the session stays marked connected for ever.
Welcome(c) ==
  /\ step[c] = "welcome"
  /\ Send(c, Msg("WELCOME", session[c], 0, None))
  /\ Goto(c, IF ClientThere(c) THEN "serving" ELSE "over")
  /\ UNCHANGED <<session, clientVars, sessions, nextJobId, restarts, outcome>>

-----------------------------------------------------------------------------
(* The service: Run and HandleScan.                                        *)

ReadScan(c) ==
  /\ step[c] = "serving" /\ running[c] /\ toServer[c] # <<>>
  /\ toServer' = [toServer EXCEPT ![c] = Tail(@)]
  /\ Goto(c, "scan")
  /\ UNCHANGED <<running, session, toClient, clientVars, sessions, nextJobId, restarts, outcome>>

\* Malformed, denied by the policy, or too many requests.
RefuseScan(c) ==
  /\ step[c] = "scan"
  /\ Send(c, Msg("ERROR", NoId, 0, None))
  /\ Goto(c, "serving")
  /\ UNCHANGED <<session, clientVars, sessions, nextJobId, restarts, outcome>>

\* JobManager::Submit: from here on the workers report to the session ...
Submit(c) ==
  /\ step[c] = "scan"
  /\ SessionUpdate(session[c], [sessions[session[c]] EXCEPT !.job = nextJobId])
  /\ nextJobId' = nextJobId + 1
  /\ Goto(c, "ack")
  /\ UNCHANGED <<running, session, clientVars, pipeVars, restarts, outcome>>

\* Mutant: the answer names the next job.
AckNextId(c) ==
  /\ step[c] = "ack"
  /\ Send(c, Msg("ACK", nextJobId, 0, None))
  /\ Goto(c, "serving")
  /\ UNCHANGED <<session, clientVars, sessions, nextJobId, restarts, outcome>>

\* ... before the answer is written.
Ack(c) ==
  /\ step[c] = "ack"
  /\ Send(c, Msg("ACK", sessions[session[c]].job, 0, None))
  /\ Goto(c, "serving")
  /\ UNCHANGED <<session, clientVars, sessions, nextJobId, restarts, outcome>>

\* The read fails (the client is gone or was silent for five seconds), or a write did.
LeaveLoop(c) ==
  /\ step[c] = "serving" /\ (~running[c] \/ toServer[c] = <<>>)
  /\ running' = [running EXCEPT ![c] = FALSE]
  /\ Goto(c, "mark")
  /\ UNCHANGED <<session, clientVars, pipeVars, sessions, nextJobId, restarts, outcome>>

\* The handle stays open, with what the client has not read, until it is reaped.
Mark(c) ==
  LET s == session[c] IN
  /\ step[c] = "mark"
  /\ SessionUpdate(s, [sessions[s] EXCEPT !.connected = @ /\ ~sessions[s].inTable])
  /\ Goto(c, "over")
  /\ UNCHANGED <<running, session, clientVars, pipeVars, nextJobId, restarts, outcome>>

\* AcceptLoop, when it takes another connection.
Reap(c) ==
  /\ step[c] = "over"
  /\ Closed(c)
  /\ UNCHANGED <<clientVars, sessions, nextJobId, restarts, outcome>>

State(s, n) ==
  IF n = s.published /\ s.result # None THEN s.result ELSE "running"

\* The event thread takes the next event and writes it.
SendEvent(c) ==
  LET s == sessions[session[c]]
      n == s.sent + 1
  IN
  /\ step[c] \in {"serving", "scan", "ack"} /\ running[c]
  /\ n <= s.published
  /\ SessionUpdate(session[c], [s EXCEPT !.sent = n])
  /\ Send(c, Msg("EVENT", s.job, n, State(s, n)))
  /\ UNCHANGED <<step, session, clientVars, nextJobId, restarts, outcome>>

-----------------------------------------------------------------------------
(* The job of session s, the session's end, and the service's.             *)

\* job->sink.lock(): somebody still holds the session.
Held(s) == sessions[s].inTable \/ \E c \in Conns : session[c] = s

Active(s) == sessions[s].job # NoId /\ sessions[s].result = None

Progress(s) ==
  /\ Active(s) /\ Held(s) /\ sessions[s].published < MaxProgress
  /\ SessionUpdate(s, [sessions[s] EXCEPT !.published = @ + 1])
  /\ UNCHANGED <<clientVars, pipeVars, connVars, nextJobId, restarts, outcome>>

\* The last event; nobody sees it when nobody holds the session any more.
JobEnds(s) ==
  /\ Active(s)
  /\ \E r \in {"completed", "failed"} :
       /\ SessionUpdate(s, [sessions[s] EXCEPT !.result = r, !.published = @ + 1])
       /\ outcome' = [k \in Clients |-> IF k = sessions[s].client THEN r ELSE outcome[k]]
  /\ UNCHANGED <<clientVars, pipeVars, connVars, nextJobId, restarts>>

\* Ten seconds after it was marked disconnected.
Expire(s) ==
  /\ sessions[s].inTable /\ ~sessions[s].connected
  /\ SessionUpdate(s, [sessions[s] EXCEPT !.inTable = FALSE])
  /\ UNCHANGED <<clientVars, pipeVars, connVars, nextJobId, restarts, outcome>>

\* The process ends, and with it every pipe, session and job; another one starts.
Restart ==
  /\ restarts < MaxRestarts
  /\ restarts' = restarts + 1
  /\ step' = [c \in Conns |-> "free"] /\ running' = [c \in Conns |-> FALSE]
  /\ session' = [c \in Conns |-> NoId]
  /\ toServer' = [c \in Conns |-> <<>>] /\ toClient' = [c \in Conns |-> <<>>]
  /\ sessions' = [s \in Ids |-> NoSession]
  /\ nextJobId' = 1
  /\ UNCHANGED <<clientVars, outcome>>

Finished == (\A k \in Clients : cstep[k] = "done") /\ UNCHANGED vars

-----------------------------------------------------------------------------

ClientStep(k) ==
  \/ Connect(k) \/ ReadWelcome(k) \/ WriteScan(k)
  \/ ReadError(k) \/ ReadAck(k) \/ ReadEvent(k)

ClientFails(k) == ConnectFails(k) \/ ReadWelcomeFails(k) \/ ReadFails(k) \/ GiveUp(k)

ConnStep(c) ==
  \/ Hello(c) \/ Resume(c) \/ ResumeRefused(c) \/ Welcome(c)
  \/ ReadScan(c) \/ RefuseScan(c) \/ Submit(c) \/ Ack(c) \/ LeaveLoop(c) \/ Mark(c)

Next ==
  \/ \E k \in Clients : ClientStep(k) \/ ClientFails(k)
  \/ \E c \in Conns : ConnStep(c) \/ SendEvent(c) \/ HandshakeFails(c) \/ Reap(c)
  \/ \E s \in Ids : Progress(s) \/ JobEnds(s) \/ Expire(s)
  \/ Restart \/ Finished

Spec == Init /\ [][Next]_vars

Streaming(s, c) == session[c] = s /\ ClientThere(c)

\* Threads run, jobs end, and ReconnectAndResume returns after ten seconds.  In the
\* long run an event is sent before the client has waited for five seconds, and the
\* client reads what has arrived before the service reaps the connection.
Fairness ==
  /\ \A k \in Clients :
       /\ WF_vars(ClientStep(k) \/ ClientFails(k))
       /\ []<>(cstep[k] \notin {"resume", "resuming", "retry"})
  /\ \A c \in Conns : WF_vars(ConnStep(c))
  /\ \A s \in Ids :
       WF_vars(JobEnds(s)) /\ SF_vars(\E c \in Conns : Streaming(s, c) /\ SendEvent(c))
  /\ <>[][\A c \in Conns : Reap(c) /\ ClientThere(c) => toClient[c] = <<>>]_vars

FairSpec == Spec /\ Fairness

-----------------------------------------------------------------------------
(* Properties.                                                             *)

Messages == [type : {"HELLO", "RESUME", "SCAN", "WELCOME", "ERROR", "ACK", "EVENT"},
             id : Nat, seq : Nat, state : {"running", "completed", "failed", None}]

TypeOK ==
  /\ cstep \in [Clients -> {"start", "welcome", "write", "read", "resume", "resuming",
                           "retry", "done"}]
  /\ pipe \in [Clients -> Conns \cup {None}]
  /\ sessionId \in [Clients -> Ids \cup {NoId}] /\ jobId \in [Clients -> Nat]
  /\ lastEventSeq \in [Clients -> 0..(MaxProgress + 1)] /\ exitCode \in [Clients -> 0..2]
  /\ step \in [Conns -> {"free", "handshake", "welcome", "serving", "scan", "ack", "mark",
                         "over"}]
  /\ running \in [Conns -> BOOLEAN] /\ session \in [Conns -> Ids \cup {NoId}]
  /\ toServer \in [Conns -> Seq(Messages)] /\ toClient \in [Conns -> Seq(Messages)]
  /\ sessions \in [Ids -> [inTable : BOOLEAN, connected : BOOLEAN,
       sent : 0..(MaxProgress + 1), published : 0..(MaxProgress + 1),
       job : Ids \cup {NoId}, result : {None, "completed", "failed"},
       client : Clients \cup {None}]]
  /\ nextJobId \in Nat /\ restarts \in 0..MaxRestarts

\* A command that ends with 0 says that its own file has been scanned.
OwnResult ==
  \A k \in Clients : cstep[k] = "done" /\ exitCode[k] = 0 => outcome[k] = "completed"

\* Whether the ACK or the first event of the job comes first, and over any number of
\* breaks, both name the same job.
JobIdKept == [][\A k \in Clients : jobId[k] # NoId => jobId'[k] = jobId[k]]_vars

\* main.cpp:160 says that a broken pipe is replaced and the old session resumed: the
\* session that is streamed to a client is the one that was created for it.
ResumesOwnSession ==
  \A k \in Clients, c \in Conns :
    pipe[k] = c /\ running[c] /\ step[c] = "serving" => sessions[session[c]].client = k

\* The session of client k has no job, and nobody is left to create it or say why not.
RequestLost(k) ==
  /\ sessionId[k] # NoId /\ sessions[sessionId[k]].job = NoId
  /\ \A c \in Conns : session[c] = sessionId[k] =>
       step[c] # "scan" /\ ~(step[c] = "serving" /\ toServer[c] # <<>>)
  /\ pipe[k] = None \/ toClient[pipe[k]] = <<>>

\* Every command ends, over any number of breaks, refusals and restarts, except one
\* whose request or whose refusal got lost.
EndsUnlessLost ==
  \A k \in Clients : (cstep[k] = "read") ~> (cstep[k] = "done" \/ RequestLost(k))
=============================================================================
