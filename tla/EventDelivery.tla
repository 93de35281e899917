---------------------------- MODULE EventDelivery ----------------------------
(***************************************************************************)
(* The event path of one session: SessionState with its EventQueue         *)
(* (outbound_) and EventHistory (history_), the event thread of the        *)
(* connection that streams it, the pipe, and the client that remembers     *)
(* lastEventSeq and resumes after a break.                                 *)
(*                                                                         *)
(* An event is named by its sequence number; log[n] says what event n is:  *)
(* "verbose" (Progress, Delayed), "terminal" (the end of a job) or "flow"  *)
(* (FLOW_CONTROL, with the droppedVerbose it announces).  The last two are *)
(* critical.  Every action is one critical section of SessionState::mutex_ *)
(* or one step of the connection or the client.  Whether a session is      *)
(* still in SessionManager's table is the subject of module Sessions.      *)
(***************************************************************************)
EXTENDS Integers, Sequences, FiniteSets, SequencesExt

CONSTANTS
  OutboundLimit,  \* the soft limit of outbound_ (256 in the code)
  HistoryLimit,   \* the size of history_ (1024 in the code)
  PipeLimit,      \* events the pipe can hold before a write blocks
  MaxEvents,      \* bound: job events that are given a sequence number
  MaxDropped      \* bound: verbose events that are dropped

ASSUME EventDeliveryAssumption ==
  {OutboundLimit, HistoryLimit, PipeLimit, MaxEvents, MaxDropped} \subseteq Nat \ {0}

VARIABLES
  log,                \* every event generated so far; nextEventSeq_ is Len(log) + 1
  history,            \* history_
  outbound,           \* outbound_
  droppedVerbose,     \* droppedVerbose_
  flowControlQueued,  \* flowControlQueued_
  connected,          \* connected_
  running,            \* ClientSession::running_ of the latest connection
  inflight,           \* what WaitPop returned and Send has not written yet
  attached,           \* the client still holds that connection open
  pipe,               \* written and not yet read
  lastEventSeq,       \* the client's lastEventSeq
  received            \* events the client has read

stateVars  == <<log, history, outbound, droppedVerbose, flowControlQueued>>
clientVars == <<lastEventSeq, received>>
vars == <<stateVars, connected, running, inflight, attached, pipe, clientVars>>

Critical(n, l) == l[n].kind # "verbose"

-----------------------------------------------------------------------------
(* EventQueue and EventHistory.                                            *)

RemoveOldestVerbose(q, l) == RemoveFirstMatch(q, LAMBDA n : ~Critical(n, l))

\* Mutant: a full queue refuses critical events too.
PushRefusing(q, n, l) == IF Len(q) < OutboundLimit THEN Append(q, n) ELSE q

\* EventQueue::Push of a critical event, or of a verbose one when there is room.
Push(q, n, l) ==
  IF Len(q) < OutboundLimit THEN Append(q, n) ELSE Append(RemoveOldestVerbose(q, l), n)

\* EventHistory::Add keeps the newest events.
AddHistory(h, n) ==
  IF Len(h) < HistoryLimit THEN Append(h, n) ELSE Append(Tail(h), n)

\* EventHistory::GetAfter: can the history serve a client that has seen last?
HistoryServes(last) ==
  history # <<>> =>
    /\ last <= history[Len(history)]
    /\ history[1] - last <= 1

\* How many events of the history are not newer than last; it is in ascending order.
Seen(last) == Cardinality({i \in DOMAIN history : history[i] <= last})

\* Mutant: one event too few is replayed.
GetAfterSkipping(last) == SubSeq(history, Seen(last) + 2, Len(history))

\* The newer ones, for the replay.
GetAfter(last) == SubSeq(history, Seen(last) + 1, Len(history))

\* An event gets the next sequence number and enters history_ and outbound_; q is
\* the queue it is pushed to.
Emit(event, q) ==
  /\ log' = Append(log, event)
  /\ history' = AddHistory(history, Len(log) + 1)
  /\ outbound' = Push(q, Len(log) + 1, log')

\* QueueFlowControlLocked when none is queued yet.
QueueFlowControl(q, dropped) ==
  /\ Emit([kind |-> "flow", dropped |-> dropped], q)
  /\ flowControlQueued' = TRUE

-----------------------------------------------------------------------------

\* A new session on a new connection (HELLO).
Init ==
  /\ log = <<>>
  /\ history = <<>>
  /\ outbound = <<>>
  /\ droppedVerbose = 0
  /\ flowControlQueued = FALSE
  /\ connected = TRUE
  /\ running = TRUE
  /\ inflight = <<>>
  /\ attached = TRUE
  /\ pipe = <<>>
  /\ lastEventSeq = 0
  /\ received = {}

-----------------------------------------------------------------------------
(* SendJobEvent(), called by the worker threads.                           *)

Bounded == Len(SelectSeq(log, LAMBDA e : e.kind # "flow")) < MaxEvents

SendTerminal ==
  /\ Bounded
  /\ Emit([kind |-> "terminal", dropped |-> 0], outbound)
  /\ UNCHANGED <<droppedVerbose, flowControlQueued, connected, running, inflight,
                 attached, pipe, clientVars>>

SendVerbose ==
  /\ Bounded
  /\ Len(outbound) < OutboundLimit
  /\ Emit([kind |-> "verbose", dropped |-> 0], outbound)
  /\ UNCHANGED <<droppedVerbose, flowControlQueued, connected, running, inflight,
                 attached, pipe, clientVars>>

\* The queue is full: the event is dropped, and a FLOW_CONTROL queued unless one is.
DropVerbose ==
  /\ droppedVerbose < MaxDropped
  /\ Len(outbound) >= OutboundLimit
  /\ droppedVerbose' = droppedVerbose + 1
  /\ IF flowControlQueued
       THEN UNCHANGED <<log, history, outbound, flowControlQueued>>
       ELSE QueueFlowControl(outbound, droppedVerbose + 1)
  /\ UNCHANGED <<connected, running, inflight, attached, pipe, clientVars>>

-----------------------------------------------------------------------------
(* RunEventLoop(), the event thread of the connection.                     *)

\* Mutant: WaitPop does not look whether more was dropped meanwhile.
WaitPopForgetful ==
  /\ running /\ inflight = <<>> /\ outbound # <<>>
  /\ inflight' = <<Head(outbound)>>
  /\ outbound' = Tail(outbound)
  /\ flowControlQueued' = (flowControlQueued /\ log[Head(outbound)].kind # "flow")
  /\ UNCHANGED <<log, history, droppedVerbose, connected, running, attached,
                 pipe, clientVars>>

\* WaitPop takes the front event.  When that is a FLOW_CONTROL and more was dropped
\* since, another one is queued.
WaitPop ==
  LET n == Head(outbound) IN
  /\ running /\ inflight = <<>> /\ outbound # <<>>
  /\ inflight' = <<n>>
  /\ IF log[n].kind = "flow" /\ droppedVerbose > log[n].dropped
       THEN QueueFlowControl(Tail(outbound), droppedVerbose)
       ELSE /\ outbound' = Tail(outbound)
            /\ flowControlQueued' = (flowControlQueued /\ log[n].kind # "flow")
            /\ UNCHANGED <<log, history>>
  /\ UNCHANGED <<droppedVerbose, connected, running, attached, pipe, clientVars>>

\* SendServiceEvent writes the event to the pipe, which must have room.
Send ==
  /\ running /\ inflight # <<>>
  /\ attached /\ Len(pipe) < PipeLimit
  /\ pipe' = pipe \o inflight
  /\ inflight' = <<>>
  /\ UNCHANGED <<stateVars, connected, running, attached, clientVars>>

\* The connection ends: a write fails (then the event is gone), or Run's next read
\* does, at the latest after five seconds without a request.
ConnectionEnds ==
  /\ running
  /\ running' = FALSE
  /\ inflight' = <<>>
  /\ UNCHANGED <<stateVars, connected, attached, pipe, clientVars>>

\* Run leaves its loop and marks the session disconnected.
MarkDisconnected ==
  /\ ~running /\ connected
  /\ connected' = FALSE
  /\ UNCHANGED <<stateVars, running, inflight, attached, pipe, clientVars>>

-----------------------------------------------------------------------------
(* The client, and RESUME.                                                 *)

\* The client reads an event; lastEventSeq never decreases.
ClientReads ==
  /\ attached /\ pipe # <<>>
  /\ received' = received \cup {Head(pipe)}
  /\ lastEventSeq' = IF Head(pipe) > lastEventSeq THEN Head(pipe) ELSE lastEventSeq
  /\ pipe' = Tail(pipe)
  /\ UNCHANGED <<stateVars, connected, running, inflight, attached>>

\* The client's read fails or times out: it closes its end, with what is in it.
ClientCloses ==
  /\ attached
  /\ attached' = FALSE
  /\ pipe' = <<>>
  /\ UNCHANGED <<stateVars, connected, running, inflight, clientVars>>

\* Mutant: PrepareResume replays behind what is still queued.
ResumeUncleared ==
  /\ ~attached /\ ~connected /\ HistoryServes(lastEventSeq)
  /\ outbound' = outbound \o GetAfter(lastEventSeq)
  /\ connected' = TRUE /\ running' = TRUE /\ attached' = TRUE
  /\ UNCHANGED <<log, history, droppedVerbose, flowControlQueued, inflight, pipe,
                 clientVars>>

\* Mutant: PrepareResume replays nothing.
ResumeEmpty ==
  /\ ~attached /\ ~connected /\ HistoryServes(lastEventSeq)
  /\ outbound' = <<>> /\ flowControlQueued' = FALSE
  /\ connected' = TRUE /\ running' = TRUE /\ attached' = TRUE
  /\ UNCHANGED <<log, history, droppedVerbose, inflight, pipe, clientVars>>

\* The client comes back and PrepareResume accepts: the queue is rebuilt from the
\* history and a new connection streams it.  A refusal changes nothing.
Resume ==
  /\ ~attached /\ ~connected /\ HistoryServes(lastEventSeq)
  /\ outbound' = GetAfter(lastEventSeq)
  /\ flowControlQueued' = \E i \in 1..Len(outbound') : log[outbound'[i]].kind = "flow"
  /\ connected' = TRUE /\ running' = TRUE /\ attached' = TRUE
  /\ UNCHANGED <<log, history, droppedVerbose, inflight, pipe, clientVars>>

-----------------------------------------------------------------------------

Server == SendTerminal \/ SendVerbose \/ DropVerbose \/ WaitPop \/ Send
          \/ ConnectionEnds \/ MarkDisconnected
Client == ClientReads \/ ClientCloses

Next == Server \/ Client \/ Resume
Spec == Init /\ [][Next]_vars

\* The threads run and the client reads; nothing obliges the jobs to report, the
\* connection to break or the client to come back.
Fairness == WF_vars(WaitPop) /\ WF_vars(Send) /\ WF_vars(ClientReads)
FairSpec == Spec /\ Fairness

-----------------------------------------------------------------------------
(* Properties.                                                             *)

Events == 1..Len(log)
CriticalEvents == {n \in Events : Critical(n, log)}

TypeOK ==
  /\ \A n \in Events : log[n].kind \in {"verbose", "terminal", "flow"} /\ log[n].dropped \in 0..MaxDropped
  /\ \A q \in {history, outbound, inflight, pipe} : \A i \in 1..Len(q) : q[i] \in Events
  /\ Len(history) <= HistoryLimit /\ Len(inflight) <= 1 /\ Len(pipe) <= PipeLimit
  /\ droppedVerbose \in 0..MaxDropped
  /\ {flowControlQueued, connected, running, attached} \subseteq BOOLEAN
  /\ lastEventSeq \in 0..Len(log) /\ received \subseteq Events

\* Everything on its way to the client, in the order it will arrive.
Transit == pipe \o inflight \o outbound

Streaming == running /\ attached

\* Over any number of breaks and replays the client gets new events only, each
\* once, in the order in which they were generated.
NewAndInOrder ==
  Streaming =>
    /\ \A i \in 1..Len(Transit) : Transit[i] > lastEventSeq
    /\ \A i, j \in 1..Len(Transit) : i < j => Transit[i] < Transit[j]

\* While the connection streams, no critical event is missing: it has been received
\* or is on its way, whatever was evicted, dropped, lost in a broken pipe or trimmed
\* from the history.
CriticalOnTheWay ==
  Streaming =>
    \A n \in CriticalEvents : n \in received \/ \E i \in 1..Len(Transit) : Transit[i] = n

\* The largest number of dropped events the client has been told.
Announced ==
  LET told == {log[n].dropped : n \in {m \in received : log[m].kind = "flow"}}
  IN  IF told = {} THEN 0 ELSE CHOOSE d \in told : \A e \in told : e <= d

\* The client is told of every dropped event: as long as it does not know the
\* present count a FLOW_CONTROL is on its way, also after a replay.
DropsAnnounced ==
  Streaming /\ Announced < droppedVerbose =>
    \E i \in 1..Len(Transit) : log[Transit[i]].kind = "flow"

\* The abstract promise: critical events arrive completely, once and in order.
Stream == INSTANCE CriticalStream
            WITH generated <- CriticalEvents,
                 delivered <- {n \in received : Critical(n, log)}
StreamSpec == Stream!Spec

\* Once the connection stays up, every critical event reaches the client.
CriticalArrives ==
  <>[]Streaming => \A n \in 1..(MaxEvents + MaxDropped) :
                     [](n \in CriticalEvents => <>(n \in received))
=============================================================================
