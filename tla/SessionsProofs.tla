--------------------------- MODULE SessionsProofs ---------------------------
(***************************************************************************)
(* Proofs about Sessions for any number of connections and sessions: a     *)
(* session is streamed by at most one connection.                          *)
(*                                                                         *)
(* A connection owns its session from the moment the session is attached   *)
(* to the moment it is marked disconnected (or not found any more).  The   *)
(* invariant says that an owned session is connected and has one owner;    *)
(* PrepareResume attaches only disconnected ones.                          *)
(***************************************************************************)
EXTENDS Sessions, TLAPS

Resuming(c) == step[c] \in {"found", "checked", "expired"}

Owned ==
  \A c \in Conns : Attached(c) => session[c] \in Ids /\ connected[session[c]]

OneOwner ==
  \A c, d \in Conns :
    c # d /\ Attached(c) /\ Attached(d) => session[c] # session[d]

\* Only ids that have been given out are in use.
KnownIds ==
  /\ \A c \in Conns : session[c] < nextSessionId /\ (Resuming(c) => session[c] \in Ids)
  /\ \A s \in table : s < nextSessionId

IInv == TypeOK /\ Owned /\ OneOwner /\ KnownIds

LEMMA InitIInv == Init => IInv
BY SessionsAssumption
   DEF Init, IInv, TypeOK, Owned, OneOwner, KnownIds, Attached, Resuming, Ids, NoId

\* A step of one connection that attaches nothing, detaches at most itself and marks
\* at most its own session.
LEMMA StepsBack ==
  ASSUME IInv, TypeOK', NEW c \in Conns,
         UNCHANGED nextSessionId, table' \subseteq table,
         \A d \in Conns \ {c} : step'[d] = step[d] /\ session'[d] = session[d],
         session'[c] = session[c] \/ session'[c] = NoId,
         Attached(c)' => Attached(c) /\ session'[c] = session[c],
         Resuming(c)' => session'[c] \in Ids,
         \/ connected' = connected
         \/ Attached(c) /\ ~Attached(c)' /\ connected' = [connected EXCEPT ![session[c]] = FALSE]
  PROVE  IInv'
<1> USE DEF IInv
<1>1. \A d \in Conns : Attached(d)' => Attached(d) /\ session'[d] = session[d]
  BY DEF Attached
<1>2. \A d \in Conns : Attached(d)' => connected'[session[d]] = connected[session[d]]
  BY <1>1 DEF OneOwner, Owned, TypeOK
<1>3. Owned' /\ OneOwner'
  BY <1>1, <1>2 DEF Owned, OneOwner
<1>4. nextSessionId' = nextSessionId /\ nextSessionId \in Nat /\ 0 < nextSessionId
  BY SessionsAssumption DEF TypeOK
<1>5. \A d \in Conns : session'[d] < nextSessionId
  <2>1. session'[c] < nextSessionId
    BY <1>4 DEF KnownIds, NoId
  <2> QED BY <2>1 DEF KnownIds
<1>6. \A d \in Conns : Resuming(d)' => session'[d] \in Ids
  BY DEF KnownIds, Resuming
<1>7. \A s \in table' : s < nextSessionId
  BY DEF KnownIds
<1>8. KnownIds'
  BY <1>4, <1>5, <1>6, <1>7 DEF KnownIds
<1> QED BY <1>3, <1>8

\* HELLO attaches a session nobody has, RESUME a disconnected one.
LEMMA Attaches ==
  ASSUME IInv, NEW c \in Conns, Hello(c) \/ ResumePrepare(c)
  PROVE  IInv'
<1> DEFINE s == session'[c]
<1> USE SessionsAssumption DEF IInv
<1>1. TypeOK'
  <2>1. CASE Hello(c)
    <3>1. nextSessionId' \in 1..(MaxSessions + 1) /\ nextSessionId \in Ids
      BY <2>1 DEF Hello, TypeOK, Ids
    <3> QED BY <2>1, <3>1 DEF Hello, Goto, TypeOK
  <2>2. CASE ResumePrepare(c)
    BY <2>2 DEF ResumePrepare, Goto, TypeOK, managerVars
  <2> QED BY <2>1, <2>2
<1>2. /\ s \in Ids /\ connected' = [connected EXCEPT ![s] = TRUE]
      /\ \A d \in Conns \ {c} : session'[d] = session[d] /\ step'[d] = step[d]
      /\ step'[c] = "welcome"
  BY DEF Hello, ResumePrepare, Goto, TypeOK, KnownIds, Resuming
<1>3. \A d \in Conns \ {c} : Attached(d) => session[d] # s
  BY DEF Hello, ResumePrepare, TypeOK, KnownIds, Owned
<1>4. \A d \in Conns \ {c} : Attached(d)' <=> Attached(d)
  BY <1>2 DEF Attached
<1>5. Owned' /\ OneOwner'
  BY <1>1, <1>2, <1>3, <1>4 DEF Owned, OneOwner, TypeOK
<1>6. KnownIds'
  <2>1. CASE Hello(c)
    BY <1>2, <2>1 DEF Hello, KnownIds, TypeOK, Resuming, Ids, NoId
  <2>2. CASE ResumePrepare(c)
    BY <1>2, <2>2 DEF ResumePrepare, KnownIds, TypeOK, Resuming, managerVars
  <2> QED BY <2>1, <2>2
<1> QED BY <1>1, <1>5, <1>6

\* Every step of Run that attaches nothing fits StepsBack.
LEMMA ConnSteps ==
  ASSUME IInv, NEW c \in Conns,
         \/ BadHandshake(c) \/ \E s \in Ids : ResumeLookup(c, s)
         \/ ResumeCheck(c) \/ ResumeErase(c) \/ ResumeRefused(c)
         \/ Welcome(c) \/ WelcomeFails(c)
         \/ LeaveLoop(c) \/ Wake(c) \/ MarkLookup(c) \/ Mark(c)
         \/ EventsExit(c) \/ EventsPop(c) \/ EventsSent(c) \/ EventsSendFails(c)
         \/ EventsBlock(c) \/ EventsWait(c)
  PROVE  IInv'
<1> USE SessionsAssumption DEF IInv, managerVars, stateVars
<1>1. CASE \E s \in Ids : ResumeLookup(c, s)
  <2>1. PICK s \in Ids : ResumeLookup(c, s)
    BY <1>1
  <2>2. CASE s \notin table
    BY <2>1, <2>2, StepsBack
       DEF ResumeLookup, Refuse, Goto, TypeOK, Attached, Resuming
  <2>3. CASE s \in table
    <3>1. /\ session' = [session EXCEPT ![c] = s] /\ step' = [step EXCEPT ![c] = "found"]
          /\ s < nextSessionId
          /\ UNCHANGED <<managerVars, stateVars, running, events>>
      BY <2>1, <2>3 DEF ResumeLookup, Goto, KnownIds
    <3>2. TypeOK' /\ KnownIds'
      BY <3>1 DEF TypeOK, KnownIds, Resuming
    <3>3. \A d \in Conns : Attached(d)' => Attached(d) /\ d # c /\ session'[d] = session[d]
      BY <3>1 DEF TypeOK, Attached
    <3> QED BY <3>1, <3>2, <3>3 DEF Owned, OneOwner
  <2> QED BY <2>2, <2>3
<1>2. CASE BadHandshake(c) \/ ResumeErase(c) \/ ResumeRefused(c)
  BY <1>2, StepsBack
     DEF BadHandshake, ResumeErase, ResumeRefused, Refuse, Goto, TypeOK, Attached, Resuming
<1>3. CASE ResumeCheck(c)
  BY <1>3, StepsBack DEF ResumeCheck, Goto, TypeOK, Attached, Resuming, KnownIds
<1>4. CASE Welcome(c) \/ LeaveLoop(c) \/ MarkLookup(c)
  BY <1>4, StepsBack
     DEF Welcome, LeaveLoop, MarkLookup, Goto, TypeOK, Attached, Resuming
<1>5. CASE WelcomeFails(c) \/ Wake(c) \/ Mark(c) \/ EventsSendFails(c)
  <2>1. Woken(session[c]) \in [Conns -> {"none", "loop", "block", "waiting", "sending", "exited"}]
    BY DEF Woken, TypeOK
  <2>2. CASE Wake(c)
    BY <2>1, <2>2, StepsBack DEF Wake, Goto, TypeOK, Attached, Resuming
  <2>3. CASE Mark(c)
    <3>1. TypeOK'
      BY <2>1, <2>3 DEF Mark, Goto, TypeOK
    <3>2. Attached(c) /\ ~Attached(c)' /\ ~Resuming(c)'
      BY <2>3 DEF Mark, Goto, TypeOK, Attached, Resuming
    <3> QED BY <2>3, <3>1, <3>2, StepsBack DEF Mark, Goto, TypeOK
  <2>4. CASE WelcomeFails(c)
    BY <2>1, <2>4, StepsBack DEF WelcomeFails, Goto, TypeOK, Attached, Resuming
  <2>5. CASE EventsSendFails(c)
    <3>1. TypeOK'
      BY <2>1, <2>5 DEF EventsSendFails, TypeOK
    <3> QED BY <2>5, <3>1, StepsBack DEF EventsSendFails, Attached, Resuming, KnownIds
  <2> QED BY <1>5, <2>2, <2>3, <2>4, <2>5
<1>6. CASE \/ EventsExit(c) \/ EventsPop(c) \/ EventsSent(c)
           \/ EventsBlock(c) \/ EventsWait(c)
  BY <1>6, StepsBack
     DEF EventsExit, EventsPop, EventsSent, EventsBlock, EventsWait,
         TypeOK, Attached, Resuming, KnownIds
<1> QED BY <1>1, <1>2, <1>3, <1>4, <1>5, <1>6

\* Accepting a connection frees the ended ones.
LEMMA Accepts ==
  ASSUME IInv, NEW c \in Conns, Accept(c)
  PROVE  IInv'
<1> USE DEF IInv, managerVars, stateVars
<1>1. \A d \in Conns : Resuming(d)' => Resuming(d) /\ session'[d] = session[d]
  BY DEF Accept, TypeOK, Resuming
<1>2. \A d \in Conns : Attached(d)' => Attached(d) /\ session'[d] = session[d]
  BY DEF Accept, TypeOK, Attached
<1>3. TypeOK'
  BY DEF Accept, TypeOK
<1>4. Owned' /\ OneOwner'
  BY <1>2 DEF Accept, Owned, OneOwner
<1>5. KnownIds'
  BY <1>1 DEF Accept, KnownIds, TypeOK, NoId, Ids
<1> QED BY <1>3, <1>4, <1>5

\* Time, job events and the cleanup thread attach nothing and mark nothing.
LEMMA OtherSteps ==
  ASSUME IInv,
         \/ \E s \in Ids : JobEvent(s) \/ WindowPasses(s) \/ CleanupCheck(s)
         \/ CleanupErase \/ UNCHANGED vars
  PROVE  IInv'
<1> USE DEF IInv, managerVars, stateVars, connVars, vars
<1>1. TypeOK'
  BY DEF TypeOK, JobEvent, Woken, WindowPasses, CleanupCheck, CleanupErase
<1>2. UNCHANGED <<nextSessionId, connected, step, session>> /\ table' \subseteq table
  BY DEF JobEvent, WindowPasses, CleanupCheck, CleanupErase
<1> QED BY <1>1, <1>2 DEF Owned, OneOwner, KnownIds, Attached, Resuming

THEOREM NextIInv == IInv /\ [Next]_vars => IInv'
BY Attaches, ConnSteps, Accepts, OtherSteps
   DEF Next, ConnNext, Handshake, ResumeStep

\* The types of the variables.
THEOREM TypeCorrect == Spec => []TypeOK
<1>1. IInv => TypeOK
  BY DEF IInv
<1> QED BY <1>1, InitIInv, NextIInv, PTL DEF Spec

\* At most one running connection streams a session, with any number of clients
\* resuming it.
THEOREM OneStream == Spec => []OneStreamPerSession
<1>1. IInv => OneStreamPerSession
  BY DEF IInv, OneOwner, OneStreamPerSession
<1> QED BY <1>1, InitIInv, NextIInv, PTL DEF Spec

\* A session is marked connected as long as it is streamed.
THEOREM StreamConnected == Spec => []StreamIsConnected
<1>1. IInv => StreamIsConnected
  BY DEF IInv, Owned, StreamIsConnected
<1> QED BY <1>1, InitIInv, NextIInv, PTL DEF Spec
=============================================================================
